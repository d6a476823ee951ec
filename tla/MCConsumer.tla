----------------------------- MODULE MCConsumer -----------------------------
(* A consumer and its prune on small sets for TLC.                          *)
EXTENDS Consumer
=============================================================================
