----------------------------- MODULE MCScheduler ----------------------------
(* The scheduler with few sessions and a short hour for TLC.                *)
EXTENDS Scheduler
=============================================================================
