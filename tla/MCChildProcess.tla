--------------------------- MODULE MCChildProcess ---------------------------
(* A command with small pipes and a small limit for TLC.                    *)
EXTENDS ChildProcess
=============================================================================
