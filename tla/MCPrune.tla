------------------------------- MODULE MCPrune ------------------------------
(* Prune on small sets for TLC.                                             *)
EXTENDS Prune, TLC

Symmetry == Permutations(Item) \cup Permutations(Path) \cup Permutations(Hash)
=============================================================================
