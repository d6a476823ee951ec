--------------------------- MODULE MCTransaction ----------------------------
(* Transaction on small sets for TLC.  Paths are interchangeable, and so    *)
(* are digests: a run without temporal properties uses the symmetry.        *)
EXTENDS Transaction, TLC

Symmetry == Permutations(Path) \cup Permutations(Hash)
=============================================================================
