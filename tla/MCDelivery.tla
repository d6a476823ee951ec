----------------------------- MODULE MCDelivery -----------------------------
(* Delivery on small sets for TLC.                                          *)
EXTENDS Delivery, TLC

Symmetry == Permutations(Path) \cup Permutations(Hash) \cup Permutations(Importer)
=============================================================================
