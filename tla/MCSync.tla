------------------------------- MODULE MCSync -------------------------------
(* Sync on small sets for TLC.                                             *)
EXTENDS Sync, TLC

Symmetry == Permutations(Item) \cup Permutations(Path) \cup Permutations(Hash)

(* The bound of the liveness run: --full is never given.                   *)
IncrementalNext ==
  \/ \E acc \in SUBSET Path : Start(acc, FALSE)
  \/ \E i \in Item : View(i)
  \/ Prepare \/ Commit \/ Refuse
  \/ Fail \/ Vault \/ LocalUser

IncrementalSpec == Init /\ [][IncrementalNext]_vars /\ Fairness
=============================================================================
