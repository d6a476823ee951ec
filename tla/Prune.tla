-------------------------------- MODULE Prune -------------------------------
(***************************************************************************)
(* `proton-pass-sync prune PATH' (sync.rs:277-333) beside the runs of sync *)
(* that module Sync describes.  Both take the same lock, so a run of one   *)
(* starts only when no run of the other is under way; prune keeps the lock *)
(* while it waits for the answer to its prompt.                            *)
(*                                                                         *)
(* Deleting an entry takes three steps on disk -- the entry is renamed to  *)
(* a tombstone, the manifest is saved without it, the tombstone is removed *)
(* -- and no journal ties them together: a run may die between any two, or *)
(* return the error of a step that was or was not carried out.             *)
(***************************************************************************)
EXTENDS Sync

ASSUME PathAssumption == None \notin Path

VARIABLES tombstone,  \* digest of `<entry>.gpg.proton-pass-sync-prune', or Absent
          step,       \* where the run of prune stands
          target,     \* the entry it was asked to delete
          touched     \* history: somebody has written it since

pruneVars == <<tombstone, step, target, touched>>
allVars == <<vars, pruneVars>>

PruneInit ==
  /\ Init
  /\ tombstone = [p \in Path |-> Absent]
  /\ step = "idle"
  /\ target = None
  /\ touched = FALSE

Retained(p) == manifest.hash[p] # Absent /\ manifest.meta.reason[p] # None

(* The manifest without entry p, and without its item when that was the    *)
(* last entry of it.                                                       *)
Dropped(p) ==
  LET i == manifest.meta.owner[p] IN
  [hash |-> [manifest.hash EXCEPT ![p] = Absent],
   meta |-> [item   |-> IF OwnedBy(i) = {p} THEN [manifest.meta.item EXCEPT ![i] = None]
                                            ELSE manifest.meta.item,
             owner  |-> [manifest.meta.owner EXCEPT ![p] = None],
             reason |-> [manifest.meta.reason EXCEPT ![p] = None]]]

Release == step' = "idle" /\ target' = None /\ touched' = FALSE

-----------------------------------------------------------------------------
(* Mutant of Ask: prune does not take the lock.                            *)
AskUnlocked(p) ==
  /\ step = "idle"
  /\ Retained(p)
  /\ store[p] = manifest.hash[p]
  /\ step' = "prompt"
  /\ target' = p
  /\ UNCHANGED <<vars, tombstone, touched>>

(* Mutant of Ask: any entry of the manifest can be pruned.                 *)
AskOwned(p) ==
  /\ phase = "idle" /\ step = "idle"
  /\ p \in Owned
  /\ store[p] = manifest.hash[p]
  /\ step' = "prompt"
  /\ target' = p
  /\ UNCHANGED <<vars, tombstone, touched>>

(* Mutant of Ask: the digest is not checked.                               *)
AskUnchecked(p) ==
  /\ phase = "idle" /\ step = "idle"
  /\ Retained(p)
  /\ step' = "prompt"
  /\ target' = p
  /\ UNCHANGED <<vars, tombstone, touched>>

(* The lock, the lookup of a retained entry, and the check of its digest.  *)
Ask(p) ==
  /\ phase = "idle" /\ step = "idle"
  /\ Retained(p)
  /\ store[p] = manifest.hash[p]
  /\ step' = "prompt"
  /\ target' = p
  /\ UNCHANGED <<vars, tombstone, touched>>

(* Mutant of Bury: the entry is removed at once.                           *)
BuryForGood ==
  /\ step = "prompt"
  /\ store[target] # Absent
  /\ store' = [store EXCEPT ![target] = Absent]
  /\ step' = "save"
  /\ UNCHANGED <<manifest, seen, edited, remote, run, tombstone, target, touched>>

(* The answer was yes: the entry becomes the tombstone.  The rename fails  *)
(* when the entry is gone by now.                                          *)
Bury ==
  /\ step = "prompt"
  /\ store[target] # Absent /\ tombstone[target] = Absent
  /\ store' = [store EXCEPT ![target] = Absent]
  /\ tombstone' = [tombstone EXCEPT ![target] = store[target]]
  /\ step' = "save"
  /\ UNCHANGED <<manifest, seen, edited, remote, run, target, touched>>

Save ==
  /\ step = "save"
  /\ manifest' = Dropped(target)
  /\ step' = "delete"
  /\ UNCHANGED <<store, seen, edited, remote, run, tombstone, target, touched>>

(* Manifest::save fails, before or after the file is in place; then the    *)
(* rename is undone over whatever the entry is now, if that works.         *)
SaveFails ==
  /\ step = "save"
  /\ manifest' \in {manifest, Dropped(target)}
  /\ \/ /\ store' = [store EXCEPT ![target] = tombstone[target]]
        /\ tombstone' = [tombstone EXCEPT ![target] = Absent]
     \/ UNCHANGED <<store, tombstone>>
  /\ Release
  /\ UNCHANGED <<seen, edited, remote, run>>

Unbury ==
  /\ step = "delete"
  /\ tombstone' = [tombstone EXCEPT ![target] = Absent]
  /\ Release
  /\ UNCHANGED vars

(* The answer was no, a check or call failed, or the process died.         *)
Stop ==
  /\ step # "idle"
  /\ Release
  /\ UNCHANGED <<vars, tombstone>>

PruneRun == (\E p \in Path : Ask(p)) \/ Bury \/ Save \/ SaveFails \/ Unbury \/ Stop

PruneNext ==
  \/ PruneRun
  \/ /\ step = "idle" /\ Program
     /\ UNCHANGED pruneVars
  \/ /\ Fail \/ Vault \/ LocalUser
     /\ touched' = (touched \/ (step # "idle" /\ store'[target] # store[target]))
     /\ UNCHANGED <<tombstone, step, target>>

PruneSpec == PruneInit /\ [][PruneNext]_allVars

-----------------------------------------------------------------------------
(* Properties.                                                             *)

(* The values of the variables, and the lock.                              *)
PruneTypeOK ==
  /\ TypeOK
  /\ tombstone \in [Path -> Hash \cup {Absent}]
  /\ step \in {"idle", "prompt", "save", "delete"}
  /\ target \in Path \cup {None} /\ (target = None) = (step = "idle")
  /\ touched \in BOOLEAN /\ (touched => step # "idle")
  /\ phase = "idle" \/ step = "idle"

(* The ciphertext the manifest records for an entry nobody else has        *)
(* written is in the store or in the tombstone, whatever failed and        *)
(* wherever a run of prune or sync died: prune destroys nothing the        *)
(* manifest still owns, and the last copy can be put back by hand.         *)
OwnedSurvives ==
  \A p \in Owned \ edited : manifest.hash[p] \in {store[p], tombstone[p]}

(* Deleting an entry of the record does not confuse the next run of sync:  *)
(* after it, the record of every item listed is the vault's again.         *)
SyncStillRight == RecordMatchesVault

(* "retained entry was locally modified or deleted; refusing to prune"     *)
(* (sync.rs:294): a step of prune removes or replaces contents that the    *)
(* manifest does not record only if they were written after prune had      *)
(* looked at the entry, while it waited for the answer (sync.rs:302) or    *)
(* between the rename and its undoing (sync.rs:326).                       *)
PruneSparesEdits ==
  [][step' # step =>
       \A p \in Path : store'[p] # store[p] =>
          \/ store[p] \in {Absent, manifest.hash[p]}
          \/ p = target /\ touched]_allVars
=============================================================================
