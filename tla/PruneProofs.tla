----------------------------- MODULE PruneProofs -----------------------------
(* Prune and sync under one lock: what no order of their steps, no failure  *)
(* and no edit can break.                                                   *)
EXTENDS Prune, SyncProofs

(* What prune may rely on where it stands.                                  *)
StepOK ==
  /\ step \in {"prompt", "save"} => Retained(target)
  /\ step = "delete" => manifest.hash[target] = Absent
  /\ step = "prompt" => touched \/ store[target] = manifest.hash[target]
  /\ step = "save" => store[target] = Absent \/ (touched /\ target \in edited)

PInv == SInv /\ PruneTypeOK /\ StepOK /\ OwnedSurvives

-----------------------------------------------------------------------------
(* Steps of prune, as the record of sync sees them.                         *)

LEMMA DroppedStep ==
  ASSUME SInv, NEW p \in Path, Retained(p)
  PROVE  /\ Dropped(p) \in [hash : [Path -> Content], meta : Meta]
         /\ Dropped(p).hash[p] = Absent /\ Dropped(p).meta.owner[p] = None
         /\ \A q \in Path \ {p} : /\ Dropped(p).hash[q] = manifest.hash[q]
                                /\ Dropped(p).meta.owner[q] = manifest.meta.owner[q]
         /\ \A i \in Item : \/ Dropped(p).meta.item[i] = manifest.meta.item[i]
                            \/ Dropped(p).meta.item[i] = None /\ OwnedBy(i) = {p}
         /\ \A i \in Item : Active(Dropped(p), i) = Active(manifest, i)
<1>1. /\ manifest.hash \in [Path -> Content]
      /\ manifest.meta.item \in [Item -> {None} \cup ItemRecord]
      /\ manifest.meta.owner \in [Path -> Item \cup {None}]
      /\ manifest.meta.reason \in [Path -> {None, RemoteMissing, RemoteFieldMissing}]
      /\ manifest.meta.reason[p] # None /\ manifest.meta.owner[p] \in Item
  BY DEF SInv, TypeOK, Meta, Content, Retained
<1>2. PICK items :
        /\ Dropped(p).meta.item = items
        /\ \/ OwnedBy(manifest.meta.owner[p]) = {p}
             /\ items = [manifest.meta.item EXCEPT ![manifest.meta.owner[p]] = None]
           \/ items = manifest.meta.item
  BY DEF Dropped
<1>3. /\ items \in [Item -> {None} \cup ItemRecord]
      /\ \A i \in Item : items[i] = manifest.meta.item[i] \/ (items[i] = None /\ OwnedBy(i) = {p})
  <2>1. CASE items = manifest.meta.item
    BY <1>1, <2>1
  <2>2. CASE /\ OwnedBy(manifest.meta.owner[p]) = {p}
             /\ items = [manifest.meta.item EXCEPT ![manifest.meta.owner[p]] = None]
    <3> DEFINE j == manifest.meta.owner[p]
    <3>1. j \in Item
      BY <1>1
    <3>2. OwnedBy(j) = {p} /\ items = [manifest.meta.item EXCEPT ![j] = None]
      BY <2>2
    <3> HIDE DEF j
    <3>3. items \in [Item -> {None} \cup ItemRecord]
      BY <1>1, <3>1, <3>2
    <3>4. ASSUME NEW i \in Item
          PROVE  items[i] = manifest.meta.item[i] \/ (items[i] = None /\ OwnedBy(i) = {p})
      BY <1>1, <3>1, <3>2
    <3>5. QED
      BY <3>3, <3>4
  <2>3. QED
    BY <1>2, <2>1, <2>2
<1>4. Dropped(p).hash = [manifest.hash EXCEPT ![p] = Absent]
  BY DEF Dropped
<1>5. Dropped(p).meta.owner = [manifest.meta.owner EXCEPT ![p] = None]
  BY DEF Dropped
<1>6. Dropped(p).meta.reason = [manifest.meta.reason EXCEPT ![p] = None]
  BY DEF Dropped
<1>7. Dropped(p) = [hash |-> Dropped(p).hash,
                    meta |-> [item |-> Dropped(p).meta.item, owner |-> Dropped(p).meta.owner,
                              reason |-> Dropped(p).meta.reason]]
  BY DEF Dropped
<1>8. Dropped(p) \in [hash : [Path -> Content], meta : Meta]
  <2>1. Dropped(p).hash \in [Path -> Content]
    BY <1>1, <1>4 DEF Content
  <2>2. /\ Dropped(p).meta.owner \in [Path -> Item \cup {None}]
        /\ Dropped(p).meta.reason \in [Path -> {None, RemoteMissing, RemoteFieldMissing}]
    BY <1>1, <1>5, <1>6
  <2>3. QED
    BY <1>2, <1>3, <1>7, <2>1, <2>2 DEF Meta
<1>9. /\ Dropped(p).hash[p] = Absent /\ Dropped(p).meta.owner[p] = None
      /\ \A q \in Path \ {p} : /\ Dropped(p).hash[q] = manifest.hash[q]
                             /\ Dropped(p).meta.owner[q] = manifest.meta.owner[q]
                             /\ Dropped(p).meta.reason[q] = manifest.meta.reason[q]
  BY <1>1, <1>4, <1>5, <1>6
<1>10. ASSUME NEW i \in Item PROVE Active(Dropped(p), i) = Active(manifest, i)
  <2>1. i # None
    BY NoneAssumption
  <2>2. QED
    BY <1>1, <1>9, <2>1 DEF Active
<1>11. QED
  BY <1>2, <1>3, <1>8, <1>9, <1>10

LEMMA QuietSInv ==
  ASSUME SInv, phase = "idle", UNCHANGED <<seen, edited, remote, run>>,
         store' \in [Path -> Content],
         \/ manifest' = manifest
         \/ \E p \in Path : Retained(p) /\ manifest' = Dropped(p)
  PROVE  SInv'
<1> USE DEF SInv
<1>1. TypeOK'
  <2>1. CASE manifest' = manifest
    BY <2>1 DEF TypeOK, run, Content
  <2>2. ASSUME NEW p \in Path, Retained(p), manifest' = Dropped(p) PROVE TypeOK'
    <3>1. \A q \in Path : (manifest'.hash[q] = Absent) <=> (manifest'.meta.owner[q] = None)
      BY <2>2, DroppedStep DEF TypeOK
    <3>2. manifest' \in [hash : [Path -> Content], meta : Meta]
      BY <2>2, DroppedStep
    <3>3. QED
      BY <3>1, <3>2 DEF TypeOK, run, Content
  <2>3. QED
    BY <2>1, <2>2
<1>2. SeenFresh' /\ RunOK' /\ ListingOK'
  BY DEF SeenFresh, RunOK, ListingOK, run, Unseen
<1>3. RecordOK'
  <2>1. CASE manifest' = manifest
    BY <2>1 DEF RecordOK, Known, OwnedBy, Active
  <2>2. ASSUME NEW p \in Path, Retained(p), manifest' = Dropped(p) PROVE RecordOK'
    <3>1. ASSUME NEW i \in Item
          PROVE  /\ OwnedBy(i)' \subseteq OwnedBy(i) /\ (OwnedBy(i) = {p} => OwnedBy(i)' = {})
                 /\ Active(manifest', i) = Active(manifest, i)
      <4>1. Active(manifest', i) = Active(manifest, i)
        BY <2>2, DroppedStep
      <4>2. /\ manifest'.meta.owner[p] = None
            /\ \A q \in Path \ {p} : manifest'.meta.owner[q] = manifest.meta.owner[q]
        BY <2>2, DroppedStep
      <4>3. i # None
        BY NoneAssumption
      <4>4. QED
        BY <4>1, <4>2, <4>3 DEF OwnedBy
    <3>2. ASSUME NEW i \in Item
          PROVE  \/ manifest'.meta.item[i] = manifest.meta.item[i]
                 \/ manifest'.meta.item[i] = None /\ OwnedBy(i) = {p}
      BY <2>2, DroppedStep
    <3>3. QED
      BY <3>1, <3>2 DEF RecordOK, Known
  <2>3. QED
    BY <2>1, <2>2
<1>4. QED
  BY <1>1, <1>2, <1>3

(* The ciphertexts, when nobody but prune acts.                             *)
LEMMA DropSurvives ==
  ASSUME PInv, NEW p \in Path, Retained(p), manifest' = Dropped(p),
         UNCHANGED <<store, edited, tombstone>>
  PROVE  OwnedSurvives'
<1>1. \A q \in Owned' : q \in Owned /\ q # p /\ manifest'.hash[q] = manifest.hash[q]
  BY DroppedStep DEF PInv, Owned
<1>2. QED
  BY <1>1 DEF PInv, OwnedSurvives

-----------------------------------------------------------------------------
(* The invariant.                                                           *)

LEMMA PInvInit == PruneInit => PInv
<1> SUFFICES ASSUME PruneInit PROVE PInv
  OBVIOUS
<1>1. SInv
  BY InitSInv DEF PruneInit
<1>2. PruneTypeOK
  <2>1. target \notin Path \/ target = None
    BY DEF PruneInit
  <2>2. QED
    BY <1>1, <2>1 DEF PruneTypeOK, PruneInit, SInv, Init
<1>3. StepOK
  BY DEF PruneInit, StepOK
<1>4. OwnedSurvives
  BY DEF PruneInit, Init, OwnedSurvives, Owned
<1>5. QED
  BY <1>1, <1>2, <1>3, <1>4 DEF PInv

LEMMA AskOK == ASSUME PInv, NEW p \in Path, Ask(p) PROVE PInv'
<1> USE DEF PInv
<1>1. /\ phase = "idle" /\ step = "idle" /\ Retained(p) /\ store[p] = manifest.hash[p]
      /\ step' = "prompt" /\ target' = p /\ UNCHANGED <<vars, tombstone, touched>>
  BY DEF Ask
<1>2. SInv'
  BY <1>1, StutterSInv
<1>3. PruneTypeOK'
  BY <1>1, <1>2, PathAssumption DEF PruneTypeOK, SInv, vars, run
<1>4. StepOK' /\ OwnedSurvives'
  BY <1>1 DEF StepOK, OwnedSurvives, Owned, Retained, vars, mirror
<1>5. QED
  BY <1>2, <1>3, <1>4

LEMMA BuryOK == PInv /\ Bury => PInv'
<1> SUFFICES ASSUME PInv, Bury PROVE PInv'
  OBVIOUS
<1> USE DEF PInv
<1>1. /\ step = "prompt" /\ store[target] # Absent /\ tombstone[target] = Absent
      /\ store' = [store EXCEPT ![target] = Absent]
      /\ tombstone' = [tombstone EXCEPT ![target] = store[target]]
      /\ step' = "save" /\ UNCHANGED <<manifest, seen, edited, remote, run, target, touched>>
  BY DEF Bury
<1>2. target \in Path /\ phase = "idle" /\ store \in [Path -> Content]
  BY <1>1 DEF PruneTypeOK, TypeOK, Content
<1>3. SInv'
  BY <1>1, <1>2, QuietSInv DEF Content
<1>4. PruneTypeOK'
  BY <1>1, <1>2, <1>3 DEF PruneTypeOK, SInv, run, Content
<1>5. StepOK'
  BY <1>1, <1>2 DEF StepOK, Retained
<1>6. OwnedSurvives'
  BY <1>1, <1>2 DEF OwnedSurvives, Owned, PruneTypeOK
<1>7. QED
  BY <1>3, <1>4, <1>5, <1>6

LEMMA SaveOK == PInv /\ Save => PInv'
<1> SUFFICES ASSUME PInv, Save PROVE PInv'
  OBVIOUS
<1> USE DEF PInv
<1>1. /\ step = "save" /\ manifest' = Dropped(target) /\ step' = "delete"
      /\ UNCHANGED <<store, seen, edited, remote, run, tombstone, target, touched>>
  BY DEF Save
<1>2. target \in Path /\ phase = "idle" /\ store \in [Path -> Content] /\ Retained(target)
  BY <1>1 DEF PruneTypeOK, TypeOK, Content, StepOK
<1>3. SInv'
  BY <1>1, <1>2, QuietSInv
<1>4. PruneTypeOK'
  BY <1>1, <1>3 DEF PruneTypeOK, SInv, run
<1>5. StepOK'
  BY <1>1, <1>2, DroppedStep DEF StepOK
<1>6. QED
  BY <1>1, <1>2, <1>3, <1>4, <1>5, DropSurvives

(* The rename is undone, or stays: either way the last copy does.           *)
LEMMA SaveFailsOK == PInv /\ SaveFails => PInv'
<1> SUFFICES ASSUME PInv, SaveFails PROVE PInv'
  OBVIOUS
<1> USE DEF PInv
<1>1. /\ step = "save" /\ manifest' \in {manifest, Dropped(target)}
      /\ step' = "idle" /\ target' = None /\ touched' = FALSE
      /\ UNCHANGED <<seen, edited, remote, run>>
  BY DEF SaveFails, Release
<1>2. \/ /\ store' = [store EXCEPT ![target] = tombstone[target]]
         /\ tombstone' = [tombstone EXCEPT ![target] = Absent]
      \/ UNCHANGED <<store, tombstone>>
  BY DEF SaveFails
<1>3. /\ target \in Path /\ phase = "idle" /\ Retained(target)
      /\ store \in [Path -> Content] /\ tombstone \in [Path -> Content]
  BY <1>1 DEF PruneTypeOK, TypeOK, Content, StepOK
<1>4. store' \in [Path -> Content] /\ tombstone' \in [Path -> Content]
  BY <1>2, <1>3 DEF Content
<1>5. SInv'
  BY <1>1, <1>3, <1>4, QuietSInv
<1>6. PruneTypeOK'
  BY <1>1, <1>3, <1>4, <1>5 DEF PruneTypeOK, SInv, run, Content
<1>7. StepOK'
  BY <1>1 DEF StepOK
<1>8. OwnedSurvives'
  <2>1. ASSUME NEW q \in Owned', q \notin edited'
        PROVE  manifest.hash[q] \in {store'[q], tombstone'[q]} /\ manifest'.hash[q] = manifest.hash[q]
    <3>1. q \in Owned /\ q \notin edited /\ manifest'.hash[q] = manifest.hash[q]
      BY <1>1, <1>3, <2>1, DroppedStep DEF Owned
    <3>2. manifest.hash[q] \in {store[q], tombstone[q]} /\ manifest.hash[q] # Absent
      BY <3>1 DEF OwnedSurvives, Owned
    <3>3. q = target => store[q] = Absent
      BY <1>1, <3>1 DEF StepOK
    <3>4. q \in Path
      BY <3>1 DEF Owned
    <3>5. CASE UNCHANGED <<store, tombstone>>
      BY <3>1, <3>2, <3>5
    <3>6. CASE store' = [store EXCEPT ![target] = tombstone[target]]
               /\ tombstone' = [tombstone EXCEPT ![target] = Absent]
      <4>1. CASE q = target
        BY <1>3, <3>1, <3>2, <3>3, <3>6, <4>1
      <4>2. CASE q # target
        BY <1>3, <3>1, <3>2, <3>4, <3>6, <4>2
      <4>3. QED
        BY <4>1, <4>2
    <3>7. QED
      BY <1>2, <3>5, <3>6
  <2>2. QED
    BY <2>1 DEF OwnedSurvives
<1>9. QED
  BY <1>5, <1>6, <1>7, <1>8

LEMMA UnburyOK == PInv /\ Unbury => PInv'
<1> SUFFICES ASSUME PInv, Unbury PROVE PInv'
  OBVIOUS
<1> USE DEF PInv
<1>1. /\ step = "delete" /\ tombstone' = [tombstone EXCEPT ![target] = Absent]
      /\ step' = "idle" /\ target' = None /\ touched' = FALSE /\ UNCHANGED vars
  BY DEF Unbury, Release
<1>2. target \in Path /\ manifest.hash[target] = Absent
  BY <1>1 DEF PruneTypeOK, StepOK
<1>3. SInv'
  BY <1>1, StutterSInv
<1>4. PruneTypeOK' /\ StepOK'
  BY <1>1, <1>2, <1>3 DEF PruneTypeOK, StepOK, SInv, vars, run
<1>5. OwnedSurvives'
  BY <1>1, <1>2 DEF OwnedSurvives, Owned, PruneTypeOK, vars, mirror
<1>6. QED
  BY <1>3, <1>4, <1>5

LEMMA StopOK == PInv /\ Stop => PInv'
<1> SUFFICES ASSUME PInv, Stop PROVE PInv'
  OBVIOUS
<1> USE DEF PInv
<1>1. step' = "idle" /\ target' = None /\ touched' = FALSE /\ UNCHANGED <<vars, tombstone>>
  BY DEF Stop, Release
<1>2. SInv'
  BY <1>1, StutterSInv
<1>3. QED
  BY <1>1, <1>2 DEF PruneTypeOK, StepOK, SInv, OwnedSurvives, Owned, vars, mirror, run

(* A step of sync, while the lock is not prune's.                           *)
LEMMA ProgramOK == PInv /\ step = "idle" /\ (Program \/ Fail) /\ UNCHANGED pruneVars => PInv'
<1> SUFFICES ASSUME PInv, step = "idle", Program \/ Fail, UNCHANGED pruneVars PROVE PInv'
  OBVIOUS
<1> USE DEF PInv
<1>1. SInv'
  BY ProgramSInv
<1>2. PruneTypeOK' /\ StepOK'
  BY <1>1 DEF PruneTypeOK, StepOK, SInv, pruneVars
<1>3. CASE Commit
  <2>1. OwnedSurvives'
    BY <1>3, CommitInPlace DEF OwnedSurvives
  <2>2. QED
    BY <1>1, <1>2, <2>1
<1>4. CASE ~Commit
  <2>1. UNCHANGED <<store, manifest, edited>>
    BY <1>4 DEF Program, Start, View, Prepare, Refuse, Fail, End,
       Mirror!Observe, Mirror!Forget, mirror
  <2>2. QED
    BY <1>1, <1>2, <2>1 DEF OwnedSurvives, Owned, pruneVars
<1>5. QED
  BY <1>1, <1>2, <1>3, <1>4

LEMMA OthersOK ==
  ASSUME PInv, Vault \/ LocalUser, UNCHANGED <<tombstone, step, target>>,
         touched' = (touched \/ (step # "idle" /\ store'[target] # store[target]))
  PROVE  PInv'
<1> USE DEF PInv
<1>1. SInv'
  BY VaultSInv, LocalEditSInv
<1>2. /\ UNCHANGED <<manifest, phase>> /\ edited \subseteq edited'
      /\ \A q \in Path : store'[q] = store[q] \/ q \in edited'
  BY DEF Vault, Toggle, EditItem, LocalUser, LocalEdit, Mirror!Edit, mirror, run,
     PruneTypeOK, TypeOK
<1>3. PruneTypeOK'
  BY <1>1, <1>2 DEF PruneTypeOK, SInv
<1>4. StepOK'
  BY <1>2 DEF StepOK, Retained, PruneTypeOK
<1>5. OwnedSurvives'
  BY <1>2 DEF OwnedSurvives, Owned
<1>6. QED
  BY <1>1, <1>3, <1>4, <1>5

LEMMA PruneInductive == PruneSpec => []PInv
<1>1. PInv /\ [PruneNext]_allVars => PInv'
  <2>1. ASSUME PInv, UNCHANGED allVars PROVE PInv'
    <3>1. SInv'
      BY <2>1, StutterSInv DEF PInv, allVars
    <3>2. QED
      BY <2>1, <3>1 DEF PInv, PruneTypeOK, StepOK, OwnedSurvives, Owned, Retained, SInv,
         allVars, vars, mirror, run, pruneVars
  <2>2. ASSUME PInv, Fail, UNCHANGED <<tombstone, step, target>>,
               touched' = (touched \/ (step # "idle" /\ store'[target] # store[target]))
        PROVE  PInv'
    BY <2>2, ProgramOK DEF Fail, PInv, PruneTypeOK, pruneVars
  <2>3. QED
    BY <2>1, <2>2, AskOK, BuryOK, SaveOK, SaveFailsOK, UnburyOK, StopOK, ProgramOK, OthersOK
       DEF PruneNext, PruneRun
<1>2. QED
  BY <1>1, PInvInit, PTL DEF PruneSpec

-----------------------------------------------------------------------------
(* The variables of prune keep their form, and one lock serves both.        *)
THEOREM PruneTypeCorrect == PruneSpec => []PruneTypeOK
<1>1. PInv => PruneTypeOK
  BY DEF PInv
<1>2. QED
  BY <1>1, PruneInductive, PTL

(* No failure and no death of a prune or a sync (sync.rs:315-331) destroys  *)
(* the last copy of what the manifest owns.                                 *)
THEOREM OwnedCiphertextSurvives == PruneSpec => []OwnedSurvives
<1>1. PInv => OwnedSurvives
  BY DEF PInv
<1>2. QED
  BY <1>1, PruneInductive, PTL

(* Prune (sync.rs:293-326) takes what the manifest does not record only if  *)
(* it was written under its eyes.                                           *)
THEOREM PruneSparesUnseen == PruneSpec => PruneSparesEdits
<1> DEFINE A == step' # step =>
       \A p \in Path : store'[p] # store[p] =>
          \/ store[p] \in {Absent, manifest.hash[p]}
          \/ p = target /\ touched
<1>1. ASSUME PInv, PruneNext PROVE A
  <2>1. CASE Bury \/ SaveFails
    BY <1>1, <2>1 DEF Bury, SaveFails, PInv, StepOK, PruneTypeOK, TypeOK
  <2>2. CASE step' = step \/ store' = store
    BY <2>2
  <2>3. QED
    BY <1>1, <2>1, <2>2 DEF PruneNext, PruneRun, Ask, Save, Unbury, Stop, pruneVars, vars, mirror
<1>2. PInv /\ [PruneNext]_allVars => [A]_allVars
  BY <1>1
<1>3. QED
  BY <1>2, PruneInductive, PTL DEF PruneSpec, PruneSparesEdits

(* A sync after any prune, finished or not, records what the vault has      *)
(* (sync.rs:118-155, 321-324).                                              *)
THEOREM SyncStaysRight == PruneSpec => SyncStillRight
<1> DEFINE A == Commit =>
       \A i \in Item :
         /\ inventory[i] # None /\ Unchanged(i) =>
              /\ manifest'.meta.item[i] = [mtime |-> remote[i].mtime, missing |-> FALSE]
              /\ Active(manifest', i) = remote[i].fields
         /\ inventory[i] = None => Active(manifest', i) = {}
<1>1. PInv => [A]_vars
  BY RecordStep DEF PInv
<1>2. QED
  BY <1>1, PruneInductive, PTL DEF SyncStillRight, RecordMatchesVault

(* ... and stays within what the transaction can carry out.                 *)
THEOREM CommitsStayAllowed == PruneSpec => CommitAllowed
<1>1. PInv => [Commit => Mirror!Allowed(Pending, manifest')]_vars
  BY UpdateAllowed DEF PInv
<1>2. QED
  BY <1>1, PruneInductive, PTL DEF CommitAllowed

(* Contents that are not the program's are replaced by sync only if         *)
(* --accept-remote names the entry (sync.rs:91-113, 185-201), prunes or not. *)
THEOREM ForeignContentsSpared == PruneSpec => OnlyAcceptedReplaced
<1> DEFINE A == phase' # phase =>
       \A p \in Path : store'[p] # store[p] =>
          p \in accepted \/ store[p] = manifest.hash[p]
<1>1. ASSUME PInv, PruneNext PROVE A
  <2>1. CASE Program \/ Fail
    BY <1>1, <2>1, ForeignStep DEF PInv
  <2>2. CASE phase' = phase
    BY <2>2
  <2>3. QED
    BY <1>1, <2>1, <2>2 DEF PruneNext, PruneRun, Ask, Bury, Save, SaveFails, Unbury, Stop,
       Vault, Toggle, EditItem, LocalUser, LocalEdit, vars, run
<1>2. PInv /\ [PruneNext]_allVars => [A]_vars
  BY <1>1 DEF allVars
<1>3. QED
  BY <1>2, PruneInductive, PTL DEF PruneSpec, OnlyAcceptedReplaced

(* Whatever comes between the prompt and its answer, prune takes out of the *)
(* manifest only the entry it asked about, and only while that is retained; *)
(* no other step takes out any (sync.rs:276-325).                           *)
THEOREM OnlyRetainedPruned ==
  PruneSpec =>
    [][\A p \in Owned : manifest'.hash[p] = Absent => p = target /\ Retained(p)]_allVars
<1>1. ASSUME PInv, PruneNext, NEW p \in Owned, manifest'.hash[p] = Absent
      PROVE  p = target /\ Retained(p)
  <2>1. CASE Program \/ Fail
    BY <1>1, <2>1, RetainStep DEF PInv
  <2>2. CASE Save \/ SaveFails
    <3>1. Retained(target) /\ target \in Path /\ manifest' \in {manifest, Dropped(target)}
      BY <1>1, <2>2 DEF Save, SaveFails, PInv, StepOK, PruneTypeOK
    <3>2. p = target
      BY <1>1, <3>1, DroppedStep DEF PInv, Owned
    <3>3. QED
      BY <3>1, <3>2
  <2>3. CASE UNCHANGED manifest
    BY <1>1, <2>3 DEF Owned
  <2>4. QED
    BY <1>1, <2>1, <2>2, <2>3 DEF PruneNext, PruneRun, Ask, Bury, Unbury, Stop, vars, mirror,
       Vault, Toggle, EditItem, LocalUser, LocalEdit, Mirror!Edit
<1>2. PInv /\ [PruneNext]_allVars =>
        [\A p \in Owned : manifest'.hash[p] = Absent => p = target /\ Retained(p)]_allVars
  BY <1>1
<1>3. QED
  BY <1>2, PruneInductive, PTL DEF PruneSpec

(* A tombstone goes only when its ciphertext is back in the store or the    *)
(* manifest on disk no longer owns the entry (sync.rs:325-329): a death     *)
(* before that finds the copy.                                              *)
THEOREM TombstoneOutlivesEntry ==
  PruneSpec =>
    [][\A p \in Path : tombstone[p] # Absent /\ tombstone'[p] # tombstone[p] =>
          store'[p] = tombstone[p] \/ manifest'.hash[p] = Absent]_allVars
<1>1. ASSUME PInv, PruneNext, NEW p \in Path, tombstone[p] # Absent, tombstone'[p] # tombstone[p]
      PROVE  store'[p] = tombstone[p] \/ manifest'.hash[p] = Absent
  <2>1. CASE Bury
    BY <1>1, <2>1 DEF Bury, PInv, PruneTypeOK
  <2>2. CASE SaveFails
    BY <1>1, <2>2 DEF SaveFails, PInv, PruneTypeOK, SInv, TypeOK
  <2>3. CASE Unbury
    BY <1>1, <2>3 DEF Unbury, PInv, PruneTypeOK, StepOK, vars, mirror
  <2>4. QED
    BY <1>1, <2>1, <2>2, <2>3 DEF PruneNext, PruneRun, Ask, Save, Stop, pruneVars
<1>2. PInv /\ [PruneNext]_allVars =>
        [\A p \in Path : tombstone[p] # Absent /\ tombstone'[p] # tombstone[p] =>
            store'[p] = tombstone[p] \/ manifest'.hash[p] = Absent]_allVars
  BY <1>1 DEF allVars, pruneVars
<1>3. QED
  BY <1>2, PruneInductive, PTL DEF PruneSpec
=============================================================================
