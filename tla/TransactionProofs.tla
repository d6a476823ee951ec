------------------------- MODULE TransactionProofs --------------------------
(***************************************************************************)
(* Proofs about Transaction for any entries, digests and metadata: the     *)
(* disk always holds what a recovery needs, manifest and store never drift *)
(* apart by the program's own doing, and only observed contents are        *)
(* replaced.  Every lemma <X>Step shows that one part of                   *)
(* InductiveInvariant (or JournalRecoverable, ManifestTruth) survives one  *)
(* step.                                                                   *)
(***************************************************************************)
EXTENDS Transaction, TLAPS

-----------------------------------------------------------------------------
(* What typing and the phases give where they are used below.              *)

(* The operations of a journal on disk are well-formed and indexed from 1. *)
LEMMA JournalFacts ==
  ASSUME TypeOK, journal # None
  PROVE  /\ journal \in Seq(Op) /\ journal # <<>>
         /\ DOMAIN journal = 1..Len(journal) /\ Len(journal) \in Nat
         /\ \A i \in DOMAIN journal :
              /\ journal[i].path \in Path /\ journal[i].before \in Content
              /\ journal[i].after \in Hash /\ journal[i].after # Absent
<1>1. journal \in Seq(Op) /\ journal # <<>>
  BY DEF TypeOK
<1>2. \A i \in DOMAIN journal : journal[i] \in Op
  BY <1>1
<1> QED
  BY <1>1, <1>2, HashAssumption DEF Op

(* What is known of the update while it is staged (commit_transaction).    *)
LEMMA PlanFacts ==
  ASSUME PlanConsistent, pc \in {"staging", "journal"}
  PROVE  /\ plan \in Plan /\ stage \in [Path -> Content]
         /\ plan.todo \subseteq Path /\ plan.ops \in Seq(Op)
         /\ plan.next \in Manifest /\ plan.next.hash \in [Path -> Content]
         /\ DOMAIN plan.ops = 1..Len(plan.ops) /\ Len(plan.ops) \in Nat
         /\ \A p \in plan.todo : seen[p] # Unread
         /\ DistinctPaths(plan.ops)
         /\ \A i \in DOMAIN plan.ops :
              /\ plan.ops[i] \in Op
              /\ plan.ops[i].path \in Path /\ plan.ops[i].before \in Content
              /\ plan.ops[i].after \in Hash /\ plan.ops[i].after # Absent
              /\ plan.ops[i].path \notin plan.todo
              /\ plan.ops[i].before = seen[plan.ops[i].path]
              /\ stage[plan.ops[i].path] = plan.ops[i].after
              /\ plan.next.hash[plan.ops[i].path] = plan.ops[i].after
         /\ \A p \in Path \ plan.todo :
              \/ \E i \in DOMAIN plan.ops : plan.ops[i].path = p
              \/ plan.next.hash[p] = seen[p] /\ seen[p] \in Hash
              \/ plan.next.hash[p] = Absent
         /\ pc = "journal" => nextManifest = plan.next /\ plan.todo = {} /\ plan.ops # <<>>
<1>1. plan \in Plan /\ plan.ops \in Seq(Op)
  BY DEF PlanConsistent, Plan
<1>2. \A i \in DOMAIN plan.ops : plan.ops[i] \in Op
  BY <1>1
<1> QED
  BY <1>1, <1>2, HashAssumption DEF PlanConsistent, Plan, Op, Manifest

-----------------------------------------------------------------------------

(* The commit: what was planned is now on disk.                            *)
LEMMA WriteJournalFacts ==
  ASSUME TypeOK, PlanConsistent, WriteJournal
  PROVE  /\ pc = "journal" /\ pc' = "check" /\ cursor' = 1
         /\ journal' = plan.ops /\ plan.ops # <<>> /\ journal' # None
         /\ journal' \in Seq(Op) /\ 1 \in DOMAIN journal'
         /\ UNCHANGED <<store, stage, nextManifest, manifest>>
         /\ nextManifest = plan.next /\ plan.todo = {}
         /\ edited' = edited \ KnownAtCommit
         /\ stage # None /\ nextManifest # None
<1>1. /\ pc = "journal" /\ pc' = "check" /\ cursor' = 1 /\ journal' = plan.ops
      /\ UNCHANGED <<store, stage, nextManifest, manifest>>
      /\ edited' = edited \ KnownAtCommit
  BY DEF WriteJournal
<1>2. plan.ops \in Seq(Op) /\ plan.ops # <<>>
  BY <1>1, PlanFacts
<1>3. 1 \in DOMAIN plan.ops
  BY <1>2
<1> QED
  BY <1>1, <1>2, <1>3, PlanFacts, NoneAssumption

(* The rename: one operation is no longer staged, the others stand.        *)
LEMMA InstallFacts ==
  ASSUME InductiveInvariant, Install
  PROVE  /\ journal # None /\ cursor \in DOMAIN journal /\ pc = "install" /\ pc' = "verify"
         /\ UNCHANGED <<journal, cursor, edited, nextManifest, manifest>> /\ op' = op
         /\ LateJournalError \/ nextManifest # None
         /\ op.path \in Path /\ stage # None /\ stage' # None
         /\ stage \in [Path -> Content] /\ stage'[op.path] = Absent
         /\ store'[op.path] = op.after /\ stage[op.path] = op.after /\ Staged(op)
         /\ op.after # Absent
         /\ store[op.path] = op.before \/ op.path \in edited
         /\ \A p \in Path \ {op.path} : store'[p] = store[p] /\ stage'[p] = stage[p]
         /\ \A i \in DOMAIN journal : i # cursor => journal[i].path # op.path
<1>1. /\ journal # None /\ cursor \in DOMAIN journal /\ pc = "install" /\ pc' = "verify"
      /\ UNCHANGED <<journal, cursor, edited, nextManifest, manifest>>
      /\ store' = [store EXCEPT ![op.path] = stage[op.path]]
      /\ stage' = [stage EXCEPT ![op.path] = Absent]
  BY DEF Install, InductiveInvariant, Phases, ApplyPcs
<1>2. Staged(op) /\ stage # None
  BY <1>1 DEF InductiveInvariant, CursorConsistent, ApplyPcs, Staged
<1>3. /\ LateJournalError \/ nextManifest # None
      /\ stage[op.path] = op.after
      /\ store[op.path] = op.before \/ op.path \in edited
      /\ DistinctPaths(journal)
  BY <1>1, <1>2 DEF InductiveInvariant, JournalConsistent, op
<1>4. op.path \in Path /\ op.after # Absent
      /\ \A i \in DOMAIN journal : journal[i].path \in Path
  BY <1>1, JournalFacts DEF InductiveInvariant, op
<1>5. stage \in [Path -> Content] /\ store \in [Path -> Content]
  BY <1>2 DEF InductiveInvariant, TypeOK
<1>6. stage' \in [Path -> Content]
  BY <1>1, <1>5 DEF Content
<1> QED
  BY <1>1, <1>2, <1>3, <1>4, <1>5, <1>6, NoneAssumption DEF op, DistinctPaths, Content

-----------------------------------------------------------------------------

(* Staging one entry (store.rs:69-123) keeps the staged update consistent: *)
(* the new operation, staged file and digest agree, and the older          *)
(* operations name other paths.                                            *)
LEMMA StageOnePlan ==
  ASSUME TypeOK, PlanConsistent, NEW p \in Path, NEW h \in Hash, StageOne(p, h)
  PROVE  PlanConsistent' /\ plan' \in Plan /\ stage' \in [Path -> Content]
<1> DEFINE o == [path |-> p, before |-> seen[p], after |-> h]
<1>1. /\ pc = "staging" /\ pc' = "staging" /\ seen' = seen
      /\ p \in plan.todo
      /\ plan'.todo = plan.todo \ {p}
      /\ plan'.next = [hash |-> [plan.next.hash EXCEPT ![p] = h], meta |-> plan.next.meta]
      /\ plan'.ops = Append(plan.ops, o)
      /\ stage' = [stage EXCEPT ![p] = h]
      /\ plan' = [todo |-> plan'.todo, next |-> plan'.next, ops |-> plan'.ops]
  BY DEF StageOne
<1>2. seen[p] \in Content /\ o \in Op
  BY <1>1, PlanFacts DEF TypeOK, Content, Op
<1>3. /\ plan'.ops \in Seq(Op)
      /\ DOMAIN plan'.ops = DOMAIN plan.ops \cup {Len(plan.ops) + 1}
      /\ \A i \in DOMAIN plan.ops : plan'.ops[i] = plan.ops[i]
      /\ plan'.ops[Len(plan.ops) + 1] = o
  BY <1>1, <1>2, PlanFacts
<1>4. \A i \in DOMAIN plan.ops : plan.ops[i].path # p
  BY <1>1, PlanFacts
<1>5. stage' \in [Path -> Content] /\ plan'.todo \subseteq Path
  BY <1>1, PlanFacts DEF Content
<1>6. plan'.next \in Manifest
  BY <1>1, PlanFacts DEF Manifest, Content
<1>7. plan' \in Plan
  BY <1>1, <1>3, <1>5, <1>6 DEF Plan
<1>8. DistinctPaths(plan'.ops)
  BY <1>1, <1>3, <1>4, PlanFacts DEF DistinctPaths
<1>9. ASSUME NEW i \in DOMAIN plan'.ops
      PROVE  /\ plan'.ops[i].path \notin plan'.todo
             /\ plan'.ops[i].before = seen'[plan'.ops[i].path]
             /\ stage'[plan'.ops[i].path] = plan'.ops[i].after
             /\ plan'.next.hash[plan'.ops[i].path] = plan'.ops[i].after
  <2>1. CASE i = Len(plan.ops) + 1
    BY <2>1, <1>1, <1>3, PlanFacts
  <2>2. CASE i \in DOMAIN plan.ops
    BY <2>2, <1>1, <1>3, <1>4, PlanFacts
  <2> QED BY <2>1, <2>2, <1>3
<1>10. ASSUME NEW q \in Path \ plan'.todo
       PROVE  \/ \E i \in DOMAIN plan'.ops : plan'.ops[i].path = q
              \/ plan'.next.hash[q] = seen'[q] /\ seen'[q] \in Hash
              \/ plan'.next.hash[q] = Absent
  <2>1. CASE q = p
    BY <2>1, <1>3
  <2>2. CASE q # p
    BY <2>2, <1>1, <1>3, PlanFacts
  <2> QED BY <2>1, <2>2
<1> QED
  BY <1>1, <1>5, <1>7, <1>8, <1>9, <1>10, PlanFacts DEF PlanConsistent

(* The journal written at the commit (store.rs:232-255) is consistent:     *)
(* every operation is staged and expects what the run observed.            *)
LEMMA WriteJournalConsistent ==
  ASSUME TypeOK, SeenFresh, PlanConsistent, WriteJournal
  PROVE  JournalConsistent' /\ CursorConsistent'
<1>1. ASSUME NEW i \in DOMAIN plan.ops
      PROVE  /\ stage[plan.ops[i].path] = plan.ops[i].after
             /\ store[plan.ops[i].path] = plan.ops[i].before \/ plan.ops[i].path \in edited'
  BY WriteJournalFacts, PlanFacts, HashAssumption DEF SeenFresh, KnownAtCommit, Content
<1>2. JournalConsistent'
  BY <1>1, WriteJournalFacts, PlanFacts DEF JournalConsistent
<1>3. CursorConsistent'
  BY WriteJournalFacts, PlanFacts DEF CursorConsistent
<1> QED BY <1>2, <1>3

(* After one rename (store.rs:283-295) the operations that remain staged   *)
(* still expect the contents of their targets.                             *)
LEMMA InstallConsistent ==
  ASSUME InductiveInvariant, Install
  PROVE  JournalConsistent' /\ CursorConsistent'
<1>1. ASSUME NEW i \in DOMAIN journal, i # cursor
      PROVE  /\ Staged(journal[i])' <=> Staged(journal[i])
             /\ stage'[journal[i].path] = stage[journal[i].path]
             /\ store'[journal[i].path] = store[journal[i].path]
  BY <1>1, InstallFacts, JournalFacts DEF Staged, InductiveInvariant
<1>2. ~Staged(op)' /\ ~Staged(journal[cursor])'
  BY InstallFacts DEF Staged, op
<1>3. JournalConsistent'
  BY <1>1, <1>2, InstallFacts DEF InductiveInvariant, JournalConsistent, op
<1>4. CursorConsistent'
  BY <1>1, <1>2, InstallFacts, JournalFacts DEF InductiveInvariant, CursorConsistent, ApplyPcs, TypeOK
<1> QED BY <1>3, <1>4

(* The commit writes a non-empty sequence of operations as the journal.    *)
LEMMA WriteJournalTyped ==
  ASSUME TypeOK, PlanConsistent, WriteJournal
  PROVE  TypeOK'
<1>1. /\ journal' \in Seq(Op) \ {<<>>}
      /\ pc' = "check" /\ cursor' \in Nat \ {0}
      /\ UNCHANGED <<store, stage, nextManifest, manifest>>
      /\ edited' \subseteq edited
  BY WriteJournalFacts
<1>2. recovering' \in BOOLEAN /\ plan' = None /\ seen' \in [Path -> Content \cup {Unread}]
  BY DEF WriteJournal, Nothing
<1> QED
  BY <1>1, <1>2 DEF TypeOK, ApplyPcs

(* One rename takes no operation's ciphertext away from the disk: what     *)
(* leaves the staging directory is in the store.                           *)
LEMMA InstallRecoverable ==
  ASSUME LateJournalError = FALSE, InductiveInvariant, JournalRecoverable, Install
  PROVE  JournalRecoverable'
<1> SUFFICES ASSUME NEW i \in DOMAIN journal
             PROVE  /\ IF Staged(journal[i])'
                       THEN stage'[journal[i].path] = journal[i].after
                       ELSE store'[journal[i].path] = journal[i].after \/ journal[i].path \in edited
                    /\ nextManifest.hash[journal[i].path] = journal[i].after
  BY InstallFacts DEF JournalRecoverable
<1>1. nextManifest.hash[journal[i].path] = journal[i].after
  BY InstallFacts DEF JournalRecoverable
<1>2. CASE i = cursor
  BY <1>1, <1>2, InstallFacts DEF Staged, op
<1>3. CASE i # cursor
  <2>1. journal[i].path \in Path \ {op.path}
    BY <1>3, InstallFacts, JournalFacts DEF InductiveInvariant
  <2>2. /\ stage'[journal[i].path] = stage[journal[i].path]
        /\ store'[journal[i].path] = store[journal[i].path]
        /\ Staged(journal[i])' <=> Staged(journal[i])
    BY <2>1, InstallFacts DEF Staged
  <2> QED
    BY <1>1, <2>2, InstallFacts DEF JournalRecoverable
<1> QED BY <1>2, <1>3

(* At the commit point the effective manifest and the effective store      *)
(* change together (store.rs:226-255).                                     *)
LEMMA WriteJournalManifest ==
  ASSUME TypeOK, SeenFresh, PlanConsistent, WriteJournal
  PROVE  ManifestTruth'
<1> SUFFICES ASSUME NEW p \in Path, p \notin edited'
             PROVE  EffectiveManifest'.hash[p] \in {Absent, EffectiveStore'[p]}
  BY DEF ManifestTruth
<1>1. journal' # None
  BY WriteJournalFacts
<1>2. EffectiveManifest' = plan.next
  BY <1>1, WriteJournalFacts DEF EffectiveManifest, Committed
<1>3. seen[p] \in {Unread, store[p]}
  BY WriteJournalFacts DEF SeenFresh, KnownAtCommit
<1>4. CASE \E i \in DOMAIN plan.ops : plan.ops[i].path = p
  <2>1. PICK i \in DOMAIN plan.ops : plan.ops[i].path = p
    BY <1>4
  <2>2. /\ store[p] = plan.ops[i].before /\ stage[p] = plan.ops[i].after
        /\ plan.ops[i].after # Absent
        /\ plan.next.hash[p] = plan.ops[i].after
    BY <2>1, <1>3, WriteJournalFacts, PlanFacts, HashAssumption DEF Content
  <2>3. Pending(p)'
    BY <1>1, <2>1, <2>2, WriteJournalFacts DEF Pending, Committed, Staged
  <2> QED
    BY <2>2, <2>3, <1>2, WriteJournalFacts DEF EffectiveStore
<1>5. CASE \A i \in DOMAIN plan.ops : plan.ops[i].path # p
  <2>1. EffectiveStore'[p] = store[p]
    BY <1>5, WriteJournalFacts DEF EffectiveStore, Pending
  <2> QED
    BY <2>1, <1>2, <1>3, <1>5, WriteJournalFacts, PlanFacts, HashAssumption
<1> QED BY <1>4, <1>5

(* One rename does not change the effective store, unless its target was   *)
(* written by somebody else.                                               *)
LEMMA InstallManifest ==
  ASSUME LateJournalError = FALSE, InductiveInvariant, ManifestTruth, Install
  PROVE  ManifestTruth'
<1>1. ASSUME NEW p \in Path, p \notin edited
      PROVE  EffectiveStore'[p] = EffectiveStore[p]
  <2>1. CASE p = op.path
    <3>1. EffectiveStore[p] = IF Committed THEN stage[p] ELSE store[p]
      BY <1>1, <2>1, InstallFacts DEF EffectiveStore, Pending, op
    <3>2. ~Pending(p)'
      BY <2>1, InstallFacts DEF Pending, Staged
    <3>3. EffectiveStore'[p] = op.after
      BY <2>1, <3>2, InstallFacts DEF EffectiveStore
    <3>4. Committed
      BY InstallFacts DEF Committed
    <3> QED BY <2>1, <3>1, <3>3, <3>4, InstallFacts
  <2>2. CASE p # op.path
    <3>1. Pending(p)' <=> Pending(p)
      BY <2>2, InstallFacts DEF Pending, Committed, Staged
    <3> QED
      BY <2>2, <3>1, InstallFacts DEF EffectiveStore
  <2> QED BY <2>1, <2>2
<1> QED
  BY <1>1, InstallFacts DEF InductiveInvariant, ManifestTruth, EffectiveManifest, Committed

-----------------------------------------------------------------------------

(* Every step keeps the type invariant.                                    *)
LEMMA TypeStep ==
  ASSUME InductiveInvariant, [Next]_vars
  PROVE  TypeOK'
<1>1. ASSUME NEW p \in Path, NEW h \in Hash, StageOne(p, h) PROVE TypeOK'
  BY <1>1, StageOnePlan DEF StageOne, InductiveInvariant, TypeOK, PlanPcs
<1>2. CASE WriteJournal
  BY <1>2, WriteJournalTyped DEF InductiveInvariant
<1> USE DEF InductiveInvariant, TypeOK, Phases, PlanConsistent, CursorConsistent, Staged, op, Content, Manifest, Op, Plan, ApplyPcs, PlanPcs, disk, process
<1>3. CASE Acquire
  BY <1>3 DEF Acquire
<1>4. ASSUME NEW P \in SUBSET Path, Observe(P) PROVE TypeOK'
  BY <1>4 DEF Observe
<1>5. ASSUME NEW todo \in SUBSET Path, NEW next \in Manifest, Begin(todo, next) PROVE TypeOK'
  BY <1>5 DEF Begin, WellFormed, NoFiles
<1>6. CASE SaveOnly
  BY <1>6 DEF SaveOnly, Nothing
<1>7. CASE WriteNext
  BY <1>7 DEF WriteNext
<1>8. CASE Leave
  BY <1>8 DEF Leave, Nothing
<1>9. CASE CheckStaged
  BY <1>9 DEF CheckStaged
<1>10. CASE CheckInstalled
  BY <1>10 DEF CheckInstalled
<1>11. CASE Install
  BY <1>11 DEF Install
<1>12. CASE Verify
  BY <1>12 DEF Verify
<1>13. CASE Publish
  BY <1>13 DEF Publish
<1>14. CASE CheckPublished
  BY <1>14 DEF CheckPublished
<1>15. CASE Clean
  BY <1>15 DEF Clean
<1>16. CASE Clear
  BY <1>16 DEF Clear
<1>17. CASE Refuse
  BY <1>17 DEF Refuse
<1>18. CASE FailWriteNext
  BY <1>18 DEF FailWriteNext, Nothing
<1>19. CASE FailWriteJournal
  BY <1>19 DEF FailWriteJournal, Nothing
<1>20. CASE Crash
  BY <1>20 DEF Crash, Nothing
<1>21. ASSUME NEW p \in Path, NEW h \in Content, LocalEdit(p, h) PROVE TypeOK'
  BY <1>21 DEF LocalEdit
<1>22. CASE UNCHANGED vars
  BY <1>22 DEF vars
<1> QED
  BY <1>1, <1>2, <1>3, <1>4, <1>5, <1>6, <1>7, <1>8, <1>9, <1>10, <1>11, <1>12, <1>13, <1>14, <1>15, <1>16, <1>17, <1>18, <1>19, <1>20, <1>21, <1>22
  DEF Next, Run, Environment, Fault, ApplyJournal

(* Every step keeps the correspondence of journal and program position.    *)
LEMMA PhasesStep ==
  ASSUME InductiveInvariant, [Next]_vars
  PROVE  Phases'
<1>1. CASE WriteJournal
  BY <1>1, WriteJournalFacts, PlanFacts DEF WriteJournal, InductiveInvariant, Phases, PlanPcs, ApplyPcs
<1>2. CASE Verify
  BY <1>2, JournalFacts DEF Verify, InductiveInvariant, Phases, PlanPcs, ApplyPcs, disk
<1> USE DEF InductiveInvariant, TypeOK, Phases, ApplyPcs, PlanPcs, disk, process
<1>3. CASE Acquire
  BY <1>3 DEF Acquire
<1>4. ASSUME NEW P \in SUBSET Path, Observe(P) PROVE Phases'
  BY <1>4 DEF Observe
<1>5. ASSUME NEW todo \in SUBSET Path, NEW next \in Manifest, Begin(todo, next) PROVE Phases'
  BY <1>5 DEF Begin
<1>6. ASSUME NEW p \in Path, NEW h \in Hash, StageOne(p, h) PROVE Phases'
  BY <1>6 DEF StageOne
<1>7. CASE SaveOnly
  BY <1>7 DEF SaveOnly
<1>8. CASE WriteNext
  BY <1>8 DEF WriteNext
<1>9. CASE Leave
  BY <1>9 DEF Leave
<1>10. CASE CheckStaged
  BY <1>10 DEF CheckStaged
<1>11. CASE CheckInstalled
  BY <1>11 DEF CheckInstalled
<1>12. CASE Install
  BY <1>12 DEF Install
<1>13. CASE Publish
  BY <1>13 DEF Publish
<1>14. CASE CheckPublished
  BY <1>14 DEF CheckPublished
<1>15. CASE Clean
  BY <1>15 DEF Clean
<1>16. CASE Clear
  BY <1>16 DEF Clear
<1>17. CASE Refuse
  BY <1>17 DEF Refuse
<1>18. CASE FailWriteNext
  BY <1>18 DEF FailWriteNext
<1>19. CASE FailWriteJournal
  BY <1>19 DEF FailWriteJournal
<1>20. CASE Crash
  BY <1>20 DEF Crash
<1>21. ASSUME NEW p \in Path, NEW h \in Content, LocalEdit(p, h) PROVE Phases'
  BY <1>21 DEF LocalEdit
<1>22. CASE UNCHANGED vars
  BY <1>22 DEF vars
<1> QED
  BY <1>1, <1>2, <1>3, <1>4, <1>5, <1>6, <1>7, <1>8, <1>9, <1>10, <1>11, <1>12, <1>13, <1>14, <1>15, <1>16, <1>17, <1>18, <1>19, <1>20, <1>21, <1>22
  DEF Next, Run, Environment, Fault, ApplyJournal

(* Every step keeps what the run has read true of entries nobody else has  *)
(* written.                                                                *)
LEMMA SeenStep ==
  ASSUME InductiveInvariant, [Next]_vars
  PROVE  SeenFresh'
<1> USE DEF InductiveInvariant, TypeOK, SeenFresh, Phases, ApplyPcs, PlanPcs, Content, Nothing, KnownAtCommit, disk, process
<1>1. CASE Acquire
  BY <1>1 DEF Acquire
<1>2. ASSUME NEW P \in SUBSET Path, Observe(P) PROVE SeenFresh'
  BY <1>2 DEF Observe
<1>3. ASSUME NEW todo \in SUBSET Path, NEW next \in Manifest, Begin(todo, next) PROVE SeenFresh'
  BY <1>3 DEF Begin
<1>4. ASSUME NEW p \in Path, NEW h \in Hash, StageOne(p, h) PROVE SeenFresh'
  BY <1>4 DEF StageOne
<1>5. CASE SaveOnly
  BY <1>5 DEF SaveOnly
<1>6. CASE WriteNext
  BY <1>6 DEF WriteNext
<1>7. CASE WriteJournal
  BY <1>7 DEF WriteJournal
<1>8. CASE Leave
  BY <1>8 DEF Leave
<1>9. CASE CheckStaged
  BY <1>9 DEF CheckStaged
<1>10. CASE CheckInstalled
  BY <1>10 DEF CheckInstalled
<1>11. CASE Install
  BY <1>11 DEF Install
<1>12. CASE Verify
  BY <1>12 DEF Verify
<1>13. CASE Publish
  BY <1>13 DEF Publish
<1>14. CASE CheckPublished
  BY <1>14 DEF CheckPublished
<1>15. CASE Clean
  BY <1>15 DEF Clean
<1>16. CASE Clear
  BY <1>16 DEF Clear
<1>17. CASE Refuse
  BY <1>17 DEF Refuse
<1>18. CASE FailWriteNext
  BY <1>18 DEF FailWriteNext
<1>19. CASE FailWriteJournal
  BY <1>19 DEF FailWriteJournal
<1>20. CASE Crash
  BY <1>20 DEF Crash
<1>21. ASSUME NEW p \in Path, NEW h \in Content, LocalEdit(p, h) PROVE SeenFresh'
  BY <1>21 DEF LocalEdit
<1>22. CASE UNCHANGED vars
  BY <1>22 DEF vars
<1> QED
  BY <1>1, <1>2, <1>3, <1>4, <1>5, <1>6, <1>7, <1>8, <1>9, <1>10, <1>11, <1>12, <1>13, <1>14, <1>15, <1>16, <1>17, <1>18, <1>19, <1>20, <1>21, <1>22
  DEF Next, Run, Environment, Fault, ApplyJournal

(* Every step keeps the update being staged consistent.                    *)
LEMMA PlanStep ==
  ASSUME InductiveInvariant, [Next]_vars
  PROVE  PlanConsistent'
<1>1. ASSUME NEW p \in Path, NEW h \in Hash, StageOne(p, h) PROVE PlanConsistent'
  BY <1>1, StageOnePlan DEF InductiveInvariant
<1> USE DEF InductiveInvariant, TypeOK, Phases, PlanConsistent, DistinctPaths, Content, Manifest, Op, Plan, ApplyPcs, PlanPcs, disk, process
<1>2. CASE Acquire
  BY <1>2 DEF Acquire
<1>3. ASSUME NEW P \in SUBSET Path, Observe(P) PROVE PlanConsistent'
  BY <1>3 DEF Observe
<1>4. ASSUME NEW todo \in SUBSET Path, NEW next \in Manifest, Begin(todo, next) PROVE PlanConsistent'
  BY <1>4 DEF Begin, WellFormed, NoFiles
<1>5. CASE SaveOnly
  BY <1>5 DEF SaveOnly
<1>6. CASE WriteNext
  BY <1>6 DEF WriteNext
<1>7. CASE WriteJournal
  BY <1>7 DEF WriteJournal
<1>8. CASE Leave
  BY <1>8 DEF Leave
<1>9. CASE CheckStaged
  BY <1>9 DEF CheckStaged
<1>10. CASE CheckInstalled
  BY <1>10 DEF CheckInstalled
<1>11. CASE Install
  BY <1>11 DEF Install
<1>12. CASE Verify
  BY <1>12 DEF Verify
<1>13. CASE Publish
  BY <1>13 DEF Publish
<1>14. CASE CheckPublished
  BY <1>14 DEF CheckPublished
<1>15. CASE Clean
  BY <1>15 DEF Clean
<1>16. CASE Clear
  BY <1>16 DEF Clear
<1>17. CASE Refuse
  BY <1>17 DEF Refuse
<1>18. CASE FailWriteNext
  BY <1>18 DEF FailWriteNext
<1>19. CASE FailWriteJournal
  BY <1>19 DEF FailWriteJournal
<1>20. CASE Crash
  BY <1>20 DEF Crash
<1>21. ASSUME NEW p \in Path, NEW h \in Content, LocalEdit(p, h) PROVE PlanConsistent'
  BY <1>21 DEF LocalEdit
<1>22. CASE UNCHANGED vars
  BY <1>22 DEF vars
<1> QED
  BY <1>1, <1>2, <1>3, <1>4, <1>5, <1>6, <1>7, <1>8, <1>9, <1>10, <1>11, <1>12, <1>13, <1>14, <1>15, <1>16, <1>17, <1>18, <1>19, <1>20, <1>21, <1>22
  DEF Next, Run, Environment, Fault, ApplyJournal

(* Every step keeps the journal consistent with staging directory and      *)
(* store.                                                                  *)
LEMMA JournalStep ==
  ASSUME InductiveInvariant, [Next]_vars
  PROVE  JournalConsistent'
<1>1. CASE WriteJournal
  BY <1>1, WriteJournalConsistent DEF InductiveInvariant
<1>2. CASE Install
  BY <1>2, InstallConsistent
<1>3. CASE FailWriteJournal
  <2>1. CASE journal' = None
    BY <2>1 DEF JournalConsistent
  <2>2. CASE journal' # None
    <3>1. LateJournalError
      BY <1>3, <2>2, SwitchAssumption DEF FailWriteJournal
    <3>2. UNCHANGED <<store, edited>> /\ journal' = plan.ops /\ stage' \in {None, stage}
      BY <1>3, <2>2, <3>1 DEF FailWriteJournal
    <3>3. \A p \in Path \ edited : seen[p] = Unread \/ seen[p] = store[p]
      BY DEF InductiveInvariant, SeenFresh
    <3>4. PlanConsistent /\ pc \in {"staging", "journal"}
      BY <1>3 DEF InductiveInvariant, FailWriteJournal
    <3>5. \A i \in DOMAIN plan.ops : plan.ops[i].before # Unread
      BY <3>4, PlanFacts, HashAssumption DEF Content
    <3> QED
      BY <3>1, <3>2, <3>3, <3>4, <3>5, PlanFacts DEF JournalConsistent, Staged
  <2> QED BY <2>1, <2>2
<1> USE DEF InductiveInvariant, TypeOK, Phases, JournalConsistent, CursorConsistent, DistinctPaths, Staged, op, Content, Op, ApplyPcs, PlanPcs, disk, process
<1>4. CASE Acquire
  BY <1>4 DEF Acquire
<1>5. ASSUME NEW P \in SUBSET Path, Observe(P) PROVE JournalConsistent'
  BY <1>5 DEF Observe
<1>6. ASSUME NEW todo \in SUBSET Path, NEW next \in Manifest, Begin(todo, next) PROVE JournalConsistent'
  BY <1>6 DEF Begin
<1>7. ASSUME NEW p \in Path, NEW h \in Hash, StageOne(p, h) PROVE JournalConsistent'
  BY <1>7 DEF StageOne
<1>8. CASE SaveOnly
  BY <1>8 DEF SaveOnly
<1>9. CASE WriteNext
  BY <1>9 DEF WriteNext
<1>10. CASE Leave
  BY <1>10 DEF Leave
<1>11. CASE CheckStaged
  BY <1>11 DEF CheckStaged
<1>12. CASE CheckInstalled
  BY <1>12 DEF CheckInstalled
<1>13. CASE Verify
  BY <1>13 DEF Verify
<1>14. CASE Publish
  BY <1>14 DEF Publish
<1>15. CASE CheckPublished
  BY <1>15 DEF CheckPublished
<1>16. CASE Clean
  BY <1>16 DEF Clean
<1>17. CASE Clear
  BY <1>17 DEF Clear
<1>18. CASE Refuse
  BY <1>18 DEF Refuse
<1>19. CASE FailWriteNext
  BY <1>19 DEF FailWriteNext
<1>20. CASE Crash
  BY <1>20 DEF Crash
<1>21. ASSUME NEW p \in Path, NEW h \in Content, LocalEdit(p, h) PROVE JournalConsistent'
  BY <1>21 DEF LocalEdit
<1>22. CASE UNCHANGED vars
  BY <1>22 DEF vars
<1> QED
  BY <1>1, <1>2, <1>3, <1>4, <1>5, <1>6, <1>7, <1>8, <1>9, <1>10, <1>11, <1>12, <1>13, <1>14, <1>15, <1>16, <1>17, <1>18, <1>19, <1>20, <1>21, <1>22
  DEF Next, Run, Environment, Fault, ApplyJournal

(* Every step keeps the operations before the cursor installed.            *)
LEMMA CursorStep ==
  ASSUME InductiveInvariant, [Next]_vars
  PROVE  CursorConsistent'
<1>1. CASE WriteJournal
  BY <1>1, WriteJournalConsistent DEF InductiveInvariant
<1>2. CASE Install
  BY <1>2, InstallConsistent
<1> USE DEF InductiveInvariant, TypeOK, Phases, JournalConsistent, CursorConsistent, DistinctPaths, Staged, op, Content, Op, ApplyPcs, PlanPcs, disk, process
<1>3. CASE Acquire
  BY <1>3 DEF Acquire
<1>4. ASSUME NEW P \in SUBSET Path, Observe(P) PROVE CursorConsistent'
  BY <1>4 DEF Observe
<1>5. ASSUME NEW todo \in SUBSET Path, NEW next \in Manifest, Begin(todo, next) PROVE CursorConsistent'
  BY <1>5 DEF Begin
<1>6. ASSUME NEW p \in Path, NEW h \in Hash, StageOne(p, h) PROVE CursorConsistent'
  BY <1>6 DEF StageOne
<1>7. CASE SaveOnly
  BY <1>7 DEF SaveOnly
<1>8. CASE WriteNext
  BY <1>8 DEF WriteNext
<1>9. CASE Leave
  BY <1>9 DEF Leave
<1>10. CASE CheckStaged
  BY <1>10 DEF CheckStaged
<1>11. CASE CheckInstalled
  BY <1>11 DEF CheckInstalled
<1>12. CASE Verify
  BY <1>12 DEF Verify
<1>13. CASE Publish
  BY <1>13 DEF Publish
<1>14. CASE CheckPublished
  BY <1>14 DEF CheckPublished
<1>15. CASE Clean
  BY <1>15 DEF Clean
<1>16. CASE Clear
  BY <1>16 DEF Clear
<1>17. CASE Refuse
  BY <1>17 DEF Refuse
<1>18. CASE FailWriteNext
  BY <1>18 DEF FailWriteNext
<1>19. CASE FailWriteJournal
  BY <1>19 DEF FailWriteJournal
<1>20. CASE Crash
  BY <1>20 DEF Crash
<1>21. ASSUME NEW p \in Path, NEW h \in Content, LocalEdit(p, h) PROVE CursorConsistent'
  BY <1>21 DEF LocalEdit
<1>22. CASE UNCHANGED vars
  BY <1>22 DEF vars
<1> QED
  BY <1>1, <1>2, <1>3, <1>4, <1>5, <1>6, <1>7, <1>8, <1>9, <1>10, <1>11, <1>12, <1>13, <1>14, <1>15, <1>16, <1>17, <1>18, <1>19, <1>20, <1>21, <1>22
  DEF Next, Run, Environment, Fault, ApplyJournal

(* Every step keeps effective manifest and effective store together, when  *)
(* a failed write of the journal leaves no journal behind.                 *)
LEMMA ManifestStep ==
  ASSUME LateJournalError = FALSE, InductiveInvariant, ManifestTruth, [Next]_vars
  PROVE  ManifestTruth'
<1>1. CASE WriteJournal
  BY <1>1, WriteJournalManifest DEF InductiveInvariant
<1>2. CASE Install
  BY <1>2, InstallManifest
<1> USE HashAssumption DEF ManifestTruth, EffectiveManifest, EffectiveStore, Pending, Committed, SeenFresh, PlanConsistent, Manifest, Plan, KnownAtCommit, InductiveInvariant, TypeOK, Phases, JournalConsistent, CursorConsistent, DistinctPaths, Staged, op, Content, Op, ApplyPcs, PlanPcs, disk, process
<1>3. CASE Acquire
  BY <1>3 DEF Acquire
<1>4. ASSUME NEW P \in SUBSET Path, Observe(P) PROVE ManifestTruth'
  BY <1>4 DEF Observe
<1>5. ASSUME NEW todo \in SUBSET Path, NEW next \in Manifest, Begin(todo, next) PROVE ManifestTruth'
  BY <1>5 DEF Begin
<1>6. ASSUME NEW p \in Path, NEW h \in Hash, StageOne(p, h) PROVE ManifestTruth'
  BY <1>6 DEF StageOne
<1>7. CASE SaveOnly
  BY <1>7 DEF SaveOnly
<1>8. CASE WriteNext
  BY <1>8 DEF WriteNext
<1>9. CASE Leave
  BY <1>9 DEF Leave
<1>10. CASE CheckStaged
  BY <1>10 DEF CheckStaged
<1>11. CASE CheckInstalled
  BY <1>11 DEF CheckInstalled
<1>12. CASE Verify
  BY <1>12 DEF Verify
<1>13. CASE Publish
  BY <1>13 DEF Publish
<1>14. CASE CheckPublished
  BY <1>14 DEF CheckPublished
<1>15. CASE Clean
  BY <1>15 DEF Clean
<1>16. CASE Clear
  BY <1>16 DEF Clear
<1>17. CASE Refuse
  BY <1>17 DEF Refuse
<1>18. CASE FailWriteNext
  BY <1>18 DEF FailWriteNext
<1>19. CASE FailWriteJournal
  BY <1>19 DEF FailWriteJournal
<1>20. CASE Crash
  BY <1>20 DEF Crash
<1>21. ASSUME NEW p \in Path, NEW h \in Content, LocalEdit(p, h) PROVE ManifestTruth'
  BY <1>21 DEF LocalEdit
<1>22. CASE UNCHANGED vars
  BY <1>22 DEF vars
<1> QED
  BY <1>1, <1>2, <1>3, <1>4, <1>5, <1>6, <1>7, <1>8, <1>9, <1>10, <1>11, <1>12, <1>13, <1>14, <1>15, <1>16, <1>17, <1>18, <1>19, <1>20, <1>21, <1>22
  DEF Next, Run, Environment, Fault, ApplyJournal

(* Every step leaves a committed transaction recoverable, when a failed    *)
(* write of the journal leaves no journal behind.                          *)
LEMMA RecoverableStep ==
  ASSUME LateJournalError = FALSE, InductiveInvariant, JournalRecoverable, [Next]_vars
  PROVE  JournalRecoverable'
<1>1. CASE WriteJournal
  BY <1>1, WriteJournalFacts, PlanFacts DEF JournalRecoverable, Staged, InductiveInvariant
<1>2. CASE Install
  BY <1>2, InstallRecoverable
<1> USE DEF JournalRecoverable, Published, InductiveInvariant, TypeOK, Phases, JournalConsistent, CursorConsistent, DistinctPaths, Staged, op, Content, Op, ApplyPcs, PlanPcs, disk, process
<1>3. CASE Acquire
  BY <1>3 DEF Acquire
<1>4. ASSUME NEW P \in SUBSET Path, Observe(P) PROVE JournalRecoverable'
  BY <1>4 DEF Observe
<1>5. ASSUME NEW todo \in SUBSET Path, NEW next \in Manifest, Begin(todo, next) PROVE JournalRecoverable'
  BY <1>5 DEF Begin
<1>6. ASSUME NEW p \in Path, NEW h \in Hash, StageOne(p, h) PROVE JournalRecoverable'
  BY <1>6 DEF StageOne
<1>7. CASE SaveOnly
  BY <1>7 DEF SaveOnly
<1>8. CASE WriteNext
  BY <1>8 DEF WriteNext
<1>9. CASE Leave
  BY <1>9 DEF Leave
<1>10. CASE CheckStaged
  BY <1>10 DEF CheckStaged
<1>11. CASE CheckInstalled
  BY <1>11 DEF CheckInstalled
<1>12. CASE Verify
  BY <1>12 DEF Verify
<1>13. CASE Publish
  BY <1>13 DEF Publish
<1>14. CASE CheckPublished
  BY <1>14 DEF CheckPublished
<1>15. CASE Clean
  BY <1>15 DEF Clean
<1>16. CASE Clear
  BY <1>16 DEF Clear
<1>17. CASE Refuse
  BY <1>17 DEF Refuse
<1>18. CASE FailWriteNext
  BY <1>18 DEF FailWriteNext
<1>19. CASE FailWriteJournal
  BY <1>19 DEF FailWriteJournal
<1>20. CASE Crash
  BY <1>20 DEF Crash
<1>21. ASSUME NEW p \in Path, NEW h \in Content, LocalEdit(p, h) PROVE JournalRecoverable'
  BY <1>21 DEF LocalEdit
<1>22. CASE UNCHANGED vars
  BY <1>22 DEF vars
<1> QED
  BY <1>1, <1>2, <1>3, <1>4, <1>5, <1>6, <1>7, <1>8, <1>9, <1>10, <1>11, <1>12, <1>13, <1>14, <1>15, <1>16, <1>17, <1>18, <1>19, <1>20, <1>21, <1>22
  DEF Next, Run, Environment, Fault, ApplyJournal

-----------------------------------------------------------------------------

(* The invariants hold on a new state directory.                           *)
LEMMA InitInvariant == Init => InductiveInvariant /\ JournalRecoverable /\ ManifestTruth
<1> SUFFICES ASSUME Init PROVE InductiveInvariant /\ JournalRecoverable /\ ManifestTruth
  OBVIOUS
<1>1. TypeOK
  <2>1. manifest \in Manifest
    BY MetaAssumption DEF Init, EmptyManifest, Manifest, Content
  <2>2. seen \in [Path -> Content \cup {Unread}]
    BY DEF Init, Nothing
  <2>3. /\ store \in [Path -> Content] /\ stage = None /\ nextManifest = None
        /\ journal = None /\ pc = "idle" /\ cursor = 1 /\ recovering = FALSE
        /\ plan = None /\ edited = {}
    BY DEF Init
  <2>4. recovering \in BOOLEAN /\ plan \in {None} \cup Plan
    BY <2>3
  <2>5. cursor \in Nat \ {0} /\ edited \subseteq Path
    BY <2>3
  <2>6. stage \in {None} \cup [Path -> Content] /\ nextManifest \in {None} \cup Manifest
    BY <2>3
  <2>7. journal \in {None} \cup (Seq(Op) \ {<<>>})
    BY <2>3
  <2>8. pc \in {"idle"} \cup PlanPcs \cup ApplyPcs
    BY <2>3
  <2> QED BY <2>1, <2>2, <2>3, <2>4, <2>5, <2>6, <2>7, <2>8 DEF TypeOK
<1>2. Phases /\ SeenFresh /\ PlanConsistent /\ JournalConsistent /\ CursorConsistent
      /\ JournalRecoverable
  BY DEF Init, Phases, SeenFresh, PlanConsistent, JournalConsistent, CursorConsistent,
         JournalRecoverable, PlanPcs, ApplyPcs, Nothing
<1>3. ManifestTruth
  BY DEF Init, ManifestTruth, EffectiveManifest, Committed, EmptyManifest
<1> QED BY <1>1, <1>2, <1>3 DEF InductiveInvariant

(* In every reachable state disk, run and history fit together: the        *)
(* inductive invariant from which the properties follow.                   *)
THEOREM Invariance == Spec => []InductiveInvariant
<1>1. Init => InductiveInvariant
  BY InitInvariant
<1>2. InductiveInvariant /\ [Next]_vars => InductiveInvariant'
  BY TypeStep, PhasesStep, SeenStep, PlanStep, JournalStep, CursorStep
     DEF InductiveInvariant
<1> QED BY <1>1, <1>2, PTL DEF Spec

(* The variables keep their types, for any entries and digests.            *)
THEOREM TypeCorrect == Spec => []TypeOK
<1>1. InductiveInvariant => TypeOK
  BY DEF InductiveInvariant
<1> QED BY <1>1, Invariance, PTL

(* Manifest and store never drift apart by the program's own doing:        *)
(* counting a committed transaction as finished, an owned entry nobody     *)
(* else has written has the recorded digest, whatever step a run of        *)
(* commit_transaction, apply_journal or recover_transaction died at,       *)
(* provided a failed write of the journal leaves no journal behind.        *)
THEOREM ManifestNeverDrifts ==
  ASSUME LateJournalError = FALSE
  PROVE  Spec => []ManifestTruth
<1>1. Init => ManifestTruth
  BY InitInvariant
<1>2. InductiveInvariant /\ ManifestTruth /\ [Next]_vars => ManifestTruth'
  BY ManifestStep
<1> QED BY <1>1, <1>2, Invariance, PTL DEF Spec

(* Whenever a journal is on disk, all that recover_transaction needs to    *)
(* finish it is there as well (store.rs:212-349), provided a failed write  *)
(* of the journal leaves no journal behind.                                *)
THEOREM EveryCrashIsRecoverable ==
  ASSUME LateJournalError = FALSE
  PROVE  Spec => []JournalRecoverable
<1>1. Init => JournalRecoverable
  BY InitInvariant
<1>2. InductiveInvariant /\ JournalRecoverable /\ [Next]_vars => JournalRecoverable'
  BY RecoverableStep
<1> QED BY <1>1, <1>2, Invariance, PTL DEF Spec

(* The program replaces an entry only while it has the contents recorded   *)
(* when the update was prepared (store.rs:268-296), provided nobody writes *)
(* an entry between its digest check and its rename.                       *)
THEOREM NoSilentOverwrite ==
  ASSUME EditDuringInstall = FALSE
  PROVE  Spec => OverwriteOnlyObserved
<1>1. InductiveInvariant /\ [Next]_vars => [ReplacesObserved]_vars
  <2> SUFFICES ASSUME InductiveInvariant, [Next]_vars, pc' # pc
               PROVE  ReplacesObserved
    BY DEF ReplacesObserved
  <2>1. CASE Install
    <3>1. op.path \in Path /\ store[op.path] = op.before
      BY <2>1, InstallFacts DEF InductiveInvariant, CursorConsistent, ApplyPcs
    <3> QED
      BY <2>1, <3>1, InstallFacts DEF op, ReplacesObserved
  <2>2. CASE ~Install
    <3>1. store' = store
      BY <2>2 DEF Next, Run, Environment, Fault, ApplyJournal, Acquire, Observe, Begin, StageOne,
           SaveOnly, WriteNext, WriteJournal, Leave, CheckStaged, CheckInstalled, Verify, Publish,
           CheckPublished, Clean, Clear, Refuse, FailWriteNext, FailWriteJournal, Crash, LocalEdit,
           vars, disk, process
    <3> QED BY <3>1 DEF ReplacesObserved
  <2> QED BY <2>1, <2>2
<1> QED BY <1>1, Invariance, PTL DEF Spec, OverwriteOnlyObserved

(* The program's own deaths never stop a recovery: apply_journal refuses   *)
(* (store.rs:276-331) only an operation whose entry somebody else has      *)
(* written, provided a failed write of the journal leaves none behind.     *)
THEOREM OnlyEditsStopRecovery ==
  ASSUME LateJournalError = FALSE
  PROVE  Spec => RefusesOnlyEdits
<1>1. ASSUME InductiveInvariant, JournalRecoverable, Refuse
      PROVE  op.path \in edited /\ Stopped(op)
  <2>1. pc \in ApplyPcs /\ journal # None /\ cursor \in DOMAIN journal
    BY <1>1 DEF Refuse, ApplyPcs, InductiveInvariant, Phases
  <2>2. CASE pc = "check" /\ Staged(op)
    <3>1. stage[op.path] = op.after /\ (store[op.path] = op.before \/ op.path \in edited)
      BY <1>1, <2>1, <2>2 DEF InductiveInvariant, JournalConsistent, op
    <3>2. QED
      BY <1>1, <2>2, <3>1 DEF Refuse, Stopped
  <2>3. CASE pc = "verify"
    <3>1. ~Staged(op)
      BY <1>1, <2>3 DEF InductiveInvariant, CursorConsistent, ApplyPcs
    <3>2. store[op.path] = op.after \/ op.path \in edited
      BY <1>1, <2>1, <3>1 DEF JournalRecoverable, op
    <3>3. QED
      BY <1>1, <2>3, <3>1, <3>2 DEF Refuse, Stopped
  <2>4. CASE pc = "publish" /\ nextManifest = None
    BY <1>1, <2>1, <2>4 DEF Refuse, JournalRecoverable
  <2>5. QED
    BY <1>1, <2>2, <2>3, <2>4 DEF Refuse
<1>2. InductiveInvariant /\ JournalRecoverable /\ [Next]_vars =>
        [Refuse => op.path \in edited /\ Stopped(op)]_vars
  BY <1>1
<1> QED BY <1>2, Invariance, EveryCrashIsRecoverable, PTL DEF Spec, RefusesOnlyEdits

(* The steps apply_journal has left, at most: three for every operation    *)
(* from the cursor on, and three after the last.                           *)
StepsLeft ==
  CASE pc = "check"   -> 3 * (Len(journal) - cursor) + 6
    [] pc = "install" -> 3 * (Len(journal) - cursor) + 5
    [] pc = "verify"  -> 3 * (Len(journal) - cursor) + 4
    [] pc = "publish" -> 3
    [] pc = "clean"   -> 2
    [] pc = "clear"   -> 1
    [] OTHER          -> 0

ApplyAdvances ==
  pc \in ApplyPcs =>
    /\ StepsLeft \in 1..(3 * Len(journal) + 3)
    /\ StepsLeft' \in 0..StepsLeft
    /\ ApplyJournal => StepsLeft' # StepsLeft

(* apply_journal (store.rs:268-349) ends: each of its steps brings it      *)
(* closer, a bounded number of times, and nothing that others do           *)
(* meanwhile takes it back.                                                *)
THEOREM ApplyJournalEnds == Spec => [][ApplyAdvances]_vars
<1>1. ASSUME InductiveInvariant, Next, pc \in ApplyPcs
      PROVE  ApplyAdvances
  <2>1. journal # None /\ cursor \in 1..Len(journal) /\ Len(journal) \in Nat \ {0}
    BY <1>1, JournalFacts DEF InductiveInvariant, Phases
  <2>2. StepsLeft \in 1..(3 * Len(journal) + 3)
    BY <1>1, <2>1 DEF StepsLeft, ApplyPcs
  <2>3. ASSUME pc' \notin ApplyPcs PROVE StepsLeft' \in 0..StepsLeft /\ StepsLeft' # StepsLeft
    <3>1. StepsLeft' = 0
      BY <2>3 DEF StepsLeft, ApplyPcs
    <3>2. QED
      BY <2>2, <3>1
  <2>4. ASSUME ApplyJournal, pc' \in ApplyPcs PROVE StepsLeft' \in 0..StepsLeft /\ StepsLeft' # StepsLeft
    <3>1. journal' = journal
      BY <2>4 DEF ApplyJournal, CheckStaged, CheckInstalled, Install, Verify, Publish, CheckPublished,
         Clean, Clear, Refuse, disk, ApplyPcs
    <3>2. CASE Verify
      BY <2>1, <2>2, <3>1, <3>2 DEF Verify, StepsLeft, ApplyPcs
    <3>3. CASE ~Verify
      BY <2>1, <2>2, <2>4, <3>1, <3>3 DEF ApplyJournal, CheckStaged, CheckInstalled, Install, Publish,
         CheckPublished, Clean, Clear, Refuse, StepsLeft, ApplyPcs
    <3>4. QED
      BY <3>2, <3>3
  <2>5. ASSUME ~ApplyJournal, pc' \in ApplyPcs PROVE StepsLeft' \in 0..StepsLeft
    <3>1. UNCHANGED <<pc, journal, cursor>>
      BY <1>1, <2>5 DEF Next, Run, Environment, Fault, Acquire, Observe, Begin, StageOne, SaveOnly,
         WriteNext, WriteJournal, Leave, FailWriteNext, FailWriteJournal, Crash, LocalEdit, process,
         ApplyPcs
    <3>2. StepsLeft' = StepsLeft
      BY <3>1 DEF StepsLeft
    <3>3. QED
      BY <2>2, <3>2
  <2>6. QED
    BY <2>2, <2>3, <2>4, <2>5 DEF ApplyAdvances
<1>2. InductiveInvariant /\ [Next]_vars => [ApplyAdvances]_vars
  BY <1>1 DEF ApplyAdvances
<1> QED BY <1>2, Invariance, PTL DEF Spec
=============================================================================
