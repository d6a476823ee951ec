------------------------ MODULE TransactionRefinement -----------------------
(***************************************************************************)
(* Transaction implements AtomicMirror: staging, journal, renames and      *)
(* recovery look like one step of it, wherever a run dies.  The switches   *)
(* are off, which is to say that the two windows they stand for do not     *)
(* occur: an edit between digest check and rename, a late journal error.   *)
(***************************************************************************)
EXTENDS TransactionProofs

(* The update being staged drops no owner.                                 *)
OwnersKept ==
  pc \in {"staging", "journal"} =>
    \A p \in Path \ plan.todo : plan.next.hash[p] = Absent => manifest.hash[p] = Absent

LEMMA OwnersStep ==
  ASSUME InductiveInvariant, OwnersKept, [Next]_vars
  PROVE  OwnersKept'
<1>1. ASSUME NEW todo \in SUBSET Path, NEW next \in Manifest, Begin(todo, next)
      PROVE  OwnersKept'
  BY <1>1, HashAssumption DEF Begin, WellFormed, OwnersKept
<1>2. ASSUME NEW p \in Path, NEW h \in Hash, StageOne(p, h) PROVE OwnersKept'
  <2>1. /\ pc = "staging" /\ manifest' = manifest /\ plan.next.hash \in [Path -> Content]
        /\ plan'.todo = plan.todo \ {p}
        /\ plan'.next.hash = [plan.next.hash EXCEPT ![p] = h]
    BY <1>2, PlanFacts DEF StageOne, InductiveInvariant
  <2>2. QED
    BY <2>1, HashAssumption DEF OwnersKept
<1>3. CASE WriteNext
  BY <1>3 DEF WriteNext, OwnersKept
<1>4. CASE pc' \notin {"staging", "journal"}
  BY <1>4 DEF OwnersKept
<1>5. CASE UNCHANGED <<pc, plan, manifest>>
  BY <1>5 DEF OwnersKept
<1>6. QED
  BY <1>1, <1>2, <1>3, <1>4, <1>5
     DEF Next, Run, Environment, Fault, ApplyJournal, Acquire, Observe, SaveOnly, WriteJournal,
         Leave, CheckStaged, CheckInstalled, Install, Verify, Publish, CheckPublished, Clean,
         Clear, Refuse, FailWriteNext, FailWriteJournal, Crash, LocalEdit, vars, disk, process

RInv == InductiveInvariant /\ OwnersKept

-----------------------------------------------------------------------------
(* The effective store and manifest.                                       *)

(* Without a committed transaction they are the real ones.                 *)
LEMMA EffectiveIdle ==
  ASSUME InductiveInvariant, ~Committed
  PROVE  EffectiveStore = store /\ EffectiveManifest = manifest
BY DEF InductiveInvariant, TypeOK, EffectiveStore, EffectiveManifest, Pending

LEMMA EffectiveSame ==
  ASSUME UNCHANGED <<store, stage, journal, nextManifest, manifest>>
  PROVE  UNCHANGED <<EffectiveStore, EffectiveManifest>>
BY DEF EffectiveStore, EffectiveManifest, Pending, Committed, Staged

LEMMA EffectiveType ==
  ASSUME InductiveInvariant
  PROVE  EffectiveStore \in [Path -> Content] /\ EffectiveManifest \in Manifest
<1>1. EffectiveManifest \in Manifest
  BY DEF InductiveInvariant, TypeOK, EffectiveManifest, Committed
<1>2. ASSUME NEW p \in Path PROVE (IF Pending(p) THEN stage[p] ELSE store[p]) \in Content
  <2>1. CASE Pending(p)
    BY <2>1 DEF InductiveInvariant, TypeOK, Pending, Staged
  <2>2. CASE ~Pending(p)
    BY <2>2 DEF InductiveInvariant, TypeOK
  <2>3. QED
    BY <2>1, <2>2
<1>3. QED
  BY <1>1, <1>2 DEF EffectiveStore

-----------------------------------------------------------------------------
(* The steps that AtomicMirror can see.                                    *)

(* The journal commits the update (store.rs:226-254).                      *)
LEMMA WriteJournalCommits ==
  ASSUME RInv, WriteJournal PROVE Atomic!Next
<1> DEFINE todo == {p \in Path : \E i \in DOMAIN plan.ops : plan.ops[i].path = p}
<1> USE DEF RInv, InductiveInvariant
<1>1. /\ pc = "journal" /\ plan.todo = {} /\ plan.next \in Manifest /\ seen' = Nothing
      /\ journal = None /\ journal' = plan.ops /\ plan.ops # <<>>
      /\ UNCHANGED <<store, stage, nextManifest, manifest>> /\ nextManifest = plan.next
      /\ edited' = edited \ KnownAtCommit /\ stage # None
      /\ journal' # None /\ nextManifest # None
  BY WriteJournalFacts, PlanFacts DEF WriteJournal, Phases, PlanPcs
<1>2. EffectiveStore = store /\ EffectiveManifest = manifest
  BY <1>1, EffectiveIdle DEF Committed
<1>3. EffectiveManifest' = plan.next
  BY <1>1 DEF EffectiveManifest, Committed
<1>4. ASSUME NEW p \in Path, p \in todo
      PROVE  /\ stage[p] = plan.next.hash[p] /\ plan.next.hash[p] \in Hash /\ seen[p] # Unread
             /\ Pending(p)' <=> store[p] = seen[p]
  <2>1. PICK i \in DOMAIN plan.ops : plan.ops[i].path = p
    BY <1>4
  <2>2. /\ stage[p] = plan.next.hash[p] /\ plan.next.hash[p] \in Hash /\ stage[p] # Absent
        /\ plan.ops[i].before = seen[p] /\ seen[p] # Unread
    BY <1>1, <2>1, PlanFacts, HashAssumption DEF Content
  <2>3. \A j \in DOMAIN plan.ops : plan.ops[j].path = p => j = i
    BY <1>1, <2>1, PlanFacts DEF DistinctPaths
  <2>4. QED
    BY <1>1, <2>1, <2>2, <2>3 DEF Pending, Committed, Staged
<1>5. ASSUME NEW p \in Path, p \notin todo
      PROVE  /\ ~Pending(p)'
             /\ \/ plan.next.hash[p] = seen[p] /\ plan.next.hash[p] \in Hash
                \/ plan.next.hash[p] = Absent /\ manifest.hash[p] = Absent
  BY <1>1, <1>5, PlanFacts DEF Pending, OwnersKept
<1>6. EffectiveStore' = [p \in Path |-> IF p \in todo /\ store[p] = seen[p]
                                       THEN plan.next.hash[p] ELSE store[p]]
  BY <1>1, <1>4, <1>5 DEF EffectiveStore
<1>7. edited' = {p \in edited : store[p] # seen[p]}
  BY <1>1 DEF KnownAtCommit, TypeOK
<1> HIDE DEF todo, RInv, InductiveInvariant
<1>8. Atomic!Allowed(todo, plan.next)
  BY <1>2, <1>4, <1>5 DEF Atomic!Allowed
<1>9. Atomic!Update(todo, plan.next)
  BY <1>1, <1>2, <1>3, <1>6, <1>7 DEF Atomic!Update, Atomic!Nothing, Nothing
<1>10. plan.next \in Atomic!Manifest /\ todo \in SUBSET Path
  BY <1>1 DEF Atomic!Manifest, Atomic!Content, Manifest, Content, todo
<1>11. QED
  BY <1>3, <1>8, <1>9, <1>10 DEF Atomic!Next, Atomic!Commit

(* An update without operations replaces the manifest alone.               *)
LEMMA SaveOnlyCommits ==
  ASSUME RInv, SaveOnly PROVE Atomic!Next
<1> USE DEF RInv, InductiveInvariant
<1>1. /\ pc = "staging" /\ plan.todo = {} /\ plan.ops = <<>> /\ plan.next \in Manifest
      /\ journal = None /\ manifest' = plan.next /\ edited' = edited \ KnownAtCommit
      /\ seen' = Nothing /\ UNCHANGED <<store, journal, nextManifest>>
  BY PlanFacts DEF SaveOnly, Phases, PlanPcs
<1>2. /\ EffectiveStore = store /\ EffectiveManifest = manifest
      /\ EffectiveStore' = store /\ EffectiveManifest' = plan.next
  <2>1. ~Committed /\ ~Committed'
    BY <1>1 DEF Committed
  <2>2. store = [p \in Path |-> store[p]]
    BY DEF TypeOK
  <2>3. QED
    BY <1>1, <2>1, <2>2 DEF EffectiveStore, EffectiveManifest, Pending
<1>3. \A p \in Path : \/ plan.next.hash[p] = seen[p] /\ plan.next.hash[p] \in Hash
                      \/ plan.next.hash[p] = Absent /\ manifest.hash[p] = Absent
  BY <1>1, PlanFacts DEF OwnersKept
<1>4. edited' = {p \in edited : store[p] # seen[p]}
  BY <1>1 DEF KnownAtCommit, TypeOK
<1>5. store = [p \in Path |-> IF p \in {} /\ store[p] = seen[p]
                             THEN plan.next.hash[p] ELSE store[p]]
  BY DEF TypeOK
<1> HIDE DEF RInv, InductiveInvariant
<1>6. Atomic!Allowed({}, plan.next) /\ Atomic!Update({}, plan.next)
  BY <1>1, <1>2, <1>3, <1>4, <1>5 DEF Atomic!Allowed, Atomic!Update, Atomic!Nothing, Nothing
<1>7. plan.next \in Atomic!Manifest
  BY <1>1 DEF Atomic!Manifest, Atomic!Content, Manifest, Content
<1>8. QED
  BY <1>2, <1>6, <1>7 DEF Atomic!Next, Atomic!Commit

(* An edit of an entry to the contents a waiting operation expects makes    *)
(* that operation pending again: AtomicMirror sees the new ciphertext.      *)
LEMMA EditVisible ==
  ASSUME RInv, NEW p \in Path, NEW h \in Content, LocalEdit(p, h) PROVE Atomic!Next
<1> USE DEF RInv, InductiveInvariant
<1>1. /\ store' = [store EXCEPT ![p] = h] /\ edited' = edited \cup {p}
      /\ UNCHANGED <<stage, nextManifest, journal, manifest, seen>>
  BY DEF LocalEdit, process
<1>2. store' \in [Path -> Content]
  BY <1>1 DEF TypeOK
<1>3. EffectiveManifest' = EffectiveManifest
  BY <1>1 DEF EffectiveManifest, Committed
<1>4. ASSUME NEW q \in Path, q # p PROVE EffectiveStore'[q] = EffectiveStore[q]
  <2>1. store'[q] = store[q]
    BY <1>1, <1>4 DEF TypeOK
  <2>2. Pending(q)' <=> Pending(q)
    BY <1>1, <2>1 DEF Pending, Committed, Staged
  <2>3. QED
    BY <1>1, <2>1, <2>2 DEF EffectiveStore
<1>5. EffectiveStore'[p] \in Content
  <2>1. CASE Pending(p)'
    BY <1>1, <2>1 DEF TypeOK, Pending, Staged, EffectiveStore
  <2>2. CASE ~Pending(p)'
    BY <1>2, <2>2 DEF EffectiveStore
  <2>3. QED
    BY <2>1, <2>2
<1>6. EffectiveStore' = [EffectiveStore EXCEPT ![p] = EffectiveStore'[p]]
  <2>1. EffectiveStore' = [q \in Path |-> EffectiveStore'[q]]
    BY DEF EffectiveStore
  <2>2. EffectiveStore \in [Path -> Content]
    BY EffectiveType
  <2>3. QED
    BY <1>4, <2>1, <2>2
<1>7. Atomic!Edit(p, EffectiveStore'[p])
  BY <1>1, <1>3, <1>6 DEF Atomic!Edit
<1>8. QED
  BY <1>5, <1>7 DEF Atomic!Next, Atomic!Content, Content

-----------------------------------------------------------------------------
(* The steps that it cannot see.                                           *)

(* A rename does what the journal has promised (store.rs:288).             *)
LEMMA InstallInvisible ==
  ASSUME LateJournalError = FALSE, EditDuringInstall = FALSE, RInv, Install
  PROVE  UNCHANGED Atomic!vars
<1> USE DEF RInv
<1>1. Committed /\ Committed' /\ store[op.path] = op.before
  BY InstallFacts DEF Committed, InductiveInvariant, CursorConsistent, ApplyPcs
<1>2. ASSUME NEW p \in Path
      PROVE  (IF Pending(p)' THEN stage'[p] ELSE store'[p]) = IF Pending(p) THEN stage[p] ELSE store[p]
  <2>1. CASE p = op.path
    <3>1. Pending(p) /\ ~Pending(p)'
      BY <1>1, <2>1, InstallFacts DEF Pending, Staged, op
    <3>2. QED
      BY <2>1, <3>1, InstallFacts
  <2>2. CASE p # op.path
    <3>1. Pending(p)' <=> Pending(p)
      BY <2>2, InstallFacts DEF Pending, Committed, Staged
    <3>2. QED
      BY <2>2, <3>1, InstallFacts
  <2>3. QED
    BY <2>1, <2>2
<1>3. EffectiveStore' = EffectiveStore
  BY <1>2 DEF EffectiveStore
<1>4. EffectiveManifest' = EffectiveManifest
  BY <1>1, InstallFacts DEF EffectiveManifest
<1>5. QED
  BY <1>3, <1>4 DEF Atomic!vars, Install

(* The next manifest is published when all is installed (store.rs:307-318). *)
LEMMA PublishInvisible ==
  ASSUME RInv, Publish PROVE UNCHANGED Atomic!vars
<1> USE DEF RInv, InductiveInvariant
<1>1. /\ journal # None /\ nextManifest # None /\ nextManifest' = None /\ manifest' = nextManifest
      /\ \A i \in DOMAIN journal : ~Staged(journal[i])
      /\ UNCHANGED <<store, stage, journal, seen, edited>>
  BY DEF Publish, Phases, CursorConsistent, ApplyPcs
<1>2. \A p \in Path : ~Pending(p) /\ ~Pending(p)'
  BY <1>1 DEF Pending, Committed
<1>3. EffectiveStore' = EffectiveStore
  BY <1>1, <1>2 DEF EffectiveStore
<1>4. EffectiveManifest' = EffectiveManifest
  BY <1>1 DEF EffectiveManifest, Committed
<1>5. QED
  BY <1>1, <1>3, <1>4 DEF Atomic!vars

(* Files that nothing refers to come and go.                               *)
LEMMA SpareFilesInvisible ==
  ASSUME RInv, ~Committed, ~Committed', UNCHANGED <<store, manifest>>
  PROVE  UNCHANGED <<EffectiveStore, EffectiveManifest>>
BY DEF RInv, EffectiveStore, EffectiveManifest, Pending

(* A run ends: what it has read is forgotten.                              *)
LEMMA EndForgets ==
  ASSUME UNCHANGED <<EffectiveStore, EffectiveManifest, edited>>, seen' = Nothing
  PROVE  Atomic!Next
BY DEF Atomic!Next, Atomic!Forget, Atomic!Nothing, Nothing

LEMMA StepRefines ==
  ASSUME LateJournalError = FALSE, EditDuringInstall = FALSE, RInv, [Next]_vars
  PROVE  [Atomic!Next]_(Atomic!vars)
<1>1. ASSUME NEW P \in SUBSET Path, Observe(P) PROVE Atomic!Next
  <2>1. ~Committed /\ UNCHANGED <<EffectiveStore, EffectiveManifest>>
    BY <1>1, EffectiveSame DEF Observe, RInv, InductiveInvariant, Phases, PlanPcs, Committed, disk
  <2>2. EffectiveStore = store
    BY <2>1, EffectiveIdle DEF RInv
  <2>3. Atomic!Observe(P)
    BY <1>1, <2>1, <2>2 DEF Observe, Atomic!Observe
  <2>4. QED
    BY <2>3 DEF Atomic!Next
<1>2. CASE UNCHANGED <<disk, edited, seen>>
  BY <1>2, EffectiveSame DEF disk, Atomic!vars
<1>3. CASE Leave \/ (Crash /\ journal # None)
  <2>1. UNCHANGED <<disk, edited>> /\ seen' = Nothing
    BY <1>3 DEF Leave, Crash, disk
  <2>2. QED
    BY <2>1, EffectiveSame, EndForgets DEF disk
<1>4. CASE FailWriteNext \/ FailWriteJournal \/ (Crash /\ journal = None)
  <2>1. journal = None /\ journal' = None /\ UNCHANGED <<store, manifest, edited>> /\ seen' = Nothing
    BY <1>4 DEF FailWriteNext, FailWriteJournal, Crash, RInv, InductiveInvariant, Phases, PlanPcs
  <2>2. QED
    BY <2>1, SpareFilesInvisible, EndForgets DEF Committed
<1>5. ASSUME ~Committed, ~Committed', UNCHANGED <<store, manifest, edited, seen>>
      PROVE  UNCHANGED Atomic!vars
  BY <1>5, SpareFilesInvisible DEF Atomic!vars
<1>6. CASE WriteNext \/ Clean \/ Clear
  BY <1>5, <1>6 DEF WriteNext, Clean, Clear, RInv, InductiveInvariant, Phases, PlanPcs, Committed
<1>7. ASSUME NEW todo \in SUBSET Path, NEW next \in Manifest, Begin(todo, next)
      PROVE  UNCHANGED Atomic!vars
  BY <1>5, <1>7 DEF Begin, RInv, InductiveInvariant, Phases, PlanPcs, Committed
<1>8. ASSUME NEW p \in Path, NEW h \in Hash, StageOne(p, h) PROVE UNCHANGED Atomic!vars
  BY <1>5, <1>8 DEF StageOne, RInv, InductiveInvariant, Phases, PlanPcs, Committed
<1>9. CASE \/ Acquire \/ CheckStaged \/ CheckInstalled \/ Verify \/ CheckPublished \/ Refuse
           \/ UNCHANGED vars
  BY <1>2, <1>9 DEF Acquire, CheckStaged, CheckInstalled, Verify, CheckPublished, Refuse,
     vars, process
<1>10. ASSUME NEW p \in Path, NEW h \in Content, LocalEdit(p, h) PROVE Atomic!Next
  BY <1>10, EditVisible
<1>11. CASE WriteJournal \/ SaveOnly \/ Install \/ Publish
  BY <1>11, WriteJournalCommits, SaveOnlyCommits, InstallInvisible, PublishInvisible
<1>12. CASE Crash
  BY <1>3, <1>4, <1>12
<1>13. CASE ApplyJournal
  BY <1>6, <1>9, <1>11, <1>13 DEF ApplyJournal
<1>14. CASE Run
  <2>1. CASE \E P \in SUBSET Path : Observe(P)
    BY <1>1, <2>1
  <2>2. CASE \E todo \in SUBSET Path, next \in Manifest : Begin(todo, next)
    BY <1>7, <2>2
  <2>3. CASE \E p \in Path, h \in Hash : StageOne(p, h)
    BY <1>8, <2>3
  <2>4. CASE Acquire \/ SaveOnly \/ WriteNext \/ WriteJournal \/ Leave \/ ApplyJournal
    BY <1>3, <1>6, <1>9, <1>11, <1>13, <2>4
  <2>5. QED
    BY <1>14, <2>1, <2>2, <2>3, <2>4 DEF Run
<1>15. CASE Environment
  BY <1>4, <1>10, <1>12, <1>15 DEF Environment, Fault
<1>16. QED
  BY <1>9, <1>14, <1>15 DEF Next

-----------------------------------------------------------------------------
(* With its journal and recovery (store.rs:212-349) the program has the     *)
(* one step of AtomicMirror that it cannot have on disk: an update takes    *)
(* effect as a whole or not at all, whatever it dies of, and spares what    *)
(* others wrote.  Premises: no edit of an entry between its check and its   *)
(* rename, and no journal left behind by a failed write of it.              *)
THEOREM TransactionIsAtomic ==
  ASSUME LateJournalError = FALSE, EditDuringInstall = FALSE
  PROVE  Spec => ImplementsAtomicMirror
<1>1. Init => RInv
  BY InitInvariant DEF Init, RInv, OwnersKept
<1>2. RInv /\ [Next]_vars => RInv'
  BY OwnersStep, TypeStep, PhasesStep, SeenStep, PlanStep, JournalStep, CursorStep
     DEF RInv, InductiveInvariant
<1>3. Init => Atomic!Init
  <2>1. ASSUME Init PROVE EffectiveStore = store /\ EffectiveManifest = manifest
    BY <2>1, InitInvariant, EffectiveIdle DEF Init, Committed
  <2>2. EmptyManifest \in [hash : {[p \in Path |-> Absent]}, meta : Meta]
    BY MetaAssumption DEF EmptyManifest
  <2>3. QED
    BY <2>1, <2>2 DEF Init, Atomic!Init, Atomic!Content, Content, Atomic!Nothing, Nothing
<1>4. RInv /\ [Next]_vars => [Atomic!Next]_(Atomic!vars)
  BY StepRefines
<1>5. QED
  BY <1>1, <1>2, <1>3, <1>4, PTL DEF Spec, ImplementsAtomicMirror, Atomic!Spec

-----------------------------------------------------------------------------
(* What AtomicMirror promises, of the transaction.                          *)
Promise == INSTANCE AtomicMirrorProofs
             WITH store <- EffectiveStore, manifest <- EffectiveManifest

LEMMA TransactionIsPromised == ImplementsAtomicMirror => Promise!Spec
<1>1. Atomic!Init => Promise!Init
  BY DEF Atomic!Init, Promise!Init, Atomic!Content, Promise!Content, Atomic!Nothing, Promise!Nothing
<1>2. [Atomic!Next]_(Atomic!vars) => [Promise!Next]_(Promise!vars)
  BY DEF Atomic!Next, Promise!Next, Atomic!vars, Promise!vars, Atomic!Observe, Promise!Observe,
     Atomic!Commit, Promise!Commit, Atomic!Allowed, Promise!Allowed, Atomic!Update, Promise!Update,
     Atomic!Manifest, Promise!Manifest, Atomic!Forget, Promise!Forget, Atomic!Edit, Promise!Edit,
     Atomic!Content, Promise!Content, Atomic!Nothing, Promise!Nothing
<1>3. QED
  BY <1>1, <1>2, PTL DEF ImplementsAtomicMirror, Atomic!Spec, Promise!Spec

(* Counting a committed transaction as finished, no step, death or failure  *)
(* makes the program give up an entry it owns (README.md:109).              *)
THEOREM NoOwnerIsLost ==
  ASSUME LateJournalError = FALSE, EditDuringInstall = FALSE
  PROVE  Spec => Atomic!OwnersStay
<1>1. Promise!Spec => Promise!OwnersStay
  BY HashAssumption, Promise!MirrorKeepsOwners
<1>2. Promise!OwnersStay => Atomic!OwnersStay
  BY DEF Promise!OwnersStay, Atomic!OwnersStay, Promise!vars, Atomic!vars
<1>3. QED
  BY <1>1, <1>2, TransactionIsAtomic, TransactionIsPromised, PTL

-----------------------------------------------------------------------------
(* The caller of this module is generic, sync and import are in modules of  *)
(* their own, which commit in one step what AtomicMirror allows.  Whatever  *)
(* that is, the transaction can be asked for it and stages exactly it.      *)

(* The manifest a caller begins with: entries still to be encrypted have no *)
(* digest yet.                                                              *)
Cleared(todo, next) ==
  [hash |-> [p \in Path |-> IF p \in todo THEN Absent ELSE next.hash[p]], meta |-> next.meta]

(* Part of the update (todo, next) is staged, and nothing else.             *)
Staging(todo, next) ==
  /\ pc = "staging" /\ plan.todo \subseteq todo
  /\ plan.next = Cleared(plan.todo, next)
  /\ \A p \in todo \ plan.todo :
       \E i \in DOMAIN plan.ops : plan.ops[i] = [path |-> p, before |-> seen[p], after |-> next.hash[p]]
  /\ \A i \in DOMAIN plan.ops : plan.ops[i].path \in todo

(* The sequence of StagingArea::new, stage and commit_transaction           *)
(* (store.rs:33-125, 212-240) can carry out every update AtomicMirror       *)
(* allows that changes all it writes: the caller may begin it, each entry   *)
(* it encrypts is a step of it, and what is committed when all are is the   *)
(* next manifest with one operation for every entry.                        *)
THEOREM UpdatesCanBeStaged ==
  ASSUME InductiveInvariant, NEW todo \in SUBSET Path, NEW next \in Manifest
  PROVE  /\ pc = "ready" /\ Atomic!Allowed(todo, next) =>
              /\ WellFormed(todo, Cleared(todo, next)) /\ Cleared(todo, next) \in Manifest
              /\ Begin(todo, Cleared(todo, next)) => Staging(todo, next)'
         /\ \A p \in todo :
              Staging(todo, next) /\ StageOne(p, next.hash[p]) =>
                 Staging(todo, next)' /\ plan'.todo = plan.todo \ {p}
         /\ Staging(todo, next) /\ plan.todo = {} =>
              /\ plan.next = next
              /\ {plan.ops[i] : i \in DOMAIN plan.ops} =
                    {[path |-> p, before |-> seen[p], after |-> next.hash[p]] : p \in todo}
<1>1. ASSUME pc = "ready", Atomic!Allowed(todo, next)
      PROVE  /\ WellFormed(todo, Cleared(todo, next)) /\ Cleared(todo, next) \in Manifest
             /\ Begin(todo, Cleared(todo, next)) => Staging(todo, next)'
  <2>1. EffectiveManifest = manifest
    BY <1>1 DEF InductiveInvariant, Phases, PlanPcs, EffectiveManifest, Committed
  <2>2. WellFormed(todo, Cleared(todo, next))
    BY <1>1, <2>1, HashAssumption DEF Atomic!Allowed, WellFormed, Cleared
  <2>3. Cleared(todo, next) \in Manifest
    BY DEF Cleared, Manifest, Content
  <2>4. Begin(todo, Cleared(todo, next)) => Staging(todo, next)'
    BY DEF Begin, Staging, Cleared
  <2>5. QED
    BY <2>2, <2>3, <2>4
<1>2. ASSUME NEW p \in todo, Staging(todo, next), StageOne(p, next.hash[p])
      PROVE  Staging(todo, next)' /\ plan'.todo = plan.todo \ {p}
  <2> DEFINE o == [path |-> p, before |-> seen[p], after |-> next.hash[p]]
  <2>1. /\ pc = "staging" /\ pc' = "staging" /\ seen' = seen /\ p \in plan.todo
        /\ plan'.todo = plan.todo \ {p} /\ plan'.ops = Append(plan.ops, o)
        /\ plan'.next = [hash |-> [plan.next.hash EXCEPT ![p] = next.hash[p]], meta |-> plan.next.meta]
        /\ plan.ops \in Seq(Op)
    BY <1>2, PlanFacts DEF StageOne, InductiveInvariant
  <2>2. plan'.next = Cleared(plan'.todo, next)
    BY <1>2, <2>1 DEF Staging, Cleared, Manifest
  <2>3. /\ \A i \in DOMAIN plan.ops : i \in DOMAIN plan'.ops /\ plan'.ops[i] = plan.ops[i]
        /\ \A i \in DOMAIN plan'.ops : plan'.ops[i] = o \/ (i \in DOMAIN plan.ops /\ plan'.ops[i] = plan.ops[i])
        /\ \E i \in DOMAIN plan'.ops : plan'.ops[i] = o
    BY <2>1
  <2>4. ASSUME NEW q \in todo \ plan'.todo
        PROVE  \E i \in DOMAIN plan'.ops :
                  plan'.ops[i] = [path |-> q, before |-> seen'[q], after |-> next.hash[q]]
    BY <1>2, <2>1, <2>3 DEF Staging
  <2>5. \A i \in DOMAIN plan'.ops : plan'.ops[i].path \in todo
    BY <1>2, <2>3 DEF Staging
  <2>6. QED
    BY <1>2, <2>1, <2>2, <2>4, <2>5 DEF Staging, Cleared
<1>3. ASSUME Staging(todo, next), plan.todo = {}
      PROVE  /\ plan.next = next
             /\ {plan.ops[i] : i \in DOMAIN plan.ops} =
                   {[path |-> p, before |-> seen[p], after |-> next.hash[p]] : p \in todo}
  <2>1. plan.next = next
    BY <1>3 DEF Staging, Cleared, Manifest
  <2>2. ASSUME NEW i \in DOMAIN plan.ops
        PROVE  \E p \in todo : plan.ops[i] = [path |-> p, before |-> seen[p], after |-> next.hash[p]]
    <3>1. PICK j \in DOMAIN plan.ops :
            plan.ops[j] = [path |-> plan.ops[i].path, before |-> seen[plan.ops[i].path],
                           after |-> next.hash[plan.ops[i].path]]
      BY <1>3 DEF Staging
    <3>2. i = j
      BY <1>3, <3>1 DEF InductiveInvariant, PlanConsistent, DistinctPaths, Staging
    <3>3. QED
      BY <1>3, <3>1, <3>2 DEF Staging
  <2>3. ASSUME NEW p \in todo
        PROVE  \E i \in DOMAIN plan.ops :
                  plan.ops[i] = [path |-> p, before |-> seen[p], after |-> next.hash[p]]
    BY <1>3 DEF Staging
  <2> DEFINE done == {plan.ops[i] : i \in DOMAIN plan.ops}
             asked == {[path |-> p, before |-> seen[p], after |-> next.hash[p]] : p \in todo}
  <2>4. ASSUME NEW x \in done PROVE x \in asked
    <3>1. PICK i \in DOMAIN plan.ops : x = plan.ops[i]
      OBVIOUS
    <3>2. PICK p \in todo : plan.ops[i] = [path |-> p, before |-> seen[p], after |-> next.hash[p]]
      BY <2>2
    <3>3. QED
      BY <3>1, <3>2
  <2>5. asked \subseteq done
    BY <2>3, Zenon
  <2>6. done = asked
    BY <2>4, <2>5, Zenon
  <2>7. QED
    BY <2>1, <2>6
<1>4. QED
  BY <1>1, <1>2, <1>3
=============================================================================
