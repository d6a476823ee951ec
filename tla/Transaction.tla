---------------------------- MODULE Transaction -----------------------------
(***************************************************************************)
(* The write-ahead transaction of proton-pass-sync: store.rs (staging,     *)
(* commit_transaction, recover_transaction, apply_journal) with the lock,  *)
(* the manifest and the journal of manifest.rs.                            *)
(*                                                                         *)
(* Every command that changes the store takes an exclusive advisory lock   *)
(* (a second process fails at once and changes nothing), finishes the      *)
(* transaction a dead process left behind, and only then does its own      *)
(* work.  So the processes are one sequence of runs and `pc' is where the  *)
(* current one stands; pc = "idle" is the lock being free.  What is        *)
(* concurrent is the environment: users edit and delete entries of the     *)
(* store at any moment, and a run dies or fails at any step.               *)
(*                                                                         *)
(* The caller (sync.rs, delivery.rs) is generic here: it observes entries, *)
(* then asks for any update that respects its side of the contract         *)
(* (WellFormed).  Module Sync has the real one and is shown to respect it. *)
(***************************************************************************)
EXTENDS Naturals, Sequences

CONSTANTS Path,     \* entries of the password store
          Hash,     \* digests of ciphertexts; encryption yields fresh ones
          Absent,   \* no file, or no owner
          Unread,   \* not observed by this run
          None,     \* no staging directory, journal, manifest.next or plan
          Meta,     \* what a manifest records beside path and digest
          EmptyMeta, \* ... in Manifest::empty
          EditDuringInstall, \* edits fall between the digest check and the
                             \* rename of the same entry (store.rs:279-288)
          LateJournalError   \* write_journal fails after it has renamed the
                             \* journal into place (manifest.rs:243-252)

ASSUME HashAssumption == Absent \notin Hash /\ Unread \notin Hash /\ Unread # Absent
ASSUME MetaAssumption == EmptyMeta \in Meta
ASSUME SwitchAssumption == EditDuringInstall \in BOOLEAN /\ LateJournalError \in BOOLEAN

VARIABLES store,        \* password store: digest of every entry or Absent
          stage,        \* staging directory: None, or digest of its files
          nextManifest, \* manifest.next.json
          journal,      \* transaction.json: None or a sequence of operations
          manifest,     \* manifest.json: digest per owned path, and the rest
          pc,           \* where the current run stands
          cursor,       \* operation of the journal being applied
          recovering,   \* apply_journal was called by recover_transaction
          seen,         \* digests the run has read for its preflight
          plan          \* update being staged: paths to do, next manifest, ops

(* History: entries changed by others since an update that knew their      *)
(* contents was committed.                                                 *)
VARIABLE edited

disk == <<store, stage, nextManifest, journal, manifest>>
process == <<pc, cursor, recovering, seen, plan>>
vars == <<disk, process, edited>>

-----------------------------------------------------------------------------
(* Data.                                                                   *)

Content == Hash \cup {Absent}
Manifest == [hash : [Path -> Content], meta : Meta]
EmptyManifest == [hash |-> [p \in Path |-> Absent], meta |-> EmptyMeta]
Op == [path : Path, before : Content, after : Hash]
Plan == [todo : SUBSET Path, next : Manifest, ops : Seq(Op)]
Nothing == [p \in Path |-> Unread]
NoFiles == [p \in Path |-> Absent]

ASSUME NoneAssumption == None \notin [Path -> Content] /\ None \notin Manifest /\ None \notin Seq(Op)

PlanPcs == {"ready", "staging", "journal"}
ApplyPcs == {"check", "install", "verify", "publish", "clean", "clear"}

op == journal[cursor]
Staged(o) == stage # None /\ stage[o.path] # Absent

(* The caller's contract: what it hands to commit_transaction.  Entries to *)
(* stage were observed; any other entry keeps its owner's digest only      *)
(* where the observed contents still have it, and none loses its owner.    *)
WellFormed(todo, next) ==
  \A p \in Path :
     IF p \in todo
     THEN seen[p] # Unread /\ next.hash[p] = Absent
     ELSE \/ next.hash[p] = seen[p] /\ seen[p] \in Hash
          \/ next.hash[p] = Absent /\ manifest.hash[p] = Absent

Init ==
  /\ store \in [Path -> Content]
  /\ stage = None
  /\ nextManifest = None
  /\ journal = None
  /\ manifest = EmptyManifest
  /\ pc = "idle"
  /\ cursor = 1
  /\ recovering = FALSE
  /\ seen = Nothing
  /\ plan = None
  /\ edited = {}

-----------------------------------------------------------------------------
(* A run, from the lock to the commit.                                     *)

(* Mutant of Acquire: the journal of a dead run is not finished first.     *)
AcquireWithoutRecovery ==
  /\ pc = "idle"
  /\ pc' = "ready"
  /\ recovering' = FALSE
  /\ cursor' = 1
  /\ UNCHANGED <<disk, seen, plan, edited>>

(* StateLock::acquire, then recover_transaction up to apply_journal.       *)
Acquire ==
  /\ pc = "idle"
  /\ pc' = IF journal = None THEN "ready" ELSE "check"
  /\ recovering' = (journal # None)
  /\ cursor' = 1
  /\ UNCHANGED <<disk, seen, plan, edited>>

(* current_hash on some entries of the store.                              *)
Observe(P) ==
  /\ pc = "ready"
  /\ \A p \in P : seen[p] = Unread
  /\ seen' = [p \in Path |-> IF p \in P THEN store[p] ELSE seen[p]]
  /\ UNCHANGED <<disk, pc, cursor, recovering, plan, edited>>

(* StagingArea::new: the caller has decided what to write.                 *)
Begin(todo, next) ==
  /\ pc = "ready"
  /\ WellFormed(todo, next)
  /\ stage' = NoFiles
  /\ plan' = [todo |-> todo, next |-> next, ops |-> <<>>]
  /\ pc' = "staging"
  /\ UNCHANGED <<store, nextManifest, journal, manifest, cursor, recovering, seen, edited>>

(* StagingArea::stage / stage_ciphertext of one entry: the new ciphertext  *)
(* and its digest, which the caller adds to the next manifest.             *)
StageOne(p, h) ==
  /\ pc = "staging"
  /\ p \in plan.todo
  /\ h # seen[p]
  /\ stage' = [stage EXCEPT ![p] = h]
  /\ plan' = [todo |-> plan.todo \ {p},
              next |-> [hash |-> [plan.next.hash EXCEPT ![p] = h], meta |-> plan.next.meta],
              ops  |-> Append(plan.ops, [path |-> p, before |-> seen[p], after |-> h])]
  /\ UNCHANGED <<store, nextManifest, journal, manifest, pc, cursor, recovering, seen, edited>>

(* Entries whose observed contents the committed update rests on.          *)
KnownAtCommit == {p \in Path : store[p] = seen[p]}

(* commit_transaction with nothing staged: the manifest is replaced alone, *)
(* the run ends and the staging directory is dropped.                      *)
SaveOnly ==
  /\ pc = "staging" /\ plan.todo = {} /\ plan.ops = <<>>
  /\ manifest' = plan.next
  /\ edited' = edited \ KnownAtCommit
  /\ stage' = None
  /\ pc' = "idle"
  /\ seen' = Nothing /\ plan' = None
  /\ UNCHANGED <<store, nextManifest, journal, cursor, recovering>>

(* Mutant of WriteNext: a journal without operations is written as well.   *)
WriteNextAlways ==
  /\ pc = "staging" /\ plan.todo = {}
  /\ nextManifest' = plan.next
  /\ pc' = "journal"
  /\ UNCHANGED <<store, stage, journal, manifest, cursor, recovering, seen, plan, edited>>

(* Mutant of WriteNext: the manifest itself is replaced before the journal *)
(* is there.                                                               *)
WriteNextInPlace ==
  /\ pc = "staging" /\ plan.todo = {} /\ plan.ops # <<>>
  /\ manifest' = plan.next /\ nextManifest' = plan.next
  /\ pc' = "journal"
  /\ UNCHANGED <<store, stage, journal, cursor, recovering, seen, plan, edited>>

(* commit_transaction: manifest.next.json.                                 *)
WriteNext ==
  /\ pc = "staging" /\ plan.todo = {} /\ plan.ops # <<>>
  /\ nextManifest' = plan.next
  /\ pc' = "journal"
  /\ UNCHANGED <<store, stage, journal, manifest, cursor, recovering, seen, plan, edited>>

(* ... which may fail before or after the file is in place: the staging    *)
(* directory goes, a manifest.next.json that was written stays.            *)
FailWriteNext ==
  /\ pc = "staging" /\ plan.todo = {} /\ plan.ops # <<>>
  /\ nextManifest' \in {nextManifest, plan.next}
  /\ stage' = None
  /\ pc' = "idle"
  /\ seen' = Nothing /\ plan' = None
  /\ UNCHANGED <<store, journal, manifest, cursor, recovering, edited>>

(* commit_transaction: the journal.  This is the commit point.             *)
WriteJournal ==
  /\ pc = "journal"
  /\ journal' = plan.ops
  /\ edited' = edited \ KnownAtCommit
  /\ cursor' = 1
  /\ pc' = "check"
  /\ recovering' = FALSE
  /\ seen' = Nothing /\ plan' = None
  /\ UNCHANGED <<store, stage, nextManifest, manifest>>

(* ... which may fail: next manifest and staging directory are removed,    *)
(* each only if that works.  When the error came after the rename the      *)
(* journal is there to stay.                                               *)
FailWriteJournal ==
  /\ pc = "journal"
  /\ journal' \in IF LateJournalError THEN {None, plan.ops} ELSE {None}
  /\ nextManifest' \in {None, nextManifest}
  /\ stage' \in IF journal' = None THEN {None} ELSE {None, stage}
  /\ pc' = "idle"
  /\ seen' = Nothing /\ plan' = None
  /\ UNCHANGED <<store, manifest, cursor, recovering, edited>>

(* The run ends without an update: a conflict, a remote error, a dry run.  *)
Leave ==
  /\ pc = "ready"
  /\ pc' = "idle"
  /\ seen' = Nothing
  /\ UNCHANGED <<disk, cursor, recovering, plan, edited>>

-----------------------------------------------------------------------------
(* apply_journal, by the run that committed or by the next one.            *)

(* Mutant of CheckStaged: the target is not compared.                      *)
CheckStagedOnly ==
  /\ pc = "check" /\ Staged(op)
  /\ stage[op.path] = op.after
  /\ pc' = "install"
  /\ UNCHANGED <<disk, cursor, recovering, seen, plan, edited>>

(* The entry is still staged: it must be intact, and its target must be    *)
(* what the run observed.                                                  *)
CheckStaged ==
  /\ pc = "check" /\ Staged(op)
  /\ stage[op.path] = op.after /\ store[op.path] = op.before
  /\ pc' = "install"
  /\ UNCHANGED <<disk, cursor, recovering, seen, plan, edited>>

(* A former attempt has installed the entry.                               *)
CheckInstalled ==
  /\ pc = "check" /\ ~Staged(op)
  /\ pc' = "verify"
  /\ UNCHANGED <<disk, cursor, recovering, seen, plan, edited>>

(* The rename from the staging directory to the store.                     *)
Install ==
  /\ pc = "install"
  /\ store' = [store EXCEPT ![op.path] = stage[op.path]]
  /\ stage' = [stage EXCEPT ![op.path] = Absent]
  /\ pc' = "verify"
  /\ UNCHANGED <<nextManifest, journal, manifest, cursor, recovering, seen, plan, edited>>

(* Mutant of Verify: the loop ends one operation early.                    *)
VerifyAllButLast ==
  /\ pc = "verify"
  /\ store[op.path] = op.after
  /\ IF cursor + 1 >= Len(journal)
     THEN pc' = "publish" /\ cursor' = cursor
     ELSE pc' = "check" /\ cursor' = cursor + 1
  /\ UNCHANGED <<disk, recovering, seen, plan, edited>>

(* The installed entry is read back.                                       *)
Verify ==
  /\ pc = "verify"
  /\ store[op.path] = op.after
  /\ IF cursor = Len(journal)
     THEN pc' = "publish" /\ cursor' = cursor
     ELSE pc' = "check" /\ cursor' = cursor + 1
  /\ UNCHANGED <<disk, recovering, seen, plan, edited>>

(* The next manifest replaces the manifest ...                             *)
Publish ==
  /\ pc = "publish" /\ nextManifest # None
  /\ manifest' = nextManifest
  /\ nextManifest' = None
  /\ pc' = "clean"
  /\ UNCHANGED <<store, stage, journal, cursor, recovering, seen, plan, edited>>

(* Mutant of Published: the digest of before the update is expected.       *)
PublishedBefore(o) == manifest.hash[o.path] = o.before

(* ... or a former attempt has done that.                                  *)
Published(o) == manifest.hash[o.path] = o.after

CheckPublished ==
  /\ pc = "publish" /\ nextManifest = None
  /\ \A i \in DOMAIN journal : Published(journal[i])
  /\ pc' = "clean"
  /\ UNCHANGED <<disk, cursor, recovering, seen, plan, edited>>

(* The staging directory is removed, then the journal.                     *)
Clean ==
  /\ pc = "clean"
  /\ stage' = None
  /\ pc' = "clear"
  /\ UNCHANGED <<store, nextManifest, journal, manifest, cursor, recovering, seen, plan, edited>>

(* After a recovery the run goes on with its own work.                     *)
Clear ==
  /\ pc = "clear"
  /\ journal' = None
  /\ pc' = IF recovering THEN "ready" ELSE "idle"
  /\ UNCHANGED <<store, stage, nextManifest, manifest, cursor, recovering, seen, plan, edited>>

(* The three checks of apply_journal that stop the run.  The journal stays.*)
Refuse ==
  /\ \/ pc = "check" /\ Staged(op)
        /\ (stage[op.path] # op.after \/ store[op.path] # op.before)
     \/ pc = "verify" /\ store[op.path] # op.after
     \/ pc = "publish" /\ nextManifest = None
        /\ \E i \in DOMAIN journal : ~Published(journal[i])
  /\ pc' = "idle"
  /\ UNCHANGED <<disk, cursor, recovering, seen, plan, edited>>

ApplyJournal ==
  CheckStaged \/ CheckInstalled \/ Install \/ Verify \/ Publish \/ CheckPublished
    \/ Clean \/ Clear \/ Refuse

-----------------------------------------------------------------------------
(* The environment.                                                        *)

(* Mutant of Crash: the staging directory is dropped although the journal  *)
(* needs it.                                                               *)
CrashDropsStage ==
  /\ pc # "idle"
  /\ pc' = "idle"
  /\ stage' = None
  /\ seen' = Nothing /\ plan' = None
  /\ UNCHANGED <<store, nextManifest, journal, manifest, cursor, recovering, edited>>

(* The process dies, or a call of it returns an error that it propagates.  *)
(* Without a journal the staging directory is no longer anyone's (an error *)
(* removes it, a kill leaves a directory that nothing reads again).        *)
Crash ==
  /\ pc # "idle"
  /\ pc' = "idle"
  /\ stage' = IF journal = None THEN None ELSE stage
  /\ seen' = Nothing /\ plan' = None
  /\ UNCHANGED <<store, nextManifest, journal, manifest, cursor, recovering, edited>>

(* A user, or another program, writes or deletes an entry (pass insert,    *)
(* edit, rm).  The advisory lock does not stop it.                         *)
LocalEdit(p, h) ==
  /\ h # store[p]
  /\ pc = "install" /\ ~EditDuringInstall => p # op.path
  /\ store' = [store EXCEPT ![p] = h]
  /\ edited' = edited \cup {p}
  /\ UNCHANGED <<stage, nextManifest, journal, manifest, process>>

-----------------------------------------------------------------------------
Run ==
  \/ Acquire
  \/ \E P \in SUBSET Path : Observe(P)
  \/ \E todo \in SUBSET Path, next \in Manifest : Begin(todo, next)
  \/ \E p \in Path, h \in Hash : StageOne(p, h)
  \/ SaveOnly \/ WriteNext \/ WriteJournal \/ Leave
  \/ ApplyJournal

Fault == FailWriteNext \/ FailWriteJournal \/ Crash

Environment == Fault \/ \E p \in Path, h \in Content : LocalEdit(p, h)

Next == Run \/ Environment

(* The systemd timer starts the program again and again (home-manager.nix: *)
(* 284-298, nixos.nix:243-249), and a process that is applying a journal   *)
(* waits for nobody.  The caller's part of a run waits for remote answers  *)
(* and gets no fairness.                                                   *)
Fairness == WF_vars(Acquire) /\ WF_vars(ApplyJournal)

Spec == Init /\ [][Next]_vars /\ Fairness

-----------------------------------------------------------------------------
(* Properties.                                                             *)

(* The values of the variables.                                            *)
TypeOK ==
  /\ store \in [Path -> Content]
  /\ stage \in {None} \cup [Path -> Content]
  /\ nextManifest \in {None} \cup Manifest
  /\ journal \in {None} \cup (Seq(Op) \ {<<>>})
  /\ manifest \in Manifest
  /\ pc \in {"idle"} \cup PlanPcs \cup ApplyPcs
  /\ cursor \in Nat \ {0}
  /\ recovering \in BOOLEAN
  /\ seen \in [Path -> Content \cup {Unread}]
  /\ plan \in {None} \cup Plan
  /\ edited \subseteq Path

(* At every instant, so after a crash at any instant, the disk has all it  *)
(* takes to finish a committed transaction: an operation's ciphertext is   *)
(* staged, or was installed, and the next manifest is waiting or has been  *)
(* published (commit_transaction and apply_journal, store.rs:212-349).     *)
JournalRecoverable ==
  journal # None =>
    \A i \in DOMAIN journal :
       LET o == journal[i] IN
       /\ IF Staged(o) THEN stage[o.path] = o.after
                       ELSE store[o.path] = o.after \/ o.path \in edited
       /\ IF nextManifest = None THEN Published(o)
                                 ELSE nextManifest.hash[o.path] = o.after

(* The mirror as it will be when the committed transaction is finished: an *)
(* operation still staged counts as done, unless its target has changed.   *)
Committed == journal # None /\ nextManifest # None

EffectiveManifest == IF Committed THEN nextManifest ELSE manifest

Pending(p) ==
  /\ Committed
  /\ \E i \in DOMAIN journal :
       journal[i].path = p /\ Staged(journal[i]) /\ store[p] = journal[i].before

EffectiveStore == [p \in Path |-> IF Pending(p) THEN stage[p] ELSE store[p]]

(* Counting a committed transaction as finished, an entry the manifest     *)
(* owns has exactly the digest it records, unless somebody else wrote it   *)
(* since: no crash, error or retry of the program itself makes the two     *)
(* drift apart, which every later sync would report as a local conflict.   *)
ManifestTruth ==
  \A p \in Path \ edited : EffectiveManifest.hash[p] \in {Absent, EffectiveStore[p]}

(* The program (a step of it moves pc, a local edit does not) replaces an  *)
(* entry only while it has the contents recorded when the update was       *)
(* prepared: a local change is never silently overwritten (README.md:      *)
(* "local modifications ... stop synchronization").                        *)
ReplacesObserved ==
  pc' # pc =>
    \A p \in Path : store'[p] # store[p] =>
       \E i \in DOMAIN journal :
          /\ journal[i].path = p
          /\ journal[i].before = store[p]
          /\ journal[i].after = store'[p]

OverwriteOnlyObserved == [][ReplacesObserved]_vars

(* Staging, journal and recovery together look like one atomic update that *)
(* spares entries changed in the meantime.                                 *)
Atomic == INSTANCE AtomicMirror
            WITH store <- EffectiveStore, manifest <- EffectiveManifest

ImplementsAtomicMirror == Atomic!Spec

(* An operation of the committed transaction is stopped by a local edit of *)
(* its entry.                                                              *)
Stopped(o) == store[o.path] # IF Staged(o) THEN o.before ELSE o.after

Blocked == journal # None /\ \E i \in DOMAIN journal : Stopped(journal[i])

(* Only others can stop apply_journal: whatever a run before it died of,   *)
(* where, and how often, its checks (store.rs:276, 280, 296, 330) fail for *)
(* nothing but contents that somebody else has written.                    *)
RefusesOnlyEdits == [][Refuse => op.path \in edited /\ Stopped(op)]_vars

(* From some moment on no process dies and no call fails.  (The steps that *)
(* may have the same effect as a death are the program's own doing.)       *)
FaultsCease == <>[][Fault => Refuse \/ Leave \/ SaveOnly]_vars

(* When processes stop dying, the periodic runs bring every committed      *)
(* transaction to its end, or meet a local edit of one of its entries.     *)
RecoveryCompletes == FaultsCease => (journal # None ~> (journal = None \/ Blocked))

EditsCease == <>[][\A p \in Path, h \in Content : ~LocalEdit(p, h)]_vars

(* "a transaction requires recovery; run sync without --dry-run"           *)
(* (sync.rs:44): the runs that follow bring the transaction to its end.    *)
SyncRecovers == FaultsCease /\ EditsCease => (journal # None ~> journal = None)

-----------------------------------------------------------------------------
(* The inductive invariant behind JournalRecoverable, ManifestTruth and    *)
(* OverwriteOnlyObserved, by parts.  The first two need, beside it, that a *)
(* failed write of the journal leaves none behind, and are inductive then. *)

(* A journal is on disk exactly while it is being applied, or waits for    *)
(* the next run; only a run that has no journal observes and plans.        *)
Phases ==
  /\ pc \in PlanPcs => journal = None
  /\ pc \notin PlanPcs => seen = Nothing
  /\ pc \in ApplyPcs => journal # None /\ cursor \in DOMAIN journal
  /\ pc \in {"clean", "clear"} => nextManifest = None

(* What the run has read still holds of every entry nobody else has        *)
(* written.                                                                *)
SeenFresh == \A p \in Path \ edited : seen[p] \in {Unread, store[p]}

DistinctPaths(s) == \A i, j \in DOMAIN s : s[i].path = s[j].path => i = j

(* The update being staged agrees with itself: operations, staged files    *)
(* and next manifest name the same digests.                                *)
PlanConsistent ==
  pc \in {"staging", "journal"} =>
    /\ stage \in [Path -> Content] /\ plan \in Plan
    /\ \A p \in plan.todo : seen[p] # Unread
    /\ DistinctPaths(plan.ops)
    /\ \A i \in DOMAIN plan.ops :
         LET o == plan.ops[i] IN
         /\ o.path \notin plan.todo
         /\ o.before = seen[o.path]
         /\ stage[o.path] = o.after
         /\ plan.next.hash[o.path] = o.after
    /\ \A p \in Path \ plan.todo :
         \/ \E i \in DOMAIN plan.ops : plan.ops[i].path = p
         \/ plan.next.hash[p] = seen[p] /\ seen[p] \in Hash
         \/ plan.next.hash[p] = Absent
    /\ pc = "journal" => nextManifest = plan.next /\ plan.todo = {} /\ plan.ops # <<>>

(* A staged operation is intact, and its target is what the run observed   *)
(* unless somebody else wrote it.                                          *)
JournalConsistent ==
  journal # None =>
    /\ DistinctPaths(journal)
    /\ \A i \in DOMAIN journal :
         LET o == journal[i] IN
         Staged(o) => /\ LateJournalError \/ nextManifest # None
                      /\ stage[o.path] = o.after
                      /\ store[o.path] = o.before \/ o.path \in edited

(* Operations are installed in the order of the journal.                   *)
CursorConsistent ==
  pc \in ApplyPcs =>
    /\ \A i \in DOMAIN journal : i < cursor => ~Staged(journal[i])
    /\ pc = "install" => Staged(op) /\ (~EditDuringInstall => store[op.path] = op.before)
    /\ pc = "verify" => ~Staged(op)
    /\ pc \in {"publish", "clean", "clear"} => \A i \in DOMAIN journal : ~Staged(journal[i])

(* The disk, the run and the history always fit together.                  *)
InductiveInvariant ==
  /\ TypeOK
  /\ Phases
  /\ SeenFresh
  /\ PlanConsistent
  /\ JournalConsistent
  /\ CursorConsistent
=============================================================================
