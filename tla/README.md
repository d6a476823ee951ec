# proton-pass-sync: verification project

TLA+ models of [proton-pass-sync](../src/README.md), checked with TLC, and
theorems about them, proved with TLAPS.  The program mirrors the text and
hidden fields of the custom items of one Proton Pass vault, one way, into a GNU
pass store on disk.  Each field is one encrypted entry.  A JSON manifest
records which entries the program owns and the SHA-256 digest it last knew of
each.

What could go wrong is not in the data but in the order of things: users write
the store while the program runs, a run may be killed at any instruction, the
vault changes between two requests, and no one is watching.  The models are
about that.

## 1. The system

### Components, state and operations

| Component | Source | State | Operations |
|---|---|---|---|
| Transaction | `store.rs`, `manifest.rs` | the store; staging directory `.proton-pass-sync-stage-*`; `manifest.next.json`; `transaction.json` (the journal); `manifest.json`; `sync.lock` | acquire the lock, recover, hash an entry, stage an entry, commit, apply the journal |
| Synchronization | `sync.rs`, `proton.rs` | only what a run holds in memory: inventory, digests read, fetched items, next manifest | `sync [--dry-run] [--full] [--accept-remote P]` |
| Prune | `sync.rs` | a tombstone beside the entry | `prune PATH` |
| Delivery | `delivery.rs`, `lib.rs` | the snapshot file; the marker `ciphertext-consumer` | `export-ciphertext`, `import-ciphertext` |
| Child processes | `process.rs` | pipes, two reader threads | run a command with time and output limits |
| Paths | `paths.rs` | none | validate a path, a set of paths, a target |
| Proton client | `proton.rs` | none; the vault is remote | version, session, item list, item view |
| Status, doctor | `sync.rs` | none | reports |
| Configuration, command line | `config.rs`, `cli.rs`, `lib.rs`, `main.rs` | none | parse, validate, dispatch |
| Scheduling | `nix/*.nix` | the files `attempt` and `sessions` | a script each minute: forget, decide, note, producer, delivery |

### How they interact

Every command that changes anything takes an exclusive advisory lock without
waiting (a second process fails), finishes the journal a dead run left
(`recover_transaction`), and then does its own work.  `sync` reads the item
list and the manifest, hashes every owned entry, fetches the items that
changed, decides what to write, encrypts each field with GNU pass into the
staging directory, and calls `commit_transaction`.  `import-ciphertext` does
the same with the entries of a snapshot.  `commit_transaction` writes the next
manifest and the journal and then renames entry after entry into the store.
`prune` uses the lock and the manifest but no journal.  The timer starts `sync`
(or producer and delivery) again and again; on NixOS a script decides each minute
whether it is time.  Every command of others (the Proton CLI, pass, gpg) runs as a
child through `run_checked`.  Nothing else is concurrent: no threads share state,
and the two pipe readers of a child process are joined.

### What is hard

* *Others write the store.*  The lock is advisory and pass does not know it.
  Whatever the program read may have changed when it acts on it.
* *Death at any step* (`KillMode`, time limits of the unit, logout, power), and
  errors that are reported after their effect took place
  (`atomic_write_json` renames and then synchronizes the directory).
* *The vault moves on* between list and view, and items vanish and come back
  with the modification time they had.
* *Commands of others* read and write as they like, hang, and leave processes
  behind that keep the pipes.
* *Refusals.*  The program is fail-safe: a doubt stops it.  Safety is then easy
  and progress is not: which doubts can end, and which stop it for good?

`PROJECT.json` lists the hazards line by line, with the properties that cover
each.

### What makes each component correct

* Transaction: all or nothing across deaths; a journal on disk can always be
  finished; manifest and store agree; an entry changed by others is spared;
  every committed transaction is finished eventually.
* Synchronization: foreign contents are replaced only when named; after a
  commit the manifest says of every item what the vault says; lost items are
  retained, never dropped; a quiet vault is mirrored eventually.
* Prune: what it destroys is recorded in the manifest, or was written while it
  ran; a death leaves nothing lost; sync goes on correctly after it.
* Delivery: what a consumer has is one complete snapshot and what it retained
  of others; it replaces nothing foreign and never deletes; a missed delivery is
  made up for; a prune that slips past the consumer check takes only what is
  retained.
* Child processes: a call ends; no answer is cut off unnoticed; no child is left.
* Scheduling: an attempt at every login and every hour, and within the hour only if the
  sessions have changed.

## 2. The modules

| Module | What it is |
|---|---|
| `AtomicMirror` | what the mirror promises: observe entries, then replace manifest and entries in one step, sparing entries that changed since |
| `Transaction` | `store.rs` and `manifest.rs`, one action per step on disk; implements `AtomicMirror` |
| `Sync` | `synchronize` with the item list and view; its update is `AtomicMirror!Update` |
| `Prune` | `prune` beside the runs of `Sync` (extends it) |
| `Delivery` | `export` and `import`; the import's update is `AtomicMirror!Update` |
| `Consumer` | `prune` on a consumer beside its imports, and the scheduler's fairness (extends `Delivery`) |
| `ChildProcess` | `run_checked` with its reader threads, and any command |
| `Scheduler` | the schedule script of `nix/nixos.nix`, logind, clock and services |
| `TransactionProofs`, `SyncProofs`, `PruneProofs`, `DeliveryProofs`, `ChildProcessProofs`, `SchedulerProofs` | the theorems about the module of that name; `PruneProofs` uses the step lemmas of `SyncProofs`, `DeliveryProofs` is also about `Consumer` |
| `AtomicMirrorProofs` | what `AtomicMirror` promises; proofs about its implementations instantiate it |
| `TransactionRefinement` | the proof that `Transaction` implements `AtomicMirror`, and that it can carry out every update of it |
| `MCTransaction`, `MCSync`, `MCPrune`, `MCDelivery`, `MCConsumer`, `MCChildProcess`, `MCScheduler` | what TLC runs; symmetry sets where they are sound |

`Transaction` and its callers meet at `AtomicMirror`.  `Transaction` assumes of its
caller only `WellFormed` (entries to write were observed; a digest recorded for
another entry was observed; no owner is lost) and shows that staging, journal and
recovery look like one step `Update` under the mapping `EffectiveStore`,
`EffectiveManifest`.  `Sync` and `Delivery` use that one step and show that what
`synchronize` and `import` decide is an allowed update (`ImplementsMirror`).  That the
generic caller can ask for every such update is a theorem (`UpdatesCanBeStaged`).
`ChildProcess` says why a run of `Sync` may fail at each command but goes on
otherwise; `Scheduler` says when imports and syncs are started.

Operators whose comment begins "Mutant of" are plausible mistakes in the code;
each property of a passing run is violated when one of them takes the place of
the definition it is a mutant of, so no property holds by construction.

### Transaction

`pc` is where the current run stands; "idle" means that the lock is free.  Since
the lock serializes runs, a run is a stretch of steps that begins with
`Acquire`.  State on disk: `store`, `stage`, `nextManifest`, `journal`,
`manifest`.  State in memory, lost at the end of a run: `seen` (digests read),
`plan` (what is being staged), `cursor`.

| Actions | Code |
|---|---|
| `Acquire` | `StateLock::acquire`, `load_journal`; with a journal the run enters `apply_journal` |
| `Observe`, `Begin`, `StageOne`, `Leave` | the caller: `current_hash`, `StagingArea::new`, `stage`/`stage_ciphertext`, an early return |
| `SaveOnly`, `WriteNext`, `FailWriteNext`, `WriteJournal`, `FailWriteJournal` | `commit_transaction` |
| `CheckStaged`, `CheckInstalled`, `Install`, `Verify`, `Publish`, `CheckPublished`, `Clean`, `Clear`, `Refuse` | `apply_journal` |
| `Crash` | a death, or an error any call propagates, at any step |
| `LocalEdit` | anyone else writes or deletes an entry, at any step |

`apply_journal` compares digests, renames, and reads back in separate actions,
so that edits and deaths fall between them.  Two constants are switches for
behaviour that the code allows and that breaks a property:
`EditDuringInstall` (an edit between the check and the rename of the same
entry) and `LateJournalError` (the journal's write fails after its rename).
With a switch off, the runs show that this window is the only way the property
fails; with it on, that it does fail.

Abstractions.  A ciphertext is its digest; encryption is randomized, so a staged
digest is any that differs from the one observed.  A manifest is its digest per
path and everything else as one value (`meta`).  A staging directory without a
journal is litter nobody reads, and is written `None`.  Deaths are deaths of the
process, not power losses: what a completed call wrote is there afterwards.
Permission, symbolic-link and schema checks can only end a run with an error,
which is `Crash`.

`edited` is a history variable: entries changed by others since the last
committed update that knew their contents.

### Sync

`phase` is "idle", "fetch" (from the lock to the last item view) or "staging"
(from the conflict checks to the commit).  The vault (`remote`) says of each item
whether it is active, its modification time and the paths of its fields.
`Changed` is `changed_item_ids`, `ToFetch` adds the items of accepted paths,
`NextManifest` is `mark_remote_missing` and the record built per fetched item,
`Acceptable` the checks before staging.  `Refuse` is a run that one of its checks
ends, `Fail` a command that fails or a death.  Field values are not modelled:
an edit of an item that only changes values leaves its paths and moves its time.
Between runs recovery is implicit, since `Update` already counts a committed
transaction as done.  Where a local edit
blocks recovery (section 4) its entry differs from what the update recorded: a
`LocalConflict`, which `Converges` leaves to a person.

`Clash` holds the pairs of paths that differ in letter case only, which
`validate_path_graph` refuses beside paths that occur twice.

### Prune

`step` is where a prune stands (prompt, tombstone made, manifest saved), `target`
its entry, `tombstone` the renamed files.  `Stop` ends a prune at any step;
`SaveFails` is `Manifest::save` returning an error before or after its rename,
with the rollback succeeding or failing.  Runs of `Sync` start only while no
prune runs, and the other way round.  `touched` is a history variable: somebody
has written the entry since prune looked at it.  It tells what prune destroys
because it was told to from what it destroys because it looked too early.

### Delivery

`published` is the sequence of snapshots; readers open the last one.  `Export`
publishes any snapshot whose paths do not collide, since syncs and prunes of the
producer between two exports can lead from any mirror to any other.  Each
importer has what it read in `loaded`, from `Read` (`File::open` to the last
check before the lock) on; `Check` is the lock, the recovery, the digests and the
conflict and path checks, `Refuse` a run that one of them ends, `Mark` the
marker, `Commit` the update.  The check of a run and its `--accept-remote` is one
step because nothing it reads can be told from a reading at one instant: edits
of different entries are independent.  Items are left out: import carries them
along and decides nothing by them.  `Torn` stands for any
snapshot with contents of another digest than it states: `export` hashes an entry
and reads it again afterwards.

### Consumer

`wanted` is the entry a prune was dispatched for.  `Dispatch` is the look-up of the
marker in `lib.rs`, which has no lock; `Ask` takes the lock and stops at the prompt
(`holder` = `Pruner`), `Delete` is the answer yes, `Decline` any other end.  The
three steps of a deletion and their failures are in `Prune`; here it is one.
Fairness and liveness of delivery are stated in this module because the open
prompt is one of the things that delay it.

### ChildProcess

`caller` is the statement of `run_checked` that comes next.  The threads are
`Read`, `ReadEnd`, `ReadFails` per output; `kept` is what a thread has kept, `pipe`
what it has not read yet, `written` all that was ever written.  The command may do
anything its pipes allow: `Consume`, `CloseInput`, `Emit`, `Exit`, and `Fork` an
`heir`, which keeps the pipes after the child is gone and writes to them.  Data is
counted in units: contents do not matter, and `Read` takes any part of what is in
the pipe, so it does not matter how large a unit is.  Killing and
reaping are one step, since nothing comes between them and a killed child ends.

### Scheduler

`attempt` and `noted` are the two files, `script` the line that comes next,
`current` and `now` what the script has read.  A time is kept as its age in
minutes, cut off at `Hour`, where it no longer matters; -1 is a time in the future.
Each assignment of a file is an action of its own, so deaths, logins and clock
changes fall between them.  logind counts sessions from one again after a `Reboot`,
so `names` is emptied.  `served`, `gap`, `newcomers` and `jump` are history
variables for the properties.  The time limit of the unit is a `Die`.

## 3. What is checked

Bounds are the constants of each `.cfg`.

| Run | Constants | What it shows |
|---|---|---|
| `transaction` | 2 entries, 2 digests | `TypeOK`, `JournalRecoverable`, `ManifestTruth`, `InductiveInvariant`, `OverwriteOnlyObserved`, `RefusesOnlyEdits`, `ImplementsAtomicMirror`, `RecoveryCompletes` |
| `transaction_lost_edit` | 1 entry, 3 digests, `EditDuringInstall` | violation of `OverwriteOnlyObserved` |
| `transaction_late_error` | 2 entries, 2 digests, `LateJournalError` | violation of `JournalRecoverable` |
| `transaction_wedge` | 1 entry, 2 digests | violation of `SyncRecovers` |
| `sync_vault` | 2 items, 2 paths, 2 digests | `ImplementsMirror`, `RecordMatchesVault`, `RetainedKept` |
| `sync_liveness` | 2 items, 1 path, 2 digests, local edits (`"once"`), no `--full` | `Converges` |
| `sync_collision` | 1 item, 2 paths that clash, 2 digests | violation of `LossIsMarked` |
| `prune_safety` | 1 item, 2 paths, 2 digests, local edits | `PruneTypeOK`, `OwnedSurvives`, `PruneSparesEdits`, `SyncStillRight`, `CommitAllowed`, `OnlyAcceptedReplaced` |
| `delivery` | 2 importers, 2 snapshots, 2 paths, 2 digests, local edits | `TypeOK`, `OneGeneration`, `ImplementsMirror`, `OnlyAcceptedReplaced`, `SourceLossRetained` |
| `consumer` | 2 importers, 2 snapshots, 3 paths of which 2 clash, 1 digest | `RestIsOneGeneration`, `DeliveryRepairs` |
| `child_process` | limit 1, pipes of 2, input up to 3, outputs up to 4 | `TypeOK`, `OkIsComplete`, `NoChildLeft`, `PipesDrain`, `Returns` |
| `scheduler` | 2 sessions, an hour of 2 minutes | `TypeOK`, `NewLoginDue`, `RetriesHourly`, `LoginServed`, `DeliveryRepaired` |

Why the bounds are enough.  Two entries give journals of one and two
operations, so deaths between operations, partial application and updates that
write one entry and keep another; entries interact in no other way.  Two
digests and absence make three contents, which tell apart what was observed, what
is installed and what somebody else wrote; the run with a single entry has a
third digest, and the proofs hold for any number.  Two items and two paths
give fields that move between items, items that share a path, and entries of
which one is retained and one active.  `MaxTime` = 1 allows each item one edit:
a listed time can be out of date once, and being trashed and restored is not
bounded.  In `sync_liveness` an entry is edited once at a
time (`LocalUse`) and `--full` is never given (`IncrementalSpec` of `MCSync`), which
keeps that graph small: several edits of an entry during one run are in
`prune_safety` and `delivery`, full runs in `sync_vault`, and the runs that must
bring the record up to date have no options anyway.  Two snapshots
(`MaxGeneration`) and two importers let an older one overtake a newer, and an
entry appear, disappear and change in between; in `consumer` one digest is enough,
since what prune and the clash depend on is whether an entry is there, and the
third path is one that does not clash.  In `child_process` an output can be
shorter than the limit, exactly the limit, one more, and more than limit and pipe
together, and the input is larger than its pipe, so that each writer can block.
In `scheduler` two sessions can replace each other, and of the ages 0, 1 and 2 one
is over an hour and two are not.  The state graphs are finite without further
bounds.
Deadlock is checked in every run: a new run of the program can always be started
(`ChildProcess` has a step that stutters after the call has returned).

The properties in words:

* `JournalRecoverable`: a journal on disk implies that for each operation the
  ciphertext is staged or installed (or its entry edited by others), and that
  the next manifest waits or is published.
* `ManifestTruth`: with a committed transaction counted as done, an owned entry
  nobody else has written has its recorded digest.  If it failed, the next
  sync would report a local conflict nobody caused.
* `OverwriteOnlyObserved`: the program replaces contents only by an operation
  that names exactly those contents as the ones observed.
* `RefusesOnlyEdits`: `apply_journal` stops only at an operation whose entry
  somebody else has written, wherever and however often runs died before.
* `ImplementsAtomicMirror`: all steps together are `AtomicMirror`'s.
* `RecoveryCompletes`: if deaths cease, a journal is finished or meets an edit
  of one of its entries.
* `OnlyAcceptedReplaced`: contents that are not the recorded ones are replaced
  only if `--accept-remote` named the entry.
* `RecordMatchesVault`: after a commit the manifest has, for each item still as
  listed, its time, its active fields and no others, fetched or not; for
  each item not listed, no active field.
* `RetainedKept`: no update drops an owned entry or writes a retained one.
* `Converges`: when nothing but the timer acts any more, the manifest agrees
  with the whole vault in the end, unless a conflict or a collision is left to
  a person.
* `CommitAllowed`: what sync commits is an update of the kind `AtomicMirror`
  allows, also after a prune.
* `OwnedSurvives`: the ciphertext of an owned entry is in the store or in the
  tombstone.
* `PruneSparesEdits`: prune removes or replaces contents the manifest does not
  record only if they were written while it ran.
* `SyncStillRight`: `RecordMatchesVault` in the presence of prunes.
* `OneGeneration`: the entries of a consumer that are not marked as retained are
  those of one published snapshot, all of them, in the manifest and, unless others
  wrote them, in the store.
* `SourceLossRetained`: an entry delivered once stays, and an import that does not
  bring it leaves it as it is.
* `RestIsOneGeneration`: the same beside a prune, except that entries marked as
  retained, those of the snapshot included, may be gone.
* `DeliveryRepairs`: when nothing but the scheduler acts any more and prompts are
  answered, a consumer ends up with the last snapshot, or an entry or a path is in the
  way for good; what was in the way before does not matter.
* `OkIsComplete`: an output that is returned is all that was or will be
  written, from a command that succeeded; exactly the limit is not refused.
* `NoChildLeft`: the call ends without a running child, unless the wait failed.
* `PipesDrain`: a full output pipe is emptied, also beyond the limit.
* `Returns`: the call ends if the command accepts or closes its input and no
  process keeps the pipes.
* `NewLoginDue`: after a login since the sessions were read, an attempt is due.
* `RetriesHourly`: within an hour of an attempt there is another one only for other
  sessions, or after a death or a jump.
* `LoginServed`: no login that lasts goes without an attempt for good.
* `DeliveryRepaired`: what was published is delivered in the end, while somebody is
  logged in and the services fail only so often.

### Fairness

`Transaction` assumes `WF(Acquire)` (the timer of `nix/nixos.nix` and
`nix/home-manager.nix` starts a run again and again, whatever became of the last
one) and `WF(ApplyJournal)` (renames and removals wait for nobody).  It assumes
nothing of the caller's part, which waits for remote answers.  `Sync` and `Consumer`
assume that plain runs are started and that a run goes on by itself; every command
it waits for has a time limit (`process.rs`), and module `ChildProcess` says what
that limit depends on.  An open prompt need not be answered: that it is, is a
premise of `DeliveryRepairs`.  `ChildProcess` assumes that the threads of the
program run and the time limit passes, and nothing of the command.  `Scheduler`
assumes that the timer fires, that what the script starts ends (`TimeoutStartSec`),
and that time passes; that the recipient's sessions, the clock or the services are
good is a premise.  The premises `FaultsCease`, `Calm`, `Steady` state that deaths
and changes cease, because no fairness can give that.

## 4. Findings

Four runs find a property violated by what the code does.

1. `transaction_lost_edit` (`store.rs:279-288`): an edit between digest check
   and rename is overwritten.
2. `transaction_late_error` (`store.rs:250-254`): after a late error in writing
   the journal, the files it needs are removed while it stays; every later run
   stops.
3. `transaction_wedge` (`store.rs:280`, `296`): an edit of an entry of a committed
   transaction stops every later command, although `sync.rs:44` sends the user
   to `sync`, and `--accept-remote` is not looked at before recovery.
4. `sync_collision` (`sync.rs:163`): when a field or title is renamed in letter
   case only, the old path, about to be retained, collides with the new one: every
   sync is refused, the old one is never marked, and prune, which wants a retained
   entry, refuses as well.  An item that is trashed and created again with its
   title does the same with equal paths; `Converges` needs its alternative
   `Collision` for that.

Finding 4 is a refusal of the kind that `README.md:137-139` announces for colliding
paths; what no document says is that a rename can lead to it and that nothing the
program offers ends it.

Passing properties name further windows, where the code promises less than a reader
may expect:

* `PruneSparesEdits`: an entry modified while the prompt waits is deleted
  (`sync.rs:293-315`), one written before the rollback is replaced (`sync.rs:326`).
* `OwnedSurvives`: after a death between tombstone and save (`sync.rs:315-325`)
  the ciphertext of an owned entry may be in the tombstone only; sync reports a
  local conflict, prune refuses, and the rename has to be undone by hand.
* `DeliveryRepairs`: an entry that the producer pruned and has again in another
  letter case collides with the one the consumer retains (`delivery.rs:246`), and an
  entry that the snapshots no longer have and somebody changes or deletes is a conflict
  that no `--accept-remote` settles (`delivery.rs:226`); in both cases every import is
  refused, and a consumer cannot prune.  Both are alternatives of the conclusion.
* `RestIsOneGeneration`: a prune dispatched before the first import finds no marker
  (`lib.rs:47`) and may delete a retained entry that was just delivered; the next
  import brings it back, which the marker is there to prevent (`delivery.rs:264`).
* `DeliveryRepairs`: while a prompt is open every import is refused (`sync.rs:302`);
  that prompts are answered is a premise.
* `Returns`: a command that leaves its input in the pipe without closing it, or a
  process it left that keeps an output, blocks the program beyond the time limit
  (`process.rs:59`, `74`).
* `RetriesHourly`: a logout, too, allows an attempt within the hour
  (`nixos.nix:103`), although `README.md:64` names only logins.
* `LoginServed`: a login after a reboot may have the name of the session noted before,
  and then waits for the hour.
* `DeliveryRepaired`: while the producer fails nothing is delivered, not even a
  snapshot published before (`nixos.nix:109`).

What carries which hazard.  In `Sync` and `Delivery` a commit is one step that spares
entries changed since they were read.  That the entries really are spared, at each step
of staging, journal and recovery, is shown by `ImplementsAtomicMirror` and
`OverwriteOnlyObserved` of `Transaction`; `CommitAllowed` and `OnlyAcceptedReplaced`
are about what a run decides.  That the lock excludes a second process is taken from
the operating system.

## 5. What is proved

`TransactionProofs` proves, for any sets of entries, digests and metadata that
satisfy the named assumptions of `Transaction` (`Absent`, `Unread` and `None` are
not digests or files; the switches are Booleans; the empty metadata is
metadata):

* `Invariance`: `Spec => []InductiveInvariant`, whatever the switches;
* `TypeCorrect`: `Spec => []TypeOK`;
* `ManifestNeverDrifts`: `Spec => []ManifestTruth`, with `LateJournalError = FALSE`;
* `EveryCrashIsRecoverable`: `Spec => []JournalRecoverable`, with
  `LateJournalError = FALSE`;
* `NoSilentOverwrite`: `Spec => OverwriteOnlyObserved`, with
  `EditDuringInstall = FALSE`;
* `OnlyEditsStopRecovery`: `Spec => RefusesOnlyEdits`, with
  `LateJournalError = FALSE`;
* `ApplyJournalEnds`: each step of `apply_journal` lowers `StepsLeft`, which is at
  most 3n + 3 for n operations, and no other step raises it meanwhile.

The last two are the safety half of `RecoveryCompletes`: applying a journal ends,
and not early unless somebody has written an entry of it.  That the timer and
fairness bring the rest is model-checked.

The hypotheses are exactly the windows of findings 1 and 2; the violation runs
show that they cannot be dropped.

The argument.  None of the properties is inductive.  The recovery of a dead run
has only the disk to go by, so the invariant says what the disk means at each
program position: a journal exists exactly while it is applied or waits
(`Phases`); what a run has read stays true of entries others leave alone
(`SeenFresh`); while an update is staged, operations, staged files and next
manifest name the same digests (`PlanConsistent`), which `WriteJournal` hands on
to the journal (`JournalConsistent`); operations before the cursor are installed
(`CursorConsistent`), so that nothing is staged any more when the manifest is
published.  There is one lemma for each conjunct and every step (`TypeStep`,
`PhasesStep`, ...), one for what staging, committing and renaming establish
(`StageOnePlan`, `WriteJournalConsistent`, `InstallConsistent`), and on top of the
invariant one step lemma for `ManifestTruth` and `JournalRecoverable`.  That
`apply_journal` does not refuse without an edit rests on both: what is staged is
intact (`JournalConsistent`), what is not is installed and the published manifest
says so (`JournalRecoverable`).

`AtomicMirrorProofs` proves of the abstract specification, from `Absent` and
`Unread` being no digests:

* `MirrorTruth`: `Spec => []ManifestTruth`, the manifest is right about every entry
  nobody else has written;
* `MirrorKeepsOwners`: `Spec => OwnersStay`, an owned entry stays owned.

Each implementation inherits them through an instance (`Promise`), by its refinement
theorem: `NoOwnerIsLost` and `SyncCausesNoConflict` below.

`TransactionRefinement` proves the refinement:

* `TransactionIsAtomic`: `Spec => ImplementsAtomicMirror`, with both switches `FALSE`;
* `NoOwnerIsLost`: `Spec => Atomic!OwnersStay`, likewise;
* `UpdatesCanBeStaged`: an update that `AtomicMirror` allows satisfies `WellFormed`;
  beginning it and staging its entries one at a time keeps to it (`Staging`), and when
  none is left the plan is exactly its manifest, with one operation for each entry.

`AtomicMirror` allows no owner to be lost, so the invariant is strengthened by
`OwnersKept`: a staged update drops no entry from the manifest.  Then each step
is either one that `AtomicMirror` sees (`WriteJournalCommits`, `SaveOnlyCommits`,
`EditVisible`, observing and the end of a run) or one that leaves the effective
store and manifest alone (`InstallInvisible`, `PublishInvisible`,
`SpareFilesInvisible`).  A user who restores what a waiting operation expects makes
that operation pending again; `AtomicMirror` sees an edit to the new ciphertext.
`UpdatesCanBeStaged` is the other direction, which a refinement does not give: the
generic caller is not narrower than the real ones.  It needs that an entry to write
changes, which sync (a fresh encryption) and import (`ToWrite`) see to.

`ChildProcessProofs` proves, for any limit, capacity and bounds on the amounts:

* `TypeCorrect`: `Spec => []TypeOK`;
* `OutputWhole`: `Spec => []OkIsComplete`;
* `ChildReaped`: `Spec => []NoChildLeft`.

That a returned output is whole speaks of three actors at three times, so the
invariant `IInv` adds what ties them: until a reader fails, what was written is
what it took and what is in the pipe, and `kept` is what it took cut off above the
limit (`Account`); a thread at its end has found the pipe empty and closed, which
nobody opens again (`Ends`); and where the caller stands says whether the child
has been started or has ended (`Stages`).  There is a lemma for the caller's
steps, one for the readers' and one for the command's.

`SyncProofs` proves, for any items, paths, clashes, digests, times and use of the
store by others, under the named assumptions of `Sync` (`Absent`, `Unread` and
`None` are no digests, items, times or reasons; `MaxTime` is a number):

* `SyncTypeCorrect`: `Spec => []TypeOK`;
* `SyncsAreUpdates`: `Spec => ImplementsMirror`, a refinement: initial states map
  to initial states, and every step to a step of `AtomicMirror` or a stutter;
* `RecordIsTheVaults`: `Spec => RecordMatchesVault`;
* `RetainedEntriesStay`: `Spec => RetainedKept`;
* `SyncCausesNoConflict`: `Spec => []Mirror!ManifestTruth`, what `inspect_manifest`
  finds at odds with the manifest somebody else has written.

The record of an item that a run does not fetch is right only because of what
earlier runs left and the vault cannot do.  The invariant `SInv` says it: the times
of the vault only grow, so equal times mean equal fields, for what is recorded
(`RecordOK`) and for what a run has fetched (`ListingOK`).  A run that stages has
one claim for each path (`PathGraphValid`), so that `NextFields` can tell which
entries an item has afterwards; and it has read all that its update depends on
(`RunOK`, `SeenFresh`), which makes the update an allowed one (`UpdateAllowed`) and
leaves manifest and store in agreement (`CommitInPlace`).

`PruneProofs` proves, for prune and sync under one lock, with the further assumption
that `None` is no path:

* `PruneTypeCorrect`, `OwnedCiphertextSurvives`: `PruneSpec => []PruneTypeOK`,
  `PruneSpec => []OwnedSurvives`;
* `PruneSparesUnseen`: `PruneSpec => PruneSparesEdits`;
* `SyncStaysRight`, `CommitsStayAllowed`, `ForeignContentsSpared`: `SyncStillRight`,
  `CommitAllowed`, `OnlyAcceptedReplaced` hold beside prunes;
* `OnlyRetainedPruned`: an entry leaves the manifest only by the prune that asked about
  it, and only while it is retained, however long the prompt was open;
* `TombstoneOutlivesEntry`: a tombstone goes only when its ciphertext is back in the
  store or the saved manifest no longer owns the entry.

The steps of sync are dealt with by the lemmas of `SyncProofs`, which speak of
single steps for that purpose.  Removing an entry keeps `SInv`: it takes a retained
entry, so no item's active fields change, and an item's record goes only with its
last entry (`DroppedStep`, `QuietSInv`).  `StepOK` says what prune may rely on
between its steps: after the rename the entry is gone, unless somebody has written
it since, so undoing the rename restores the recorded contents.

`DeliveryProofs` proves, for any importers, snapshots, entries and digests:

* `TypeCorrect`: `Spec => []TypeOK`;
* `GenerationsNeverMix`: `Spec => []OneGeneration`;
* `ForeignSpared`: `Spec => OnlyAcceptedReplaced`;
* `NothingIsLost`: `Spec => SourceLossRetained`;
* `ImportsAreUpdates`: `Spec => ImplementsMirror`, a refinement as above;

and of `Consumer`, where a prune has slipped past the marker:

* `RestNeverMixes`: `ConsumerSpec => []RestIsOneGeneration`;
* `ImportsUndisturbed`: imports are still steps of `AtomicMirror`, and replace foreign
  contents only where they were accepted;
* `OnlyRetainedIsLost`: an entry leaves the manifest only by the prune that asked about
  it, and only while it is retained.

`Core` is what holds whichever snapshot the manifest is of, and whoever has the lock:
what an importer holds was published (`Importers`), what it has read is in the store
(`SeenFresh`), what passed the preflight agrees with the manifest (`Preflight`), and so
does the store, where nobody else wrote (`InPlace`).  `NextCore` shows it for every step
of `Delivery`, and that a step leaves the manifest alone or, as a commit, makes it that
of one snapshot and what is retained (`Described`), whatever it was before.  `IInv`
adds `Described` to `Core`.  A prune breaks that, so `ConsumerIInv` has the weaker
`RestDescribed`, which `Described` implies and a deletion of a retained entry keeps;
that the entry is still retained when the answer comes is `Asked`, which holds because
an import cannot commit without the lock.

`SchedulerProofs` proves, for any sessions and any length of an hour:

* `TypeCorrect`: `Spec => []TypeOK`;
* `NewLoginAllowsAttempt`: `Spec => []NewLoginDue`;
* `AttemptsAreHourly`: `Spec => RetriesHourly`.

Without a jump no session is named like one before, so `IInv` can say that the
noted sessions are those of the last attempt or have all left (`Noted`), and that
the noted time is its time (`Times`).

Every invariant and action property that a passing run checks is the subject of one
of these theorems.  Only model-checked is liveness (`RecoveryCompletes`, `Converges`,
`DeliveryRepairs`, `PipesDrain`, `Returns`, `LoginServed`, `DeliveryRepaired`), which
is out of the prover's reach.

## 6. Not modelled, and the plan

Not modelled for good: file permissions, symbolic-link checks, JSON formats,
Unicode folding, GNU pass and GPG themselves, zeroing of memory, configuration,
`status` and `doctor`, packaging, sandboxing.  They are data or wording, or can only
end a run early, or change nothing.  A power loss, which may undo what a completed
call wrote without synchronizing it, is not modelled: a death keeps what was
written.

Planned, in this order:

1. Power loss: directories that were created but not synchronized
   (`store.rs:481`), the scheduler's files (`nixos.nix:105-108`).
