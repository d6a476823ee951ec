------------------------------ MODULE Delivery ------------------------------
(***************************************************************************)
(* Ciphertext delivery (delivery.rs): the producer's mirror is exported as *)
(* a snapshot, and a consumer, under another user, imports it into a store *)
(* and a manifest of its own.                                              *)
(*                                                                         *)
(* A snapshot is read before the lock is taken, so of several imports -- a *)
(* scheduled one and those a user starts by hand with --accept-remote --   *)
(* any may commit last.  The producer publishes whatever its syncs and     *)
(* prunes have made of its mirror, and where users of the mirror edit it   *)
(* in the middle of an export, a snapshot that is not sound.  As in module *)
(* Sync the import's update is AtomicMirror's one step, users of the store *)
(* change entries at any moment, and a run ends early at any moment.       *)
(***************************************************************************)
EXTENDS Naturals, Sequences

CONSTANTS Path,          \* entries
          Hash,          \* digests of ciphertexts
          Absent, Unread, None,
          Torn,          \* a snapshot with contents of another digest than it says
          Clash,         \* pairs of paths that differ in letter case only
          Importer,      \* processes that import
          MaxGeneration, \* bound on the snapshots the producer publishes
          LocalUse       \* others write entries of the consumer's store

ASSUME HashAssumption == Absent \notin Hash /\ Unread \notin Hash /\ Unread # Absent
ASSUME ClashAssumption == Clash \subseteq SUBSET Path
ASSUME ImporterAssumption == None \notin Importer /\ None # Torn
ASSUME GenerationAssumption == MaxGeneration \in Nat
ASSUME LocalAssumption == LocalUse \in BOOLEAN

RemoteMissing == "remote_missing"

(* Beside the digests a manifest records why a path is retained.  The item *)
(* an entry belongs to is carried along and decides nothing here.          *)
Meta == [Path -> {None, RemoteMissing}]

VARIABLES store, manifest, seen, edited  \* the consumer's, as in AtomicMirror

VARIABLES published, \* the snapshots published so far; an importer opens the last
          consumer,  \* the marker `ciphertext-consumer' exists
          loaded,    \* the snapshot each importer has read, or None
          holder,    \* the importer that has the lock
          accepted   \* its --accept-remote

Mirror == INSTANCE AtomicMirror

mirror == <<store, manifest, seen, edited>>
vars == <<mirror, published, consumer, loaded, holder, accepted>>

Empty == [hash |-> [p \in Path |-> Absent], meta |-> [p \in Path |-> None]]

-----------------------------------------------------------------------------
(* What an import derives from snapshot s, a manifest with its files.      *)

Owned == {p \in Path : manifest.hash[p] # Absent}
Delivered(s) == {p \in Path : s.hash[p] # Absent}

PathGraphValid(P) == \A c \in Clash : ~ c \subseteq P

Snapshot ==
  {s \in [hash : [Path -> Hash \cup {Absent}], meta : Meta] :
     /\ PathGraphValid(Delivered(s))
     /\ \A p \in Path \ Delivered(s) : s.meta[p] = None}

(* Mutant of Conflicts: only owned entries can be in the way.              *)
ConflictsOwned(s) == {p \in Owned : store[p] # manifest.hash[p]}

(* Mutant of Conflicts: whatever an import would change is in the way.     *)
ConflictsNew(s) == {p \in Owned \cup Delivered(s) : store[p] # s.hash[p]}

(* Owned entries that are not as the manifest says, and unmanaged ones.    *)
Conflicts(s) == {p \in Owned \cup Delivered(s) : store[p] # manifest.hash[p]}

(* Mutant of Acceptable: a retained entry can be accepted, too.            *)
AcceptableRetained(s, acc) ==
  s # Torn /\ Conflicts(s) = acc /\ PathGraphValid(Owned \cup Delivered(s))

Acceptable(s, acc) ==
  /\ s # Torn
  /\ Conflicts(s) = acc
  /\ acc \subseteq Delivered(s)
  /\ PathGraphValid(Owned \cup Delivered(s))

(* Mutant of NextManifest: the snapshot and nothing else.                  *)
SnapshotOnly(s) == s

(* Mutant of NextManifest: what the snapshot does not have stays active.   *)
RetainedUnmarked(s) ==
  [hash |-> [p \in Path |-> IF p \in Delivered(s) THEN s.hash[p] ELSE manifest.hash[p]],
   meta |-> [p \in Path |-> IF p \in Delivered(s) THEN s.meta[p] ELSE manifest.meta[p]]]

NextManifest(s) ==
  [hash |-> [p \in Path |-> IF p \in Delivered(s) THEN s.hash[p] ELSE manifest.hash[p]],
   meta |-> [p \in Path |-> IF p \in Owned \ Delivered(s) THEN RemoteMissing ELSE s.meta[p]]]

(* Entries that are not there already.                                     *)
ToWrite(s) == {p \in Delivered(s) : seen[p] # s.hash[p]}

-----------------------------------------------------------------------------
Init ==
  /\ store \in [Path -> Hash \cup {Absent}]
  /\ manifest = Empty
  /\ seen = [p \in Path |-> Unread]
  /\ edited = {}
  /\ published = <<>>
  /\ consumer = FALSE
  /\ loaded = [i \in Importer |-> None]
  /\ holder = None
  /\ accepted = {}

(* export: the producer's mirror as its last sync or prune left it takes   *)
(* the place of the snapshot before.  Every entry is hashed and then read  *)
(* again: an edit in between makes a snapshot that no import accepts.      *)
Export ==
  /\ Len(published) < MaxGeneration
  /\ \E s \in Snapshot \cup {Torn} : published' = Append(published, s)
  /\ UNCHANGED <<mirror, consumer, loaded, holder, accepted>>

(* import, up to the lock.                                                 *)
Read(i) ==
  /\ loaded[i] = None /\ published # <<>>
  /\ loaded' = [loaded EXCEPT ![i] = published[Len(published)]]
  /\ UNCHANGED <<mirror, published, consumer, holder, accepted>>

(* The lock, the recovery, the conflicts, the paths of the next manifest.  *)
Check(i, acc) ==
  /\ loaded[i] # None /\ holder = None
  /\ Acceptable(loaded[i], acc)
  /\ Mirror!Observe(Owned \cup Delivered(loaded[i]))
  /\ holder' = i /\ accepted' = acc
  /\ UNCHANGED <<published, consumer, loaded>>

Finish(i) ==
  /\ loaded' = [loaded EXCEPT ![i] = None]
  /\ IF holder = i THEN holder' = None /\ accepted' = {} ELSE UNCHANGED <<holder, accepted>>
  /\ UNCHANGED published

(* Another run has the lock, or one of the checks fails.                   *)
Refuse(i, acc) ==
  /\ loaded[i] # None /\ holder # i
  /\ holder # None \/ ~Acceptable(loaded[i], acc)
  /\ Finish(i)
  /\ UNCHANGED <<mirror, consumer>>

Mark ==
  /\ holder \in Importer /\ ~consumer
  /\ consumer' = TRUE
  /\ UNCHANGED <<mirror, published, loaded, holder, accepted>>

(* Mutant of Commit: the marker comes after the update.                    *)
CommitUnmarked ==
  /\ holder \in Importer
  /\ Mirror!Update(ToWrite(loaded[holder]), NextManifest(loaded[holder]))
  /\ Finish(holder)
  /\ UNCHANGED consumer

Commit ==
  /\ holder \in Importer /\ consumer
  /\ Mirror!Update(ToWrite(loaded[holder]), NextManifest(loaded[holder]))
  /\ Finish(holder)
  /\ UNCHANGED consumer

(* A call fails, or the process dies.                                      *)
Fail(i) ==
  /\ loaded[i] # None
  /\ Finish(i)
  /\ IF holder = i THEN Mirror!Forget ELSE UNCHANGED mirror
  /\ UNCHANGED consumer

LocalEdit(p, h) ==
  /\ LocalUse
  /\ h # store[p]
  /\ Mirror!Edit(p, h)
  /\ UNCHANGED <<published, consumer, loaded, holder, accepted>>

Decide(acc) == \E i \in Importer : Check(i, acc) \/ Refuse(i, acc)

Next ==
  \/ Export
  \/ \E i \in Importer : Read(i) \/ Fail(i)
  \/ \E acc \in SUBSET Path : Decide(acc)
  \/ Mark
  \/ Commit
  \/ \E p \in Path, h \in Hash \cup {Absent} : LocalEdit(p, h)

Spec == Init /\ [][Next]_vars

-----------------------------------------------------------------------------
(* Properties.                                                             *)

(* The values of the variables; what an importer has read was published;   *)
(* and "Mark consumer state before committing" (delivery.rs:264): whoever  *)
(* owns entries that were delivered is marked as a consumer.               *)
TypeOK ==
  /\ store \in [Path -> Hash \cup {Absent}]
  /\ manifest \in [hash : [Path -> Hash \cup {Absent}], meta : Meta]
  /\ seen \in [Path -> Hash \cup {Absent, Unread}]
  /\ edited \subseteq Path
  /\ published \in Seq(Snapshot \cup {Torn}) /\ Len(published) <= MaxGeneration
  /\ \A i \in Importer : loaded[i] # None => \E n \in DOMAIN published : loaded[i] = published[n]
  /\ holder \in Importer \cup {None}
  /\ accepted \subseteq Path
  /\ consumer \in BOOLEAN /\ (Owned # {} => consumer)

(* "an atomic producer replacement must not mix generations" (delivery.rs: *)
(* 112): in whatever order imports of different snapshots commit, and      *)
(* wherever they die, the entries that are not marked as retained are those *)
(* of one published snapshot, in the manifest and, where nobody else wrote *)
(* them, in the store.  A torn snapshot leaves no trace.                   *)
OneGeneration ==
  /\ \E s \in {Empty} \cup ({published[n] : n \in DOMAIN published} \ {Torn}) :
       /\ Delivered(s) \subseteq Owned
       /\ \A p \in Delivered(s) :
            manifest.hash[p] = s.hash[p] /\ manifest.meta[p] = s.meta[p]
       /\ \A p \in Owned \ Delivered(s) : manifest.meta[p] = RemoteMissing
  /\ \A p \in Owned \ edited : store[p] = manifest.hash[p]

(* What import decides is an update that the transaction can carry out.    *)
ImplementsMirror == Mirror!Spec

(* An import replaces contents that are not those the consumer's manifest  *)
(* records only where its --accept-remote names the entry (README.md:83).  *)
OnlyAcceptedReplaced ==
  [][holder' # holder =>
       \A p \in Path : store'[p] # store[p] =>
          p \in accepted \/ store[p] = manifest.hash[p]]_vars

(* "A producer may have explicitly pruned an entry. Delivery still never   *)
(* deletes." (delivery.rs:229): an entry once delivered stays owned, and   *)
(* an import that does not bring it leaves it as it is.                    *)
SourceLossRetained ==
  [][/\ \A p \in Owned : manifest'.hash[p] # Absent
     /\ manifest' # manifest =>
          \A p \in Path \ Delivered(loaded[holder]) :
             store'[p] = store[p] /\ manifest'.hash[p] = manifest.hash[p]]_vars
=============================================================================
