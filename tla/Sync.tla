-------------------------------- MODULE Sync --------------------------------
(***************************************************************************)
(* `proton-pass-sync sync' (sync.rs, with the inventory and the item view  *)
(* of proton.rs): what one run reads from Proton and from the store, what  *)
(* it decides, and the update it hands to commit_transaction.              *)
(*                                                                         *)
(* The update itself is the one step AtomicMirror!Update, because module   *)
(* Transaction shows that staging, journal and recovery amount to that     *)
(* step; this module shows that what sync decides is an update of the kind *)
(* Transaction assumes of its caller (ImplementsMirror).  Around a run,    *)
(* vault owners change items and users of the store change entries at any  *)
(* moment, and a run ends early at any moment.                             *)
(***************************************************************************)
EXTENDS Naturals, FiniteSets

CONSTANTS Item,     \* item ids, never reused by the vault
          Path,     \* entries, one per title/section/field of some item
          Hash,     \* digests of ciphertexts
          Absent, Unread, None,
          Clash,    \* pairs of paths that differ in letter case only
          MaxTime,  \* bound on the modification times of an item
          LocalUse  \* do others write entries of the store: "never", "always",
                    \* or "once", each entry once before an update knows of it

ASSUME HashAssumption == Absent \notin Hash /\ Unread \notin Hash /\ Unread # Absent
ASSUME ClashAssumption == Clash \subseteq SUBSET Path
ASSUME TimeAssumption == MaxTime \in Nat
ASSUME LocalAssumption == LocalUse \in {"never", "once", "always"}

Time == 0..MaxTime
ItemRecord == [mtime : Time, missing : BOOLEAN]
RemoteMissing == "remote_missing"
RemoteFieldMissing == "remote_field_missing"

(* The manifest beside the digests: the items it knows, the item that owns *)
(* a path, and why a path is retained.                                     *)
Meta == [item   : [Item -> {None} \cup ItemRecord],
         owner  : [Path -> Item \cup {None}],
         reason : [Path -> {None, RemoteMissing, RemoteFieldMissing}]]

ASSUME NoneAssumption ==
  /\ None \notin Item /\ None \notin Time /\ None \notin ItemRecord
  /\ None \notin {RemoteMissing, RemoteFieldMissing}
  /\ \A P \in SUBSET Path : P # None

VARIABLES store, manifest, seen, edited  \* as in AtomicMirror

VARIABLES remote,    \* the vault: is an item active, its time and its fields
          phase,     \* where the run stands; the lock is free in "idle"
          inventory, \* modification time of every active item, when listed
          fetched,   \* fields of the items viewed so far, None for the others
          accepted,  \* --accept-remote
          full       \* --full

Mirror == INSTANCE AtomicMirror

mirror == <<store, manifest, seen, edited>>
run == <<phase, inventory, fetched, accepted, full>>
vars == <<mirror, remote, run>>

-----------------------------------------------------------------------------
(* What a run knows and derives.                                           *)

Owned == {p \in Path : manifest.hash[p] # Absent}
OwnedBy(i) == {p \in Path : manifest.meta.owner[p] = i}
Active(m, i) == {p \in Path : m.meta.owner[p] = i /\ m.meta.reason[p] = None}
Known(i) == manifest.meta.item[i] # None
Listed == {i \in Item : inventory[i] # None}
Fetched == {i \in Item : fetched[i] # None}

(* Mutant of Changed: an item that comes back as it was is not fetched.    *)
ChangedWithoutMissing ==
  {i \in Listed : full \/ ~Known(i) \/ manifest.meta.item[i].mtime # inventory[i]}

(* Mutant of Changed: an item that is known is not fetched again.          *)
ChangedWithoutTime == {i \in Listed : full \/ ~Known(i) \/ manifest.meta.item[i].missing}

(* changed_item_ids.                                                       *)
Changed ==
  {i \in Listed :
     \/ full
     \/ ~Known(i)
     \/ manifest.meta.item[i].missing
     \/ manifest.meta.item[i].mtime # inventory[i]}

(* ... and the items whose local conflicts are accepted.                   *)
ToFetch == Changed \cup {i \in Listed : OwnedBy(i) \cap accepted # {}}

Pending == UNION {fetched[i] : i \in Fetched}

(* Paths item i claims in the next manifest: its fields, and those it had. *)
Desired(i) == OwnedBy(i) \cup IF fetched[i] = None THEN {} ELSE fetched[i]

(* validate_path_graph: no path twice, nor twice but for its letter case.  *)
PathGraphValid ==
  /\ \A i, j \in Item : i # j => Desired(i) \cap Desired(j) = {}
  /\ \A c \in Clash : ~ c \subseteq UNION {Desired(i) : i \in Item}

KnownConflicts == {p \in Owned : seen[p] # manifest.hash[p]}

(* Conflicts, once the entries to write have been read too (contents s).   *)
ActualConflicts(s) == KnownConflicts \cup {p \in Pending \ Owned : s[p] # Absent}

(* The next manifest, given the digests h of the new ciphertexts:          *)
(* mark_remote_missing, then one record per fetched item.                  *)
NextItem(i) ==
  IF i \in Fetched THEN [mtime |-> inventory[i], missing |-> FALSE]
  ELSE IF Known(i) /\ i \notin Listed THEN [manifest.meta.item[i] EXCEPT !.missing = TRUE]
  ELSE manifest.meta.item[i]

NextOwner(p) ==
  IF p \in Pending THEN CHOOSE i \in Fetched : p \in fetched[i] ELSE manifest.meta.owner[p]

NextReason(p) ==
  LET i == manifest.meta.owner[p] IN
  CASE p \in Pending -> None
    [] p \notin Pending /\ i = None -> None
    [] p \notin Pending /\ i \in Fetched -> RemoteFieldMissing
    [] p \notin Pending /\ i \in Item \ Listed -> RemoteMissing
    [] OTHER -> manifest.meta.reason[p]

NextMeta ==
  [item   |-> [i \in Item |-> NextItem(i)],
   owner  |-> [p \in Path |-> NextOwner(p)],
   reason |-> [p \in Path |-> NextReason(p)]]

(* Mutant of NextManifest: entries of items no longer listed are dropped.  *)
ManifestWithoutMissing(h) ==
  [hash |-> [p \in Path |-> IF p \in Pending THEN h[p]
                            ELSE IF manifest.meta.owner[p] \in Listed THEN manifest.hash[p]
                            ELSE Absent],
   meta |-> NextMeta]

(* Mutant of NextManifest: entries whose field is gone are dropped.        *)
ManifestWithoutRemoved(h) ==
  [hash |-> [p \in Path |-> IF p \in Pending THEN h[p]
                            ELSE IF manifest.meta.owner[p] \in Fetched THEN Absent
                            ELSE manifest.hash[p]],
   meta |-> NextMeta]

NextManifest(h) ==
  [hash |-> [p \in Path |-> IF p \in Pending THEN h[p] ELSE manifest.hash[p]],
   meta |-> NextMeta]

-----------------------------------------------------------------------------
Init ==
  /\ store \in [Path -> Hash \cup {Absent}]
  /\ manifest = [hash |-> [p \in Path |-> Absent],
                 meta |-> [item   |-> [i \in Item |-> None],
                           owner  |-> [p \in Path |-> None],
                           reason |-> [p \in Path |-> None]]]
  /\ seen = [p \in Path |-> Unread]
  /\ edited = {}
  /\ remote \in [Item -> [active : BOOLEAN, mtime : {0}, fields : SUBSET Path]]
  /\ phase = "idle"
  /\ inventory = [i \in Item |-> None]
  /\ fetched = [i \in Item |-> None]
  /\ accepted = {}
  /\ full = FALSE

(* The lock, the inventory, the manifest, and inspect_manifest.  Remote    *)
(* items and local entries change independently, so reading the one and    *)
(* then the other is like reading both at once.                            *)
Start(acc, f) ==
  /\ phase = "idle"
  /\ phase' = "fetch"
  /\ accepted' = acc /\ full' = f
  /\ inventory' = [i \in Item |-> IF remote[i].active THEN remote[i].mtime ELSE None]
  /\ Mirror!Observe(Owned)
  /\ UNCHANGED <<remote, fetched>>

(* view_custom_item: refused unless the item is as it was listed.          *)
Unchanged(i) == remote[i].active /\ remote[i].mtime = inventory[i]

View(i) ==
  /\ phase = "fetch" /\ i \in ToFetch \ Fetched
  /\ Unchanged(i)
  /\ fetched' = [fetched EXCEPT ![i] = remote[i].fields]
  /\ UNCHANGED <<mirror, remote, phase, inventory, accepted, full>>

(* Mutant of Acceptable: unmanaged entries in the way are not conflicts.   *)
AcceptableUnmanaged ==
  /\ PathGraphValid
  /\ KnownConflicts \subseteq Pending \cap accepted

(* Everything is fetched: the checks before anything is staged.            *)
Acceptable ==
  /\ PathGraphValid
  /\ KnownConflicts \subseteq Pending \cap accepted
  /\ LET s == [p \in Path |-> IF p \in Pending \ Owned THEN store[p] ELSE seen[p]] IN
     /\ ActualConflicts(s) \subseteq Pending
     /\ ActualConflicts(s) = accepted

(* Mutant of Prepare: entries that are new to the manifest are not read.   *)
PrepareUnread ==
  /\ phase = "fetch" /\ ToFetch \subseteq Fetched
  /\ Acceptable
  /\ phase' = "staging"
  /\ UNCHANGED <<mirror, remote, inventory, fetched, accepted, full>>

Prepare ==
  /\ phase = "fetch" /\ ToFetch \subseteq Fetched
  /\ Acceptable
  /\ Mirror!Observe(Pending \ Owned)
  /\ phase' = "staging"
  /\ UNCHANGED <<remote, inventory, fetched, accepted, full>>

Reset ==
  /\ phase' = "idle"
  /\ inventory' = [i \in Item |-> None] /\ fetched' = [i \in Item |-> None]
  /\ accepted' = {} /\ full' = FALSE

(* The entries are encrypted, each to a new ciphertext, and committed.     *)
Commit ==
  /\ phase = "staging"
  /\ \E h \in [Pending -> Hash] :
        /\ \A p \in Pending : h[p] # seen[p]
        /\ Mirror!Update(Pending, NextManifest(h))
  /\ Reset
  /\ UNCHANGED remote

(* The run stops before the update: one of its checks fails, ...           *)
Refused ==
  phase = "fetch" /\ \/ \E i \in ToFetch \ Fetched : ~Unchanged(i)
                     \/ ToFetch \subseteq Fetched /\ ~Acceptable

End ==
  /\ Mirror!Forget
  /\ Reset
  /\ UNCHANGED remote

Refuse == Refused /\ End

(* ... or a command fails, or the process dies.                            *)
Fail == phase # "idle" /\ End

-----------------------------------------------------------------------------
(* The environment.                                                        *)

(* An item is edited: fields are added, removed, renamed, or get new       *)
(* values; its modification time moves on.                                 *)
EditItem(i, fields) ==
  /\ remote[i].active /\ remote[i].mtime < MaxTime
  /\ remote' = [remote EXCEPT ![i].fields = fields, ![i].mtime = @ + 1]
  /\ UNCHANGED <<mirror, run>>

(* An item is trashed, hidden, created, or restored as it was.             *)
Toggle(i) ==
  /\ remote' = [remote EXCEPT ![i].active = ~@]
  /\ UNCHANGED <<mirror, run>>

LocalEdit(p, h) ==
  /\ LocalUse = "always" \/ (LocalUse = "once" /\ p \notin edited)
  /\ h # store[p]
  /\ Mirror!Edit(p, h)
  /\ UNCHANGED <<remote, run>>

Program ==
  \/ \E acc \in SUBSET Path, f \in BOOLEAN : Start(acc, f)
  \/ \E i \in Item : View(i)
  \/ Prepare \/ Commit \/ Refuse

Vault == \E i \in Item : Toggle(i) \/ \E fields \in SUBSET Path : EditItem(i, fields)
LocalUser == \E p \in Path, h \in Hash \cup {Absent} : LocalEdit(p, h)

Next == Program \/ Fail \/ Vault \/ LocalUser

(* The hourly timer (home-manager.nix:284-298) starts runs without options; *)
(* a run goes on by itself.                                                *)
Fairness ==
  /\ WF_vars(Start({}, FALSE))
  /\ WF_vars(\/ \E i \in Item : View(i)
             \/ Prepare \/ Commit \/ Refuse)

Spec == Init /\ [][Next]_vars /\ Fairness

-----------------------------------------------------------------------------
(* Properties.                                                             *)

TypeOK ==
  /\ store \in [Path -> Hash \cup {Absent}]
  /\ manifest \in [hash : [Path -> Hash \cup {Absent}], meta : Meta]
  /\ \A p \in Path : (manifest.hash[p] = Absent) <=> (manifest.meta.owner[p] = None)
  /\ seen \in [Path -> Hash \cup {Absent, Unread}]
  /\ edited \subseteq Path
  /\ remote \in [Item -> [active : BOOLEAN, mtime : Time, fields : SUBSET Path]]
  /\ phase \in {"idle", "fetch", "staging"}
  /\ inventory \in [Item -> Time \cup {None}]
  /\ fetched \in [Item -> {None} \cup SUBSET Path]
  /\ accepted \subseteq Path /\ full \in BOOLEAN

(* What sync decides is always an update that the transaction can carry    *)
(* out: it rests on observed entries only, and no owner is lost.           *)
ImplementsMirror == Mirror!Spec

(* The same of the one step that matters, where prune, which AtomicMirror  *)
(* knows nothing of, takes entries out of the manifest between the runs.   *)
CommitAllowed == [][Commit => Mirror!Allowed(Pending, manifest')]_vars

(* Contents that are not the program's own -- an unmanaged entry, or an    *)
(* owned one that was changed or deleted -- are replaced only by a run     *)
(* whose --accept-remote names the entry (README.md:274-277).              *)
OnlyAcceptedReplaced ==
  [][phase' # phase =>
       \A p \in Path : store'[p] # store[p] =>
          p \in accepted \/ store[p] = manifest.hash[p]]_vars

(* A run that commits leaves the record of every item that is still as     *)
(* listed: the fields it has now are active, the others of it retained.    *)
(* That holds for the items the run did not fetch, too.                    *)
RecordMatchesVault ==
  [][Commit =>
       \A i \in Item :
         /\ inventory[i] # None /\ Unchanged(i) =>
              /\ manifest'.meta.item[i] = [mtime |-> remote[i].mtime, missing |-> FALSE]
              /\ Active(manifest', i) = remote[i].fields
         /\ inventory[i] = None => Active(manifest', i) = {}]_vars

(* An entry the vault no longer backs stays on disk as it was: a commit    *)
(* never drops it from the manifest, and never writes it while retained.   *)
RetainedKept ==
  [][\A p \in Owned :
       /\ manifest'.hash[p] # Absent
       /\ manifest'.meta.reason[p] # None => manifest'.hash[p] = manifest.hash[p]]_vars

(* From some moment on nothing fails (a step that could be a failure is a  *)
(* refusal or an update without effect), the vault and the entries are     *)
(* left alone, and only the timer starts runs.                             *)
Calm ==
  <>[][/\ Fail => Refuse \/ Commit
       /\ remote' = remote
       /\ store' # store => phase' # phase
       /\ phase = "idle" /\ phase' # "idle" => accepted' = {} /\ ~full']_vars

(* The manifest says of item i what the vault says.                        *)
Recorded(i) ==
  IF remote[i].active
  THEN /\ manifest.meta.item[i] = [mtime |-> remote[i].mtime, missing |-> FALSE]
       /\ Active(manifest, i) = remote[i].fields
  ELSE Known(i) => manifest.meta.item[i].missing /\ Active(manifest, i) = {}

Wanted(i) == OwnedBy(i) \cup IF remote[i].active THEN remote[i].fields ELSE {}

(* What a person has to resolve: changed or unmanaged entries in the way,  *)
(* or paths that collide, one of which may be retained only.               *)
LocalConflict ==
  \/ \E p \in Owned : store[p] # manifest.hash[p]
  \/ \E i \in Item : remote[i].active /\ \E p \in remote[i].fields \ Owned : store[p] # Absent

Collision ==
  \/ \E i, j \in Item : i # j /\ Wanted(i) \cap Wanted(j) # {}
  \/ \E c \in Clash : c \subseteq UNION {Wanted(i) : i \in Item}

(* Once things are calm the periodic runs bring the mirror up to date with *)
(* the whole vault, unless a conflict or a collision needs a decision.     *)
Converges == Calm => <>[]((\A i \in Item : Recorded(i)) \/ LocalConflict \/ Collision)

(* "If a remote item or field is trashed, removed, renamed ... its last    *)
(* local ciphertext is retained and marked remote-missing." (README.md:281)*)
Backed(p) ==
  \E i \in Item : manifest.meta.owner[p] = i /\ remote[i].active /\ p \in remote[i].fields

LossIsMarked ==
  Calm /\ []~LocalConflict =>
    \A p \in Path : p \in Owned /\ ~Backed(p) ~> Backed(p) \/ manifest.meta.reason[p] # None
=============================================================================
