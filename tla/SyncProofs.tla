------------------------------ MODULE SyncProofs -----------------------------
(* What runs of sync promise, for any items, paths, digests and times.  The *)
(* lemmas speak of single steps, so that they hold beside prune, too.       *)
EXTENDS Sync, TLAPS

USE HashAssumption, TimeAssumption, NoneAssumption

Content == Hash \cup {Absent}
Unseen == [p \in Path |-> Unread]

(* What was read is there until somebody else writes the entry.             *)
SeenFresh == \A p \in Path : seen[p] # Unread => p \in edited \/ seen[p] = store[p]

(* What a run has read, and what it may rely on once it stages.             *)
RunOK ==
  /\ phase = "idle" => seen = Unseen /\ fetched = [i \in Item |-> None]
  /\ phase # "idle" => \A p \in Owned : seen[p] # Unread
  /\ phase = "staging" =>
       /\ PathGraphValid
       /\ ToFetch \subseteq Fetched
       /\ \A p \in Pending : seen[p] # Unread /\ (p \in accepted \/ seen[p] = manifest.hash[p])
       /\ \A p \in Owned \ Pending : seen[p] = manifest.hash[p]

(* Times only grow; whoever has the present one has the present fields.     *)
ListingOK ==
  \A i \in Item :
    /\ inventory[i] # None => inventory[i] <= remote[i].mtime
    /\ fetched[i] # None =>
         inventory[i] # None /\ (inventory[i] = remote[i].mtime => fetched[i] = remote[i].fields)

RecordOK ==
  \A i \in Item :
    /\ ~Known(i) => OwnedBy(i) = {}
    /\ Known(i) =>
         /\ manifest.meta.item[i].mtime <= remote[i].mtime
         /\ manifest.meta.item[i].missing => Active(manifest, i) = {}
         /\ ~manifest.meta.item[i].missing /\ manifest.meta.item[i].mtime = remote[i].mtime =>
              Active(manifest, i) = remote[i].fields

SInv == TypeOK /\ SeenFresh /\ RunOK /\ ListingOK /\ RecordOK

-----------------------------------------------------------------------------
(* The next manifest.                                                       *)

LEMMA PendingOwner ==
  ASSUME NEW p \in Pending
  PROVE  NextOwner(p) \in Fetched /\ p \in fetched[NextOwner(p)]
<1>1. PICK i \in Fetched : p \in fetched[i]
  BY DEF Pending
<1>2. NextOwner(p) = CHOOSE j \in Fetched : p \in fetched[j]
  BY DEF NextOwner
<1>3. QED
  BY <1>1, <1>2

LEMMA PendingPath == TypeOK => Pending \subseteq Path
  BY DEF TypeOK, Pending, Fetched

LEMMA NextMetaType ==
  ASSUME TypeOK, ListingOK PROVE NextMeta \in Meta
<1>1. ASSUME NEW i \in Item PROVE NextItem(i) \in {None} \cup ItemRecord
  <2>1. manifest.meta.item[i] \in {None} \cup ItemRecord
    BY DEF TypeOK, Meta
  <2>2. i \in Fetched => inventory[i] \in Time
    BY DEF TypeOK, ListingOK, Fetched
  <2>3. QED
    BY <2>1, <2>2 DEF NextItem, Known, ItemRecord
<1>2. ASSUME NEW p \in Path PROVE NextOwner(p) \in Item \cup {None}
  <2>1. CASE p \in Pending
    BY <2>1, PendingOwner DEF Fetched
  <2>2. CASE p \notin Pending
    BY <2>2 DEF NextOwner, TypeOK, Meta
  <2>3. QED
    BY <2>1, <2>2
<1>3. ASSUME NEW p \in Path PROVE NextReason(p) \in {None, RemoteMissing, RemoteFieldMissing}
  <2>1. manifest.meta.reason[p] \in {None, RemoteMissing, RemoteFieldMissing}
    BY DEF TypeOK, Meta
  <2>2. QED
    BY <2>1 DEF NextReason
<1>4. QED
  BY <1>1, <1>2, <1>3 DEF NextMeta, Meta

(* While a run stages no path is claimed by two items.                      *)
LEMMA OneClaim ==
  ASSUME TypeOK, PathGraphValid, NEW i \in Item, NEW p \in Pending, p \in OwnedBy(i) \/ NextOwner(p) = i
  PROVE  NextOwner(p) = i /\ i \in Fetched /\ p \in fetched[i]
<1>1. NextOwner(p) \in Item /\ p \in Desired(NextOwner(p))
  BY PendingOwner DEF Fetched, Desired
<1>2. NextOwner(p) = i
  BY <1>1 DEF PathGraphValid, Desired
<1>3. QED
  BY <1>2, PendingOwner

(* What becomes of the entries of an item.                                  *)
LEMMA NextFields ==
  ASSUME TypeOK, ListingOK, PathGraphValid, NEW i \in Item
  PROVE  LET a == {p \in Path : NextOwner(p) = i /\ NextReason(p) = None} IN
         /\ i \in Fetched => a = fetched[i]
         /\ i \in Listed \ Fetched => a = Active(manifest, i)
         /\ i \notin Listed => a = {}
         /\ i \notin Fetched => {p \in Path : NextOwner(p) = i} = OwnedBy(i)
<1>1. Fetched \subseteq Listed
  BY DEF Fetched, Listed, ListingOK
<1>2. ASSUME NEW p \in Path, p \in Pending
      PROVE  NextReason(p) = None /\ (NextOwner(p) = i <=> i \in Fetched /\ p \in fetched[i])
             /\ (i \notin Fetched => p \notin OwnedBy(i))
  <2>1. NextReason(p) = None
    BY <1>2 DEF NextReason
  <2>2. ASSUME i \in Fetched, p \in fetched[i] PROVE NextOwner(p) = i
    <3>1. NextOwner(p) \in Item /\ p \in Desired(NextOwner(p))
      BY <1>2, PendingOwner DEF Fetched, Desired
    <3>2. p \in Desired(i)
      BY <2>2 DEF Fetched, Desired
    <3>3. QED
      BY <3>1, <3>2 DEF PathGraphValid
  <2>3. QED
    BY <1>2, <2>1, <2>2, OneClaim
<1>3. ASSUME NEW p \in Path, p \notin Pending
      PROVE  /\ NextOwner(p) = manifest.meta.owner[p]
             /\ i \in Fetched => p \notin fetched[i]
             /\ NextOwner(p) = i /\ i \in Fetched => NextReason(p) # None
             /\ NextOwner(p) = i /\ i \notin Listed => NextReason(p) # None
             /\ NextOwner(p) = i /\ i \in Listed \ Fetched => NextReason(p) = manifest.meta.reason[p]
  <2>1. NextOwner(p) = manifest.meta.owner[p] /\ (i \in Fetched => p \notin fetched[i])
    BY <1>3 DEF NextOwner, Pending
  <2>2. QED
    BY <1>1, <1>3, <2>1 DEF NextReason
<1>4. i \in Fetched => fetched[i] \subseteq Path
  BY DEF TypeOK, Fetched
<1>5. QED
  BY <1>1, <1>2, <1>3, <1>4 DEF Active, OwnedBy

-----------------------------------------------------------------------------
(* The update.                                                              *)

LEMMA CommitStep ==
  ASSUME SInv, Commit
  PROVE  /\ phase = "staging" /\ remote' = remote
         /\ manifest'.meta = NextMeta
         /\ manifest' \in [hash : [Path -> Content], meta : Meta]
         /\ \A p \in Pending : manifest'.hash[p] \in Hash
         /\ \A p \in Path \ Pending : manifest'.hash[p] = manifest.hash[p]
         /\ store' = [p \in Path |-> IF p \in Pending /\ store[p] = seen[p]
                                     THEN manifest'.hash[p] ELSE store[p]]
         /\ edited' = {p \in edited : store[p] # seen[p]}
         /\ seen' = Unseen
         /\ Reset
         /\ Mirror!Update(Pending, manifest')
<1> USE DEF SInv
<1>1. PICK h \in [Pending -> Hash] : Mirror!Update(Pending, NextManifest(h))
  BY DEF Commit
<1>2. manifest' = NextManifest(h)
  BY <1>1 DEF Mirror!Update
<1>3. NextManifest(h) \in [hash : [Path -> Content], meta : Meta]
  BY NextMetaType DEF NextManifest, TypeOK, Content
<1>4. /\ \A p \in Pending : manifest'.hash[p] \in Hash
      /\ \A p \in Path \ Pending : manifest'.hash[p] = manifest.hash[p]
  BY <1>2, PendingPath DEF NextManifest
<1>5. manifest'.meta = NextMeta
  BY <1>2 DEF NextManifest
<1>6. /\ store' = [p \in Path |-> IF p \in Pending /\ store[p] = seen[p]
                                  THEN manifest'.hash[p] ELSE store[p]]
      /\ edited' = {p \in edited : store[p] # seen[p]}
      /\ seen' = Unseen
  BY <1>1, <1>2 DEF Mirror!Update, Mirror!Nothing, Unseen
<1>7. QED
  BY <1>1, <1>2, <1>3, <1>4, <1>5, <1>6 DEF Commit

LEMMA UpdateAllowed ==
  ASSUME SInv, Commit PROVE Mirror!Allowed(Pending, manifest')
<1>1. ASSUME NEW p \in Path, p \notin Pending
      PROVE  \/ manifest'.hash[p] = seen[p] /\ manifest'.hash[p] \in Hash
             \/ manifest'.hash[p] = Absent /\ manifest.hash[p] = Absent
  BY <1>1, CommitStep DEF SInv, RunOK, Owned, TypeOK
<1>2. QED
  BY <1>1, CommitStep DEF SInv, RunOK, Mirror!Allowed

(* After an update the manifest is right about every entry but those that   *)
(* somebody else wrote while the run was under way.                         *)
LEMMA CommitInPlace ==
  ASSUME SInv, Commit, NEW p \in Owned', p \notin edited'
  PROVE  store'[p] = manifest'.hash[p]
<1> USE DEF SInv
<1>1. p \in Path /\ (p \in Pending \/ p \in Owned)
  BY CommitStep DEF Owned
<1>2. seen[p] # Unread
  BY <1>1, CommitStep DEF RunOK
<1>3. seen[p] = store[p]
  BY <1>1, <1>2, CommitStep DEF SeenFresh
<1>4. CASE p \in Pending
  BY <1>1, <1>3, <1>4, CommitStep
<1>5. CASE p \notin Pending
  BY <1>1, <1>3, <1>5, CommitStep DEF RunOK
<1>6. QED
  BY <1>4, <1>5

-----------------------------------------------------------------------------
(* The invariant.                                                           *)

LEMMA InitSInv == Init => SInv
<1> SUFFICES ASSUME Init PROVE SInv
  OBVIOUS
<1> USE DEF Init
<1>1. 0 \in Time
  BY DEF Time
<1>2. Owned = {} /\ \A i \in Item : OwnedBy(i) = {} /\ ~Known(i)
  BY DEF Owned, OwnedBy, Known
<1>3. TypeOK
  <2>1. manifest \in [hash : [Path -> Content], meta : Meta]
    BY DEF Meta, Content
  <2>2. remote \in [Item -> [active : BOOLEAN, mtime : Time, fields : SUBSET Path]]
    BY <1>1
  <2>3. seen \in [Path -> Hash \cup {Absent, Unread}]
    OBVIOUS
  <2>4. QED
    BY <2>1, <2>2, <2>3 DEF TypeOK, Content
<1>4. QED
  BY <1>2, <1>3 DEF SInv, SeenFresh, RunOK, ListingOK, RecordOK, Unseen

LEMMA StartSInv ==
  ASSUME SInv, NEW acc \in SUBSET Path, NEW f \in BOOLEAN, Start(acc, f) PROVE SInv'
<1> USE DEF SInv
<1>1. /\ phase = "idle" /\ phase' = "fetch" /\ accepted' = acc /\ full' = f
      /\ inventory' = [i \in Item |-> IF remote[i].active THEN remote[i].mtime ELSE None]
      /\ seen' = [p \in Path |-> IF p \in Owned THEN store[p] ELSE seen[p]]
      /\ UNCHANGED <<store, manifest, edited, remote, fetched>>
  BY DEF Start, Mirror!Observe
<1>2. seen' \in [Path -> Hash \cup {Absent, Unread}]
  BY <1>1 DEF TypeOK
<1>3. inventory' \in [Item -> Time \cup {None}]
  BY <1>1 DEF TypeOK
<1>4. TypeOK'
  BY <1>1, <1>2, <1>3 DEF TypeOK
<1>5. SeenFresh'
  BY <1>1 DEF SeenFresh, RunOK, Unseen
<1>6. RunOK'
  BY <1>1 DEF RunOK, Owned, TypeOK
<1>7. RecordOK'
  BY <1>1 DEF RecordOK, Known, OwnedBy, Active
<1>8. ASSUME NEW i \in Item
      PROVE  /\ inventory'[i] # None => inventory'[i] <= remote'[i].mtime
             /\ fetched'[i] # None =>
                  inventory'[i] # None
                  /\ (inventory'[i] = remote'[i].mtime => fetched'[i] = remote'[i].fields)
  BY <1>1 DEF RunOK, TypeOK, Time
<1>9. QED
  BY <1>4, <1>5, <1>6, <1>7, <1>8 DEF ListingOK

LEMMA ViewSInv == ASSUME SInv, NEW i \in Item, View(i) PROVE SInv'
<1> USE DEF SInv
<1>1. /\ phase = "fetch" /\ i \in ToFetch /\ Unchanged(i)
      /\ fetched' = [fetched EXCEPT ![i] = remote[i].fields]
      /\ UNCHANGED <<store, manifest, seen, edited, remote, phase, inventory, accepted, full>>
  BY DEF View, mirror
<1>2. fetched' \in [Item -> {None} \cup SUBSET Path]
  BY <1>1 DEF TypeOK
<1>3. TypeOK'
  BY <1>1, <1>2 DEF TypeOK
<1>4. SeenFresh' /\ RunOK'
  BY <1>1 DEF SeenFresh, RunOK, Owned
<1>5. RecordOK'
  BY <1>1 DEF RecordOK, Known, OwnedBy, Active
<1>6. i \in Listed
  BY <1>1 DEF ToFetch, Changed
<1>7. ListingOK'
  BY <1>1, <1>6 DEF ListingOK, Listed, TypeOK
<1>8. QED
  BY <1>3, <1>4, <1>5, <1>7

LEMMA PrepareSInv == SInv /\ Prepare => SInv'
<1> SUFFICES ASSUME SInv, Prepare PROVE SInv'
  OBVIOUS
<1> USE DEF SInv
<1>1. /\ phase = "fetch" /\ phase' = "staging" /\ ToFetch \subseteq Fetched /\ Acceptable
      /\ seen' = [p \in Path |-> IF p \in Pending \ Owned THEN store[p] ELSE seen[p]]
      /\ UNCHANGED <<store, manifest, edited, remote, inventory, fetched, accepted, full>>
  BY DEF Prepare, Mirror!Observe
<1>2. /\ Owned' = Owned /\ Fetched' = Fetched /\ Pending' = Pending /\ ToFetch' = ToFetch
      /\ PathGraphValid'
  BY <1>1 DEF Owned, Fetched, Pending, ToFetch, Changed, Listed, OwnedBy, Known,
              Acceptable, PathGraphValid, Desired
<1>3. TypeOK'
  <2>1. seen' \in [Path -> Hash \cup {Absent, Unread}]
    BY <1>1 DEF TypeOK
  <2>2. QED
    BY <1>1, <2>1 DEF TypeOK
<1>4. SeenFresh'
  BY <1>1 DEF SeenFresh
<1>5. ListingOK' /\ RecordOK'
  BY <1>1 DEF ListingOK, RecordOK, Known, OwnedBy, Active
<1>6. RunOK'
  <2>1. ASSUME NEW p \in Pending
        PROVE  seen'[p] # Unread /\ (p \in accepted \/ seen'[p] = manifest.hash[p])
    <3>1. CASE p \in Owned
      BY <1>1, <3>1, PendingPath DEF Acceptable, KnownConflicts, Owned, RunOK
    <3>2. CASE p \notin Owned
      <4> DEFINE s == [q \in Path |-> IF q \in Pending \ Owned THEN store[q] ELSE seen[q]]
      <4>1. ActualConflicts(s) = accepted
        BY <1>1 DEF Acceptable
      <4>2. p \in Path /\ seen'[p] = store[p] /\ s[p] = store[p] /\ manifest.hash[p] = Absent
        BY <1>1, <3>2, PendingPath DEF Owned
      <4>3. store[p] # Absent => p \in accepted
        BY <3>2, <4>1, <4>2 DEF ActualConflicts
      <4>4. QED
        BY <4>2, <4>3 DEF TypeOK
    <3>3. QED
      BY <3>1, <3>2
  <2>2. ASSUME NEW p \in Owned PROVE seen'[p] # Unread /\ (p \notin Pending => seen'[p] = manifest.hash[p])
    BY <1>1, <2>2 DEF Acceptable, KnownConflicts, RunOK, Owned
  <2>3. QED
    BY <1>1, <1>2, <2>1, <2>2 DEF RunOK
<1>7. QED
  BY <1>3, <1>4, <1>5, <1>6

LEMMA CommitSInv == SInv /\ Commit => SInv'
<1> SUFFICES ASSUME SInv, Commit PROVE SInv'
  OBVIOUS
<1> USE DEF SInv
<1>1. PathGraphValid /\ ToFetch \subseteq Fetched /\ Fetched \subseteq Listed
  BY CommitStep DEF RunOK, ListingOK, Fetched, Listed
<1>2. \A p \in Path : (manifest'.hash[p] = Absent) <=> (manifest'.meta.owner[p] = None)
  <2>1. ASSUME NEW p \in Path, p \in Pending
        PROVE  manifest'.hash[p] # Absent /\ manifest'.meta.owner[p] # None
    BY <2>1, CommitStep, PendingOwner DEF NextMeta, Fetched
  <2>2. ASSUME NEW p \in Path, p \notin Pending
        PROVE  (manifest'.hash[p] = Absent) <=> (manifest'.meta.owner[p] = None)
    BY <2>2, CommitStep DEF NextMeta, NextOwner, TypeOK
  <2>3. QED
    BY <2>1, <2>2
<1>3. TypeOK'
  <2>1. store' \in [Path -> Hash \cup {Absent}]
    BY CommitStep DEF TypeOK, Content
  <2>2. seen' \in [Path -> Hash \cup {Absent, Unread}]
    BY CommitStep DEF Unseen
  <2>3. QED
    BY <1>2, <2>1, <2>2, CommitStep DEF TypeOK, Content, Reset
<1>4. SeenFresh' /\ RunOK' /\ ListingOK'
  <2>1. seen' = Unseen /\ phase' = "idle" /\ fetched' = [i \in Item |-> None]
        /\ inventory' = [i \in Item |-> None]
    BY CommitStep DEF Reset
  <2>2. QED
    BY <2>1 DEF SeenFresh, RunOK, ListingOK, Unseen
<1>5. RecordOK'
  <2>1. ASSUME NEW i \in Item
        PROVE  /\ manifest'.meta.item[i] = NextItem(i)
               /\ OwnedBy(i)' = {p \in Path : NextOwner(p) = i}
               /\ Active(manifest', i) = {p \in Path : NextOwner(p) = i /\ NextReason(p) = None}
    BY CommitStep DEF NextMeta, OwnedBy, Active
  <2>2. ASSUME NEW i \in Item
        PROVE  /\ ~Known(i)' => OwnedBy(i)' = {}
               /\ Known(i)' =>
                    /\ NextItem(i).mtime <= remote[i].mtime
                    /\ NextItem(i).missing => Active(manifest', i) = {}
                    /\ ~NextItem(i).missing /\ NextItem(i).mtime = remote[i].mtime =>
                         Active(manifest', i) = remote[i].fields
    <3>1. CASE i \in Fetched
      <4>1. NextItem(i) = [mtime |-> inventory[i], missing |-> FALSE] /\ inventory[i] # None
        BY <1>1, <3>1 DEF NextItem, Listed
      <4>2. Active(manifest', i) = fetched[i]
        BY <1>1, <2>1, <3>1, NextFields
      <4>3. NextItem(i) # None
        <5>1. inventory[i] \in Time
          BY <4>1 DEF TypeOK
        <5>2. NextItem(i) \in ItemRecord
          BY <4>1, <5>1 DEF ItemRecord
        <5>3. QED
          BY <5>2
      <4>4. QED
        BY <2>1, <3>1, <4>1, <4>2, <4>3 DEF ListingOK, Known, Fetched
    <3>2. CASE i \in Listed \ Fetched
      <4>1. Known(i) /\ ~manifest.meta.item[i].missing /\ NextItem(i) = manifest.meta.item[i]
        BY <1>1, <3>2 DEF ToFetch, Changed, NextItem
      <4>2. Active(manifest', i) = Active(manifest, i)
        BY <1>1, <2>1, <3>2, NextFields
      <4>3. QED
        BY <2>1, <4>1, <4>2 DEF RecordOK, Known
    <3>3. CASE i \notin Listed
      <4>1. Active(manifest', i) = {} /\ OwnedBy(i)' = OwnedBy(i) /\ i \notin Fetched
        BY <1>1, <2>1, <3>3, NextFields
      <4>2. CASE Known(i)
        <5>1. manifest.meta.item[i] \in ItemRecord
          BY <4>2 DEF TypeOK, Meta, Known
        <5>2. NextItem(i) \in ItemRecord /\ NextItem(i).missing
              /\ NextItem(i).mtime = manifest.meta.item[i].mtime
          BY <3>3, <4>1, <4>2, <5>1 DEF NextItem, ItemRecord
        <5>3. QED
          BY <2>1, <4>1, <4>2, <5>2 DEF RecordOK, Known
      <4>3. CASE ~Known(i)
        BY <2>1, <3>3, <4>1, <4>3 DEF RecordOK, Known, NextItem
      <4>4. QED
        BY <4>2, <4>3
    <3>4. QED
      BY <3>1, <3>2, <3>3
  <2>3. QED
    BY <2>1, <2>2, CommitStep DEF RecordOK
<1>6. QED
  BY <1>3, <1>4, <1>5

(* A run ends without an update.                                            *)
LEMMA EndSInv == SInv /\ End => SInv'
<1> SUFFICES ASSUME SInv, End PROVE SInv'
  OBVIOUS
<1> USE DEF SInv
<1>1. /\ seen' = Unseen /\ phase' = "idle" /\ accepted' = {} /\ full' = FALSE
      /\ inventory' = [i \in Item |-> None] /\ fetched' = [i \in Item |-> None]
      /\ UNCHANGED <<store, manifest, edited, remote>>
  BY DEF End, Reset, Mirror!Forget, Mirror!Nothing, Unseen
<1>2. TypeOK'
  <2>1. seen' \in [Path -> Hash \cup {Absent, Unread}]
    BY <1>1 DEF Unseen
  <2>2. QED
    BY <1>1, <2>1 DEF TypeOK
<1>3. SeenFresh' /\ RunOK' /\ ListingOK'
  BY <1>1 DEF SeenFresh, RunOK, ListingOK, Unseen
<1>4. RecordOK'
  BY <1>1 DEF RecordOK, Known, OwnedBy, Active
<1>5. QED
  BY <1>2, <1>3, <1>4

LEMMA RunFixed ==
  ASSUME RunOK, UNCHANGED <<manifest, seen, run>> PROVE RunOK'
<1>1. /\ Owned' = Owned /\ Fetched' = Fetched /\ Pending' = Pending /\ ToFetch' = ToFetch
      /\ PathGraphValid' = PathGraphValid
  BY DEF Owned, Fetched, Pending, ToFetch, Changed, Listed, OwnedBy, Known,
         PathGraphValid, Desired, run
<1>2. QED
  BY <1>1 DEF RunOK, run

LEMMA VaultSInv == SInv /\ Vault => SInv'
<1> SUFFICES ASSUME SInv, Vault PROVE SInv'
  OBVIOUS
<1> USE DEF SInv
<1>1. UNCHANGED <<mirror, run>>
  BY DEF Vault, Toggle, EditItem
<1> DEFINE Vaults == [Item -> [active : BOOLEAN, mtime : Time, fields : SUBSET Path]]
           Later(i) == \/ remote'[i].mtime = remote[i].mtime /\ remote'[i].fields = remote[i].fields
                       \/ remote'[i].mtime = remote[i].mtime + 1
<1>2. remote' \in Vaults /\ \A i \in Item : Later(i)
  <2>1. remote \in Vaults
    BY DEF TypeOK
  <2>2. ASSUME NEW i \in Item, Toggle(i) PROVE remote' \in Vaults /\ \A j \in Item : Later(j)
    <3>1. remote' = [remote EXCEPT ![i].active = ~remote[i].active]
      BY <2>2 DEF Toggle
    <3>2. (~remote[i].active) \in BOOLEAN
      OBVIOUS
    <3>3. QED
      BY <2>1, <3>1, <3>2
  <2>3. ASSUME NEW i \in Item, NEW fields \in SUBSET Path, EditItem(i, fields)
        PROVE  remote' \in Vaults /\ \A j \in Item : Later(j)
    BY <2>1, <2>3 DEF EditItem, Time
  <2>4. QED
    BY <2>2, <2>3 DEF Vault
<1>3. TypeOK' /\ SeenFresh' /\ RunOK'
  BY <1>1, <1>2, RunFixed DEF TypeOK, SeenFresh, mirror, run
<1>4. ASSUME NEW i \in Item
      PROVE  remote[i].mtime \in Nat /\ (inventory[i] # None => inventory[i] \in Nat)
  <2>1. Time \subseteq Nat
    BY DEF Time
  <2>2. remote[i].mtime \in Time /\ inventory[i] \in Time \cup {None}
    BY DEF TypeOK
  <2>3. QED
    BY <2>1, <2>2
<1>5. ListingOK'
  BY <1>1, <1>2, <1>4 DEF ListingOK, run
<1>6. \A i \in Item : Known(i) => manifest.meta.item[i].mtime \in Nat
  BY DEF TypeOK, Meta, ItemRecord, Known, Time
<1>7. RecordOK'
  BY <1>1, <1>2, <1>4, <1>6 DEF RecordOK, Known, OwnedBy, Active, mirror
<1>8. QED
  BY <1>3, <1>5, <1>7

LEMMA LocalEditSInv == SInv /\ LocalUser => SInv'
<1> SUFFICES ASSUME SInv, NEW p \in Path, NEW h \in Hash \cup {Absent}, LocalEdit(p, h) PROVE SInv'
  BY DEF LocalUser
<1> USE DEF SInv
<1>1. /\ store' = [store EXCEPT ![p] = h] /\ edited' = edited \cup {p}
      /\ UNCHANGED <<manifest, seen, remote, run>>
  BY DEF LocalEdit, Mirror!Edit
<1>2. TypeOK' /\ SeenFresh' /\ RunOK'
  BY <1>1, RunFixed DEF TypeOK, SeenFresh, run
<1>3. ListingOK' /\ RecordOK'
  BY <1>1 DEF ListingOK, RecordOK, Known, OwnedBy, Active, run
<1>4. QED
  BY <1>2, <1>3

LEMMA StutterSInv == SInv /\ UNCHANGED vars => SInv'
  BY RunFixed DEF SInv, vars, mirror, run, TypeOK, SeenFresh, ListingOK, RecordOK,
     Known, OwnedBy, Active

LEMMA ProgramSInv == SInv /\ (Program \/ Fail) => SInv'
  BY StartSInv, ViewSInv, PrepareSInv, CommitSInv, EndSInv DEF Program, Refuse, Fail

LEMMA SyncInductive == Spec => []SInv
<1>1. SInv /\ [Next]_vars => SInv'
  BY ProgramSInv, VaultSInv, LocalEditSInv, StutterSInv DEF Next
<1>2. QED
  BY <1>1, InitSInv, PTL DEF Spec

-----------------------------------------------------------------------------
(* What single steps do, in any specification.                              *)

LEMMA ForeignStep ==
  ASSUME SInv, Program \/ Fail, NEW p \in Path, store'[p] # store[p]
  PROVE  p \in accepted \/ store[p] = manifest.hash[p]
<1>1. CASE Commit
  BY <1>1, CommitStep DEF SInv, RunOK
<1>2. CASE ~Commit
  BY <1>2 DEF Program, Start, View, Prepare, Refuse, Fail, End,
     Mirror!Observe, Mirror!Forget, mirror
<1>3. QED
  BY <1>1, <1>2

LEMMA RetainStep ==
  ASSUME SInv, Program \/ Fail, NEW p \in Owned
  PROVE  /\ manifest'.hash[p] # Absent
         /\ manifest'.meta.reason[p] # None => manifest'.hash[p] = manifest.hash[p]
<1>1. CASE Commit
  <2>1. p \in Pending => manifest'.meta.reason[p] = None
    BY <1>1, CommitStep DEF NextMeta, NextReason, Owned
  <2>2. QED
    BY <1>1, <2>1, CommitStep DEF Owned
<1>2. CASE ~Commit
  BY <1>2 DEF Program, Start, View, Prepare, Refuse, Fail, End, Mirror!Observe, Mirror!Forget,
     mirror, Owned
<1>3. QED
  BY <1>1, <1>2

(* Everybody's record is the vault's, fetched or not.                       *)
LEMMA RecordStep ==
  ASSUME SInv, Commit, NEW i \in Item
  PROVE  /\ inventory[i] # None /\ Unchanged(i) =>
              /\ manifest'.meta.item[i] = [mtime |-> remote[i].mtime, missing |-> FALSE]
              /\ Active(manifest', i) = remote[i].fields
         /\ inventory[i] = None => Active(manifest', i) = {}
<1> USE DEF SInv
<1>1. PathGraphValid /\ ToFetch \subseteq Fetched /\ Fetched \subseteq Listed
  BY CommitStep DEF RunOK, ListingOK, Fetched, Listed
<1>2. /\ manifest'.meta.item[i] = NextItem(i)
      /\ Active(manifest', i) = {p \in Path : NextOwner(p) = i /\ NextReason(p) = None}
  BY CommitStep DEF NextMeta, Active
<1>3. CASE i \in Fetched
  <2>1. NextItem(i) = [mtime |-> inventory[i], missing |-> FALSE] /\ inventory[i] # None
    BY <1>1, <1>3 DEF NextItem, Listed
  <2>2. Active(manifest', i) = fetched[i]
    BY <1>1, <1>2, <1>3, NextFields
  <2>3. QED
    BY <1>2, <1>3, <2>1, <2>2 DEF ListingOK, Unchanged, Fetched
<1>4. CASE i \in Listed \ Fetched
  <2>1. /\ Known(i) /\ ~manifest.meta.item[i].missing
        /\ manifest.meta.item[i].mtime = inventory[i]
        /\ NextItem(i) = manifest.meta.item[i]
    BY <1>1, <1>4 DEF ToFetch, Changed, NextItem
  <2>2. Active(manifest', i) = Active(manifest, i)
    BY <1>1, <1>2, <1>4, NextFields
  <2>3. manifest.meta.item[i] \in ItemRecord
    BY <2>1 DEF TypeOK, Meta, Known
  <2>4. NextItem(i) = [mtime |-> inventory[i], missing |-> FALSE]
    BY <2>1, <2>3 DEF ItemRecord
  <2>5. QED
    BY <1>2, <1>4, <2>1, <2>2, <2>4 DEF RecordOK, Unchanged, Listed
<1>5. CASE i \notin Listed
  BY <1>1, <1>2, <1>5, NextFields DEF Listed
<1>6. QED
  BY <1>3, <1>4, <1>5

-----------------------------------------------------------------------------
(* The variables of a run and the manifest keep their form; owners and      *)
(* digests go together.                                                     *)
THEOREM SyncTypeCorrect == Spec => []TypeOK
<1>1. SInv => TypeOK
  BY DEF SInv
<1>2. QED
  BY <1>1, SyncInductive, PTL

(* Whatever sync decides (sync.rs:38-224) rests on what it has observed.    *)
THEOREM SyncsAreUpdates == Spec => ImplementsMirror
<1>1. Init => Mirror!Init
  <2>1. ASSUME Init PROVE manifest \in [hash : {[p \in Path |-> Absent]}, meta : Meta]
    BY <2>1 DEF Init, Meta
  <2>2. QED
    BY <2>1 DEF Init, Mirror!Init, Mirror!Content, Mirror!Nothing
<1>2. ASSUME SInv, Next PROVE [Mirror!Next]_(Mirror!vars)
  <2>1. ASSUME NEW acc \in SUBSET Path, NEW f \in BOOLEAN, Start(acc, f) PROVE Mirror!Next
    BY <2>1 DEF Start, Mirror!Next, Owned
  <2>2. CASE Prepare
    BY <1>2, <2>2, PendingPath DEF Prepare, Mirror!Next, SInv
  <2>3. CASE Commit
    <3>1. manifest' \in Mirror!Manifest /\ Pending \in SUBSET Path
      BY <1>2, <2>3, CommitStep, PendingPath DEF Mirror!Manifest, Mirror!Content, Content, SInv
    <3>2. QED
      BY <1>2, <2>3, <3>1, CommitStep, UpdateAllowed DEF Mirror!Next, Mirror!Commit
  <2>4. CASE End
    BY <2>4 DEF End, Mirror!Next
  <2>5. ASSUME NEW p \in Path, NEW h \in Hash \cup {Absent}, LocalEdit(p, h) PROVE Mirror!Next
    BY <2>5 DEF LocalEdit, Mirror!Next, Mirror!Content
  <2>6. CASE Vault \/ \E i \in Item : View(i)
    BY <2>6 DEF Vault, Toggle, EditItem, View, mirror, Mirror!vars
  <2>7. QED
    BY <1>2, <2>1, <2>2, <2>3, <2>4, <2>5, <2>6 DEF Next, Program, Refuse, Fail, LocalUser
<1>3. UNCHANGED vars => UNCHANGED Mirror!vars
  BY DEF vars, mirror, Mirror!vars
<1>4. SInv /\ [Next]_vars => [Mirror!Next]_(Mirror!vars)
  BY <1>2, <1>3
<1>5. QED
  BY <1>1, <1>4, SyncInductive, PTL DEF Spec, ImplementsMirror, Mirror!Spec

(* What AtomicMirror promises, of sync.                                     *)
Promise == INSTANCE AtomicMirrorProofs

LEMMA SyncIsPromised == ImplementsMirror => Promise!Spec
<1>1. Mirror!Init => Promise!Init
  BY DEF Mirror!Init, Promise!Init, Mirror!Content, Promise!Content, Mirror!Nothing, Promise!Nothing
<1>2. [Mirror!Next]_(Mirror!vars) => [Promise!Next]_(Promise!vars)
  BY DEF Mirror!Next, Promise!Next, Mirror!vars, Promise!vars, Mirror!Observe, Promise!Observe,
     Mirror!Commit, Promise!Commit, Mirror!Allowed, Promise!Allowed, Mirror!Update, Promise!Update,
     Mirror!Manifest, Promise!Manifest, Mirror!Forget, Promise!Forget, Mirror!Edit, Promise!Edit,
     Mirror!Content, Promise!Content, Mirror!Nothing, Promise!Nothing
<1>3. QED
  BY <1>1, <1>2, PTL DEF ImplementsMirror, Mirror!Spec, Promise!Spec

(* Sync never makes a conflict for itself: what inspect_manifest finds at   *)
(* odds with the manifest (sync.rs:381) somebody else has written.          *)
THEOREM SyncCausesNoConflict == Spec => []Mirror!ManifestTruth
<1>1. Promise!Spec => []Promise!ManifestTruth
  BY HashAssumption, Promise!MirrorTruth
<1>2. Promise!ManifestTruth => Mirror!ManifestTruth
  BY DEF Promise!ManifestTruth, Mirror!ManifestTruth
<1>3. QED
  BY <1>1, <1>2, SyncsAreUpdates, SyncIsPromised, PTL

(* The record of a committed run is that of the vault (sync.rs:118-155,     *)
(* 354-379; proton.rs:206-213), for items it fetched and items it skipped.  *)
THEOREM RecordIsTheVaults == Spec => RecordMatchesVault
<1> DEFINE A == Commit =>
       \A i \in Item :
         /\ inventory[i] # None /\ Unchanged(i) =>
              /\ manifest'.meta.item[i] = [mtime |-> remote[i].mtime, missing |-> FALSE]
              /\ Active(manifest', i) = remote[i].fields
         /\ inventory[i] = None => Active(manifest', i) = {}
<1>1. SInv /\ [Next]_vars => [A]_vars
  BY RecordStep
<1>2. QED
  BY <1>1, SyncInductive, PTL DEF Spec, RecordMatchesVault

(* No update loses an entry, or writes one that it retains (sync.rs:118-148, *)
(* 370-379).                                                                *)
THEOREM RetainedEntriesStay == Spec => RetainedKept
<1> DEFINE A == \A p \in Owned :
       /\ manifest'.hash[p] # Absent
       /\ manifest'.meta.reason[p] # None => manifest'.hash[p] = manifest.hash[p]
<1>1. ASSUME SInv, Next PROVE A
  <2>1. CASE Program \/ Fail
    BY <1>1, <2>1, RetainStep
  <2>2. CASE Vault \/ LocalUser
    BY <2>2 DEF Vault, Toggle, EditItem, LocalUser, LocalEdit, Mirror!Edit, mirror, Owned
  <2>3. QED
    BY <1>1, <2>1, <2>2 DEF Next
<1>2. SInv /\ [Next]_vars => [A]_vars
  BY <1>1
<1>3. QED
  BY <1>2, SyncInductive, PTL DEF Spec, RetainedKept
=============================================================================
