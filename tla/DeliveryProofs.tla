---------------------------- MODULE DeliveryProofs ---------------------------
(* What imports promise, alone and with a prune beside them, for any        *)
(* entries, digests, snapshots and importers.                               *)
EXTENDS Consumer, TLAPS

USE HashAssumption, ImporterAssumption, GenerationAssumption

Content == Hash \cup {Absent}

(* The values of all variables but the lock, which a prune may have, too.   *)
Values ==
  /\ store \in [Path -> Content]
  /\ manifest \in [hash : [Path -> Content], meta : Meta]
  /\ seen \in [Path -> Content \cup {Unread}]
  /\ edited \subseteq Path
  /\ published \in Seq(Snapshot \cup {Torn}) /\ Len(published) <= MaxGeneration
  /\ \A i \in Importer : loaded[i] # None => \E n \in DOMAIN published : loaded[i] = published[n]
  /\ accepted \subseteq Path
  /\ consumer \in BOOLEAN /\ (Owned # {} => consumer)

(* Every importer holds something that was published; only one that has     *)
(* accepted its snapshot has the lock.                                      *)
Importers ==
  /\ loaded \in [Importer -> Snapshot \cup {Torn, None}]
  /\ holder \in Importer => loaded[holder] \in Snapshot \ {Torn, None}

(* What an importer has read is there until somebody else writes the entry; *)
(* without an importer nothing has been read.                               *)
SeenFresh ==
  /\ \A p \in Path : seen[p] # Unread => p \in edited \/ seen[p] = store[p]
  /\ holder \notin Importer => seen = [p \in Path |-> Unread]

(* All entries an import depends on were read, and are the manifest's own   *)
(* unless they are both accepted and delivered.                             *)
Preflight ==
  holder \in Importer =>
    /\ accepted \subseteq Delivered(loaded[holder])
    /\ \A p \in Owned \cup Delivered(loaded[holder]) :
         seen[p] # Unread /\ (p \in accepted \/ seen[p] = manifest.hash[p])

(* The manifest is right about every entry nobody else has written.         *)
InPlace == \A p \in Owned \ edited : store[p] = manifest.hash[p]

(* This much is so whichever snapshot the manifest is of.                   *)
Core == Values /\ Importers /\ SeenFresh /\ Preflight /\ InPlace

(* The manifest is that of snapshot s and what is retained of others.       *)
Describes(s) ==
  /\ Delivered(s) \subseteq Owned
  /\ \A p \in Delivered(s) :
       manifest.hash[p] = s.hash[p] /\ manifest.meta[p] = s.meta[p]
  /\ \A p \in Owned \ Delivered(s) : manifest.meta[p] = RemoteMissing

Sound == {Empty} \cup ({published[n] : n \in DOMAIN published} \ {Torn})
Described == \E s \in Sound : Describes(s)

IInv == Core /\ holder \in Importer \cup {None} /\ Described

-----------------------------------------------------------------------------
(* What an import's update is, whatever it starts from.                     *)

LEMMA NextManifestType ==
  ASSUME Values, NEW s \in Snapshot
  PROVE  NextManifest(s) \in [hash : [Path -> Content], meta : Meta]
  BY DEF Values, Snapshot, NextManifest, Meta, Content, RemoteMissing

LEMMA UpdateAllowed ==
  ASSUME Core, holder \in Importer
  PROVE  Mirror!Allowed(ToWrite(loaded[holder]), NextManifest(loaded[holder]))
<1> DEFINE s == loaded[holder]
<1>1. s \in Snapshot
  BY DEF Core, Importers
<1>2. ASSUME NEW p \in Path, p \in ToWrite(s)
      PROVE  seen[p] # Unread /\ NextManifest(s).hash[p] \in Hash
  BY <1>1, <1>2 DEF Core, Preflight, ToWrite, NextManifest, Delivered, Snapshot
<1>3. ASSUME NEW p \in Path, p \notin ToWrite(s)
      PROVE  \/ NextManifest(s).hash[p] = seen[p] /\ NextManifest(s).hash[p] \in Hash
             \/ NextManifest(s).hash[p] = Absent /\ manifest.hash[p] = Absent
  BY <1>1, <1>3 DEF Core, Values, Content, Preflight, ToWrite, NextManifest, Delivered, Owned, Snapshot
<1>4. QED
  BY <1>2, <1>3 DEF Mirror!Allowed

LEMMA CommitStep ==
  ASSUME Core, Commit
  PROVE  /\ holder \in Importer /\ loaded[holder] \in Snapshot \ {Torn, None}
         /\ manifest' = NextManifest(loaded[holder])
         /\ Owned' = Owned \cup Delivered(loaded[holder])
         /\ manifest' \in [hash : [Path -> Content], meta : Meta]
         /\ store' = [p \in Path |-> IF p \in ToWrite(loaded[holder]) /\ store[p] = seen[p]
                                     THEN manifest'.hash[p] ELSE store[p]]
         /\ edited' = {p \in edited : store[p] # seen[p]}
         /\ seen' = [p \in Path |-> Unread]
         /\ holder' = None /\ accepted' = {}
         /\ loaded' = [loaded EXCEPT ![holder] = None]
         /\ consumer /\ consumer' = consumer /\ published' = published
<1> USE DEF Core
<1>1. holder \in Importer /\ loaded[holder] \in Snapshot \ {Torn, None}
  BY DEF Commit, Importers
<1>2. /\ manifest' = NextManifest(loaded[holder])
      /\ store' = [p \in Path |-> IF p \in ToWrite(loaded[holder]) /\ store[p] = seen[p]
                                  THEN manifest'.hash[p] ELSE store[p]]
      /\ edited' = {p \in edited : store[p] # seen[p]}
      /\ seen' = [p \in Path |-> Unread]
  BY DEF Commit, Mirror!Update, Mirror!Nothing
<1>3. manifest' \in [hash : [Path -> Content], meta : Meta]
  BY <1>1, <1>2, NextManifestType
<1>4. Owned' = Owned \cup Delivered(loaded[holder])
  BY <1>1, <1>2 DEF Owned, Delivered, NextManifest, Values, Snapshot
<1>5. QED
  BY <1>1, <1>2, <1>3, <1>4 DEF Commit, Finish

-----------------------------------------------------------------------------
LEMMA InitIInv == Init => IInv
<1> SUFFICES ASSUME Init PROVE IInv
  OBVIOUS
<1> USE DEF Init
<1>1. Owned = {} /\ Delivered(Empty) = {}
  BY DEF Owned, Delivered, Empty
<1>2. Values
  <2>1. Empty \in [hash : [Path -> Content], meta : Meta]
    BY DEF Empty, Meta, Content
  <2>2. published \in Seq(Snapshot \cup {Torn}) /\ Len(published) <= MaxGeneration
    OBVIOUS
  <2>3. QED
    BY <1>1, <2>1, <2>2 DEF Values, Content
<1>3. Described
  BY <1>1 DEF Described, Describes, Sound
<1>4. QED
  BY <1>1, <1>2, <1>3 DEF IInv, Core, Importers, SeenFresh, Preflight, InPlace

(* A step that leaves store and manifest alone keeps what they say of each  *)
(* other.                                                                   *)
LEMMA MirrorKept ==
  ASSUME Core, UNCHANGED <<store, manifest, edited>>
  PROVE  InPlace' /\ Owned' = Owned
<1>1. Owned' = Owned
  BY DEF Owned
<1>2. QED
  BY <1>1 DEF Core, InPlace

LEMMA ExportCore == ASSUME Core, Export PROVE Core' /\ Sound \subseteq Sound'
<1> USE DEF Core, Export, mirror
<1>1. PICK s \in Snapshot \cup {Torn} : published' = Append(published, s)
  OBVIOUS
<1>2. /\ published' \in Seq(Snapshot \cup {Torn}) /\ Len(published') <= MaxGeneration
      /\ \A n \in DOMAIN published : n \in DOMAIN published' /\ published'[n] = published[n]
  BY <1>1 DEF Values
<1>3. InPlace' /\ Owned' = Owned
  BY MirrorKept
<1>4. Values'
  BY <1>2, <1>3 DEF Values
<1>5. Importers' /\ SeenFresh'
  BY DEF Importers, SeenFresh
<1>6. Preflight'
  BY <1>3 DEF Preflight, Delivered
<1>7. QED
  BY <1>2, <1>3, <1>4, <1>5, <1>6 DEF Sound

LEMMA ReadCore == ASSUME Core, NEW i \in Importer, Read(i) PROVE Core'
<1> USE DEF Core, Read, mirror
<1>1. Len(published) \in DOMAIN published /\ published[Len(published)] \in Snapshot \cup {Torn}
  BY DEF Values
<1>2. InPlace' /\ Owned' = Owned
  BY MirrorKept
<1>3. Importers' /\ (holder \in Importer => loaded'[holder] = loaded[holder])
  BY <1>1 DEF Importers
<1>4. Values'
  BY <1>1, <1>2 DEF Values, Importers
<1>5. SeenFresh'
  BY DEF SeenFresh
<1>6. Preflight'
  BY <1>2, <1>3 DEF Preflight, Delivered
<1>7. QED
  BY <1>2, <1>3, <1>4, <1>5, <1>6

LEMMA CheckCore ==
  ASSUME Core, NEW i \in Importer, NEW acc \in SUBSET Path, Check(i, acc) PROVE Core'
<1> USE DEF Core
<1> DEFINE s == loaded[i]
<1>1. /\ s \in Snapshot \ {Torn, None} /\ holder' = i /\ accepted' = acc
      /\ Conflicts(s) = acc /\ acc \subseteq Delivered(s)
  BY DEF Check, Acceptable, Importers
<1>2. /\ seen' = [p \in Path |-> IF p \in Owned \cup Delivered(s) THEN store[p] ELSE seen[p]]
      /\ UNCHANGED <<store, manifest, edited, published, consumer, loaded>>
  BY DEF Check, Mirror!Observe
<1>3. InPlace' /\ Owned' = Owned
  BY <1>2, MirrorKept
<1>4. Values'
  <2>1. seen' \in [Path -> Content \cup {Unread}]
    BY <1>2 DEF Values
  <2>2. QED
    BY <1>1, <1>2, <1>3, <2>1 DEF Values
<1>5. Importers'
  BY <1>1, <1>2 DEF Importers
<1>6. SeenFresh'
  BY <1>1, <1>2 DEF SeenFresh
<1>7. Preflight'
  <2>1. Delivered(loaded[holder])' = Delivered(s)
    BY <1>1, <1>2 DEF Delivered
  <2>2. ASSUME NEW p \in Owned \cup Delivered(s)
        PROVE  seen'[p] # Unread /\ (p \in acc \/ seen'[p] = manifest.hash[p])
    BY <1>1, <1>2, <2>2 DEF Conflicts, Values, Content, Owned, Delivered
  <2>3. QED
    BY <1>1, <1>2, <1>3, <2>1, <2>2 DEF Preflight
<1>8. QED
  BY <1>3, <1>4, <1>5, <1>6, <1>7

(* A commit makes the manifest that of its own snapshot, whatever it was.   *)
LEMMA CommitCore == ASSUME Core, Commit PROVE Core' /\ Described'
<1> USE DEF Core
<1>1. PICK s \in Sound : s = loaded[holder]
  BY CommitStep DEF Values, Sound
<1>2. Owned' = Owned \cup Delivered(s) /\ manifest' = NextManifest(s) /\ Sound' = Sound
  BY <1>1, CommitStep DEF Sound
<1>3. Described'
  <2>1. ASSUME NEW p \in Delivered(s)
        PROVE  NextManifest(s).hash[p] = s.hash[p] /\ NextManifest(s).meta[p] = s.meta[p]
    BY DEF NextManifest, Delivered
  <2>2. ASSUME NEW p \in Owned \ Delivered(s)
        PROVE  NextManifest(s).meta[p] = RemoteMissing
    BY DEF NextManifest, Owned
  <2>3. Describes(s)'
    BY <1>2, <2>1, <2>2 DEF Describes, Delivered
  <2>4. QED
    BY <1>2, <2>3 DEF Described
<1>4. InPlace'
  <2>1. ASSUME NEW p \in Owned', p \notin edited'
        PROVE  store'[p] = manifest'.hash[p]
    <3>1. p \in Path /\ p \in Owned \cup Delivered(s) /\ seen[p] # Unread /\ seen[p] = store[p]
      BY <1>1, <1>2, <2>1, CommitStep DEF Preflight, SeenFresh, Owned, Delivered
    <3>2. CASE p \in ToWrite(s)
      BY <1>1, <3>1, <3>2, CommitStep
    <3>3. CASE p \in Delivered(s) \ ToWrite(s)
      BY <1>1, <1>2, <3>1, <3>3, CommitStep DEF ToWrite, NextManifest
    <3>4. CASE p \notin Delivered(s)
      BY <1>1, <1>2, <3>1, <3>4, CommitStep DEF ToWrite, NextManifest, Preflight
    <3>5. QED
      BY <3>2, <3>3, <3>4
  <2>2. QED
    BY <2>1 DEF InPlace
<1>5. Values'
  <2>1. store' \in [Path -> Content]
    BY CommitStep DEF Values, Content
  <2>2. seen' \in [Path -> Content \cup {Unread}]
    BY CommitStep
  <2>3. QED
    BY <2>1, <2>2, CommitStep DEF Values, Importers, Content
<1>6. Importers' /\ SeenFresh' /\ Preflight'
  BY CommitStep DEF Importers, SeenFresh, Preflight
<1>7. QED
  BY <1>3, <1>4, <1>5, <1>6

LEMMA MarkCore == ASSUME Core, Mark PROVE Core'
<1> USE DEF Core, Mark, mirror
<1>1. InPlace' /\ Owned' = Owned
  BY MirrorKept
<1>2. Values' /\ Importers' /\ SeenFresh'
  BY DEF Values, Importers, SeenFresh
<1>3. Preflight'
  BY <1>1 DEF Preflight, Delivered
<1>4. QED
  BY <1>1, <1>2, <1>3

(* A run ends without an update.                                            *)
LEMMA EndCore ==
  ASSUME Core, NEW i \in Importer, loaded[i] # None, Finish(i), UNCHANGED <<store, manifest, edited, consumer>>,
         IF holder = i THEN seen' = [p \in Path |-> Unread] ELSE seen' = seen
  PROVE  Core'
<1> USE DEF Core, Finish
<1>1. InPlace' /\ Owned' = Owned
  BY MirrorKept
<1>2. /\ loaded' \in [Importer -> Snapshot \cup {Torn, None}]
      /\ \A j \in Importer : loaded'[j] \in {loaded[j], None}
      /\ holder' \in Importer => holder' = holder /\ loaded'[holder] = loaded[holder]
  BY DEF Importers, Values
<1>3. Importers'
  BY <1>2 DEF Importers
<1>4. SeenFresh'
  BY DEF SeenFresh
<1>5. Values'
  <2>1. seen' \in [Path -> Content \cup {Unread}]
    BY DEF Values
  <2>2. QED
    BY <1>1, <1>2, <2>1 DEF Values
<1>6. Preflight'
  BY <1>1, <1>2 DEF Preflight, Delivered
<1>7. QED
  BY <1>1, <1>3, <1>4, <1>5, <1>6

LEMMA LocalEditCore ==
  ASSUME Core, NEW p \in Path, NEW h \in Content, LocalEdit(p, h) PROVE Core'
<1> USE DEF Core, LocalEdit, Mirror!Edit
<1>1. Owned' = Owned
  BY DEF Owned
<1>2. InPlace'
  BY <1>1 DEF InPlace, Values
<1>3. Values' /\ Importers' /\ SeenFresh'
  BY <1>1 DEF Values, Importers, SeenFresh
<1>4. Preflight'
  BY <1>1 DEF Preflight, Delivered
<1>5. QED
  BY <1>2, <1>3, <1>4

(* A step of an import, of the producer or of a user keeps Core; only an    *)
(* import changes the manifest, to one that describes a snapshot; the lock  *)
(* goes to an importer that finds it free, and back.                        *)
LEMMA NextCore ==
  ASSUME Core, Next
  PROVE  /\ Core'
         /\ Described' \/ (manifest' = manifest /\ Sound \subseteq Sound')
         /\ holder' \in Importer \cup {None} \/ holder' = holder
         /\ holder \notin Importer => manifest' = manifest
         /\ holder \notin Importer \cup {None} => holder' = holder
<1> USE DEF mirror
<1>1. CASE Export
  BY <1>1, ExportCore DEF Export
<1>2. ASSUME NEW i \in Importer, Read(i)
      PROVE  Core' /\ UNCHANGED <<manifest, published, holder>>
  BY <1>2, ReadCore DEF Read
<1>3. ASSUME NEW i \in Importer, Fail(i)
      PROVE  /\ Core' /\ UNCHANGED <<manifest, published>>
             /\ holder' = holder \/ (holder' = None /\ holder \in Importer)
  BY <1>3, EndCore DEF Fail, Finish, Mirror!Forget, Mirror!Nothing
<1>4. ASSUME NEW i \in Importer, NEW acc \in SUBSET Path, Check(i, acc)
      PROVE  Core' /\ UNCHANGED <<manifest, published>> /\ holder' \in Importer /\ holder = None
  BY <1>4, CheckCore DEF Check, Mirror!Observe
<1>5. ASSUME NEW i \in Importer, NEW acc \in SUBSET Path, Refuse(i, acc)
      PROVE  Core' /\ UNCHANGED <<manifest, published, holder>>
  BY <1>5, EndCore DEF Refuse, Finish
<1>6. CASE Mark
  BY <1>6, MarkCore DEF Mark, Sound
<1>7. CASE Commit
  BY <1>7, CommitCore, CommitStep
<1>8. ASSUME NEW p \in Path, NEW h \in Content, LocalEdit(p, h)
      PROVE  Core' /\ UNCHANGED <<manifest, published, holder>>
  BY <1>8, LocalEditCore DEF LocalEdit, Mirror!Edit
<1>9. UNCHANGED published => Sound \subseteq Sound'
  BY DEF Sound
<1>10. QED
  BY <1>1, <1>2, <1>3, <1>4, <1>5, <1>6, <1>7, <1>8, <1>9 DEF Next, Decide, Content

LEMMA StutterCore ==
  ASSUME Core, UNCHANGED vars PROVE Core' /\ Sound' = Sound
<1>1. InPlace' /\ Owned' = Owned
  BY MirrorKept DEF vars, mirror
<1>2. QED
  BY <1>1 DEF Core, vars, mirror, Values, Importers, SeenFresh, Preflight, Delivered, Sound

LEMMA DescribedKept ==
  ASSUME Described, manifest' = manifest, Sound \subseteq Sound' PROVE Described'
<1>1. PICK s \in Sound : Describes(s)
  BY DEF Described
<1>2. Describes(s)'
  BY <1>1 DEF Describes, Delivered, Owned
<1>3. QED
  BY <1>2 DEF Described

LEMMA Inductive == Spec => []IInv
<1>1. ASSUME IInv, Next PROVE IInv'
  BY <1>1, NextCore, DescribedKept DEF IInv
<1>2. ASSUME IInv, UNCHANGED vars PROVE IInv'
  BY <1>2, StutterCore, DescribedKept DEF IInv, vars, mirror
<1>3. QED
  BY <1>1, <1>2, InitIInv, PTL DEF Spec

-----------------------------------------------------------------------------
(* The values of the variables; the marker comes before the first delivered *)
(* entry (delivery.rs:264-266).                                             *)
THEOREM TypeCorrect == Spec => []TypeOK
<1>1. IInv => TypeOK
  BY DEF IInv, Core, Values, Content, TypeOK
<1>2. QED
  BY <1>1, Inductive, PTL

(* Imports never mix snapshots (delivery.rs:112), and the manifest is right *)
(* about every entry nobody else has written.                               *)
THEOREM GenerationsNeverMix == Spec => []OneGeneration
<1>1. IInv => OneGeneration
  BY DEF IInv, Core, Described, Describes, InPlace, Sound, OneGeneration
<1>2. QED
  BY <1>1, Inductive, PTL

(* What the steps of module Delivery do in any state with Core.             *)

LEMMA ForeignStep ==
  ASSUME Core, Next, holder' # holder, NEW p \in Path, store'[p] # store[p]
  PROVE  p \in accepted \/ store[p] = manifest.hash[p]
<1>1. CASE Commit
  BY <1>1, CommitStep DEF Core, Preflight, ToWrite
<1>2. CASE ~Commit
  BY <1>2 DEF Next, Export, Read, Decide, Check, Refuse, Mark, Fail, LocalEdit,
     Mirror!Observe, Mirror!Forget, mirror
<1>3. QED
  BY <1>1, <1>2

LEMMA RetainStep ==
  ASSUME Core, Next
  PROVE  /\ \A p \in Owned : manifest'.hash[p] # Absent
         /\ manifest' # manifest =>
              \A p \in Path \ Delivered(loaded[holder]) :
                 store'[p] = store[p] /\ manifest'.hash[p] = manifest.hash[p]
<1>1. CASE Commit
  <2>1. \A p \in Owned : p \in Owned'
    BY <1>1, CommitStep
  <2>2. ASSUME NEW p \in Path \ Delivered(loaded[holder])
        PROVE  store'[p] = store[p] /\ manifest'.hash[p] = manifest.hash[p]
    BY <1>1, CommitStep DEF Core, Values, ToWrite, NextManifest
  <2>3. QED
    BY <2>1, <2>2 DEF Owned
<1>2. CASE ~Commit
  BY <1>2 DEF Next, Export, Read, Decide, Check, Refuse, Mark, Fail, LocalEdit,
     Mirror!Observe, Mirror!Forget, Mirror!Edit, mirror, Owned
<1>3. QED
  BY <1>1, <1>2

LEMMA MirrorStep == ASSUME Core, Next PROVE [Mirror!Next]_(Mirror!vars)
<1>1. CASE Export \/ Mark \/ \E i \in Importer : Read(i)
  BY <1>1 DEF Export, Mark, Read, mirror, Mirror!vars
<1>2. ASSUME NEW i \in Importer, NEW acc \in SUBSET Path, Check(i, acc) PROVE Mirror!Next
  BY <1>2 DEF Check, Mirror!Next, Owned, Delivered
<1>3. ASSUME NEW i \in Importer, NEW acc \in SUBSET Path, Refuse(i, acc)
      PROVE  UNCHANGED Mirror!vars
  BY <1>3 DEF Refuse, mirror, Mirror!vars
<1>4. CASE Commit
  <2>1. Mirror!Update(ToWrite(loaded[holder]), manifest')
    BY <1>4, CommitStep DEF Commit
  <2>2. Mirror!Allowed(ToWrite(loaded[holder]), manifest')
    BY <1>4, CommitStep, UpdateAllowed
  <2>3. manifest' \in Mirror!Manifest /\ ToWrite(loaded[holder]) \in SUBSET Path
    BY <1>4, CommitStep DEF Mirror!Manifest, Mirror!Content, Content, ToWrite, Delivered
  <2>4. QED
    BY <2>1, <2>2, <2>3 DEF Mirror!Next, Mirror!Commit
<1>5. ASSUME NEW i \in Importer, Fail(i) PROVE [Mirror!Next]_(Mirror!vars)
  BY <1>5 DEF Fail, mirror, Mirror!vars, Mirror!Next
<1>6. ASSUME NEW p \in Path, NEW h \in Hash \cup {Absent}, LocalEdit(p, h) PROVE Mirror!Next
  BY <1>6 DEF LocalEdit, Mirror!Next, Mirror!Content
<1>7. QED
  BY <1>1, <1>2, <1>3, <1>4, <1>5, <1>6 DEF Next, Decide

(* Foreign contents are replaced only where they were named (delivery.rs:   *)
(* 225-228).                                                                *)
THEOREM ForeignSpared == Spec => OnlyAcceptedReplaced
<1>1. IInv /\ [Next]_vars =>
        [holder' # holder =>
           \A p \in Path : store'[p] # store[p] =>
              p \in accepted \/ store[p] = manifest.hash[p]]_vars
  BY ForeignStep DEF IInv
<1>2. QED
  BY <1>1, Inductive, PTL DEF Spec, OnlyAcceptedReplaced

(* What was delivered stays, whatever the producer does (delivery.rs:229).  *)
THEOREM NothingIsLost == Spec => SourceLossRetained
<1>1. IInv /\ [Next]_vars =>
        [/\ \A p \in Owned : manifest'.hash[p] # Absent
         /\ manifest' # manifest =>
              \A p \in Path \ Delivered(loaded[holder]) :
                 store'[p] = store[p] /\ manifest'.hash[p] = manifest.hash[p]]_vars
  BY RetainStep DEF IInv
<1>2. QED
  BY <1>1, Inductive, PTL DEF Spec, SourceLossRetained

(* Imports are updates that AtomicMirror allows, in whatever order they     *)
(* read, check, commit and die.                                             *)
THEOREM ImportsAreUpdates == Spec => ImplementsMirror
<1>1. Init => Mirror!Init
  BY DEF Init, Mirror!Init, Mirror!Content, Mirror!Nothing, Empty, Meta
<1>2. UNCHANGED vars => UNCHANGED Mirror!vars
  BY DEF vars, mirror, Mirror!vars
<1>3. IInv /\ [Next]_vars => [Mirror!Next]_(Mirror!vars)
  BY <1>2, MirrorStep DEF IInv
<1>4. QED
  BY <1>1, <1>3, Inductive, PTL DEF Spec, ImplementsMirror, Mirror!Spec

-----------------------------------------------------------------------------
(* The same with a prune beside the imports, in module Consumer.            *)

(* A retained entry may be gone.                                            *)
RestDescribes(s) ==
  /\ \A p \in Delivered(s) :
       \/ manifest.hash[p] = s.hash[p] /\ manifest.meta[p] = s.meta[p]
       \/ manifest.hash[p] = Absent /\ s.meta[p] # None
  /\ \A p \in Owned \ Delivered(s) : manifest.meta[p] = RemoteMissing

RestDescribed == \E s \in Sound : RestDescribes(s)

(* While the prompt waits no import can make the retained entry an active   *)
(* one.                                                                     *)
Asked ==
  /\ wanted \in Path \cup {None}
  /\ holder = Pruner => wanted \in Owned /\ manifest.meta[wanted] # None

ConsumerIInv == Core /\ holder \in Importer \cup {None, Pruner} /\ Asked /\ RestDescribed

LEMMA DescribedIsRest == (Described => RestDescribed) /\ (Described' => RestDescribed')
  BY DEF Described, Describes, RestDescribed, RestDescribes

LEMMA RestDescribedKept ==
  ASSUME RestDescribed, manifest' = manifest, Sound \subseteq Sound' PROVE RestDescribed'
<1>1. PICK s \in Sound : RestDescribes(s)
  BY DEF RestDescribed
<1>2. RestDescribes(s)'
  BY <1>1 DEF RestDescribes, Delivered, Owned
<1>3. QED
  BY <1>2 DEF RestDescribed

(* What the deletion leaves is described by the same snapshot.              *)
LEMMA DeleteConsumerIInv == ConsumerIInv /\ Delete => ConsumerIInv'
<1> SUFFICES ASSUME ConsumerIInv, Delete PROVE ConsumerIInv'
  OBVIOUS
<1> USE PrunerAssumption DEF ConsumerIInv, Delete
<1>1. /\ wanted \in Owned /\ wanted \in Path /\ manifest.meta[wanted] # None
      /\ holder = Pruner /\ holder' = None
  BY DEF Asked, Free, Owned
<1>2. manifest' \in [hash : [Path -> Content], meta : Meta]
  BY <1>1 DEF Core, Values, Content, Meta
<1>3. /\ Owned' = Owned \ {wanted}
      /\ \A p \in Path \ {wanted} : /\ manifest'.hash[p] = manifest.hash[p]
                                    /\ manifest'.meta[p] = manifest.meta[p]
                                    /\ store'[p] = store[p]
      /\ manifest'.hash[wanted] = Absent
  BY <1>1 DEF Core, Values, Owned, Meta
<1>4. RestDescribed'
  <2>1. PICK s \in Sound : RestDescribes(s)
    BY DEF RestDescribed
  <2>2. ASSUME NEW p \in Delivered(s)
        PROVE  \/ manifest'.hash[p] = s.hash[p] /\ manifest'.meta[p] = s.meta[p]
               \/ manifest'.hash[p] = Absent /\ s.meta[p] # None
    BY <1>1, <1>3, <2>1, <2>2 DEF RestDescribes, Delivered, Owned
  <2>3. \A p \in Owned' \ Delivered(s) : manifest'.meta[p] = RemoteMissing
    BY <1>3, <2>1 DEF RestDescribes, Owned
  <2>4. RestDescribes(s)' /\ Sound' = Sound
    BY <2>2, <2>3 DEF RestDescribes, Delivered, Sound
  <2>5. QED
    BY <2>1, <2>4 DEF RestDescribed
<1>5. Core'
  <2>1. Values'
    BY <1>1, <1>2, <1>3 DEF Core, Values, Content
  <2>2. Importers' /\ SeenFresh' /\ Preflight'
    BY <1>1 DEF Core, Importers, SeenFresh, Preflight
  <2>3. InPlace'
    BY <1>3 DEF Core, InPlace, Owned
  <2>4. QED
    BY <2>1, <2>2, <2>3 DEF Core
<1>6. QED
  BY <1>1, <1>4, <1>5 DEF Asked

(* The prompt opens, or closes without a deletion; a command looks for the  *)
(* marker.                                                                  *)
LEMMA PromptConsumerIInv ==
  ASSUME ConsumerIInv, (\E p \in Path : Dispatch(p)) \/ Ask \/ Decline PROVE ConsumerIInv'
<1> USE PrunerAssumption DEF ConsumerIInv
<1>1. UNCHANGED <<mirror, published, consumer, loaded, accepted>>
  BY DEF Dispatch, Ask, Decline, vars
<1>2. /\ holder' \in Importer \cup {None, Pruner}
      /\ (holder \in Importer \/ holder' \in Importer) => holder' = holder
  BY DEF Dispatch, Ask, Decline, Free, vars
<1>3. InPlace' /\ Owned' = Owned /\ Sound' = Sound
  BY <1>1, MirrorKept DEF mirror, Sound
<1>4. Core'
  <2>1. Values' /\ Importers' /\ SeenFresh'
    BY <1>1, <1>2, <1>3 DEF Core, mirror, Values, Importers, SeenFresh
  <2>2. Preflight'
    BY <1>1, <1>2, <1>3 DEF Core, mirror, Preflight, Delivered
  <2>3. QED
    BY <1>3, <2>1, <2>2 DEF Core
<1>5. Asked'
  <2>1. CASE \E p \in Path : Dispatch(p)
    BY <1>1, <1>3, <2>1 DEF Core, Values, Asked, Dispatch, vars, mirror
  <2>2. CASE Ask
    BY <1>1, <1>3, <2>2 DEF Asked, Ask, mirror
  <2>3. CASE Decline
    BY <1>1, <1>3, <2>3 DEF Asked, Decline, Free, mirror
  <2>4. QED
    BY <2>1, <2>2, <2>3
<1>6. RestDescribed'
  BY <1>1, <1>3, RestDescribedKept DEF mirror
<1>7. QED
  BY <1>2, <1>4, <1>5, <1>6

LEMMA ConsumerInductive == ConsumerSpec => []ConsumerIInv
<1> USE PrunerAssumption
<1>1. ConsumerInit => ConsumerIInv
  BY InitIInv, DescribedIsRest DEF ConsumerInit, ConsumerIInv, IInv, Asked
<1>2. ASSUME ConsumerIInv, Next, UNCHANGED wanted PROVE ConsumerIInv'
  <2>1. Core' /\ holder' \in Importer \cup {None, Pruner}
    BY <1>2, NextCore DEF ConsumerIInv
  <2>2. RestDescribed'
    BY <1>2, NextCore, DescribedIsRest, RestDescribedKept DEF ConsumerIInv
  <2>3. Asked'
    BY <1>2, NextCore DEF ConsumerIInv, Asked, Owned
  <2>4. QED
    BY <2>1, <2>2, <2>3 DEF ConsumerIInv
<1>3. ASSUME ConsumerIInv, ConsumerNext PROVE ConsumerIInv'
  BY <1>2, <1>3, DeleteConsumerIInv, PromptConsumerIInv DEF ConsumerNext
<1>4. ASSUME ConsumerIInv, UNCHANGED allVars PROVE ConsumerIInv'
  BY <1>4, StutterCore, RestDescribedKept DEF ConsumerIInv, Asked, allVars, vars, mirror, Owned
<1>5. QED
  BY <1>1, <1>3, <1>4, PTL DEF ConsumerSpec

(* Beside a prune, too, imports never mix snapshots, and the manifest is    *)
(* right about every entry nobody else has written; only retained entries   *)
(* may be gone (lib.rs:46-49, delivery.rs:112).                             *)
THEOREM RestNeverMixes == ConsumerSpec => []RestIsOneGeneration
<1>1. ConsumerIInv => RestIsOneGeneration
  BY DEF ConsumerIInv, Core, RestDescribed, RestDescribes, InPlace, Sound, RestIsOneGeneration
<1>2. QED
  BY <1>1, ConsumerInductive, PTL

(* A prune that slips past the marker does not change what imports are:     *)
(* they still replace only contents that are the manifest's or named by     *)
(* --accept-remote, and commit updates AtomicMirror allows (delivery.rs:    *)
(* 211-262).                                                                *)
THEOREM ImportsUndisturbed ==
  ConsumerSpec =>
    [][Next => /\ [Mirror!Next]_(Mirror!vars)
               /\ holder' # holder =>
                    \A p \in Path : store'[p] # store[p] =>
                       p \in accepted \/ store[p] = manifest.hash[p]]_allVars
<1>1. ASSUME ConsumerIInv, Next
      PROVE  /\ [Mirror!Next]_(Mirror!vars)
             /\ holder' # holder =>
                  \A p \in Path : store'[p] # store[p] =>
                     p \in accepted \/ store[p] = manifest.hash[p]
  BY <1>1, MirrorStep, ForeignStep DEF ConsumerIInv
<1>2. QED
  BY <1>1, ConsumerInductive, PTL DEF ConsumerSpec

(* However long a prompt waits, the entry it deletes is still a retained    *)
(* one: no import that comes meanwhile has made it active again (sync.rs:   *)
(* 276-315, the lock from before the check to after the deletion).          *)
THEOREM OnlyRetainedIsLost ==
  ConsumerSpec =>
    [][\A p \in Owned : manifest'.hash[p] = Absent =>
          holder = Pruner /\ p = wanted /\ manifest.meta[p] # None]_allVars
<1>1. ASSUME ConsumerIInv, ConsumerNext, NEW p \in Owned, manifest'.hash[p] = Absent
      PROVE  holder = Pruner /\ p = wanted /\ manifest.meta[p] # None
  <2>1. CASE Next
    BY <1>1, <2>1, RetainStep DEF ConsumerIInv
  <2>2. CASE Delete
    BY <1>1, <2>2 DEF ConsumerIInv, Core, Values, Asked, Delete, Owned
  <2>3. CASE (\E q \in Path : Dispatch(q)) \/ Ask \/ Decline
    BY <1>1, <2>3 DEF Dispatch, Ask, Decline, vars, mirror, Owned
  <2>4. QED
    BY <1>1, <2>1, <2>2, <2>3 DEF ConsumerNext
<1>2. ConsumerIInv /\ [ConsumerNext]_allVars =>
        [\A p \in Owned : manifest'.hash[p] = Absent =>
            holder = Pruner /\ p = wanted /\ manifest.meta[p] # None]_allVars
  BY <1>1
<1>3. QED
  BY <1>2, ConsumerInductive, PTL DEF ConsumerSpec
=============================================================================
