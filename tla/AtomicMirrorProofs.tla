------------------------- MODULE AtomicMirrorProofs -------------------------
(* What AtomicMirror promises, whatever updates its users make of it.  The  *)
(* modules that implement it take their share through an INSTANCE of this   *)
(* one.                                                                     *)
EXTENDS AtomicMirror, TLAPS

Typed ==
  /\ store \in [Path -> Content]
  /\ manifest \in Manifest
  /\ seen \in [Path -> Content \cup {Unread}]
  /\ edited \subseteq Path

(* What a run has observed still holds of every entry nobody else has       *)
(* written.                                                                 *)
SeenFresh == \A p \in Path \ edited : seen[p] \in {Unread, store[p]}

MirrorInv == Typed /\ SeenFresh /\ ManifestTruth

(* The manifest is right about every entry nobody else has written, whether *)
(* an update wrote it, kept it, or spared it.                               *)
THEOREM MirrorTruth ==
  ASSUME Unread \notin Hash
  PROVE  Spec => []ManifestTruth
<1>1. Init => MirrorInv
  BY DEF Init, MirrorInv, Typed, SeenFresh, ManifestTruth, Manifest, Nothing, Content
<1>2. ASSUME MirrorInv, [Next]_vars PROVE MirrorInv'
  <2>1. ASSUME NEW P \in SUBSET Path, Observe(P) PROVE MirrorInv'
    BY <1>2, <2>1 DEF MirrorInv, Typed, SeenFresh, ManifestTruth, Observe
  <2>2. ASSUME NEW todo \in SUBSET Path, manifest' \in Manifest,
               Allowed(todo, manifest'), Update(todo, manifest')
        PROVE  MirrorInv'
    <3>1. Typed'
      BY <1>2, <2>2 DEF MirrorInv, Typed, Update, Nothing, Manifest
    <3>2. SeenFresh'
      BY <2>2 DEF SeenFresh, Update, Nothing
    <3>3. ASSUME NEW p \in Path, p \notin edited' PROVE manifest'.hash[p] \in {Absent, store'[p]}
      BY <1>2, <2>2, <3>3 DEF MirrorInv, SeenFresh, Update, Allowed
    <3>4. QED
      BY <3>1, <3>2, <3>3 DEF MirrorInv, ManifestTruth
  <2>3. CASE Forget
    BY <1>2, <2>3 DEF MirrorInv, Typed, SeenFresh, ManifestTruth, Forget, Nothing
  <2>4. ASSUME NEW p \in Path, NEW h \in Content, Edit(p, h) PROVE MirrorInv'
    BY <1>2, <2>4 DEF MirrorInv, Typed, SeenFresh, ManifestTruth, Edit
  <2>5. CASE UNCHANGED vars
    BY <1>2, <2>5 DEF MirrorInv, Typed, SeenFresh, ManifestTruth, vars
  <2>6. QED
    BY <1>2, <2>1, <2>2, <2>3, <2>4, <2>5 DEF Next, Commit
<1>3. MirrorInv => ManifestTruth
  BY DEF MirrorInv
<1>4. QED
  BY <1>1, <1>2, <1>3, PTL DEF Spec

(* What an update owns stays owned.                                         *)
THEOREM MirrorKeepsOwners ==
  ASSUME Absent \notin Hash
  PROVE  Spec => OwnersStay
<1> DEFINE Kept == \A p \in Path : manifest.hash[p] # Absent => manifest'.hash[p] # Absent
<1>1. ASSUME Next PROVE Kept
  <2>1. CASE Commit
    BY <2>1 DEF Commit, Allowed
  <2>2. CASE UNCHANGED manifest
    BY <2>2
  <2>3. QED
    BY <1>1, <2>1, <2>2 DEF Next, Observe, Forget, Edit
<1>2. [Next]_vars => [Kept]_vars
  BY <1>1
<1>3. QED
  BY <1>2, PTL DEF Spec, OwnersStay
=============================================================================
