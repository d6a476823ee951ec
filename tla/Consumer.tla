------------------------------- MODULE Consumer ------------------------------
(***************************************************************************)
(* A consumer whose user also starts `prune' (lib.rs:45-51) beside the     *)
(* imports of module Delivery.  That the directory belongs to a consumer   *)
(* is looked up before prune takes the lock: a command that came before    *)
(* the first import finds out nothing and goes on.  With the lock it waits *)
(* for an answer, and every import that comes meanwhile is refused.        *)
(*                                                                         *)
(* Deleting the entry is one step here; module Prune has the three of the  *)
(* code and what happens if they fail.                                     *)
(***************************************************************************)
EXTENDS Delivery

CONSTANT Pruner \* in place of an importer that has the lock

ASSUME PrunerAssumption == Pruner \notin Importer \cup {None}

VARIABLE wanted \* the entry that a prune under way is to delete, or None

allVars == <<vars, wanted>>

ConsumerInit == Init /\ wanted = None

Free == IF holder = Pruner THEN None ELSE holder

-----------------------------------------------------------------------------
Dispatch(p) ==
  /\ wanted = None /\ ~consumer
  /\ wanted' = p
  /\ UNCHANGED vars

(* Mutant of Ask: any entry of the manifest can be pruned.                 *)
AskOwned ==
  /\ wanted \in Owned /\ holder = None
  /\ store[wanted] = manifest.hash[wanted]
  /\ holder' = Pruner
  /\ UNCHANGED <<mirror, published, consumer, loaded, accepted, wanted>>

(* The lock, a retained entry, its digest, and the prompt.                 *)
Ask ==
  /\ wanted \in Owned /\ holder = None
  /\ manifest.meta[wanted] # None
  /\ store[wanted] = manifest.hash[wanted]
  /\ holder' = Pruner
  /\ UNCHANGED <<mirror, published, consumer, loaded, accepted, wanted>>

(* The answer is yes: the entry goes, and what the manifest says of it.    *)
Delete ==
  /\ holder = Pruner
  /\ store' = [store EXCEPT ![wanted] = Absent]
  /\ manifest' = [hash |-> [manifest.hash EXCEPT ![wanted] = Absent],
                  meta |-> [manifest.meta EXCEPT ![wanted] = None]]
  /\ edited' = edited \ {wanted}
  /\ holder' = Free /\ wanted' = None
  /\ UNCHANGED <<seen, published, consumer, loaded, accepted>>

(* The answer is no, a check fails, or the process dies.                   *)
Decline ==
  /\ wanted # None
  /\ holder' = Free /\ wanted' = None
  /\ UNCHANGED <<mirror, published, consumer, loaded, accepted>>

ConsumerNext ==
  \/ (\E p \in Path : Dispatch(p)) \/ Ask \/ Delete \/ Decline
  \/ Next /\ UNCHANGED wanted

(* The scheduler starts imports without options (nixos.nix:70, 210-249);   *)
(* an import goes on by itself; nobody has to answer a prompt.             *)
Fairness ==
  /\ WF_allVars(\E i \in Importer : Read(i) /\ UNCHANGED wanted)
  /\ WF_allVars(Decide({}) /\ UNCHANGED wanted)
  /\ WF_allVars((Mark \/ Commit) /\ UNCHANGED wanted)

ConsumerSpec == ConsumerInit /\ [][ConsumerNext]_allVars /\ Fairness

-----------------------------------------------------------------------------
(* Properties.                                                             *)

(* A prune that slips past the consumer check (lib.rs:46-49) takes nothing *)
(* but a retained entry: all others are still those of one published       *)
(* snapshot ("must not mix generations", delivery.rs:112), and where nobody *)
(* else wrote them, in the store.  A retained entry of the snapshot itself *)
(* may be gone, until the next import brings it back.                      *)
RestIsOneGeneration ==
  /\ \E s \in {Empty} \cup ({published[n] : n \in DOMAIN published} \ {Torn}) :
       /\ \A p \in Delivered(s) :
            \/ manifest.hash[p] = s.hash[p] /\ manifest.meta[p] = s.meta[p]
            \/ manifest.hash[p] = Absent /\ s.meta[p] # None
       /\ \A p \in Owned \ Delivered(s) : manifest.meta[p] = RemoteMissing
  /\ \A p \in Owned \ edited : store[p] = manifest.hash[p]

(* From some moment on nothing fails (a step that could be a failure is a  *)
(* refusal or an update without effect), nothing is published, entries are *)
(* left alone, imports are the scheduled ones, and a prompt is answered.   *)
Calm ==
  /\ <>[][/\ \A i \in Importer : Fail(i) => Refuse(i, {}) \/ Commit
          /\ published' = published
          /\ store' # store => holder' # holder
          /\ holder' # None => accepted' = {}]_allVars
  /\ []<>(holder # Pruner)

Complete == published # <<>> /\ published[Len(published)] # Torn
Latest == published[Len(published)]

UpToDate ==
  Complete =>
    /\ \A p \in Delivered(Latest) :
         store[p] = Latest.hash[p] /\ manifest.hash[p] = Latest.hash[p]
         /\ manifest.meta[p] = Latest.meta[p]
    /\ \A p \in Owned \ Delivered(Latest) : manifest.meta[p] = RemoteMissing

LocalConflict == Complete /\ \E p \in Owned \cup Delivered(Latest) : store[p] # manifest.hash[p]
Collision == Complete /\ ~PathGraphValid(Owned \cup Delivered(Latest))

(* "Source disappearance retains old entries, and a missed delivery is     *)
(* repaired by the next complete snapshot." (README.md:84): whatever was   *)
(* in the way before, unless an entry still is, or a path that differs in  *)
(* letter case only from one that is retained (delivery.rs:246).           *)
DeliveryRepairs == Calm => <>[](UpToDate \/ LocalConflict \/ Collision)
=============================================================================
