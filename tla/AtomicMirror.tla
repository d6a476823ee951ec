---------------------------- MODULE AtomicMirror ----------------------------
(***************************************************************************)
(* What the mirror promises, without the mechanism: a password store and   *)
(* a manifest that records which encrypted entries the program owns and    *)
(* the digest it last knew for each.  A run of the program observes        *)
(* entries one group at a time and then, in ONE step, replaces the manifest *)
(* and writes every entry it prepared -- except an entry that no longer    *)
(* has the contents the run observed, which stays as its user left it.     *)
(*                                                                         *)
(* The program has no such step: module Transaction gets the effect with a *)
(* staging directory, a journal and a recovery, and implements this one.   *)
(***************************************************************************)
CONSTANTS Path,     \* entries of the password store
          Hash,     \* SHA-256 digests of the ciphertext of an entry
          Absent,   \* in place of a digest: there is no such file / no owner
          Unread,   \* in place of a digest: the run has not looked at it
          Meta      \* everything else a manifest records

VARIABLES store,    \* the digest of every entry, or Absent
          manifest, \* the digest owned for every entry, and the rest
          seen,     \* what the current run has observed
          edited    \* entries changed by others since the last update
                    \* that knew their contents

vars == <<store, manifest, seen, edited>>

Content == Hash \cup {Absent}
Manifest == [hash : [Path -> Content], meta : Meta]
Nothing == [p \in Path |-> Unread]

Init ==
  /\ store \in [Path -> Content]
  /\ manifest \in [hash : {[p \in Path |-> Absent]}, meta : Meta]
  /\ seen = Nothing
  /\ edited = {}

Observe(P) ==
  /\ \A p \in P : seen[p] = Unread
  /\ seen' = [p \in Path |-> IF p \in P THEN store[p] ELSE seen[p]]
  /\ UNCHANGED <<store, manifest, edited>>

(* What an update may be: it writes entries the run has observed, and what *)
(* its manifest says of any other entry is nothing new, or the contents    *)
(* the run observed.                                                       *)
Allowed(todo, next) ==
  \A p \in Path :
     IF p \in todo
     THEN seen[p] # Unread /\ next.hash[p] \in Hash
     ELSE \/ next.hash[p] = seen[p] /\ next.hash[p] \in Hash
          \/ next.hash[p] = Absent /\ manifest.hash[p] = Absent

(* The update, all or nothing.                                             *)
Update(todo, next) ==
  /\ manifest' = next
  /\ store' = [p \in Path |-> IF p \in todo /\ store[p] = seen[p]
                              THEN next.hash[p]
                              ELSE store[p]]
  /\ edited' = {p \in edited : store[p] # seen[p]}
  /\ seen' = Nothing

Commit ==
  /\ manifest' \in Manifest
  /\ \E todo \in SUBSET Path : Allowed(todo, manifest') /\ Update(todo, manifest')

(* The run ends, or dies, without an update.                               *)
Forget ==
  /\ seen' = Nothing
  /\ UNCHANGED <<store, manifest, edited>>

(* The user, or another program, writes or deletes an entry.               *)
Edit(p, h) ==
  /\ store' = [store EXCEPT ![p] = h]
  /\ edited' = edited \cup {p}
  /\ UNCHANGED <<manifest, seen>>

Next ==
  \/ \E P \in SUBSET Path : Observe(P)
  \/ Commit
  \/ Forget
  \/ \E p \in Path, h \in Content : Edit(p, h)

Spec == Init /\ [][Next]_vars

-----------------------------------------------------------------------------
(* What that promises, of any updates.                                     *)

(* An entry nobody else has written has the digest the manifest records:   *)
(* what inspect_manifest (sync.rs:381) calls a conflict is somebody's      *)
(* doing, never the program's.                                             *)
ManifestTruth == \A p \in Path \ edited : manifest.hash[p] \in {Absent, store[p]}

(* No update gives an entry up: the program never "silently deletes local  *)
(* entries" (README.md:109).                                               *)
OwnersStay ==
  [][\A p \in Path : manifest.hash[p] # Absent => manifest'.hash[p] # Absent]_vars
=============================================================================
