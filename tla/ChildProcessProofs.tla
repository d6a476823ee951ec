-------------------------- MODULE ChildProcessProofs -------------------------
(* What run_checked promises, for every limit, pipe size and bound.         *)
EXTENDS ChildProcess, TLAPS

(* What is left of an output that was read whole and kept to the limit.     *)
Cut(n) == IF n <= Limit + 1 THEN n ELSE Limit + 1

(* Nothing of an output is lost between its writers and its thread.         *)
Account ==
  \A s \in Stream :
    /\ pipe[s] <= written[s]
    /\ reader[s] # "failed" => kept[s] = Cut(written[s] - pipe[s])

(* A thread is at the end of its output for good.                           *)
Ends ==
  \A s \in Stream :
    reader[s] = "eof" => pipe[s] = 0 /\ ~Open /\ child # "none"

(* Where the caller stands, the child does, too.                            *)
Stages ==
  /\ caller = "spawn" => child = "none"
  /\ child = "none" => caller \in {"spawn", "done"}
  /\ caller = "write" => unsent > 0
  /\ caller \in {"join", "join_timed_out", "join_rejected"} => child \in Exited
  /\ caller = "done" <=> result # "none"
  /\ result \notin {"none", "not_waited"} => child # "running"

IInv == TypeOK /\ Account /\ Ends /\ Stages /\ OkIsComplete

USE LimitAssumption, CapacityAssumption, BoundAssumption

LEMMA InitIInv == Init => IInv
<1> SUFFICES ASSUME Init PROVE IInv
  OBVIOUS
<1> USE DEF Init
<1>1. TypeOK
  <2>1. written \in [Stream -> 0..MaxOutput] /\ pipe \in [Stream -> 0..Capacity]
    OBVIOUS
  <2>2. kept \in [Stream -> 0..(Limit + 1)]
    OBVIOUS
  <2>3. inbox \in 0..Capacity /\ reader \in [Stream -> {"reading", "eof", "failed"}]
    OBVIOUS
  <2>4. QED
    BY <2>1, <2>2, <2>3 DEF TypeOK
<1>2. Account
  BY DEF Account, Cut
<1>3. Ends /\ Stages /\ OkIsComplete
  BY DEF Ends, Stages, OkIsComplete
<1>4. QED
  BY <1>1, <1>2, <1>3 DEF IInv

(* The caller never touches an output.                                      *)
LEMMA CallerIInv == IInv /\ Caller => IInv'
<1> SUFFICES ASSUME IInv, Caller PROVE IInv'
  OBVIOUS
<1> USE DEF IInv, Stream, Exited, Return, Kill, stdin, outputs
<1>1. TypeOK'
  BY DEF TypeOK, Stages, Caller, Spawn, SpawnFails, Write, WriteFails, Waited, WaitFails,
         TimeOut, KillChild, JoinFails, Finish, GiveUp
<1>2. UNCHANGED outputs
  BY DEF Caller, Spawn, SpawnFails, Write, WriteFails, Waited, WaitFails,
         TimeOut, KillChild, JoinFails, Finish, GiveUp
<1>3. Account'
  BY <1>2 DEF Account, Cut
<1>4. Ends'
  BY <1>2 DEF Ends, Open, Stages, Caller, Spawn, SpawnFails, Write, WriteFails, Waited, WaitFails,
         TimeOut, KillChild, JoinFails, Finish, GiveUp
<1>5. Stages'
  BY DEF TypeOK, Stages, Open, InputOpen, Caller, Spawn, SpawnFails, Write, WriteFails, Waited,
         WaitFails, TimeOut, KillChild, JoinFails, Finish, GiveUp
<1>6. OkIsComplete'
  <2>1. CASE Finish
    BY <2>1 DEF Finish, OkIsComplete, TypeOK, Account, Ends, Stages, Open, Oversized, Cut
  <2>2. CASE ~Finish
    BY <1>2, <2>2 DEF TypeOK, Stages, OkIsComplete, Open, Caller, Spawn, SpawnFails, Write,
         WriteFails, Waited, WaitFails, TimeOut, KillChild, JoinFails, Finish, GiveUp
  <2>3. QED
    BY <2>1, <2>2
<1>7. QED
  BY <1>1, <1>3, <1>4, <1>5, <1>6

LEMMA ReadersIInv == IInv /\ Readers => IInv'
<1> SUFFICES ASSUME IInv, NEW s \in Stream, Read(s) \/ ReadEnd(s) \/ ReadFails(s) PROVE IInv'
  BY DEF Readers
<1> USE DEF IInv, Stream, Exited, stdin, outputs
<1>1. CASE Read(s)
  <2>1. PICK n \in 1..pipe[s] :
          /\ pipe' = [pipe EXCEPT ![s] = @ - n]
          /\ kept' = [kept EXCEPT ![s] = Kept(@, n)]
    BY <1>1 DEF Read
  <2>2. UNCHANGED <<caller, result, child, heir, stdin, written, reader>> /\ reader[s] = "reading"
    BY <1>1 DEF Read
  <2>3. n \in Nat /\ n >= 1 /\ n <= pipe[s] /\ pipe[s] \in Nat /\ kept[s] \in Nat
    BY <2>1 DEF TypeOK
  <2>4. TypeOK'
    BY <2>1, <2>2, <2>3 DEF TypeOK, Kept
  <2>5. Account'
    BY <2>1, <2>2, <2>3 DEF TypeOK, Account, Cut, Kept
  <2>6. Ends' /\ Stages'
    BY <2>1, <2>2 DEF TypeOK, Ends, Stages, Open
  <2>7. OkIsComplete'
    BY <2>1, <2>2, <2>3 DEF TypeOK, OkIsComplete, Account, Kept, Cut, Open
  <2>8. QED
    BY <2>4, <2>5, <2>6, <2>7
<1>2. CASE ReadEnd(s) \/ ReadFails(s)
  <2>1. UNCHANGED <<caller, result, child, heir, deaf, unsent, inbox, written, pipe, kept>>
    BY <1>2 DEF ReadEnd, ReadFails
  <2>2. QED
    BY <1>2, <2>1 DEF ReadEnd, ReadFails, TypeOK, Account, Ends, Stages, OkIsComplete, Open, Cut
<1>3. QED
  BY <1>1, <1>2

(* The command can write only while a thread still waits for the end.       *)
LEMMA CommandIInv == IInv /\ Command => IInv'
<1> SUFFICES ASSUME IInv, Command PROVE IInv'
  OBVIOUS
<1> USE DEF IInv, Exited, stdin, outputs
<1>1. CASE Consume \/ CloseInput
  <2>1. UNCHANGED <<caller, result, child, heir, unsent, outputs>>
    BY <1>1 DEF Consume, CloseInput
  <2>2. deaf' \in BOOLEAN /\ inbox' \in 0..Capacity
    <3>1. deaf \in BOOLEAN /\ inbox \in 0..Capacity
      BY DEF TypeOK
    <3>2. CASE Consume
      BY <3>1, <3>2 DEF Consume
    <3>3. CASE CloseInput
      BY <3>1, <3>3 DEF CloseInput
    <3>4. QED
      BY <1>1, <3>2, <3>3
  <2>4. TypeOK'
    BY <2>1, <2>2 DEF TypeOK
  <2>3. Account' /\ Ends' /\ Stages' /\ OkIsComplete'
    BY <2>1 DEF Account, Ends, Stages, OkIsComplete, Open, Cut
  <2>5. QED
    BY <2>3, <2>4
<1>2. ASSUME NEW s \in Stream, Emit(s) PROVE IInv'
  <2> USE <1>2 DEF Emit, Stream
  <2>1. TypeOK'
    BY DEF TypeOK
  <2>2. Account'
    BY DEF TypeOK, Account, Cut
  <2>3. Ends' /\ Stages'
    BY DEF TypeOK, Ends, Stages, Open
  <2>4. OkIsComplete'
    BY DEF TypeOK, OkIsComplete, Open
  <2>5. QED
    BY <2>1, <2>2, <2>3, <2>4
<1>3. CASE Exit \/ Fork \/ HeirExits
  BY <1>3 DEF Exit, Fork, HeirExits, TypeOK, Account, Ends, Stages, OkIsComplete, Open, Cut, Stream
<1>4. QED
  BY <1>1, <1>2, <1>3 DEF Command

LEMMA Inductive == Spec => []IInv
<1>1. IInv /\ [Next]_vars => IInv'
  <2>1. CASE UNCHANGED vars
    BY <2>1 DEF vars, IInv, TypeOK, Account, Ends, Stages, OkIsComplete, Open, Cut
  <2>2. QED
    BY <2>1, CallerIInv, ReadersIInv, CommandIInv DEF Next, Returned
<1>2. QED
  BY <1>1, InitIInv, PTL DEF Spec

-----------------------------------------------------------------------------
(* The pipes and what the threads keep stay within their bounds.            *)
THEOREM TypeCorrect == Spec => []TypeOK
<1>1. IInv => TypeOK
  BY DEF IInv
<1>2. QED
  BY <1>1, Inductive, PTL

(* run_checked returns a whole output or none, and exactly the limit is     *)
(* still whole (process.rs:81-91, 103-106).                                 *)
THEOREM OutputWhole == Spec => []OkIsComplete
<1>1. IInv => OkIsComplete
  BY DEF IInv
<1>2. QED
  BY <1>1, Inductive, PTL

(* Unless the wait itself fails, run_checked leaves no child running        *)
(* (process.rs:59-79).                                                      *)
THEOREM ChildReaped == Spec => []NoChildLeft
<1>1. IInv => NoChildLeft
  BY DEF IInv, Stages, NoChildLeft
<1>2. QED
  BY <1>1, Inductive, PTL
=============================================================================
