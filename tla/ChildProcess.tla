----------------------------- MODULE ChildProcess ----------------------------
(***************************************************************************)
(* `run_checked' (process.rs:21-118): every command of the program -- the  *)
(* Proton CLI, pass, gpg -- is a child with pipes for its input and its    *)
(* two outputs.  The caller writes the input, waits for the child with a   *)
(* time limit, and joins two threads that read the outputs to their end    *)
(* but keep only a limited part.                                           *)
(*                                                                         *)
(* The child does what it likes: it reads or not, writes any amount, exits *)
(* or hangs, and may leave behind an heir, a process that inherited its    *)
(* pipes.  Pipes hold a bounded amount, and a full pipe blocks its writer. *)
(* A unit of data stands for any number of bytes.                          *)
(***************************************************************************)
EXTENDS Naturals

CONSTANTS Limit,     \* OUTPUT_LIMIT
          Capacity,  \* what a pipe holds
          MaxInput,  \* bound on the input; 0 is a command without input
          MaxOutput  \* bound on what is written to one output

ASSUME LimitAssumption == Limit \in Nat
ASSUME CapacityAssumption == Capacity \in Nat \ {0}
ASSUME BoundAssumption == MaxInput \in Nat /\ MaxOutput \in Nat

VARIABLES caller,  \* where run_checked stands
          result,  \* what it returned
          child,   \* "none", "running", or the status it exited with
          heir,    \* "none", "running" or "gone"
          deaf,    \* child and heir have closed their input
          unsent,  \* input the caller has not written yet
          inbox,   \* input in the pipe
          written, \* per output: all that was ever written
          pipe,    \* per output: what is in the pipe
          reader,  \* per output: the thread, "reading", at "eof" or "failed"
          kept     \* per output: what the thread keeps

vars == <<caller, result, child, heir, deaf, unsent, inbox, written, pipe, reader, kept>>
stdin == <<deaf, unsent, inbox>>
outputs == <<written, pipe, reader, kept>>

Stream == {"stdout", "stderr"}
Exited == {"success", "failure"}

Init ==
  /\ caller = "spawn" /\ result = "none"
  /\ child = "none" /\ heir = "none" /\ deaf = FALSE
  /\ unsent \in 0..MaxInput /\ inbox = 0
  /\ written = [s \in Stream |-> 0]
  /\ pipe = [s \in Stream |-> 0]
  /\ reader = [s \in Stream |-> "reading"]
  /\ kept = [s \in Stream |-> 0]

(* Some process has the pipes open.                                        *)
Open == child = "running" \/ heir = "running"

InputOpen == Open /\ ~deaf

Kill == IF child = "running" THEN "failure" ELSE child

-----------------------------------------------------------------------------
(* The caller.                                                             *)

Return(r) == caller' = "done" /\ result' = r

Spawn ==
  /\ caller = "spawn"
  /\ caller' = IF unsent > 0 THEN "write" ELSE "wait"
  /\ child' = "running"
  /\ UNCHANGED <<result, heir, stdin, outputs>>

SpawnFails ==
  /\ caller = "spawn"
  /\ Return("not_started")
  /\ UNCHANGED <<child, heir, stdin, outputs>>

(* write_all; no time limit runs yet.                                      *)
Write ==
  /\ caller = "write" /\ InputOpen /\ inbox < Capacity
  /\ unsent' = unsent - 1
  /\ inbox' = inbox + 1
  /\ caller' = IF unsent = 1 THEN "wait" ELSE "write"
  /\ UNCHANGED <<result, child, heir, deaf, outputs>>

(* Mutant of WriteFails: the child is left alone.                          *)
WriteFailsNoKill ==
  /\ caller = "write" /\ ~InputOpen
  /\ caller' = "join_rejected"
  /\ UNCHANGED <<result, child, heir, stdin, outputs>>

(* Nobody can read the input any more: the child is killed and reaped.     *)
WriteFails ==
  /\ caller = "write" /\ ~InputOpen
  /\ child' = Kill
  /\ caller' = "join_rejected"
  /\ UNCHANGED <<result, heir, stdin, outputs>>

(* wait_timeout returns a status.                                          *)
Waited ==
  /\ caller = "wait" /\ child \in Exited
  /\ caller' = "join"
  /\ UNCHANGED <<result, child, heir, stdin, outputs>>

(* ... or fails; the child goes on.                                        *)
WaitFails ==
  /\ caller = "wait"
  /\ Return("not_waited")
  /\ UNCHANGED <<child, heir, stdin, outputs>>

(* ... or the time is up.  The child may still exit before it is killed.   *)
TimeOut ==
  /\ caller = "wait" /\ child = "running"
  /\ caller' = "kill"
  /\ UNCHANGED <<result, child, heir, stdin, outputs>>

(* Mutant of KillChild: the child is not killed.                           *)
KillNothing ==
  /\ caller = "kill"
  /\ caller' = "join_timed_out"
  /\ UNCHANGED <<result, child, heir, stdin, outputs>>

KillChild ==
  /\ caller = "kill"
  /\ child' = Kill
  /\ caller' = "join_timed_out"
  /\ UNCHANGED <<result, heir, stdin, outputs>>

Ended(s) == reader[s] # "reading"

(* A thread could not read: stdout is joined first, and a failure of it    *)
(* leaves the other thread alone.                                          *)
JoinFails ==
  /\ caller \in {"join", "join_timed_out"}
  /\ \/ reader["stdout"] = "failed"
     \/ reader["stdout"] = "eof" /\ reader["stderr"] = "failed"
  /\ Return("not_read")
  /\ UNCHANGED <<child, heir, stdin, outputs>>

Oversized == \E s \in Stream : kept[s] > Limit

Finish ==
  /\ caller = "join" /\ \A s \in Stream : reader[s] = "eof"
  /\ Return(IF Oversized THEN "oversized" ELSE IF child = "failure" THEN "failed" ELSE "ok")
  /\ UNCHANGED <<child, heir, stdin, outputs>>

GiveUp ==
  /\ \/ caller = "join_timed_out" /\ \A s \in Stream : reader[s] = "eof"
     \/ caller = "join_rejected" /\ \A s \in Stream : Ended(s)
  /\ Return(IF caller = "join_rejected" THEN "rejected" ELSE "timed_out")
  /\ UNCHANGED <<child, heir, stdin, outputs>>

-----------------------------------------------------------------------------
(* A thread that reads an output.                                          *)

(* Mutant of Kept: one unit less is kept, so that an output of Limit + 1   *)
(* passes.                                                                 *)
KeptAtMostLimit(k, n) == IF k + n <= Limit THEN k + n ELSE Limit

(* Mutant of Kept: everything is kept.                                     *)
KeptAll(k, n) == k + n

(* One unit beyond the limit is kept, as the sign of it.                   *)
Kept(k, n) == IF k + n <= Limit + 1 THEN k + n ELSE Limit + 1

(* Mutant of Read: what is beyond the limit is not read.                   *)
ReadToLimit(s) ==
  /\ child # "none" /\ reader[s] = "reading" /\ kept[s] <= Limit
  /\ \E n \in 1..pipe[s] :
       /\ pipe' = [pipe EXCEPT ![s] = @ - n]
       /\ kept' = [kept EXCEPT ![s] = Kept(@, n)]
  /\ UNCHANGED <<caller, result, child, heir, stdin, written, reader>>

Read(s) ==
  /\ child # "none" /\ reader[s] = "reading"
  /\ \E n \in 1..pipe[s] :
       /\ pipe' = [pipe EXCEPT ![s] = @ - n]
       /\ kept' = [kept EXCEPT ![s] = Kept(@, n)]
  /\ UNCHANGED <<caller, result, child, heir, stdin, written, reader>>

(* The pipe is empty and everyone who could write to it has closed it.     *)
ReadEnd(s) ==
  /\ child # "none" /\ reader[s] = "reading"
  /\ pipe[s] = 0 /\ ~Open
  /\ reader' = [reader EXCEPT ![s] = "eof"]
  /\ UNCHANGED <<caller, result, child, heir, stdin, written, pipe, kept>>

ReadFails(s) ==
  /\ child # "none" /\ reader[s] = "reading"
  /\ reader' = [reader EXCEPT ![s] = "failed"]
  /\ UNCHANGED <<caller, result, child, heir, stdin, written, pipe, kept>>

-----------------------------------------------------------------------------
(* The child and its heir.                                                 *)

Consume ==
  /\ InputOpen /\ inbox > 0
  /\ inbox' = inbox - 1
  /\ UNCHANGED <<caller, result, child, heir, deaf, unsent, outputs>>

CloseInput ==
  /\ InputOpen
  /\ deaf' = TRUE
  /\ UNCHANGED <<caller, result, child, heir, unsent, inbox, outputs>>

(* A pipe whose reader has failed takes nothing: its writer fails.         *)
Emit(s) ==
  /\ Open /\ reader[s] = "reading"
  /\ pipe[s] < Capacity /\ written[s] < MaxOutput
  /\ pipe' = [pipe EXCEPT ![s] = @ + 1]
  /\ written' = [written EXCEPT ![s] = @ + 1]
  /\ UNCHANGED <<caller, result, child, heir, stdin, reader, kept>>

Exit ==
  /\ child = "running"
  /\ child' \in Exited
  /\ UNCHANGED <<caller, result, heir, stdin, outputs>>

Fork ==
  /\ child = "running" /\ heir = "none"
  /\ heir' = "running"
  /\ UNCHANGED <<caller, result, child, stdin, outputs>>

HeirExits ==
  /\ heir = "running"
  /\ heir' = "gone"
  /\ UNCHANGED <<caller, result, child, stdin, outputs>>

-----------------------------------------------------------------------------
Caller ==
  \/ Spawn \/ SpawnFails
  \/ Write \/ WriteFails
  \/ Waited \/ WaitFails \/ TimeOut \/ KillChild
  \/ JoinFails \/ Finish \/ GiveUp

Readers == \E s \in Stream : Read(s) \/ ReadEnd(s) \/ ReadFails(s)

Command ==
  \/ Consume \/ CloseInput
  \/ \E s \in Stream : Emit(s)
  \/ Exit \/ Fork \/ HeirExits

Returned == caller = "done" /\ UNCHANGED vars

Next == Caller \/ Readers \/ Command \/ Returned

(* The program's threads run, and its clock; the command need not.         *)
Fairness ==
  /\ WF_vars(Caller)
  /\ \A s \in Stream : WF_vars(Read(s) \/ ReadEnd(s))

Spec == Init /\ [][Next]_vars /\ Fairness

-----------------------------------------------------------------------------
(* Properties.                                                             *)

(* The values of the variables; pipes hold no more than they can, and a    *)
(* thread keeps at most one unit more than the limit.                      *)
TypeOK ==
  /\ caller \in {"spawn", "write", "wait", "kill",
                 "join", "join_timed_out", "join_rejected", "done"}
  /\ result \in {"none", "not_started", "not_waited", "not_read",
                 "rejected", "timed_out", "oversized", "failed", "ok"}
  /\ child \in {"none", "running"} \cup Exited
  /\ heir \in {"none", "running", "gone"}
  /\ deaf \in BOOLEAN
  /\ unsent \in 0..MaxInput /\ inbox \in 0..Capacity
  /\ written \in [Stream -> 0..MaxOutput]
  /\ pipe \in [Stream -> 0..Capacity]
  /\ reader \in [Stream -> {"reading", "eof", "failed"}]
  /\ kept \in [Stream -> 0..(Limit + 1)]

(* An output that is returned is all that the command, or anybody it       *)
(* started, ever wrote to it or will; the command succeeded; neither       *)
(* output is longer than the limit, and exactly the limit is not too long  *)
(* (process.rs:83-91, 103-106).                                            *)
OkIsComplete ==
  /\ result = "ok" =>
       /\ child = "success" /\ ~Open
       /\ kept["stdout"] = written["stdout"]
       /\ \A s \in Stream : written[s] <= Limit
  /\ result = "oversized" => \E s \in Stream : written[s] > Limit
  /\ result = "failed" => child = "failure"

(* A call that ends because the child did not take its input, took too     *)
(* long, failed or succeeded leaves no child behind: it was reaped, killed *)
(* if need be.  Only a wait that fails does (process.rs:70).               *)
NoChildLeft ==
  caller = "done" /\ result # "not_waited" => child # "running"

(* The threads read on beyond the limit: a full pipe is always emptied     *)
(* again, unless its reader fails and closes it.  So a child that writes  *)
(* much to one output, or before it reads its input, is not blocked by a   *)
(* caller that writes or waits.                                            *)
PipesDrain ==
  \A s \in Stream :
    pipe[s] = Capacity ~> pipe[s] < Capacity \/ reader[s] = "failed" \/ caller = "done"

(* The command does not refuse its input forever without closing it, and   *)
(* whoever inherited its pipes goes away.                                  *)
Heard == []<>(inbox < Capacity \/ ~InputOpen)
Released == <>[](heir # "running")

(* "command timed out" (process.rs:78): whatever else the command does,    *)
(* the call returns.  Both conditions are needed: the input is written     *)
(* before the time limit runs, and the threads are joined after the kill.  *)
Returns == Heard /\ Released => <>(caller = "done")
=============================================================================
