--------------------------- MODULE SchedulerProofs ---------------------------
(* What the schedule script keeps, for any sessions and length of an hour.  *)
EXTENDS Scheduler, TLAPS

USE HourAssumption

(* The script is between reading the sessions and starting the producer.    *)
Sessions ==
  /\ script # "waiting" => current \subseteq names
  /\ script = "start" => noted = current

(* Without a jump a session is never named like one before: the noted ones  *)
(* were there at the last attempt, or there has been nobody since.          *)
Noted ==
  jump = "never" =>
    /\ noted \subseteq names /\ served \subseteq names
    /\ script # "start" =>
         /\ newcomers \cap noted = {}
         /\ noted = served \/ served \cap sessions = {}

(* ... and the noted time is that of the last attempt.                      *)
Times ==
  /\ jump = "never" /\ script \notin {"sessions", "start"} => attempt = gap
  /\ jump # "lately" /\ script \in {"sessions", "start"} => attempt = now

IInv == TypeOK /\ Sessions /\ Noted /\ Times

LEMMA InitIInv == Init => IInv
<1> SUFFICES ASSUME Init PROVE IInv
  OBVIOUS
<1>1. Hour \in Age /\ 0 \in Age
  BY DEF Age, Ahead
<1>2. QED
  BY <1>1 DEF Init, IInv, TypeOK, Sessions, Noted, Times

LEMMA LaterAge == ASSUME NEW t \in Age PROVE Later(t) \in Age
  BY DEF Later, Age, Ahead

LEMMA ScriptIInv == IInv /\ (Forget \/ Run) => IInv'
<1> SUFFICES ASSUME IInv PROVE Forget \/ Run => IInv'
  OBVIOUS
<1> USE DEF IInv, TypeOK, Sessions, Noted, Times, Age, Ahead, logind, files, history
<1>1. CASE Forget
  BY <1>1 DEF Forget
<1>2. CASE Decide
  BY <1>2 DEF Decide
<1>3. CASE Recheck
  BY <1>3 DEF Recheck
<1>4. CASE NoteAttempt
  BY <1>4 DEF NoteAttempt
<1>5. CASE NoteSessions
  BY <1>5 DEF NoteSessions
<1>6. CASE Start
  BY <1>6 DEF Start
<1>7. CASE Produce \/ ProducerFails
  BY <1>7 DEF Produce, ProducerFails
<1>8. CASE Deliver \/ DeliveryFails
  BY <1>8 DEF Deliver, DeliveryFails
<1>9. QED
  BY <1>1, <1>2, <1>3, <1>4, <1>5, <1>6, <1>7, <1>8 DEF Run

LEMMA WorldIInv ==
  ASSUME IInv, Jump \/ Minute \/ \E s \in Session : Login(s) \/ Logout(s)
  PROVE  IInv'
<1> USE DEF IInv, TypeOK, Sessions, Noted, Times, logind, files
<1>1. CASE Die \/ Reboot \/ SetClock
  BY <1>1 DEF Die, Reboot, SetClock, Age, Ahead
<1>2. CASE Minute
  <2>1. attempt' \in Age /\ now' \in Age /\ gap' \in Age
    BY <1>2, LaterAge DEF Minute
  <2>2. QED
    BY <1>2, <2>1 DEF Minute
<1>3. ASSUME NEW s \in Session, Login(s) PROVE IInv'
  BY <1>3 DEF Login
<1>4. ASSUME NEW s \in Session, Logout(s) PROVE IInv'
  BY <1>4 DEF Logout
<1>5. QED
  BY <1>1, <1>2, <1>3, <1>4 DEF Jump

LEMMA Inductive == Spec => []IInv
<1>1. IInv /\ [Next]_vars => IInv'
  <2>1. CASE UNCHANGED vars
    BY <2>1 DEF vars, logind, files, history, IInv, TypeOK, Sessions, Noted, Times
  <2>2. QED
    BY <2>1, ScriptIInv, WorldIInv DEF Next
<1>2. QED
  BY <1>1, InitIInv, PTL DEF Spec

-----------------------------------------------------------------------------
(* The script never goes on without sessions, and its files keep their form *)
(* (nix/nixos.nix:92-108).                                                  *)
THEOREM TypeCorrect == Spec => []TypeOK
<1>1. IInv => TypeOK
  BY DEF IInv
<1>2. QED
  BY <1>1, Inductive, PTL

(* A login after the sessions were read makes the next attempt due, also    *)
(* while one is under way, whoever logs in and out (nix/nixos.nix:102).     *)
THEOREM NewLoginAllowsAttempt == Spec => []NewLoginDue
<1>1. IInv => NewLoginDue
  BY DEF IInv, TypeOK, Noted, NewLoginDue, Due
<1>2. QED
  BY <1>1, Inductive, PTL

(* Otherwise the script waits out the hour (nix/nixos.nix:103).             *)
THEOREM AttemptsAreHourly == Spec => RetriesHourly
<1>1. IInv /\ [Next]_vars =>
        [Decide => gap \notin 0..(Hour - 1) \/ sessions # served \/ jump # "never"]_vars
  BY DEF IInv, TypeOK, Noted, Times, Decide, Due
<1>2. QED
  BY <1>1, Inductive, PTL DEF Spec, RetriesHourly
=============================================================================
