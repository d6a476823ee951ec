------------------------------ MODULE Scheduler ------------------------------
(***************************************************************************)
(* The script `proton-pass-schedule' (nix/nixos.nix:72-112), which a timer *)
(* starts a minute after its last run ended, and the two services that it  *)
(* starts.  It remembers in two files the login sessions of the recipient  *)
(* at its last attempt, and when that was.                                 *)
(*                                                                         *)
(* Around it users log in and out, machines are started again -- and logind *)
(* counts its sessions from one again --, clocks are set, services fail,   *)
(* and the script may die at any moment.  Times are minutes ago, cut off   *)
(* at an hour; a time in the future is Ahead.                              *)
(***************************************************************************)
EXTENDS Integers

CONSTANTS Session, \* the names logind gives to sessions
          Hour     \* 3600 seconds, in minutes

ASSUME HourAssumption == Hour \in Nat \ {0}

Ahead == -1
Age == Ahead..Hour

VARIABLES sessions, \* the recipient's sessions
          names,    \* names logind has given since the machine was started
          attempt,  \* age of the time in the file `attempt'; Hour if there is none
          noted,    \* the file `sessions'; {} if there is none
          script,   \* where the script stands
          current,  \* the sessions it has read
          now,      \* age of the time it has read
          undelivered \* a snapshot has been exported since the last delivery

(* History, not part of the system: what was there when the last attempt   *)
(* was made, and what has happened since.                                  *)
VARIABLES served,   \* the sessions the last attempt was made for
          gap,      \* minutes since it was decided
          newcomers, \* sessions that were opened since
          jump      \* when the script died, or the clock or the machine jumped:
                    \* "never" since, before a decision "earlier", or "lately"

files == <<attempt, noted>>
logind == <<sessions, names>>
history == <<served, gap, newcomers, jump>>
vars == <<logind, files, script, current, now, undelivered, history>>

Init ==
  /\ sessions = {} /\ names = {}
  /\ attempt = Hour /\ noted = {}
  /\ script = "waiting" /\ current = {} /\ now = 0
  /\ undelivered = FALSE
  /\ served = {} /\ gap = Hour /\ newcomers = {} /\ jump = "never"

Later(t) == IF t < Hour THEN t + 1 ELSE t

-----------------------------------------------------------------------------
(* The script.                                                             *)

(* Mutant of Due: only the sessions matter.                                *)
DueChanged(S) == S # noted

(* Other sessions than at the last attempt, or an hour has passed, or the  *)
(* last attempt lies in the future.  If not, the script ends at once.      *)
Due(S) == S # noted \/ attempt \notin 0..(Hour - 1)

(* Nobody is logged in: the sessions are forgotten.                        *)
Forget ==
  /\ script = "waiting" /\ sessions = {}
  /\ noted' = {}
  /\ UNCHANGED <<logind, attempt, script, current, now, undelivered, history>>

(* Mutant of Decide: it does not matter whether anybody is logged in.       *)
DecideForNobody ==
  /\ script = "waiting" /\ Due(sessions)
  /\ script' = "decided"
  /\ current' = sessions
  /\ now' = 0
  /\ UNCHANGED <<logind, files, undelivered, history>>

Decide ==
  /\ script = "waiting" /\ sessions # {} /\ Due(sessions)
  /\ script' = "decided"
  /\ current' = sessions
  /\ now' = 0
  /\ jump' = IF jump = "lately" THEN "earlier" ELSE jump
  /\ UNCHANGED <<logind, files, undelivered, served, gap, newcomers>>

(* The sessions are read again.                                            *)
Recheck ==
  /\ script = "decided"
  /\ script' = IF sessions = {} THEN "waiting" ELSE "attempt"
  /\ UNCHANGED <<logind, files, current, now, undelivered, history>>

(* Mutant of NoteAttempt: the time of an attempt is not kept.              *)
NoteNothing ==
  /\ script = "attempt"
  /\ script' = "sessions"
  /\ UNCHANGED <<logind, files, current, now, undelivered, history>>

NoteAttempt ==
  /\ script = "attempt"
  /\ attempt' = now
  /\ script' = "sessions"
  /\ UNCHANGED <<logind, noted, current, now, undelivered, history>>

(* Mutant of NoteSessions: the sessions there are now are noted.           *)
NoteLatest ==
  /\ script = "sessions"
  /\ noted' = sessions
  /\ script' = "start"
  /\ UNCHANGED <<logind, attempt, current, now, undelivered, history>>

NoteSessions ==
  /\ script = "sessions"
  /\ noted' = current
  /\ script' = "start"
  /\ UNCHANGED <<logind, attempt, current, now, undelivered, history>>

(* The attempt: the producer's service is started.                         *)
Start ==
  /\ script = "start"
  /\ script' = "producer"
  /\ served' = current /\ gap' = now
  /\ newcomers' = newcomers \ current
  /\ jump' = IF jump = "earlier" THEN "never" ELSE jump
  /\ UNCHANGED <<logind, files, current, now, undelivered>>

(* The producer has mirrored the vault and published a snapshot ...        *)
Produce ==
  /\ script = "producer"
  /\ undelivered' = TRUE
  /\ script' = "delivery"
  /\ UNCHANGED <<logind, files, current, now, history>>

(* ... or it has failed, with or without publishing one; `set -e' ends the *)
(* script.                                                                 *)
ProducerFails ==
  /\ script = "producer"
  /\ undelivered' \in {undelivered, TRUE}
  /\ script' = "waiting"
  /\ UNCHANGED <<logind, files, current, now, history>>

Deliver ==
  /\ script = "delivery"
  /\ undelivered' = FALSE
  /\ script' = "waiting"
  /\ UNCHANGED <<logind, files, current, now, history>>

DeliveryFails ==
  /\ script = "delivery"
  /\ script' = "waiting"
  /\ UNCHANGED <<logind, files, current, now, undelivered, history>>

-----------------------------------------------------------------------------
(* Around it.                                                              *)

Login(s) ==
  /\ s \notin names
  /\ sessions' = sessions \cup {s} /\ names' = names \cup {s}
  /\ newcomers' = newcomers \cup {s}
  /\ UNCHANGED <<files, script, current, now, undelivered, served, gap, jump>>

Logout(s) ==
  /\ s \in sessions
  /\ sessions' = sessions \ {s}
  /\ newcomers' = newcomers \ {s}
  /\ UNCHANGED <<names, files, script, current, now, undelivered, served, gap, jump>>

(* The script is killed; a service it has started goes on without it.      *)
Die ==
  /\ script # "waiting"
  /\ script' = "waiting"
  /\ undelivered' \in {undelivered, IF script = "producer" THEN TRUE
                                   ELSE IF script = "delivery" THEN FALSE ELSE undelivered}
  /\ jump' = "lately"
  /\ UNCHANGED <<logind, files, current, now, served, gap, newcomers>>

Reboot ==
  /\ sessions' = {} /\ names' = {} /\ newcomers' = {}
  /\ script' = "waiting"
  /\ jump' = "lately"
  /\ UNCHANGED <<files, current, now, undelivered, served, gap>>

SetClock ==
  /\ attempt' \in Age /\ now' \in Age
  /\ jump' = "lately"
  /\ UNCHANGED <<logind, noted, script, current, undelivered, served, gap, newcomers>>

Minute ==
  /\ attempt' = Later(attempt) /\ now' = Later(now) /\ gap' = Later(gap)
  /\ UNCHANGED <<logind, noted, script, current, undelivered, served, newcomers, jump>>

-----------------------------------------------------------------------------
Run ==
  \/ Decide \/ Recheck \/ NoteAttempt \/ NoteSessions \/ Start
  \/ Produce \/ ProducerFails \/ Deliver \/ DeliveryFails

Jump == Die \/ Reboot \/ SetClock

Next ==
  \/ Forget \/ Run \/ Jump \/ Minute
  \/ \E s \in Session : Login(s) \/ Logout(s)

(* The timer fires, what it starts goes on, and time passes.               *)
Fairness == WF_vars(Run) /\ WF_vars(Minute)

Spec == Init /\ [][Next]_vars /\ Fairness

-----------------------------------------------------------------------------
(* Properties.                                                             *)

(* The values of the variables.                                            *)
TypeOK ==
  /\ sessions \subseteq names /\ names \subseteq Session
  /\ attempt \in Age /\ now \in Age /\ noted \subseteq Session
  /\ script \in {"waiting", "decided", "attempt", "sessions", "start", "producer", "delivery"}
  /\ current \subseteq Session /\ (script # "waiting" => current # {})
  /\ undelivered \in BOOLEAN
  /\ served \subseteq Session /\ newcomers \subseteq sessions
  /\ gap \in Age /\ jump \in {"never", "earlier", "lately"}

(* "A new login allows a new attempt" (README.md:64): when the script is   *)
(* due to run, it makes an attempt if somebody has logged in since it read *)
(* the sessions for the last one, also while that was under way -- unless  *)
(* the script died, or the clock or the machine jumped, since.             *)
NewLoginDue ==
  script = "waiting" /\ newcomers # {} /\ jump = "never" => Due(sessions)

(* "otherwise failures retry hourly" (README.md:64, nixos.nix:102): within *)
(* an hour of the last attempt, whatever came of it, the script decides on *)
(* another one only when the recipient's sessions are others than those of *)
(* that attempt, be it by a login or a logout, or after such a jump.       *)
RetriesHourly ==
  [][Decide => gap \notin 0..(Hour - 1) \/ sessions # served \/ jump # "never"]_vars

(* From some moment on nothing jumps.                                      *)
Steady == <>[][~Jump]_vars

(* A login that a death of the script, or a session of the same name       *)
(* before the machine was started again, kept from an attempt of its own   *)
(* has it with the next hourly one, if it lasts.                           *)
LoginServed == Steady => \A s \in Session : s \in newcomers ~> s \notin newcomers

(* "a missed delivery is repaired by the next complete snapshot" (README.  *)
(* md:85): what was published is delivered, if somebody stays logged in    *)
(* and the services fail only so often.  While the producer fails nothing  *)
(* is delivered, not even a snapshot published before.                     *)
DeliveryRepaired ==
  /\ Steady
  /\ <>[](sessions # {})
  /\ <>[][~ProducerFails /\ ~DeliveryFails]_vars
  => (undelivered ~> ~undelivered)
=============================================================================
