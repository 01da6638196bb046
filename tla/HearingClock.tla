---------------------------- MODULE HearingClock ----------------------------
(***************************************************************************)
(* The daemon's hearing clock (`Hearing` in delulu/src/brokerd.rs,         *)
(* DEADMAN-DEAF-1): monotonic time that stands still while the daemon      *)
(* could not hear, so that a dead-man never takes a stopped daemon for a   *)
(* silent holder.  A thread looks at the time; a gap between two looks     *)
(* past the slack is left out, and so is what the next look will find.     *)
(*                                                                         *)
(* Every call is made under one lock.  The thread may be late, or not run  *)
(* at all: its looks come at any time.                                     *)
(***************************************************************************)
EXTENDS Integers

CONSTANTS
  Slack,      \* HEARING_SLACK
  MaxWall     \* bound on the wall clock

ASSUME ClockConstants == Slack \in Nat /\ MaxWall \in Nat

VARIABLES
  t,          \* wall time since the clock's start
  deaf,       \* the time left out so far
  lastLook,   \* when the thread last looked
  thread,     \* "listening" while a dead-man is armed, or "asleep"
  marked      \* what the clock read when it was last looked at

clockVars == <<t, deaf, lastLook, thread, marked>>

Listening == thread = "listening"

\* `saturating_sub`.
Less(a, b) == IF a >= b THEN a - b ELSE 0

\* The time since the last look past the slack.
Overdue(at) == Less(Less(at, lastLook), Slack)

\* (mutant) what the next look will find is not left out yet.
HeardAtLook(at) == Less(at, deaf)

HeardAt(at) == Less(Less(at, deaf), IF Listening THEN Overdue(at) ELSE 0)

HeardNow == HeardAt(t)

-----------------------------------------------------------------------------
ClockInit ==
  /\ t = 0
  /\ deaf = 0
  /\ lastLook = 0
  /\ thread = "asleep"
  /\ marked = 0

\* A stop of the daemon is a run of these without a look.
Pass ==
  /\ t < MaxWall
  /\ t' = t + 1
  /\ UNCHANGED <<deaf, lastLook, thread, marked>>

\* (mutant) every gap is deaf, ordinary lateness too.
LookAtNoSlack ==
  /\ Listening
  /\ deaf' = deaf + Less(t, lastLook)
  /\ lastLook' = t
  /\ marked' = Less(t, deaf')
  /\ UNCHANGED <<t, thread>>

\* (mutant) the look is not remembered.
LookAtUnmoved ==
  /\ Listening
  /\ deaf' = deaf + Overdue(t)
  /\ marked' = Less(t, deaf')
  /\ UNCHANGED <<t, lastLook, thread>>

\* `look_at`; of a clock that does not listen it changes nothing.
LookAt ==
  /\ Listening
  /\ deaf' = deaf + Overdue(t)
  /\ lastLook' = t
  /\ marked' = Less(t, deaf')
  /\ UNCHANGED <<t, thread>>

\* (mutant) listening starts where the last look was.
StartFromLastLook ==
  /\ ~Listening
  /\ thread' = "listening"
  /\ lastLook' = lastLook
  /\ marked' = Less(t, deaf)
  /\ UNCHANGED <<t, deaf>>

\* `listen_at(true)`: nothing before it is deaf.
StartListening ==
  /\ ~Listening
  /\ thread' = "listening"
  /\ lastLook' = t
  /\ marked' = Less(t, deaf)
  /\ UNCHANGED <<t, deaf>>

\* `listen_at(false)` looks first.
StopListening ==
  /\ Listening
  /\ thread' = "asleep"
  /\ deaf' = deaf + Overdue(t)
  /\ lastLook' = t
  /\ marked' = Less(t, deaf')
  /\ UNCHANGED t

ClockNext ==
  \/ Pass
  \/ LookAt
  \/ StartListening
  \/ StopListening

ClockSpec == ClockInit /\ [][ClockNext]_clockVars

-----------------------------------------------------------------------------
(* Properties.                                                             *)

\* Types; no look is ahead of the time, no more was left out than had passed.
ClockTypeOK ==
  /\ t \in Nat
  /\ deaf \in Nat
  /\ lastLook \in Nat
  /\ marked \in Nat
  /\ thread \in {"listening", "asleep"}
  /\ deaf <= lastLook
  /\ lastLook <= t

\* The clock never runs backward and never faster than the wall, whoever looks
\* and whenever listening starts and stops: a deadline once past stays past,
\* and no dead-man waits less than its period (heard_at, look_at, listen_at).
ClockSteady == [][HeardNow <= HeardNow' /\ HeardNow' - HeardNow <= t' - t]_clockVars

\* While a dead-man is armed a stop of the daemon, however long, costs its
\* holder at most the slack, before the thread has looked as after.
StopLeftOut == Listening => HeardNow <= marked + Slack

\* Time that was looked at often enough all counts: a holder that is silent is
\* not spared by the ordinary lateness of the thread.
OrdinaryTimeCounts ==
  [][(Listening => t' - lastLook <= Slack) => HeardNow' - HeardNow = t' - t]_clockVars
=============================================================================
