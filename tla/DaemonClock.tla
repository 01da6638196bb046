----------------------------- MODULE DaemonClock -----------------------------
(***************************************************************************)
(* The dead-men on the hearing clock, as the daemon runs them: every       *)
(* instant a dead-man is judged by is read from that clock, which listens  *)
(* from the request that arms one until the serve loop finds none armed    *)
(* (delulu/src/brokerd.rs, DEADMAN-DEAF-1).                                *)
(***************************************************************************)
EXTENDS HearingClock, Deadman

ASSUME WallWithinTime == MaxWall <= MaxTime

vars == <<clockVars, dvars>>

TimePasses ==
  /\ Pass
  /\ now' = HeardNow'
  /\ UNCHANGED broker

Look == LookAt /\ UNCHANGED dvars

\* (mutant) the clock is left to the serve loop.
ArmUnheard ==
  /\ Arming
  /\ UNCHANGED <<now, clockVars>>

\* The clock listens before the dead-man exists.
ArmHeard ==
  /\ Arming
  /\ IF Listening THEN UNCHANGED clockVars ELSE StartListening
  /\ UNCHANGED now

\* The top of the serve loop.
LoopTop ==
  /\ Armed = {}
  /\ StopListening
  /\ UNCHANGED dvars

Judge ==
  /\ Answering \/ Ending
  /\ UNCHANGED <<now, clockVars>>

-----------------------------------------------------------------------------
Init == ClockInit /\ DeadmanInit

Next ==
  \/ TimePasses
  \/ Look
  \/ ArmHeard
  \/ LoopTop
  \/ Judge

Spec == Init /\ [][Next]_vars

-----------------------------------------------------------------------------
(* Properties.                                                             *)

\* Types, of the clock and of the dead-men on it; the time they are judged by is
\* the clock's, and no look, start or stop of the listening moves it.
TypeOK == ClockTypeOK /\ DeadmanTypeOK /\ now = HeardNow

\* While a dead-man is armed the clock listens: no moment of any period, its
\* first one too, passes with a stop of the daemon counted as silence
\* (the order of listen and arm_deadman, and the loop's listen).
ArmedIsHeard == Armed # {} => Listening

\* The time dead-men are judged by is the time the daemon ran: it keeps the wall's
\* pace and direction, counts no stop of the daemon while one is armed, and
\* leaves out none of what the daemon did hear.
HeardTimeIsReal ==
  /\ [](ArmedIsHeard /\ StopLeftOut)
  /\ ClockSteady
  /\ OrdinaryTimeCounts

\* A dead-man's deadline only ever moves ahead, and never past one period from
\* now: no holder is cut short, and none may be silent for longer.
DeadlinesHold == []WithinOnePeriod /\ NeverShortened
=============================================================================
