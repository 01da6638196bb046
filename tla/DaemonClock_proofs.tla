------------------------- MODULE DaemonClock_proofs -------------------------
(***************************************************************************)
(* The hearing clock is sound; a dead-man keeps what it promises; and the  *)
(* dead-men on the clock are dead-men and the clock is the clock: whatever *)
(* was proved of either alone holds of the two together, and no armed      *)
(* dead-man goes unheard.  The serve loop judges them fairly, and lets a   *)
(* revocation wait for nobody.  For every set of nodes and periods,        *)
(* whatever the slack, the pauses of threads, the room in the lines and    *)
(* the order of calls.                                                     *)
(***************************************************************************)
EXTENDS DaemonClock, ServeLoop, FiniteSetTheorems, WellFoundedInduction, TLAPS

-----------------------------------------------------------------------------
(* The clock.                                                              *)

\* What the proofs need besides the types: the mark is what the clock read at
\* the last look.
ClockInv ==
  /\ ClockTypeOK
  /\ Listening => marked = lastLook - deaf

LEMMA ClockStep == ClockInv /\ [ClockNext]_clockVars => ClockInv'
<1> SUFFICES ASSUME ClockInv, [ClockNext]_clockVars
             PROVE  ClockInv'
  OBVIOUS
<1> USE ClockConstants DEF ClockInv, ClockTypeOK, Listening
<1>1. CASE Pass
  BY <1>1 DEF Pass
<1>2. CASE LookAt
  BY <1>2 DEF LookAt, Overdue, Less
<1>3. CASE StartListening
  BY <1>3 DEF StartListening, Less
<1>4. CASE StopListening
  BY <1>4 DEF StopListening, Overdue, Less
<1>5. CASE UNCHANGED clockVars
  BY <1>5 DEF clockVars
<1> QED
  BY <1>1, <1>2, <1>3, <1>4, <1>5 DEF ClockNext

\* The types hold: no look is ahead of the wall clock, and no more time is left
\* out than had passed at the last look.
THEOREM ClockTypeCorrect == ClockSpec => []ClockTypeOK
<1>1. ClockInit => ClockInv
  BY DEF ClockInit, ClockInv, ClockTypeOK, Listening
<1>2. ClockInv => ClockTypeOK
  BY DEF ClockInv
<1> QED
  BY <1>1, <1>2, ClockStep, PTL DEF ClockSpec

\* The clock moves with the wall clock or stands still, at every step.
LEMMA SteadyStep ==
  ClockInv /\ [ClockNext]_clockVars
    => [HeardNow <= HeardNow' /\ HeardNow' - HeardNow <= t' - t]_clockVars
<1> SUFFICES ASSUME ClockInv, ClockNext
             PROVE  HeardNow <= HeardNow' /\ HeardNow' - HeardNow <= t' - t
  OBVIOUS
<1> USE ClockConstants DEF ClockInv, ClockTypeOK, Listening, HeardNow, HeardAt, Overdue, Less
<1>1. CASE Pass
  BY <1>1 DEF Pass
<1>2. CASE LookAt
  BY <1>2 DEF LookAt
<1>3. CASE StartListening
  BY <1>3 DEF StartListening
<1>4. CASE StopListening
  BY <1>4 DEF StopListening
<1> QED
  BY <1>1, <1>2, <1>3, <1>4 DEF ClockNext

\* The clock never runs backward and never faster than the wall clock: every
\* deadline the dead-men are judged by is waited for in full, and once past is
\* past for good.
THEOREM ClockIsSteady == ClockSpec => ClockSteady
<1>1. ClockInit => ClockInv
  BY DEF ClockInit, ClockInv, ClockTypeOK, Listening
<1> QED
  BY <1>1, SteadyStep, ClockStep, PTL DEF ClockSpec, ClockSteady

\* However long the daemon is stopped, its dead-men count no more of it than
\* the slack.
THEOREM StopsAreLeftOut == ClockSpec => []StopLeftOut
<1>1. ClockInit => ClockInv
  BY DEF ClockInit, ClockInv, ClockTypeOK, Listening
<1>2. ClockInv => StopLeftOut
  BY ClockConstants
     DEF ClockInv, ClockTypeOK, Listening, StopLeftOut, HeardNow, HeardAt, Overdue, Less
<1> QED
  BY <1>1, <1>2, ClockStep, PTL DEF ClockSpec

\* Time the thread keeps up with all counts: the daemon's ordinary scheduling
\* spares no silent holder.
THEOREM OrdinaryTimeIsHeard == ClockSpec => OrdinaryTimeCounts
<1>1. ClockInit => ClockInv
  BY DEF ClockInit, ClockInv, ClockTypeOK, Listening
<1>2. ClockInv /\ [ClockNext]_clockVars
        => [(Listening => t' - lastLook <= Slack) => HeardNow' - HeardNow = t' - t]_clockVars
  <2> SUFFICES ASSUME ClockInv, ClockNext, Listening => t' - lastLook <= Slack
               PROVE  HeardNow' - HeardNow = t' - t
    OBVIOUS
  <2> USE ClockConstants DEF ClockInv, ClockTypeOK, Listening, HeardNow, HeardAt, Overdue, Less
  <2>1. CASE Pass
    BY <2>1 DEF Pass
  <2>2. CASE LookAt
    BY <2>2 DEF LookAt
  <2>3. CASE StartListening
    BY <2>3 DEF StartListening
  <2>4. CASE StopListening
    BY <2>4 DEF StopListening
  <2> QED
    BY <2>1, <2>2, <2>3, <2>4 DEF ClockNext
<1> QED
  BY <1>1, <1>2, ClockStep, PTL DEF ClockSpec, OrdinaryTimeCounts

-----------------------------------------------------------------------------
(* The dead-men.                                                           *)

\* The invariant: a beat pushes a deadline forward only because no deadline is
\* more than a period ahead, and a firing keeps its promise only because every
\* armed key was told to somebody; so the three are proved as one.
DeadmanInv == DeadmanTypeOK /\ WithinOnePeriod /\ NeverLapsesSilently

(***************************************************************************)
(* Every call but an arming only pushes deadlines on, up to a period from  *)
(* now, or drops dead-men, each with its reason.                           *)
(***************************************************************************)

PushedOn(n) ==
  /\ deadmen'[n] \in Man
  /\ deadmen'[n].key = deadmen[n].key
  /\ deadmen'[n].period = deadmen[n].period
  /\ deadmen[n].deadline <= deadmen'[n].deadline
  /\ deadmen'[n].deadline <= now + deadmen[n].period

NothingArmed ==
  /\ Armed' \subseteq Armed
  /\ \A n \in Armed' : PushedOn(n)
  /\ \A n \in Armed \ Armed' : n \in ended' \/ deadmen[n].key \in quiet'
  /\ ended \subseteq ended'
  /\ ended' \subseteq Node
  /\ quiet \subseteq quiet'
  /\ UNCHANGED <<now, keys, told>>

\* The dead-men a call does not touch.
LEMMA Untouched ==
  ASSUME DeadmanInv, NEW n \in Armed
  PROVE  /\ n \in Node
         /\ deadmen[n] \in Man
         /\ deadmen[n].period \in Nat
         /\ deadmen[n].deadline \in Nat
         /\ deadmen[n].deadline <= now + deadmen[n].period
         /\ now \in Nat
         /\ ended \subseteq Node
         /\ Under[n] \subseteq Node
<1>1. deadmen[n] \in Man
  BY DEF DeadmanInv, DeadmanTypeOK
<1>2. deadmen[n].period \in Nat /\ deadmen[n].deadline \in Nat
  BY <1>1, DeadmanConstants DEF Man
<1> QED
  BY <1>1, <1>2, DeadmanConstants DEF DeadmanInv, DeadmanTypeOK, WithinOnePeriod, Time

\* `fire_deadman`: what is dropped is dead.
LEMMA FireShape ==
  ASSUME DeadmanInv, NEW n \in Armed, Fire(n), UNCHANGED <<now, keys, told, quiet>>
  PROVE  NothingArmed
<1>1. Armed' = Armed \ {n} /\ \A m \in Armed' : deadmen'[m] = deadmen[m]
  BY DEF Fire, Without, Armed
<1>2. \A m \in Armed' : PushedOn(m)
  BY <1>1, Untouched DEF PushedOn, Man
<1>3. n \in ended' /\ ended \subseteq ended' /\ ended' \subseteq Node
  BY Untouched, DeadmanConstants DEF Fire, Live
<1> QED
  BY <1>1, <1>2, <1>3 DEF NothingArmed

\* A beat, a note and a disarming (beat_deadman_arrived, deadman_heard,
\* disarm_deadman_undoable).
LEMMA AnsweringShape ==
  ASSUME DeadmanInv, Answering, UNCHANGED now
  PROVE  NothingArmed
<1>1. PICK n \in Node, k \in Key, at \in 0 .. now :
        \/ Beat(n, k, at)
        \/ CountNote(n, k, at)
        \/ \E recorded \in BOOLEAN : Disarm(n, k, at, recorded)
  BY DEF Answering
<1>2. now \in Nat /\ at \in Nat /\ at <= now /\ ended \subseteq Node
  BY <1>1 DEF DeadmanInv, DeadmanTypeOK, Time
<1>3. ASSUME deadmen' = deadmen, UNCHANGED <<ended, keys, told, quiet>>
      PROVE  NothingArmed
  <2>1. Armed' = Armed /\ \A m \in Armed : PushedOn(m)
    BY <1>3, Untouched DEF Armed, PushedOn, Man
  <2> QED
    BY <1>2, <1>3, <2>1 DEF NothingArmed
<1>4. ASSUME NEW d \in Nat, n \in Armed,
             deadmen' = [deadmen EXCEPT ![n].deadline = d],
             deadmen[n].deadline <= d, d <= now + deadmen[n].period,
             UNCHANGED <<ended, keys, told, quiet>>
      PROVE  NothingArmed
  <2>1. Armed' = Armed
    BY <1>4 DEF Armed
  <2>2. \A m \in Armed \ {n} : deadmen'[m] = deadmen[m]
    BY <1>4 DEF Armed
  <2>3. deadmen'[n] = [deadmen[n] EXCEPT !.deadline = d]
    BY <1>4 DEF Armed
  <2>4. PushedOn(n)
    BY <1>4, <2>3, Untouched DEF PushedOn, Man
  <2>5. \A m \in Armed \ {n} : PushedOn(m)
    BY <2>2, Untouched DEF PushedOn, Man
  <2> QED
    BY <1>2, <1>4, <2>1, <2>4, <2>5 DEF NothingArmed
<1>5. CASE Beat(n, k, at)
  <2>1. CASE Proves(n, k) /\ Fire(n)
    BY <1>5, <2>1, FireShape DEF Beat, Proves, ProvesTo, Armed
  <2>2. CASE /\ Proves(n, k)
             /\ deadmen' = [deadmen EXCEPT ![n].deadline = NextDeadline(n, at)]
             /\ UNCHANGED ended
    <3>1. n \in Armed
      BY <2>2 DEF Proves, ProvesTo, Armed
    <3>2. /\ now + deadmen[n].period \in Nat
          /\ deadmen[n].deadline <= now + deadmen[n].period
      BY <3>1, Untouched
    <3>3. /\ deadmen' = [deadmen EXCEPT ![n].deadline = now + deadmen[n].period]
          /\ UNCHANGED <<ended, keys, told, quiet>>
      BY <1>5, <2>2 DEF Beat, NextDeadline
    <3>4. now + deadmen[n].period <= now + deadmen[n].period
      BY <3>2
    <3> QED
      BY <1>4, <3>1, <3>2, <3>3, <3>4
  <2>3. CASE UNCHANGED <<ended, deadmen>>
    BY <1>3, <1>5, <2>3 DEF Beat
  <2> QED
    BY <1>5, <2>1, <2>2, <2>3 DEF Beat
<1>6. CASE CountNote(n, k, at)
  <2>1. CASE /\ ProvesTo(deadmen, n, k)
             /\ at < deadmen[n].deadline
             /\ at + deadmen[n].period > deadmen[n].deadline
    <3>1. n \in Armed
      BY <2>1 DEF ProvesTo, Armed
    <3>2. /\ at + deadmen[n].period \in Nat
          /\ deadmen[n].deadline <= at + deadmen[n].period
          /\ at + deadmen[n].period <= now + deadmen[n].period
      BY <1>2, <2>1, <3>1, Untouched
    <3>3. deadmen' = [deadmen EXCEPT ![n].deadline = at + deadmen[n].period]
      BY <1>6, <2>1 DEF CountNote, Heard
    <3> QED
      BY <1>4, <1>6, <3>1, <3>2, <3>3 DEF CountNote
  <2>2. CASE ~ /\ ProvesTo(deadmen, n, k)
               /\ at < deadmen[n].deadline
               /\ at + deadmen[n].period > deadmen[n].deadline
    BY <1>3, <1>6, <2>2 DEF CountNote, Heard
  <2> QED
    BY <2>1, <2>2
<1>7. ASSUME NEW recorded \in BOOLEAN, Disarm(n, k, at, recorded)
      PROVE  NothingArmed
  <2>1. CASE Proves(n, k) /\ Fire(n) /\ UNCHANGED quiet
    BY <1>7, <2>1, FireShape DEF Disarm, Proves, ProvesTo, Armed
  <2>2. CASE /\ Proves(n, k)
             /\ deadmen' = Without(n)
             /\ UNCHANGED ended
             /\ n \in ended \/ k \in quiet'
             /\ quiet \subseteq quiet'
    <3>1. n \in Armed /\ deadmen[n].key = k
      BY <2>2 DEF Proves, ProvesTo, Armed
    <3>2. Armed' = Armed \ {n} /\ \A m \in Armed' : deadmen'[m] = deadmen[m]
      BY <2>2 DEF Without, Armed
    <3>3. \A m \in Armed' : PushedOn(m)
      BY <3>2, Untouched DEF PushedOn, Man
    <3> QED
      BY <1>2, <1>7, <2>2, <3>1, <3>2, <3>3 DEF NothingArmed, Disarm
  <2>3. CASE UNCHANGED <<ended, deadmen, quiet>>
    BY <1>3, <1>7, <2>3 DEF Disarm
  <2> QED
    BY <1>7, <2>1, <2>2, <2>3 DEF Disarm, Live
<1> QED
  BY <1>1, <1>5, <1>6, <1>7

\* The judgment, and whatever else ends a node (fire_expired_deadmen).
LEMMA EndingShape ==
  ASSUME DeadmanInv, Ending, UNCHANGED now
  PROVE  NothingArmed
<1>1. ended \subseteq Node
  BY DEF DeadmanInv, DeadmanTypeOK
<1>2. ASSUME NEW n \in Node, End(n)
      PROVE  NothingArmed
  <2>1. Armed' = Armed /\ \A m \in Armed : PushedOn(m)
    BY <1>2, Untouched DEF End, Armed, PushedOn, Man
  <2> QED
    BY <1>1, <1>2, <2>1, DeadmanConstants DEF NothingArmed, End
<1>3. ASSUME NEW asOf \in 0 .. now, FireExpired(deadmen, asOf)
      PROVE  NothingArmed
  <2>1. /\ Armed' = {m \in Armed : Live(m)} \ Due(deadmen, asOf)
        /\ \A m \in Armed' : deadmen'[m] = deadmen[m]
    BY <1>3 DEF FireExpired, Left, Armed
  <2>2. \A m \in Armed' : PushedOn(m)
    BY <2>1, Untouched DEF PushedOn, Man
  <2>3. Due(deadmen, asOf) \subseteq Armed
    BY DEF Due, Armed
  <2>4. \A m \in Due(deadmen, asOf) : m \in Under[m] /\ Under[m] \subseteq Node
    BY <2>3, Untouched, DeadmanConstants
  <2>5. \A m \in Armed \ Armed' : m \in ended'
    BY <1>3, <2>1, <2>4 DEF FireExpired, Live
  <2>6. ended \subseteq ended' /\ ended' \subseteq Node
    BY <1>1, <1>3, <2>4 DEF FireExpired
  <2> QED
    BY <1>3, <2>1, <2>2, <2>5, <2>6 DEF NothingArmed, FireExpired
<1> QED
  BY <1>2, <1>3 DEF Ending

\* What such a call leaves of the invariant: all of it.
LEMMA ShapeKeeps ==
  ASSUME DeadmanInv, NothingArmed
  PROVE  DeadmanInv'
<1> USE DEF DeadmanInv, NothingArmed
<1>1. DeadmanTypeOK'
  <2>1. \A n \in Armed' : [node |-> n, key |-> deadmen'[n].key] \in told'
    BY DEF DeadmanTypeOK, PushedOn
  <2> QED
    BY <2>1 DEF DeadmanTypeOK, PushedOn, Time
<1>2. WithinOnePeriod'
  BY DEF WithinOnePeriod, PushedOn
<1>3. NeverLapsesSilently'
  BY DEF NeverLapsesSilently, Proves, ProvesTo, PushedOn, Armed
<1> QED
  BY <1>1, <1>2, <1>3

\* An arming: refused, withdrawn, or told to its holder (arm_deadman).
LEMMA ArmKeeps ==
  ASSUME DeadmanInv, NEW n \in Node, NEW p \in Period, NEW recorded \in BOOLEAN,
         Arm(n, p, recorded), UNCHANGED now
  PROVE  /\ DeadmanInv'
         /\ \A m \in Armed : m \in Armed' => deadmen'[m] = deadmen[m]
<1> USE DEF DeadmanInv
<1>1. CASE UNCHANGED <<deadmen, told>>
  <2>1. keys \in 0 .. MaxArmings /\ keys' \in 0 .. MaxArmings /\ keys <= keys'
    BY <1>1, DeadmanConstants DEF Arm, DeadmanTypeOK
  <2>2. DeadmanTypeOK'
    BY <1>1, <2>1 DEF Arm, DeadmanTypeOK, Armed, Time
  <2> QED
    BY <1>1, <2>2 DEF Arm, WithinOnePeriod, NeverLapsesSilently, Proves, ProvesTo, Armed
<1>2. CASE /\ n \notin Armed
           /\ keys < MaxArmings
           /\ keys' = keys + 1
           /\ deadmen' = [m \in Armed \cup {n} |->
                           IF m = n
                           THEN [period |-> p, deadline |-> now + p, key |-> keys']
                           ELSE deadmen[m]]
           /\ told' = told \cup {[node |-> n, key |-> keys']}
  <2>1. Armed' = Armed \cup {n}
    BY <1>2 DEF Armed
  <2>2. \A m \in Armed : deadmen'[m] = deadmen[m]
    BY <1>2 DEF Armed
  <2>3. deadmen'[n] = [period |-> p, deadline |-> now + p, key |-> keys']
    BY <1>2 DEF Armed
  <2>4. /\ keys \in Nat
        /\ keys' \in 1 .. MaxArmings
        /\ now \in Nat
        /\ p \in Nat
    BY <1>2, DeadmanConstants DEF DeadmanTypeOK, Time
  <2>5. deadmen'[n] \in Man
    BY <2>3, <2>4 DEF Man, Key
  <2>6. UNCHANGED <<ended, quiet>>
    BY DEF Arm
  <2>7. \A a \in told : a.node \in Node /\ a.key \in 1 .. keys
    BY DEF DeadmanTypeOK
  <2>8. \A a, b \in told' : a.key = b.key => a = b
    BY <1>2, <2>4, <2>7 DEF DeadmanTypeOK
  <2>9. \A a \in told' : a.node \in Node /\ a.key \in 1 .. keys'
    BY <1>2, <2>4, <2>7
  <2>10. \A m \in Armed' : [node |-> m, key |-> deadmen'[m].key] \in told'
    BY <1>2, <2>1, <2>2, <2>3 DEF DeadmanTypeOK
  <2>11. DeadmanTypeOK'
    BY <2>1, <2>2, <2>4, <2>5, <2>6, <2>8, <2>9, <2>10 DEF DeadmanTypeOK, Time
  <2>12. WithinOnePeriod'
    BY <2>1, <2>2, <2>3, <2>4 DEF WithinOnePeriod
  <2>13. NeverLapsesSilently'
    BY <1>2, <2>1, <2>2, <2>3, <2>6
       DEF NeverLapsesSilently, Proves, ProvesTo, Armed
  <2> QED
    BY <2>2, <2>11, <2>12, <2>13
<1> QED
  BY <1>1, <1>2 DEF Arm, MayArm

\* Time alone: the deadlines come nearer.
LEMMA TickKeeps ==
  ASSUME DeadmanInv, Tick
  PROVE  DeadmanInv'
<1> USE DEF DeadmanInv, Tick, broker
<1>1. now \in Nat /\ now' \in Time /\ now <= now'
  BY DeadmanConstants DEF DeadmanTypeOK, Time
<1>2. DeadmanTypeOK'
  BY <1>1 DEF DeadmanTypeOK, Armed
<1>3. WithinOnePeriod'
  <2>1. \A n \in Armed : deadmen[n].deadline <= now' + deadmen[n].period
    BY <1>1, Untouched DEF Time
  <2> QED
    BY <2>1 DEF WithinOnePeriod, Armed
<1>4. NeverLapsesSilently'
  BY DEF NeverLapsesSilently, Proves, ProvesTo
<1> QED
  BY <1>2, <1>3, <1>4

LEMMA DeadmanStart == DeadmanInit => DeadmanInv
BY DeadmanConstants
   DEF DeadmanInit, DeadmanInv, DeadmanTypeOK, WithinOnePeriod, NeverLapsesSilently,
       Armed, Time

LEMMA DeadmanStep == DeadmanInv /\ [DeadmanNext]_dvars => DeadmanInv'
<1> SUFFICES ASSUME DeadmanInv, [DeadmanNext]_dvars
             PROVE  DeadmanInv'
  OBVIOUS
<1>1. CASE Tick
  BY <1>1, TickKeeps
<1>2. CASE Arming /\ UNCHANGED now
  BY <1>2, ArmKeeps DEF Arming
<1>3. CASE Answering /\ UNCHANGED now
  BY <1>3, AnsweringShape, ShapeKeeps
<1>4. CASE Ending /\ UNCHANGED now
  BY <1>4, EndingShape, ShapeKeeps
<1>5. CASE UNCHANGED dvars
  BY <1>5 DEF dvars, broker, DeadmanInv, DeadmanTypeOK, WithinOnePeriod,
              NeverLapsesSilently, Proves, ProvesTo, Armed
<1> QED
  BY <1>1, <1>2, <1>3, <1>4, <1>5 DEF DeadmanNext

-----------------------------------------------------------------------------
\* The types hold, and no key is ever given to two armings.
THEOREM DeadmanTypeCorrect == DeadmanSpec => []DeadmanTypeOK
<1>1. DeadmanInv => DeadmanTypeOK
  BY DEF DeadmanInv
<1> QED
  BY <1>1, DeadmanStart, DeadmanStep, PTL DEF DeadmanSpec

\* Who was told that a dead-man is armed finds it armed, its disarming on the
\* chain, or the node dead, whatever records were lost.
THEOREM NoSilentLapse == DeadmanSpec => []NeverLapsesSilently
<1>1. DeadmanInv => NeverLapsesSilently
  BY DEF DeadmanInv
<1> QED
  BY <1>1, DeadmanStart, DeadmanStep, PTL DEF DeadmanSpec

\* No beat or note, whenever it is judged, buys more than one period from now.
THEOREM OnePeriodAtMost == DeadmanSpec => []WithinOnePeriod
<1>1. DeadmanInv => WithinOnePeriod
  BY DEF DeadmanInv
<1> QED
  BY <1>1, DeadmanStart, DeadmanStep, PTL DEF DeadmanSpec

\* No call costs the holder of a dead-man time it was given, or replaces its key.
THEOREM DeadlinesStand == DeadmanSpec => NeverShortened
<1> DEFINE Stands ==
      \A n \in Armed :
        (n \in DOMAIN deadmen')
          => /\ deadmen'[n].key = deadmen[n].key
             /\ deadmen'[n].period = deadmen[n].period
             /\ deadmen[n].deadline <= deadmen'[n].deadline
<1>1. DeadmanInv /\ [DeadmanNext]_dvars => [Stands]_dvars
  <2> SUFFICES ASSUME DeadmanInv, DeadmanNext
               PROVE  Stands
    OBVIOUS
  <2>1. ASSUME \A n \in Armed : n \in Armed' => deadmen'[n] = deadmen[n]
        PROVE  Stands
    BY <2>1, Untouched DEF Armed, Man
  <2>2. CASE Tick
    BY <2>1, <2>2 DEF Tick, broker
  <2>3. CASE Arming /\ UNCHANGED now
    BY <2>1, <2>3, ArmKeeps DEF Arming
  <2>4. CASE NothingArmed
    BY <2>4 DEF NothingArmed, PushedOn, Armed
  <2> QED
    BY <2>2, <2>3, <2>4, AnsweringShape, EndingShape DEF DeadmanNext
<1> QED
  BY <1>1, DeadmanStart, DeadmanStep, PTL DEF DeadmanSpec, NeverShortened

-----------------------------------------------------------------------------
(* The two together.                                                       *)

\* The time the dead-men are judged by is the clock's; no dead-man is armed
\* while the clock does not listen.
OnClock == ClockInv /\ DeadmanInv /\ now = HeardNow /\ ArmedIsHeard

\* Every step of the two is a step of the clock.
LEMMA StepsTheClock == [Next]_vars => [ClockNext]_clockVars
<1> SUFFICES ASSUME [Next]_vars
             PROVE  [ClockNext]_clockVars
  OBVIOUS
<1>1. CASE TimePasses
  BY <1>1 DEF TimePasses, ClockNext
<1>2. CASE Look
  BY <1>2 DEF Look, ClockNext
<1>3. CASE ArmHeard
  BY <1>3 DEF ArmHeard, ClockNext
<1>4. CASE LoopTop
  BY <1>4 DEF LoopTop, ClockNext
<1>5. CASE Judge
  BY <1>5 DEF Judge
<1>6. CASE UNCHANGED vars
  BY <1>6 DEF vars
<1> QED
  BY <1>1, <1>2, <1>3, <1>4, <1>5, <1>6 DEF Next

\* `saturating_sub` of durations is a duration, and no longer.
LEMMA LessIsLess ==
  ASSUME NEW a \in Nat, NEW b \in Nat
  PROVE  Less(a, b) \in Nat /\ Less(a, b) <= a
BY DEF Less

\* What the clock reads of any well-typed state.
LEMMA ReadingOf == ClockTypeOK => HeardNow \in Nat /\ HeardNow <= t
<1> SUFFICES ASSUME ClockTypeOK
             PROVE  HeardNow \in Nat /\ HeardNow <= t
  OBVIOUS
<1>1. t \in Nat /\ deaf \in Nat /\ lastLook \in Nat /\ Slack \in Nat
  BY ClockConstants DEF ClockTypeOK
<1>2. Less(t, deaf) \in Nat /\ Less(t, deaf) <= t
  BY <1>1, LessIsLess
<1>3. Overdue(t) \in Nat
  <2>1. Less(t, lastLook) \in Nat
    BY <1>1, LessIsLess
  <2> QED
    BY <1>1, <2>1, LessIsLess DEF Overdue
<1>4. PICK late \in Nat : HeardNow = Less(Less(t, deaf), late)
  BY <1>3 DEF HeardNow, HeardAt
<1>5. HeardNow \in Nat /\ HeardNow <= Less(t, deaf)
  BY <1>2, <1>4, LessIsLess
<1> QED
  BY <1>1, <1>2, <1>5

\* The clock reads a natural number, never ahead of the wall clock, and reads
\* the same as long as no time passes.
LEMMA Readings ==
  ASSUME ClockInv, [ClockNext]_clockVars
  PROVE  /\ HeardNow \in Nat /\ HeardNow' \in Nat
         /\ HeardNow' <= t'
         /\ t' = t => HeardNow' = HeardNow
         /\ t' = t + 1 => (HeardNow' = HeardNow \/ HeardNow' = HeardNow + 1)
<1>1. ClockTypeOK /\ ClockTypeOK'
  BY ClockStep DEF ClockInv
<1>2. t \in Nat /\ HeardNow \in Nat
  BY <1>1, ReadingOf DEF ClockTypeOK
<1>3. t' \in Nat /\ HeardNow' \in Nat /\ HeardNow' <= t'
  <2>1. (HeardNow \in Nat /\ HeardNow <= t)'
    BY <1>1, ReadingOf, PTL
  <2> QED
    BY <1>1, <2>1 DEF ClockTypeOK
<1>4. CASE UNCHANGED clockVars
  <2>1. t' = t
    BY <1>4 DEF clockVars
  <2>2. HeardNow' = HeardNow
    BY <1>4, ZenonT(30) DEF clockVars, HeardNow, HeardAt, Overdue, Listening
  <2> QED
    BY <1>2, <1>3, <2>1, <2>2
<1>5. CASE HeardNow <= HeardNow' /\ HeardNow' - HeardNow <= t' - t
  <2>1. PICK a \in Nat : a = HeardNow
    BY <1>2
  <2>2. PICK b \in Nat : b = HeardNow'
    BY <1>3
  <2>3. a <= b /\ b - a <= t' - t
    BY <1>5, <2>1, <2>2
  <2>4. ASSUME NEW u \in Nat, NEW v \in Nat, b - a <= v - u
        PROVE  (v = u => b = a) /\ (v = u + 1 => b = a \/ b = a + 1)
    BY <2>3, <2>4
  <2>5. (t' = t => b = a) /\ (t' = t + 1 => b = a \/ b = a + 1)
    BY <1>2, <1>3, <2>3, <2>4
  <2> QED
    BY <1>2, <1>3, <2>1, <2>2, <2>5
<1> QED
  BY <1>4, <1>5, SteadyStep

\* Every step of the two is a step of the dead-men: a tick of the hearing clock
\* when it moves, and nothing when it stands still.
LEMMA StepsTheDeadmen == OnClock /\ [Next]_vars => [DeadmanNext]_dvars
<1> SUFFICES ASSUME OnClock, [Next]_vars
             PROVE  [DeadmanNext]_dvars
  OBVIOUS
<1>1. CASE TimePasses
  <2>1. t' = t + 1 /\ t' <= MaxWall /\ t \in Nat
    BY <1>1, ClockConstants DEF TimePasses, Pass, OnClock, ClockInv, ClockTypeOK
  <2>2. (now' = now \/ now' = now + 1) /\ now' \in Nat /\ now \in Nat /\ now' <= t'
    BY <1>1, <2>1, StepsTheClock, Readings DEF TimePasses, OnClock
  <2>3. CASE now' = now
    BY <1>1, <2>3 DEF TimePasses, dvars
  <2>4. CASE now' = now + 1
    <3>1. now < MaxTime
      BY <2>1, <2>2, <2>4, ClockConstants, DeadmanConstants, WallWithinTime
    <3> QED
      BY <1>1, <2>4, <3>1 DEF TimePasses, DeadmanNext, Tick
  <2> QED
    BY <2>2, <2>3, <2>4
<1>2. CASE Look \/ LoopTop
  BY <1>2 DEF Look, LoopTop
<1>3. CASE ArmHeard
  BY <1>3 DEF ArmHeard, DeadmanNext
<1>4. CASE Judge
  BY <1>4 DEF Judge, DeadmanNext
<1>5. CASE UNCHANGED vars
  BY <1>5 DEF vars
<1> QED
  BY <1>1, <1>2, <1>3, <1>4, <1>5 DEF Next

LEMMA OnClockStart == Init => OnClock
<1> SUFFICES ASSUME Init
             PROVE  OnClock
  OBVIOUS
<1>1. ClockInv
  BY DEF Init, ClockInit, ClockInv, ClockTypeOK, Listening
<1>2. DeadmanInv
  BY DeadmanStart DEF Init
<1>3. now = HeardNow /\ ArmedIsHeard
  BY ClockConstants
     DEF Init, ClockInit, DeadmanInit, HeardNow, HeardAt, Listening, Less, ArmedIsHeard, Armed
<1> QED
  BY <1>1, <1>2, <1>3 DEF OnClock

LEMMA OnClockStep == OnClock /\ [Next]_vars => OnClock'
<1> SUFFICES ASSUME OnClock, [Next]_vars
             PROVE  OnClock'
  OBVIOUS
<1>1. ClockInv'
  BY StepsTheClock, ClockStep DEF OnClock
<1>2. DeadmanInv'
  BY StepsTheDeadmen, DeadmanStep DEF OnClock
<1>3. (t' = t /\ now' = now) => now' = HeardNow'
  BY StepsTheClock, Readings DEF OnClock
<1>4. CASE TimePasses
  BY <1>1, <1>2, <1>4
     DEF OnClock, TimePasses, Pass, broker, ArmedIsHeard, Armed, Listening
<1>5. CASE Look
  BY <1>1, <1>2, <1>3, <1>5
     DEF OnClock, Look, LookAt, dvars, broker, ArmedIsHeard, Armed, Listening
<1>6. CASE ArmHeard
  <2>1. t' = t /\ now' = now
    BY <1>6 DEF ArmHeard, StartListening, clockVars
  <2>2. Listening'
    BY <1>6 DEF ArmHeard, StartListening, clockVars, Listening
  <2> QED
    BY <1>1, <1>2, <1>3, <2>1, <2>2 DEF OnClock, ArmedIsHeard
<1>7. CASE LoopTop
  BY <1>1, <1>2, <1>3, <1>7
     DEF OnClock, LoopTop, StopListening, dvars, broker, ArmedIsHeard, Armed
<1>8. CASE Judge
  <2>1. NothingArmed /\ UNCHANGED <<now, clockVars>>
    BY <1>8, AnsweringShape, EndingShape DEF OnClock, Judge
  <2>2. Armed' \subseteq Armed /\ t' = t /\ thread' = thread
    BY <2>1 DEF NothingArmed, clockVars
  <2>3. ArmedIsHeard'
    BY <2>2 DEF OnClock, ArmedIsHeard, Listening
  <2> QED
    BY <1>1, <1>2, <1>3, <2>1, <2>2, <2>3 DEF OnClock
<1>9. CASE UNCHANGED vars
  BY <1>1, <1>2, <1>3, <1>9
     DEF OnClock, vars, clockVars, dvars, broker, ArmedIsHeard, Armed, Listening
<1> QED
  BY <1>4, <1>5, <1>6, <1>7, <1>8, <1>9 DEF Next

-----------------------------------------------------------------------------
\* The types hold, and the dead-men are judged by the clock and by nothing else.
THEOREM DaemonTypeCorrect == Spec => []TypeOK
<1>1. OnClock => TypeOK
  BY DEF OnClock, TypeOK, ClockInv, DeadmanInv
<1> QED
  BY <1>1, OnClockStart, OnClockStep, PTL DEF Spec

\* No dead-man is armed while the clock does not listen, so no stop of the
\* daemon is heard as its holder's silence.
THEOREM ArmedAreHeard == Spec => []ArmedIsHeard
<1>1. OnClock => ArmedIsHeard
  BY DEF OnClock
<1> QED
  BY <1>1, OnClockStart, OnClockStep, PTL DEF Spec

\* The daemon's dead-men implement the dead-men, and its clock the clock.
THEOREM DaemonImplements == Spec => ClockSpec /\ DeadmanSpec
<1>1. Init => ClockInit /\ DeadmanInit
  BY DEF Init
<1> QED
  BY <1>1, OnClockStart, OnClockStep, StepsTheClock, StepsTheDeadmen, PTL
     DEF Spec, ClockSpec, DeadmanSpec

\* What was proved of the dead-men and of the clock holds in the daemon.
COROLLARY DaemonKeeps ==
  Spec => /\ []NeverLapsesSilently
          /\ []WithinOnePeriod
          /\ NeverShortened
          /\ []StopLeftOut
          /\ ClockSteady
          /\ OrdinaryTimeCounts
BY DaemonImplements, NoSilentLapse, OnePeriodAtMost, DeadlinesStand, StopsAreLeftOut,
   ClockIsSteady, OrdinaryTimeIsHeard, PTL

\* The time the dead-men are judged by is the time the daemon ran.
THEOREM HeardTimeHolds == Spec => HeardTimeIsReal
BY ArmedAreHeard, DaemonKeeps, PTL DEF HeardTimeIsReal

\* No deadline is further off than a period, and none is ever moved back.
THEOREM DeadlinesAreKept == Spec => DeadlinesHold
BY DaemonKeeps, PTL DEF DeadlinesHold

-----------------------------------------------------------------------------
(* Functions defined by recursion on numbers: the prover has no induction  *)
(* over data, and a least number not in a set does for it.                 *)

\* A nonempty set of numbers has a least one.
LEMMA Least ==
  ASSUME NEW T, T \subseteq Nat, T # {}
  PROVE  \E x \in T : \A y \in T : x <= y
<1> DEFINE R == OpToRel(<, Nat)
<1>1. PICK x \in T : \A y \in T : ~(<<y, x>> \in R)
  <2>1. IsWellFoundedOn(R, Nat)
    BY NatLessThanWellFounded
  <2> HIDE DEF R
  <2> QED
    BY <2>1, WFMin
<1>2. \A y \in T : ~(y < x)
  BY <1>1 DEF OpToRel
<1> QED
  BY <1>2

\* Induction, with the set of the numbers it holds of in the operator's place.
LEMMA Induct ==
  ASSUME NEW S, 0 \in S, \A n \in Nat : n \in S => n + 1 \in S
  PROVE  \A n \in Nat : n \in S
<1> SUFFICES ASSUME NEW m \in Nat, m \notin S
             PROVE  FALSE
  OBVIOUS
<1>1. PICK x \in Nat \ S : \A y \in Nat \ S : x <= y
  <2>1. Nat \ S \subseteq Nat /\ Nat \ S # {}
    OBVIOUS
  <2> QED
    BY <2>1, Least
<1>2. x # 0 /\ x - 1 \in Nat
  BY <1>1
<1>3. x - 1 \in S
  BY <1>1, <1>2
<1> QED
  BY <1>1, <1>2, <1>3

\* f is the recursive function on 0 .. n that starts at `e` and goes on as `G` says.
Follows(n, V, e, G, f) ==
  /\ f \in [0 .. n -> V]
  /\ f[0] = e
  /\ \A i \in 1 .. n : f[i] = G[<<i, f[i - 1]>>]

\* Such a function exists, in whatever set its steps stay.
LEMMA Recursion ==
  ASSUME NEW n \in Nat, NEW V, NEW e \in V, NEW G \in [(1 .. n) \X V -> V]
  PROVE  \E f : Follows(n, V, e, G, f)
<1> DEFINE S == {m \in Nat : m <= n => \E f \in [0 .. m -> V] :
                    f[0] = e /\ \A i \in 1 .. m : f[i] = G[<<i, f[i - 1]>>]}
<1>1. 0 \in S
  <2>1. PICK f \in [0 .. 0 -> V] : f[0] = e
    <3> DEFINE h == [i \in 0 .. 0 |-> e]
    <3>1. h \in [0 .. 0 -> V] /\ h[0] = e
      OBVIOUS
    <3> HIDE DEF h
    <3> QED
      BY <3>1
  <2>2. \A i \in 1 .. 0 : f[i] = G[<<i, f[i - 1]>>]
    OBVIOUS
  <2> QED
    BY <2>1, <2>2
<1>2. ASSUME NEW m \in Nat, m \in S
      PROVE  m + 1 \in S
  <2> SUFFICES ASSUME m + 1 <= n
               PROVE  \E f \in [0 .. m + 1 -> V] :
                        f[0] = e /\ \A i \in 1 .. m + 1 : f[i] = G[<<i, f[i - 1]>>]
    OBVIOUS
  <2>1. PICK f \in [0 .. m -> V] : f[0] = e /\ \A i \in 1 .. m : f[i] = G[<<i, f[i - 1]>>]
    BY <1>2
  <2> DEFINE g == [i \in 0 .. m + 1 |-> IF i = m + 1 THEN G[<<m + 1, f[m]>>] ELSE f[i]]
  <2>2. f[m] \in V /\ <<m + 1, f[m]>> \in (1 .. n) \X V
    BY <2>1
  <2>3. g \in [0 .. m + 1 -> V]
    BY <2>1, <2>2
  <2>4. g[0] = e
    BY <2>1
  <2>5. ASSUME NEW i \in 1 .. m + 1
        PROVE  g[i] = G[<<i, g[i - 1]>>]
    <3>1. CASE i = m + 1
      <4>1. g[m + 1] = G[<<m + 1, f[m]>>] /\ g[m] = f[m] /\ i - 1 = m
        BY <3>1 DEF g
      <4> HIDE DEF g
      <4> QED
        BY <3>1, <4>1
    <3>2. CASE i \in 1 .. m
      <4>1. g[i] = f[i] /\ g[i - 1] = f[i - 1]
        BY <3>2
      <4> QED
        BY <2>1, <3>2, <4>1
    <3> QED
      BY <3>1, <3>2
  <2> QED
    BY <2>3, <2>4, <2>5
<1>3. n \in S
  <2> HIDE DEF S
  <2> QED
    BY <1>1, <1>2, Induct
<1> QED
  BY <1>3 DEF Follows

-----------------------------------------------------------------------------
(* The beats noted, counted (deadman_heard).                               *)

\* What is stamped: a client's request, or a wake.
Stamped == [kind : Kinds \cup {"wake"}, node : Node, key : 0 .. MaxArmings, at : Nat]

\* Dead-men, and stamps, as they may be at the time `h`.
MenBy(men, h) ==
  /\ men \in [DOMAIN men -> Man]
  /\ \A n \in DOMAIN men : men[n].deadline <= h + men[n].period

StampedBy(rs, h) == rs \in Seq(Stamped) /\ \A i \in 1 .. Len(rs) : rs[i].at <= h

\* The dead-men that `men` may become by what is heard before `h`.
Pushed(men, h) ==
  {f \in [DOMAIN men -> Man] :
     \A n \in DOMAIN men : /\ f[n].key = men[n].key
                           /\ f[n].period = men[n].period
                           /\ men[n].deadline <= f[n].deadline
                           /\ f[n].deadline <= h + men[n].period}

\* The function that goes through the notes.
Counts(men, h, rs, f) ==
  /\ f \in [0 .. Len(rs) -> Pushed(men, h)]
  /\ f[0] = men
  /\ \A i \in 1 .. Len(rs) : f[i] = Heard(f[i - 1], rs[i].node, rs[i].key, rs[i].at)

\* One note pushes a deadline on, no further than a period from its arrival.
LEMMA HeardPushes ==
  ASSUME NEW h \in Nat, NEW men, \A n \in DOMAIN men : men[n] \in Man,
         NEW f \in Pushed(men, h), NEW r \in Stamped, r.at <= h
  PROVE  /\ Heard(f, r.node, r.key, r.at) \in Pushed(men, h)
         /\ \A n \in DOMAIN men \ {r.node} : Heard(f, r.node, r.key, r.at)[n] = f[n]
<1> DEFINE g == Heard(f, r.node, r.key, r.at)
<1>1. CASE /\ ProvesTo(f, r.node, r.key)
           /\ r.at < f[r.node].deadline
           /\ r.at + f[r.node].period > f[r.node].deadline
  <2>1. /\ g = [f EXCEPT ![r.node].deadline = r.at + f[r.node].period]
        /\ r.node \in DOMAIN men
    BY <1>1 DEF Heard, ProvesTo, Pushed
  <2>2. f[r.node] \in Man /\ f[r.node].period \in Nat /\ r.at \in Nat
    BY <2>1, DeadmanConstants DEF Pushed, Man, Stamped
  <2>3. g[r.node] = [f[r.node] EXCEPT !.deadline = r.at + f[r.node].period]
    BY <2>1 DEF Pushed
  <2>4. /\ DOMAIN g = DOMAIN men
        /\ g = [n \in DOMAIN g |-> g[n]]
        /\ \A n \in DOMAIN men \ {r.node} : g[n] = f[n]
    BY <2>1 DEF Pushed
  <2>5. /\ g[r.node] \in Man
        /\ g[r.node].key = f[r.node].key /\ g[r.node].period = f[r.node].period
        /\ g[r.node].deadline = r.at + f[r.node].period
    BY <2>2, <2>3 DEF Man
  <2>6. /\ men[r.node].deadline <= g[r.node].deadline
        /\ g[r.node].deadline <= h + men[r.node].period
    <3>1. /\ f[r.node].period = men[r.node].period
          /\ men[r.node].deadline <= f[r.node].deadline
      BY <2>1 DEF Pushed
    <3>2. f[r.node].deadline \in Nat /\ men[r.node].deadline \in Nat
      BY <2>1, <2>2 DEF Man
    <3> QED
      BY <1>1, <2>2, <2>5, <3>1, <3>2
  <2> HIDE DEF g
  <2>7. \A n \in DOMAIN men : /\ g[n] \in Man
                              /\ g[n].key = men[n].key
                              /\ g[n].period = men[n].period
                              /\ men[n].deadline <= g[n].deadline
                              /\ g[n].deadline <= h + men[n].period
    BY <2>1, <2>4, <2>5, <2>6 DEF Pushed
  <2>8. g \in [DOMAIN men -> Man]
    BY <2>4, <2>7
  <2>9. g \in Pushed(men, h)
    BY <2>7, <2>8 DEF Pushed
  <2> QED
    BY <2>4, <2>9 DEF g
<1>2. CASE ~ /\ ProvesTo(f, r.node, r.key)
             /\ r.at < f[r.node].deadline
             /\ r.at + f[r.node].period > f[r.node].deadline
  BY <1>2 DEF Heard
<1> QED
  BY <1>1, <1>2

\* What the notes make of the dead-men is the last value of such a function.
LEMMA NotesFunction ==
  ASSUME NEW h \in Nat, NEW men, MenBy(men, h), NEW rs, StampedBy(rs, h)
  PROVE  \E f : Counts(men, h, rs, f) /\ AfterNotes(men, rs) = f[Len(rs)]
<1>1. PICK k \in Nat : k = Len(rs)
  BY DEF StampedBy
<1>2. \A i \in 1 .. k : rs[i] \in Stamped /\ rs[i].at <= h
  BY <1>1 DEF StampedBy
<1>3. \A n \in DOMAIN men : men[n] \in Man
  BY DEF MenBy
<1> DEFINE V == Pushed(men, h)
           heard(i, f) == Heard(f, rs[i].node, rs[i].key, rs[i].at)
           G == [p \in (1 .. k) \X V |-> heard(p[1], p[2])]
           steps(f) == [i \in 0 .. k |-> IF i = 0 THEN men ELSE heard(i, f[i - 1])]
           after == CHOOSE f : f = steps(f)
<1>4. men \in V
  <2>1. \A n \in DOMAIN men : men[n].deadline \in Nat
    BY <1>3 DEF Man
  <2> QED
    BY <2>1 DEF Pushed, MenBy
<1>5. \A i \in 1 .. k, f \in V : heard(i, f) \in V
  BY <1>2, <1>3, HeardPushes
<1>6. G \in [(1 .. k) \X V -> V] /\ \A i \in 1 .. k, f \in V : G[<<i, f>>] = heard(i, f)
  <2> HIDE DEF heard, V
  <2> QED
    BY <1>5
<1>7. PICK f : Follows(k, V, men, G, f)
  <2> HIDE DEF G, V, heard, steps, after
  <2> QED
    BY <1>4, <1>6, Recursion
<1>8. \A i \in 1 .. k : f[i] = heard(i, f[i - 1])
  <2> HIDE DEF G, V, heard
  <2> SUFFICES ASSUME NEW i \in 1 .. k
               PROVE  f[i] = heard(i, f[i - 1])
    OBVIOUS
  <2>1. i - 1 \in 0 .. k
    OBVIOUS
  <2> QED
    BY <1>6, <1>7, <2>1 DEF Follows
<1>9. f = steps(f)
  <2>1. \A i \in 0 .. k : f[i] = steps(f)[i]
    <3> HIDE DEF heard
    <3> QED
      BY <1>7, <1>8 DEF Follows
  <2>2. DOMAIN steps(f) = 0 .. k /\ steps(f) = [i \in 0 .. k |-> steps(f)[i]]
    OBVIOUS
  <2> HIDE DEF steps, V
  <2> QED
    BY <1>7, <2>1, <2>2 DEF Follows
<1>10. after = steps(after)
  <2> HIDE DEF steps
  <2> QED
    BY <1>9
<1>11. AfterNotes(men, rs) = after[k]
  BY <1>1 DEF AfterNotes
<1> HIDE DEF after
<1>12. /\ after[0] = men
       /\ \A i \in 1 .. k : after[i] = heard(i, after[i - 1])
       /\ after = [i \in 0 .. k |-> after[i]]
  <2>1. /\ steps(after)[0] = men
        /\ \A i \in 1 .. k : steps(after)[i] = heard(i, after[i - 1])
        /\ steps(after) = [i \in 0 .. k |-> steps(after)[i]]
    <3> HIDE DEF heard
    <3> QED
      OBVIOUS
  <2> HIDE DEF steps, heard
  <2> QED
    BY <1>10, <2>1
<1> DEFINE S == {i \in Nat : i <= k => after[i] \in V}
<1>13. \A i \in Nat : i \in S
  <2>1. 0 \in S
    <3> HIDE DEF V
    <3> QED
      BY <1>4, <1>12
  <2>2. ASSUME NEW i \in Nat, i \in S
        PROVE  i + 1 \in S
    <3> HIDE DEF V, heard
    <3>1. CASE i + 1 <= k
      <4>1. i + 1 \in 1 .. k /\ after[i] \in V /\ (i + 1) - 1 = i
        BY <2>2, <3>1
      <4>2. after[i + 1] = heard(i + 1, after[i])
        BY <1>12, <4>1
      <4> QED
        BY <1>5, <4>1, <4>2
    <3> QED
      BY <3>1
  <2> HIDE DEF S
  <2> QED
    BY <2>1, <2>2, Induct
<1>14. \A i \in 0 .. k : after[i] \in V
  <2> HIDE DEF V
  <2> QED
    BY <1>13
<1>15. after \in [0 .. k -> V]
  <2> HIDE DEF V
  <2> QED
    BY <1>12, <1>14
<1> QED
  BY <1>1, <1>11, <1>12, <1>15 DEF Counts

\* What becomes of one dead-man is up to it and the notes.
LEMMA NotesAlike ==
  ASSUME NEW h \in Nat, NEW g \in Nat,
         NEW men, MenBy(men, h), NEW others, MenBy(others, g),
         NEW rs, StampedBy(rs, h), NEW qs, StampedBy(qs, g), Len(rs) <= Len(qs),
         \A i \in 1 .. Len(rs) : rs[i] = qs[i],
         NEW f, Counts(men, h, rs, f), NEW e, Counts(others, g, qs, e),
         NEW n \in DOMAIN men, n \in DOMAIN others, men[n] = others[n]
  PROVE  f[Len(rs)][n] = e[Len(rs)][n]
<1>1. PICK k \in Nat : k = Len(rs)
  BY DEF StampedBy
<1> DEFINE S == {i \in Nat : i <= k => f[i][n] = e[i][n]}
<1>2. 0 \in S
  BY DEF Counts
<1>3. ASSUME NEW i \in Nat, i \in S, i + 1 <= k
      PROVE  f[i + 1][n] = e[i + 1][n]
  <2>1. /\ i + 1 \in 1 .. Len(rs) /\ i + 1 \in 1 .. Len(qs) /\ (i + 1) - 1 = i
        /\ i \in 0 .. Len(rs) /\ i \in 0 .. Len(qs)
    BY <1>1, <1>3 DEF StampedBy
  <2>2. PICK r \in Stamped : r = rs[i + 1] /\ r = qs[i + 1] /\ r.at <= h /\ r.at <= g
    BY <2>1 DEF StampedBy
  <2>3. /\ f[i + 1] = Heard(f[i], r.node, r.key, r.at)
        /\ e[i + 1] = Heard(e[i], r.node, r.key, r.at)
        /\ f[i] \in Pushed(men, h) /\ e[i] \in Pushed(others, g)
    BY <2>1, <2>2 DEF Counts
  <2>4. f[i][n] = e[i][n]
    BY <1>3
  <2>5. CASE n # r.node
    <3>1. f[i + 1][n] = f[i][n]
      BY <2>2, <2>3, <2>5, HeardPushes DEF MenBy
    <3>2. e[i + 1][n] = e[i][n]
      BY <2>2, <2>3, <2>5, HeardPushes DEF MenBy
    <3> QED
      BY <2>4, <3>1, <3>2
  <2>6. CASE n = r.node
    <3>1. n \in DOMAIN f[i] /\ n \in DOMAIN e[i]
      BY <2>3 DEF Pushed
    <3> DEFINE Pushes(man) == IF /\ man.key = r.key
                                 /\ r.at < man.deadline
                                 /\ r.at + man.period > man.deadline
                              THEN [man EXCEPT !.deadline = r.at + man.period]
                              ELSE man
    <3>2. /\ Heard(f[i], n, r.key, r.at)[n] = Pushes(f[i][n])
          /\ Heard(e[i], n, r.key, r.at)[n] = Pushes(e[i][n])
      BY <3>1 DEF Heard, ProvesTo
    <3>3. /\ f[i + 1][n] = Heard(f[i], n, r.key, r.at)[n]
          /\ e[i + 1][n] = Heard(e[i], n, r.key, r.at)[n]
      BY <2>3, <2>6
    <3> HIDE DEF S, Pushes
    <3> QED
      BY <2>4, <3>2, <3>3
  <2> QED
    BY <2>5, <2>6
<1>4. \A i \in Nat : i \in S
  <2>1. ASSUME NEW i \in Nat, i \in S PROVE i + 1 \in S
    BY <1>3, <2>1
  <2> HIDE DEF S
  <2> QED
    BY <1>2, <2>1, Induct
<1> QED
  BY <1>1, <1>4

\* So much for the functions; what follows is all that is used of them.
LEMMA NotesPush ==
  ASSUME NEW h \in Nat, NEW men, MenBy(men, h), NEW rs, StampedBy(rs, h)
  PROVE  AfterNotes(men, rs) \in Pushed(men, h)
<1>1. PICK f : Counts(men, h, rs, f) /\ AfterNotes(men, rs) = f[Len(rs)]
  BY NotesFunction
<1>2. Len(rs) \in 0 .. Len(rs)
  BY DEF StampedBy
<1> QED
  BY <1>1, <1>2 DEF Counts

LEMMA NoNotes ==
  ASSUME NEW h \in Nat, NEW men, MenBy(men, h)
  PROVE  AfterNotes(men, <<>>) = men
<1>1. StampedBy(<<>>, h)
  BY DEF StampedBy
<1>2. PICK f : Counts(men, h, <<>>, f) /\ AfterNotes(men, <<>>) = f[0]
  BY <1>1, NotesFunction
<1> QED
  BY <1>2 DEF Counts

LEMMA SameNotes ==
  ASSUME NEW h \in Nat, NEW men, MenBy(men, h), NEW others, MenBy(others, h),
         NEW rs, StampedBy(rs, h),
         NEW n \in DOMAIN men, n \in DOMAIN others, men[n] = others[n]
  PROVE  AfterNotes(men, rs)[n] = AfterNotes(others, rs)[n]
<1>1. PICK f : Counts(men, h, rs, f) /\ AfterNotes(men, rs) = f[Len(rs)]
  BY NotesFunction
<1>2. PICK e : Counts(others, h, rs, e) /\ AfterNotes(others, rs) = e[Len(rs)]
  BY NotesFunction
<1>3. Len(rs) <= Len(rs)
  BY DEF StampedBy
<1> QED
  BY <1>1, <1>2, <1>3, NotesAlike

LEMMA OneMoreNote ==
  ASSUME NEW h \in Nat, NEW men, MenBy(men, h), NEW rs, StampedBy(rs, h),
         NEW r \in Stamped, r.at <= h, NEW n \in DOMAIN men
  PROVE  AfterNotes(men, Append(rs, r))[n] =
           Heard(AfterNotes(men, rs), r.node, r.key, r.at)[n]
<1> DEFINE qs == Append(rs, r)
<1>1. /\ qs \in Seq(Stamped) /\ Len(qs) = Len(rs) + 1 /\ qs[Len(rs) + 1] = r
      /\ \A i \in 1 .. Len(rs) : qs[i] = rs[i]
      /\ Len(rs) \in Nat
  BY DEF StampedBy
<1>2. StampedBy(qs, h)
  <2> SUFFICES ASSUME NEW i \in 1 .. Len(qs)
               PROVE  qs[i].at <= h
    BY <1>1 DEF StampedBy
  <2>1. CASE i = Len(rs) + 1
    BY <1>1, <2>1
  <2>2. CASE i \in 1 .. Len(rs)
    BY <1>1, <2>2 DEF StampedBy
  <2> QED
    BY <1>1, <2>1, <2>2
<1> HIDE DEF qs
<1>3. PICK f : Counts(men, h, rs, f) /\ AfterNotes(men, rs) = f[Len(rs)]
  BY NotesFunction
<1>4. PICK e : Counts(men, h, qs, e) /\ AfterNotes(men, qs) = e[Len(qs)]
  BY <1>2, NotesFunction
<1>5. ASSUME NEW m \in DOMAIN men
      PROVE  f[Len(rs)][m] = e[Len(rs)][m]
  <2>1. Len(rs) <= Len(qs) /\ \A i \in 1 .. Len(rs) : rs[i] = qs[i]
    BY <1>1
  <2> QED
    BY <1>2, <1>3, <1>4, <2>1, NotesAlike
<1>6. f[Len(rs)] = e[Len(rs)]
  <2>1. f[Len(rs)] \in [DOMAIN men -> Man] /\ e[Len(rs)] \in [DOMAIN men -> Man]
    BY <1>1, <1>3, <1>4 DEF Counts, Pushed
  <2> QED
    BY <1>5, <2>1
<1>7. e[Len(qs)] = Heard(e[Len(rs)], r.node, r.key, r.at)
  <2>1. Len(qs) \in 1 .. Len(qs) /\ Len(qs) - 1 = Len(rs) /\ qs[Len(qs)] = r
    BY <1>1
  <2> QED
    BY <1>4, <2>1 DEF Counts
<1> QED
  BY <1>3, <1>4, <1>6, <1>7 DEF qs

-----------------------------------------------------------------------------
(* The serve loop.                                                         *)

\* The types: what is stamped is on its way or in the handler's hands, and none
\* of it from the future; a handler that waits has taken nothing.
LoopTypes ==
  /\ deadmen = [n \in Armed |-> deadmen[n]]
  /\ readers \subseteq {r \in Stamped : r.at <= now}
  /\ IsFiniteSet(readers) /\ Cardinality(readers) <= MaxReaders
  /\ StampedBy(noted, now) /\ Len(noted) <= MaxNoted
  /\ StampedBy(requests, now) /\ Len(requests) <= MaxReaders
  /\ StampedBy(revocations, now) /\ Len(revocations) <= MaxReaders
  /\ StampedBy(waiting, now) /\ Len(waiting) <= MaxReaders
  /\ urgent \in {r \in Stamped : r.at <= now} \cup {Nobody}
  /\ pc \in {"top", "drain", "wait", "judge", "handle"}
  /\ pc = "wait" => urgent = Nobody /\ waiting = <<>>
  /\ proof \in [Node -> Nat]
  /\ stood \in BOOLEAN

\* What was heard of a holder in time has pushed its deadline on, or will once
\* the notes are counted: this is what makes the silence real.
HeardInTime ==
  \A n \in Armed \ ended : proof[n] + deadmen[n].period <= Counted[n].deadline

\* A request in the handler's hands that arrived past a deadline arrived when
\* the silence was over already: no reader can note a beat that undoes it.
LateIsSilent ==
  pc = "handle" =>
    \A n \in Armed \ ended, r \in Taken :
      deadmen[n].deadline <= r.at => proof[n] + deadmen[n].period <= now

\* A revocation that stood in line is the next thing taken, or is taken.
NextInLine ==
  stood => (IF pc = "top" THEN revocations # <<>> ELSE urgent # Nobody)

LoopInv == DeadmanInv /\ LoopTypes /\ HeardInTime /\ LateIsSilent /\ NextInLine

\* The dead-men are such as the notes may be counted for.
LEMMA MenNow ==
  ASSUME DeadmanInv, deadmen = [n \in Armed |-> deadmen[n]]
  PROVE  now \in Nat /\ MenBy(deadmen, now)
<1>1. \A n \in Armed : deadmen[n] \in Man /\ deadmen[n].deadline <= now + deadmen[n].period
  BY Untouched
<1> QED
  BY <1>1 DEF DeadmanInv, DeadmanTypeOK, Time, MenBy, Armed

LEMMA Lines ==
  ASSUME NEW h \in Nat, NEW s, StampedBy(s, h)
  PROVE  /\ Len(s) \in Nat
         /\ s # <<>> => /\ Head(s) \in {r \in Stamped : r.at <= h}
                        /\ StampedBy(Tail(s), h)
                        /\ Len(Tail(s)) = Len(s) - 1
         /\ \A r \in {q \in Stamped : q.at <= h} :
              StampedBy(Append(s, r), h) /\ Len(Append(s, r)) = Len(s) + 1
         /\ \A g \in Nat : h <= g => StampedBy(s, g)
         /\ ToSet(s) \subseteq {r \in Stamped : r.at <= h}
<1> USE DEF StampedBy
<1>1. s # <<>> => /\ Head(s) \in {r \in Stamped : r.at <= h}
                  /\ StampedBy(Tail(s), h)
                  /\ Len(Tail(s)) = Len(s) - 1
  <2> SUFFICES ASSUME s # <<>>
               PROVE  /\ Head(s) \in {r \in Stamped : r.at <= h}
                      /\ StampedBy(Tail(s), h)
                      /\ Len(Tail(s)) = Len(s) - 1
    OBVIOUS
  <2>1. Len(s) \in Nat \ {0} /\ Head(s) = s[1] /\ Tail(s) \in Seq(Stamped)
        /\ Len(Tail(s)) = Len(s) - 1
        /\ \A i \in 1 .. Len(Tail(s)) : Tail(s)[i] = s[i + 1]
    OBVIOUS
  <2>2. 1 \in 1 .. Len(s) /\ \A i \in 1 .. Len(Tail(s)) : i + 1 \in 1 .. Len(s)
    BY <2>1
  <2> QED
    BY <2>1, <2>2
<1>2. ASSUME NEW r \in {q \in Stamped : q.at <= h}
      PROVE  StampedBy(Append(s, r), h) /\ Len(Append(s, r)) = Len(s) + 1
  <2> DEFINE q == Append(s, r)
  <2>1. q \in Seq(Stamped) /\ Len(q) = Len(s) + 1 /\ q[Len(s) + 1] = r
        /\ \A i \in 1 .. Len(s) : q[i] = s[i]
    OBVIOUS
  <2> HIDE DEF q
  <2>2. \A i \in 1 .. Len(q) : i \in 1 .. Len(s) \/ i = Len(s) + 1
    BY <2>1
  <2>3. \A i \in 1 .. Len(q) : q[i].at <= h
    BY <2>1, <2>2
  <2> QED
    BY <2>1, <2>3 DEF q
<1>3. ASSUME NEW g \in Nat, h <= g
      PROVE  StampedBy(s, g)
  <2>1. \A i \in 1 .. Len(s) : s[i] \in Stamped
    OBVIOUS
  <2>2. \A r \in Stamped : r.at \in Nat
    BY DEF Stamped
  <2> QED
    BY <1>3, <2>1, <2>2
<1>4. ToSet(s) \subseteq {r \in Stamped : r.at <= h}
  BY DEF ToSet
<1> QED
  BY <1>1, <1>2, <1>3, <1>4

LEMMA LoopStart == LoopInit => LoopInv
<1> SUFFICES ASSUME LoopInit
             PROVE  LoopInv
  OBVIOUS
<1> USE DEF LoopInit
<1>1. DeadmanInv
  BY DeadmanStart
<1>2. LoopTypes
  <2>1. StampedBy(<<>>, now) /\ Len(<<>>) = 0
    BY DEF StampedBy
  <2>2. IsFiniteSet({}) /\ Cardinality({}) = 0
    BY FS_EmptySet
  <2>3. deadmen = [n \in Armed |-> deadmen[n]]
    BY DEF DeadmanInit, Armed
  <2>4. MaxReaders \in Nat /\ MaxNoted \in Nat
    BY ServeConstants
  <2>5. proof \in [Node -> Nat] /\ readers \subseteq {r \in Stamped : r.at <= now}
    OBVIOUS
  <2>6. IsFiniteSet(readers) /\ Cardinality(readers) <= MaxReaders
    BY <2>2, <2>4
  <2>7. /\ StampedBy(noted, now) /\ Len(noted) <= MaxNoted
        /\ StampedBy(requests, now) /\ Len(requests) <= MaxReaders
        /\ StampedBy(revocations, now) /\ Len(revocations) <= MaxReaders
        /\ StampedBy(waiting, now) /\ Len(waiting) <= MaxReaders
    BY <2>1, <2>4
  <2>8. pc = "top" /\ urgent = Nobody /\ stood = FALSE
    OBVIOUS
  <2> QED
    BY <2>3, <2>5, <2>6, <2>7, <2>8 DEF LoopTypes
<1>3. Armed = {}
  BY DEF DeadmanInit, Armed
<1> QED
  BY <1>1, <1>2, <1>3 DEF LoopInv, HeardInTime, LateIsSilent, NextInLine

-----------------------------------------------------------------------------
(* What the steps do to the lines and the handler's hands.                 *)

\* Readers come and go within their bound.
LEMMA ReaderAdded ==
  ASSUME IsFiniteSet(readers), Cardinality(readers) < MaxReaders, NEW r
  PROVE  IsFiniteSet(readers \cup {r}) /\ Cardinality(readers \cup {r}) <= MaxReaders
<1>1. Cardinality(readers) \in Nat
  BY FS_CardinalityType
<1>2. /\ IsFiniteSet(readers \cup {r})
      /\ Cardinality(readers \cup {r}) \in {Cardinality(readers), Cardinality(readers) + 1}
  BY FS_AddElement
<1> QED
  BY <1>1, <1>2, ServeConstants

LEMMA ReaderLeaves ==
  ASSUME IsFiniteSet(readers), Cardinality(readers) <= MaxReaders, NEW r \in readers, NEW q
  PROVE  /\ IsFiniteSet(readers \ {r}) /\ Cardinality(readers \ {r}) <= MaxReaders
         /\ IsFiniteSet((readers \ {r}) \cup {q})
         /\ Cardinality((readers \ {r}) \cup {q}) <= MaxReaders
<1>1. Cardinality(readers) \in Nat
  BY FS_CardinalityType
<1>2. IsFiniteSet(readers \ {r}) /\ Cardinality(readers \ {r}) = Cardinality(readers) - 1
  BY FS_RemoveElement
<1>3. /\ IsFiniteSet((readers \ {r}) \cup {q})
      /\ Cardinality((readers \ {r}) \cup {q})
           \in {Cardinality(readers \ {r}), Cardinality(readers \ {r}) + 1}
  BY <1>2, FS_AddElement
<1> QED
  BY <1>1, <1>2, <1>3, ServeConstants

\* What a client may ask was stamped just now.
LEMMA AskedNow ==
  ASSUME DeadmanInv, NEW r \in Asked
  PROVE  r \in Stamped /\ r.at = now /\ r.kind # "nobody"
<1>1. now \in Nat /\ MaxArmings \in Nat
      /\ \A a \in told : a.node \in Node /\ a.key \in 0 .. MaxArmings
  BY DeadmanConstants DEF DeadmanInv, DeadmanTypeOK, Time
<1>2. PICK kind \in Kinds, n \in Node, k \in {0} \cup {a.key : a \in told} :
        r = Request(kind, n, k)
  BY DEF Asked
<1>3. k \in 0 .. MaxArmings
  BY <1>1, <1>2
<1> QED
  BY <1>1, <1>2, <1>3, ServeConstants DEF Request, Stamped

LEMMA NotNobody == \A r \in Stamped : r # Nobody
BY ServeConstants DEF Stamped, Nobody

\* A step that leaves custody, the notes and what was heard alone.
LEMMA CustodyStands ==
  ASSUME LoopInv, UNCHANGED <<dvars, noted, proof>>
  PROVE  DeadmanInv' /\ HeardInTime' /\ deadmen' = [n \in Armed' |-> deadmen'[n]]
         /\ proof' \in [Node -> Nat] /\ StampedBy(noted', now') /\ Len(noted') <= MaxNoted
<1>1. DeadmanInv'
  BY DeadmanStep DEF LoopInv
<1>2. HeardInTime'
  BY DEF LoopInv, HeardInTime, Counted, Armed, dvars, broker
<1> QED
  BY <1>1, <1>2 DEF LoopInv, LoopTypes, Armed, dvars, broker

\* A reader hands over, or wakes the handler.
LEMMA ReaderKeeps ==
  ASSUME LoopInv, NEW r \in readers, Reader(r)
  PROVE  LoopInv'
<1>1. UNCHANGED <<dvars, noted, proof, loop>>
  BY DEF Reader, HandOver, HandOverRevocation, SendWake
<1>2. now \in Nat /\ now' = now
  BY <1>1, MenNow DEF LoopInv, LoopTypes, dvars
<1>3. r \in {q \in Stamped : q.at <= now}
  BY DEF LoopInv, LoopTypes
<1>4. /\ readers' \subseteq {q \in Stamped : q.at <= now}
      /\ IsFiniteSet(readers') /\ Cardinality(readers') <= MaxReaders
  <2>1. [r EXCEPT !.kind = "wake"] \in {q \in Stamped : q.at <= now}
    BY <1>3 DEF Stamped
  <2>2. \/ readers' = readers \ {r}
        \/ readers' = (readers \ {r}) \cup {[r EXCEPT !.kind = "wake"]}
    BY DEF Reader, HandOver, HandOverRevocation, SendWake
  <2>3. \A q : /\ IsFiniteSet(readers \ {r}) /\ Cardinality(readers \ {r}) <= MaxReaders
               /\ IsFiniteSet((readers \ {r}) \cup {q})
               /\ Cardinality((readers \ {r}) \cup {q}) <= MaxReaders
    BY ReaderLeaves DEF LoopInv, LoopTypes
  <2>4. readers \subseteq {q \in Stamped : q.at <= now}
    BY DEF LoopInv, LoopTypes
  <2> QED
    BY <2>1, <2>2, <2>3, <2>4
<1>5. StampedBy(requests', now) /\ Len(requests') <= MaxReaders
  <2>1. \/ requests' = requests
        \/ Len(requests) < MaxReaders /\ requests' = Append(requests, r)
    BY DEF Reader, HandOver, HandOverRevocation, SendWake
  <2>2. StampedBy(requests, now) /\ Len(requests) <= MaxReaders
    BY DEF LoopInv, LoopTypes
  <2>3. /\ Len(requests) \in Nat
        /\ StampedBy(Append(requests, r), now)
        /\ Len(Append(requests, r)) = Len(requests) + 1
    BY <1>2, <1>3, <2>2, Lines
  <2>4. MaxReaders \in Nat
    BY ServeConstants
  <2>5. CASE requests' = requests
    BY <2>2, <2>5
  <2>6. CASE Len(requests) < MaxReaders /\ requests' = Append(requests, r)
    BY <2>3, <2>4, <2>6
  <2> QED
    BY <2>1, <2>5, <2>6
<1>6. /\ StampedBy(revocations', now) /\ Len(revocations') <= MaxReaders
      /\ revocations # <<>> => revocations' # <<>>
  <2>1. \/ revocations' = revocations
        \/ Len(revocations) < MaxReaders /\ revocations' = Append(revocations, r)
    BY DEF Reader, HandOver, HandOverRevocation, SendWake
  <2>2. StampedBy(revocations, now) /\ Len(revocations) <= MaxReaders
    BY DEF LoopInv, LoopTypes
  <2>3. /\ Len(revocations) \in Nat
        /\ StampedBy(Append(revocations, r), now)
        /\ Len(Append(revocations, r)) = Len(revocations) + 1
    BY <1>2, <1>3, <2>2, Lines
  <2>4. MaxReaders \in Nat
    BY ServeConstants
  <2>5. CASE revocations' = revocations
    BY <2>2, <2>5
  <2>6. CASE Len(revocations) < MaxReaders /\ revocations' = Append(revocations, r)
    <3>1. revocations' # <<>>
      BY <2>3, <2>6
    <3> QED
      BY <2>3, <2>4, <2>6, <3>1
  <2> QED
    BY <2>1, <2>5, <2>6
<1>7. LoopTypes'
  BY <1>1, <1>2, <1>4, <1>5, <1>6, CustodyStands DEF LoopInv, LoopTypes, loop
<1>8. LateIsSilent' /\ NextInLine'
  BY <1>1, <1>6 DEF LoopInv, LateIsSilent, NextInLine, Taken, loop, Armed, dvars, broker
<1> QED
  BY <1>1, <1>7, <1>8, CustodyStands DEF LoopInv

\* The handler takes what it handles next (try_recv, the drain, recv_timeout).
LEMMA TakingKeeps ==
  ASSUME LoopInv, TakeUrgent \/ Drain \/ WaitRequest \/ WaitOver \/ HandleNothing
  PROVE  LoopInv'
<1>1. UNCHANGED <<dvars, noted, proof, readers>> /\ pc' # "handle"
  BY DEF TakeUrgent, Drain, WaitRequest, WaitOver, HandleNothing, Goto, lines
<1>2. now \in Nat /\ now' = now
  BY <1>1, MenNow DEF LoopInv, LoopTypes, dvars
<1>3. /\ MaxReaders \in Nat \ {0} /\ Len(waiting) \in Nat
      /\ requests # <<>> => /\ StampedBy(Tail(requests), now)
                            /\ Len(Tail(requests)) <= MaxReaders
                            /\ StampedBy(TakeOne, now)
                            /\ TakeOne = waiting \/ Len(TakeOne) = Len(waiting) + 1
      /\ revocations # <<>> => /\ StampedBy(Tail(revocations), now)
                               /\ Len(Tail(revocations)) <= MaxReaders
                               /\ Head(revocations) \in {r \in Stamped : r.at <= now}
  <2>1. /\ StampedBy(requests, now) /\ Len(requests) <= MaxReaders
        /\ StampedBy(revocations, now) /\ Len(revocations) <= MaxReaders
        /\ StampedBy(waiting, now)
    BY DEF LoopInv, LoopTypes
  <2>2. /\ Len(requests) \in Nat /\ Len(revocations) \in Nat /\ Len(waiting) \in Nat
        /\ requests # <<>> => /\ Head(requests) \in {r \in Stamped : r.at <= now}
                              /\ StampedBy(Tail(requests), now)
                              /\ Len(Tail(requests)) = Len(requests) - 1
        /\ revocations # <<>> => /\ Head(revocations) \in {r \in Stamped : r.at <= now}
                                 /\ StampedBy(Tail(revocations), now)
                                 /\ Len(Tail(revocations)) = Len(revocations) - 1
        /\ \A r \in {q \in Stamped : q.at <= now} :
             StampedBy(Append(waiting, r), now) /\ Len(Append(waiting, r)) = Len(waiting) + 1
    BY <1>2, <2>1, Lines
  <2> QED
    BY <2>1, <2>2, ServeConstants DEF TakeOne
<1>4. CASE TakeUrgent
  <2>1. LoopTypes'
    BY <1>1, <1>2, <1>3, <1>4, CustodyStands DEF LoopInv, LoopTypes, TakeUrgent, Goto
  <2>2. NextInLine'
    BY <1>3, <1>4, NotNobody DEF LoopInv, NextInLine, TakeUrgent, Goto
  <2> QED
    BY <1>1, <2>1, <2>2, CustodyStands DEF LoopInv, LateIsSilent
<1>5. CASE Drain
  <2>1. Len(waiting) <= MaxReaders
    BY DEF LoopInv, LoopTypes
  <2>2. StampedBy(waiting', now) /\ Len(waiting') <= MaxReaders
    BY <1>3, <1>5, <2>1 DEF LoopInv, LoopTypes, Drain
  <2>3. StampedBy(requests', now) /\ Len(requests') <= MaxReaders
    BY <1>3, <1>5 DEF LoopInv, LoopTypes, Drain
  <2>4. /\ pc' \in {"drain", "wait", "judge"}
        /\ pc' = "wait" => urgent' = Nobody /\ waiting' = <<>>
        /\ UNCHANGED <<revocations, urgent, stood>>
    BY <1>5 DEF Drain, Goto
  <2>5. LoopTypes'
    BY <1>1, <1>2, <2>2, <2>3, <2>4, CustodyStands DEF LoopInv, LoopTypes
  <2>6. NextInLine'
    BY <1>5, <2>4 DEF LoopInv, NextInLine, Drain
  <2> QED
    BY <1>1, <2>5, <2>6, CustodyStands DEF LoopInv, LateIsSilent
<1>6. CASE WaitRequest
  <2>1. Len(waiting) = 0 /\ StampedBy(waiting, now) /\ urgent = Nobody
    BY <1>6 DEF LoopInv, LoopTypes, WaitRequest
  <2>2. StampedBy(waiting', now) /\ Len(waiting') <= MaxReaders
    <3>1. waiting' = TakeOne /\ requests # <<>>
      BY <1>6 DEF WaitRequest
    <3>2. StampedBy(TakeOne, now) /\ (TakeOne = waiting \/ Len(TakeOne) = 1)
      BY <1>3, <2>1, <3>1
    <3>3. CASE TakeOne = waiting
      BY <1>3, <2>1, <3>1, <3>3
    <3>4. CASE Len(TakeOne) = 1
      BY <1>3, <3>1, <3>2, <3>4
    <3> QED
      BY <3>2, <3>3, <3>4
  <2>3. LoopTypes'
    BY <1>1, <1>2, <1>3, <1>6, <2>2, CustodyStands DEF LoopInv, LoopTypes, WaitRequest, Goto
  <2>4. NextInLine'
    BY <1>6, <2>1 DEF LoopInv, NextInLine, WaitRequest
  <2> QED
    BY <1>1, <2>3, <2>4, CustodyStands DEF LoopInv, LateIsSilent
<1>7. CASE WaitOver
  <2>1. LoopTypes'
    BY <1>1, <1>2, <1>7, CustodyStands DEF LoopInv, LoopTypes, WaitOver, Goto, lines
  <2>2. NextInLine'
    BY <1>7 DEF LoopInv, NextInLine, WaitOver, Goto
  <2> QED
    BY <1>1, <2>1, <2>2, CustodyStands DEF LoopInv, LateIsSilent
<1>8. CASE HandleNothing
  <2>1. LoopTypes'
    BY <1>1, <1>2, <1>8, CustodyStands DEF LoopInv, LoopTypes, HandleNothing, Goto, lines
  <2>2. NextInLine'
    BY <1>8 DEF NextInLine, HandleNothing, Goto, lines
  <2> QED
    BY <1>1, <2>1, <2>2, CustodyStands DEF LoopInv, LateIsSilent
<1> QED
  BY <1>4, <1>5, <1>6, <1>7, <1>8

\* Time passes: what was stamped stays in the past, and a silence that is over
\* stays over.
LEMMA TimeKeeps ==
  ASSUME LoopInv, TimeGoesOn
  PROVE  LoopInv'
<1>1. Tick /\ UNCHANGED <<broker, noted, lines, loop, proof>>
  BY DEF TimeGoesOn, Tick
<1>2. now \in Nat /\ now' \in Nat /\ now <= now'
  BY <1>1, MenNow DEF LoopInv, LoopTypes, Tick
<1>3. DeadmanInv'
  BY <1>1, TickKeeps DEF LoopInv
<1>4. /\ StampedBy(noted, now') /\ StampedBy(requests, now')
      /\ StampedBy(revocations, now') /\ StampedBy(waiting, now')
  BY <1>2, Lines DEF LoopInv, LoopTypes
<1>5. \A r \in Stamped : r.at <= now => r.at <= now'
  BY <1>2 DEF Stamped
<1>6. LoopTypes'
  <2>1. /\ readers' \subseteq {r \in Stamped : r.at <= now'}
        /\ urgent' \in {r \in Stamped : r.at <= now'} \cup {Nobody}
    BY <1>1, <1>5 DEF LoopInv, LoopTypes, lines, loop
  <2> QED
    BY <1>1, <1>4, <2>1 DEF LoopInv, LoopTypes, lines, loop, broker, Armed
<1>7. HeardInTime' /\ NextInLine'
  BY <1>1 DEF LoopInv, HeardInTime, NextInLine, Counted, Armed, lines, loop, broker
<1>8. LateIsSilent'
  <2> SUFFICES ASSUME pc = "handle", NEW n \in Armed \ ended, NEW r \in Taken,
                      deadmen[n].deadline <= r.at
               PROVE  proof[n] + deadmen[n].period <= now'
    BY <1>1 DEF LateIsSilent, Taken, Armed, broker, loop
  <2>1. proof[n] + deadmen[n].period <= now
    BY DEF LoopInv, LateIsSilent
  <2>2. proof[n] \in Nat /\ deadmen[n].period \in Nat
    BY Untouched DEF LoopInv, LoopTypes
  <2> QED
    BY <1>2, <2>1, <2>2
<1> QED
  BY <1>3, <1>6, <1>7, <1>8 DEF LoopInv

\* What counting the notes makes of one armed dead-man.
LEMMA CountedOf ==
  ASSUME LoopInv, NEW n \in Armed
  PROVE  /\ n \in DOMAIN Counted
         /\ Counted[n] \in Man
         /\ Counted[n].key = deadmen[n].key
         /\ Counted[n].period = deadmen[n].period
         /\ Counted[n].period \in Nat
         /\ Counted[n].deadline \in Nat
         /\ deadmen[n].deadline <= Counted[n].deadline
         /\ Counted[n].deadline <= now + deadmen[n].period
<1>1. Counted \in Pushed(deadmen, now)
  BY MenNow, NotesPush DEF LoopInv, LoopTypes, Counted
<1>2. Counted[n] \in Man
  BY <1>1 DEF Pushed, Armed
<1> QED
  BY <1>1, <1>2, DeadmanConstants DEF Pushed, Armed, Man

\* A whole request is stamped, and noted if it is a beat and there is room
\* (note_beat).
LEMMA ReadKeeps ==
  ASSUME LoopInv, NEW r \in Asked, Read(r)
  PROVE  LoopInv'
<1>1. UNCHANGED <<dvars, requests, revocations, loop>> /\ StampAndNote(r)
  BY DEF Read
<1>2. now \in Nat /\ now' = now /\ MenBy(deadmen, now) /\ r \in Stamped /\ r.at = now
  BY <1>1, MenNow, AskedNow DEF LoopInv, LoopTypes, dvars
<1>3. DeadmanInv'
  BY <1>1, DeadmanStep DEF LoopInv
<1>4. readers' \subseteq {q \in Stamped : q.at <= now}
      /\ IsFiniteSet(readers') /\ Cardinality(readers') <= MaxReaders
  <2>1. /\ readers' = readers \cup {r} /\ Cardinality(readers) < MaxReaders
        /\ IsFiniteSet(readers) /\ readers \subseteq {q \in Stamped : q.at <= now}
    BY DEF Read, LoopInv, LoopTypes
  <2>2. r.at <= now
    BY <1>2
  <2> QED
    BY <1>2, <2>1, <2>2, ReaderAdded
<1>5. StampedBy(noted', now) /\ Len(noted') <= MaxNoted
  <2>1. StampedBy(noted, now) /\ Len(noted) <= MaxNoted /\ Len(noted) \in Nat /\ MaxNoted \in Nat
    BY ServeConstants DEF LoopInv, LoopTypes, StampedBy
  <2>2. StampedBy(Append(noted, r), now) /\ Len(Append(noted, r)) = Len(noted) + 1
    <3>1. r \in {q \in Stamped : q.at <= now}
      BY <1>2
    <3> QED
      BY <1>2, <2>1, <3>1, Lines
  <2>3. CASE noted' = noted
    BY <2>1, <2>3
  <2>4. CASE Len(noted) < MaxNoted /\ noted' = Append(noted, r)
    BY <2>1, <2>2, <2>4
  <2> QED
    BY <1>1, <2>3, <2>4 DEF StampAndNote
<1>6. proof' \in [Node -> Nat]
  BY <1>1, <1>2 DEF LoopInv, LoopTypes, StampAndNote
<1>7. LoopTypes'
  BY <1>1, <1>2, <1>4, <1>5, <1>6 DEF LoopInv, LoopTypes, loop, dvars, broker, Armed
<1>8. ASSUME NEW n \in Armed \ ended
      PROVE  \/ proof'[n] = proof[n]
             \/ /\ noted' = Append(noted, r) /\ Proves(n, r.key) /\ r.node = n
                /\ now < proof[n] + deadmen[n].period
                /\ proof'[n] = now
  BY <1>1 DEF StampAndNote, LoopInv, LoopTypes, InTime
<1>9. HeardInTime'
  <2> SUFFICES ASSUME NEW n \in Armed \ ended
               PROVE  proof'[n] + deadmen[n].period <= AfterNotes(deadmen, noted')[n].deadline
    BY <1>1 DEF HeardInTime, Counted, Armed, dvars, broker
  <2>1. proof[n] + deadmen[n].period <= Counted[n].deadline
    BY DEF LoopInv, HeardInTime
  <2>2. CASE noted' = noted
    <3>1. noted # Append(noted, r)
      BY DEF LoopInv, LoopTypes, StampedBy
    <3> QED
      BY <1>8, <2>1, <2>2, <3>1 DEF Counted
  <2>3. CASE noted' = Append(noted, r)
    <3>1. AfterNotes(deadmen, noted')[n] = Heard(Counted, r.node, r.key, r.at)[n]
      <4>1. n \in DOMAIN deadmen /\ StampedBy(noted, now) /\ r.at <= now
        BY <1>2 DEF LoopInv, LoopTypes, Armed
      <4> QED
        BY <1>2, <2>3, <4>1, OneMoreNote DEF Counted
    <3>2. /\ n \in DOMAIN Counted /\ Counted[n].key = deadmen[n].key
          /\ Counted[n].period = deadmen[n].period /\ Counted[n].period \in Nat
          /\ Counted[n].deadline \in Nat /\ proof[n] \in Nat
      BY CountedOf, <1>6 DEF LoopInv, LoopTypes, DeadmanInv, DeadmanTypeOK
    <3>3. CASE n # r.node
      <4>1. Heard(Counted, r.node, r.key, r.at)[n] = Counted[n]
        BY <3>2, <3>3 DEF Heard
      <4> QED
        BY <1>8, <2>1, <3>1, <3>3, <4>1
    <3>4. CASE n = r.node
      <4>1. Heard(Counted, n, r.key, now)[n] =
              IF /\ Counted[n].key = r.key
                 /\ now < Counted[n].deadline
                 /\ now + Counted[n].period > Counted[n].deadline
              THEN [Counted[n] EXCEPT !.deadline = now + Counted[n].period]
              ELSE Counted[n]
        BY <3>2 DEF Heard, ProvesTo
      <4>2. Heard(Counted, n, r.key, now)[n].deadline =
              IF /\ Counted[n].key = r.key
                 /\ now < Counted[n].deadline
                 /\ now + Counted[n].period > Counted[n].deadline
              THEN now + Counted[n].period
              ELSE Counted[n].deadline
        BY <4>1, CountedOf DEF Man
      <4>3. AfterNotes(deadmen, noted')[n].deadline = Heard(Counted, n, r.key, now)[n].deadline
        BY <1>2, <3>1, <3>4
      <4>4. CASE proof'[n] = proof[n]
        BY <1>2, <2>1, <3>2, <4>2, <4>3, <4>4
      <4>5. CASE Proves(n, r.key) /\ now < proof[n] + deadmen[n].period /\ proof'[n] = now
        <5>1. Counted[n].key = r.key
          BY <3>2, <4>5 DEF Proves, ProvesTo
        <5> QED
          BY <1>2, <2>1, <3>2, <4>2, <4>3, <4>5, <5>1
      <4> QED
        BY <1>8, <4>4, <4>5
    <3> QED
      BY <3>3, <3>4
  <2> QED
    BY <1>1, <2>2, <2>3 DEF StampAndNote
<1>10. LateIsSilent'
  <2> SUFFICES ASSUME pc = "handle", NEW n \in Armed \ ended, NEW q \in Taken,
                      deadmen[n].deadline <= q.at
               PROVE  proof'[n] + deadmen[n].period <= now
    BY <1>1, <1>2 DEF LateIsSilent, Taken, Armed, dvars, broker, loop
  <2>1. proof[n] + deadmen[n].period <= now
    BY DEF LoopInv, LateIsSilent
  <2>2. proof[n] \in Nat /\ deadmen[n].period \in Nat
    BY Untouched DEF LoopInv, LoopTypes
  <2> QED
    BY <1>2, <1>8, <2>1, <2>2
<1>11. NextInLine'
  BY <1>1 DEF LoopInv, NextInLine, loop
<1> QED
  BY <1>3, <1>7, <1>9, <1>10, <1>11 DEF LoopInv

\* Dead-men are judged as of no later than any request in the handler's hands.
LEMMA AsOfLeast ==
  ASSUME LoopInv
  PROVE  /\ AsOf \in Nat
         /\ AsOf <= now
         /\ \A r \in Taken : AsOf <= r.at
<1> DEFINE T == {now} \cup {r.at : r \in Taken}
<1>1. T \subseteq Nat /\ T # {}
  <2>1. now \in Nat
    BY MenNow DEF LoopInv, LoopTypes
  <2>2. Taken \subseteq {r \in Stamped : r.at <= now}
    BY <2>1, Lines DEF LoopInv, LoopTypes, Taken
  <2> QED
    BY <2>1, <2>2 DEF Stamped
<1>2. PICK x \in T : \A y \in T : x <= y
  <2> HIDE DEF T
  <2> QED
    BY <1>1, Least
<1>3. AsOf \in T /\ \A y \in T : AsOf <= y
  <2> HIDE DEF T
  <2>1. Min(T) \in T /\ \A y \in T : Min(T) <= y
    BY <1>2 DEF Min
  <2> QED
    BY <2>1 DEF AsOf, T
<1> QED
  BY <1>1, <1>3

\* What a judgment does to each dead-man: kept as counted, or dropped, and dead.
LEMMA Judged ==
  ASSUME LoopInv, JudgeDeadmen
  PROVE  /\ Armed' \subseteq Armed \ ended
         /\ \A n \in Armed' : deadmen'[n] = Counted[n]
         /\ \A n \in Armed \ ended : n \notin Armed' => Counted[n].deadline <= AsOf
         /\ deadmen' = [n \in Armed' |-> deadmen'[n]]
         /\ NothingArmed
<1>1. /\ deadmen' = Left(Counted, AsOf)
      /\ ended' = ended \cup UNION {Under[n] : n \in Due(Counted, AsOf)}
      /\ UNCHANGED <<now, keys, told, quiet>>
  BY DEF JudgeDeadmen, FireExpired
<1>2. DOMAIN Counted = Armed
  BY MenNow, NotesPush DEF LoopInv, LoopTypes, Counted, Pushed, Armed
<1>3. /\ Armed' = {m \in Armed : Live(m)} \ Due(Counted, AsOf)
      /\ \A n \in Armed' : deadmen'[n] = Counted[n]
      /\ deadmen' = [n \in Armed' |-> deadmen'[n]]
  BY <1>1, <1>2 DEF Left, Armed
<1>4. Due(Counted, AsOf) = {n \in Armed \ ended : Counted[n].deadline <= AsOf}
  BY <1>2 DEF Due, Live
<1>5. \A n \in Armed : n \in Node /\ n \in Under[n] /\ Under[n] \subseteq Node
  BY Untouched, DeadmanConstants DEF LoopInv
<1>6. ended \subseteq ended' /\ ended' \subseteq Node /\ \A n \in Armed \ Armed' : n \in ended'
  <2>1. ended \subseteq Node
    BY DEF LoopInv, DeadmanInv, DeadmanTypeOK
  <2> QED
    BY <1>1, <1>3, <1>4, <1>5, <2>1 DEF Live
<1>7. \A n \in Armed' : PushedOn(n)
  BY <1>3, CountedOf DEF PushedOn
<1>8. NothingArmed
  BY <1>1, <1>3, <1>6, <1>7 DEF NothingArmed
<1> QED
  BY <1>3, <1>4, <1>8 DEF Live

\* The judgment (fire_deadmen): who is still armed is so by what was counted, and
\* what the handler holds arrived before any deadline left, or in a silence.
LEMMA JudgeKeeps ==
  ASSUME LoopInv, JudgeDeadmen
  PROVE  LoopInv'
<1>1. /\ UNCHANGED <<now, lines, waiting, urgent, stood, proof>>
      /\ noted' = <<>> /\ pc' = "handle" /\ pc = "judge"
  BY DEF JudgeDeadmen, Goto
<1>2. DeadmanInv'
  BY Judged, ShapeKeeps DEF LoopInv
<1>3. now \in Nat
  BY MenNow DEF LoopInv, LoopTypes
<1>4. LoopTypes'
  <2>1. StampedBy(<<>>, now) /\ Len(<<>>) = 0
    BY DEF StampedBy
  <2>2. StampedBy(noted', now') /\ Len(noted') <= MaxNoted
    BY <1>1, <2>1, ServeConstants
  <2> QED
    BY <1>1, <2>2, Judged DEF LoopInv, LoopTypes, lines
<1>5. \A n \in Armed' \ ended' :
        /\ n \in Armed \ ended
        /\ deadmen'[n].period = deadmen[n].period
        /\ proof[n] + deadmen[n].period <= deadmen'[n].deadline
  BY Judged, CountedOf DEF LoopInv, HeardInTime
<1>6. HeardInTime'
  <2>1. Counted' = deadmen'
    <3>1. MenBy(deadmen', now')
      BY <1>2, <1>4, MenNow DEF LoopTypes, MenBy, DeadmanInv, DeadmanTypeOK, WithinOnePeriod, Armed
    <3>2. AfterNotes(deadmen', <<>>) = deadmen'
      BY <1>1, <1>3, <3>1, NoNotes
    <3> QED
      BY <1>1, <3>2 DEF Counted
  <2> QED
    BY <1>1, <1>5, <2>1 DEF HeardInTime
<1>7. LateIsSilent'
  <2> SUFFICES ASSUME NEW n \in Armed' \ ended', NEW r \in Taken,
                      deadmen'[n].deadline <= r.at
               PROVE  proof[n] + deadmen'[n].period <= now
    BY <1>1 DEF LateIsSilent, Taken
  <2>1. r.at \in Nat /\ r.at <= now
    <3>1. Taken \subseteq {q \in Stamped : q.at <= now}
      BY <1>3, Lines DEF LoopInv, LoopTypes, Taken
    <3> QED
      BY <3>1 DEF Stamped
  <2>2. /\ deadmen'[n].deadline \in Nat /\ deadmen[n].period \in Nat
        /\ proof[n] \in Nat
    BY <1>5, Judged, CountedOf, Untouched DEF LoopInv, LoopTypes
  <2> QED
    BY <1>3, <1>5, <2>1, <2>2
<1>8. NextInLine'
  BY <1>1 DEF LoopInv, NextInLine
<1> QED
  BY <1>2, <1>4, <1>6, <1>7, <1>8 DEF LoopInv

-----------------------------------------------------------------------------
(* A request is handled.                                                   *)

\* What is handled is in the handler's hands, and as it was stamped.
LEMMA FirstTaken ==
  ASSUME LoopInv, Taken # {}
  PROVE  First \in Taken /\ First \in Stamped /\ First.at \in 0 .. now
<1>1. now \in Nat
  BY MenNow DEF LoopInv, LoopTypes
<1>2. CASE urgent = Nobody
  <2>1. waiting # <<>>
    BY <1>2 DEF Taken, ToSet
  <2>2. Head(waiting) \in ToSet(waiting) /\ Head(waiting) \in {r \in Stamped : r.at <= now}
    <3>1. waiting \in Seq(Stamped) /\ StampedBy(waiting, now)
      BY DEF LoopInv, LoopTypes, StampedBy
    <3>2. 1 \in DOMAIN waiting /\ Head(waiting) = waiting[1]
      BY <2>1, <3>1
    <3> QED
      BY <1>1, <2>1, <3>1, <3>2, Lines DEF ToSet
  <2> QED
    BY <1>1, <1>2, <2>2 DEF First, Taken, Stamped
<1>3. CASE urgent # Nobody
  <2>1. urgent \in {r \in Stamped : r.at <= now}
    BY <1>3 DEF LoopInv, LoopTypes
  <2> QED
    BY <1>1, <1>3, <2>1 DEF First, Taken, Stamped
<1> QED
  BY <1>2, <1>3

\* What a request does to dead-men and to who was heard: each dead-man left is
\* untouched, with its proof; or is given a period from when its holder was
\* heard; and one that fires was late in the handler's hands.
Handled ==
  /\ DeadmanInv'
  /\ ended \subseteq ended'
  /\ deadmen' = [n \in Armed' |-> deadmen'[n]]
  /\ proof' \in [Node -> Nat]
  /\ \A n \in Armed' \ ended' :
       \/ n \in Armed /\ deadmen'[n] = deadmen[n] /\ proof'[n] = proof[n]
       \/ proof'[n] + deadmen'[n].period <= deadmen'[n].deadline
  /\ \A n \in Armed \ ended : n \notin Armed' /\ n \in ended' => deadmen[n].deadline <= First.at

LEMMA PerformShape ==
  ASSUME LoopInv, Taken # {}, Perform(First), UNCHANGED now
  PROVE  Handled
<1> DEFINE r == First
<1>1. r \in Stamped /\ r.at \in 0 .. now /\ r.node \in Node /\ r.key \in 0 .. MaxArmings
  BY FirstTaken DEF Stamped
<1> HIDE DEF r
<1>2. now \in Nat /\ DeadmanInv /\ deadmen = [n \in Armed |-> deadmen[n]] /\ proof \in [Node -> Nat]
  BY MenNow DEF LoopInv, LoopTypes
<1>3. \A n \in Armed : n \in Node /\ deadmen[n] \in Man /\ deadmen[n].period \in Nat
                       /\ deadmen[n].deadline \in Nat /\ deadmen[n].key \in Key
  BY <1>2, Untouched DEF Man
<1>4. MaxArmings \in Nat
  BY DeadmanConstants
<1>5. ASSUME UNCHANGED <<ended, deadmen, proof>>, DeadmanInv'
      PROVE  Handled
  BY <1>2, <1>5 DEF Handled, Armed
<1>6. ASSUME NEW p \in Period, NEW recorded \in BOOLEAN, Arm(r.node, p, recorded),
             IF keys' # keys THEN Answered(r.node, keys') ELSE UNCHANGED proof
      PROVE  Handled
  <2>1. DeadmanInv'
    BY <1>1, <1>2, <1>6, ArmKeeps
  <2>2. CASE UNCHANGED deadmen
    <3>1. UNCHANGED proof
      BY <1>6, <2>2 DEF Arm, MayArm, Live, Answered, ProvesTo, Armed
    <3> QED
      BY <1>5, <1>6, <2>1, <2>2, <3>1 DEF Arm
  <2>3. CASE /\ MayArm(r.node) /\ keys' = keys + 1
             /\ deadmen' = [m \in Armed \cup {r.node} |->
                             IF m = r.node
                             THEN [period |-> p, deadline |-> now + p, key |-> keys']
                             ELSE deadmen[m]]
    <3>1. /\ Armed' = Armed \cup {r.node} /\ deadmen' = [n \in Armed' |-> deadmen'[n]]
          /\ \A m \in Armed : deadmen'[m] = deadmen[m]
          /\ deadmen'[r.node] = [period |-> p, deadline |-> now + p, key |-> keys']
          /\ r.node \notin Armed /\ r.node \notin ended
      BY <2>3 DEF Armed, MayArm, Live
    <3>2. keys \in Nat /\ keys' # keys
      BY <1>2, <2>3 DEF DeadmanInv, DeadmanTypeOK
    <3>3. proof' = [proof EXCEPT ![r.node] = now]
      BY <1>6, <3>1, <3>2 DEF Answered, ProvesTo, Armed
    <3>4. proof'[r.node] + deadmen'[r.node].period <= deadmen'[r.node].deadline
      <4>1. p \in Nat /\ proof'[r.node] = now
        BY <1>1, <1>2, <3>3, DeadmanConstants
      <4> QED
        BY <1>2, <3>1, <4>1
    <3>5. \A n \in Armed : proof'[n] = proof[n]
      BY <1>2, <1>3, <3>1, <3>3
    <3>6. proof' \in [Node -> Nat] /\ UNCHANGED ended
      BY <1>2, <1>6, <3>3 DEF Arm
    <3> QED
      BY <2>1, <3>1, <3>4, <3>5, <3>6 DEF Handled
  <2> QED
    BY <1>6, <2>2, <2>3 DEF Arm
<1>7. r.key = 0 => ~Proves(r.node, r.key)
  BY <1>3, <1>4 DEF Proves, ProvesTo, Key, Armed
<1>8. ASSUME r.key # 0,
             \/ Beat(r.node, r.key, r.at)
             \/ \E recorded \in BOOLEAN : Disarm(r.node, r.key, r.at, recorded)
      PROVE  DeadmanInv'
  <2>1. r.key \in Key
    BY <1>1, <1>4, <1>8 DEF Key
  <2>2. Answering
    BY <1>1, <1>8, <2>1 DEF Answering
  <2> QED
    BY <1>2, <2>2, AnsweringShape, ShapeKeeps
<1>9. ASSUME Proves(r.node, r.key), r.at >= deadmen[r.node].deadline, Fire(r.node), DeadmanInv',
             UNCHANGED proof
      PROVE  Handled
  <2>1. r.node \in Armed /\ Armed' = Armed \ {r.node}
        /\ deadmen' = [n \in Armed' |-> deadmen'[n]]
        /\ \A m \in Armed' : deadmen'[m] = deadmen[m]
    BY <1>9 DEF Fire, Without, Proves, ProvesTo, Armed
  <2>2. ended \subseteq ended'
    BY <1>9 DEF Fire
  <2>3. deadmen[r.node].deadline <= First.at
    BY <1>1, <1>3, <1>9, <2>1 DEF r
  <2> QED
    BY <1>2, <1>9, <2>1, <2>2, <2>3 DEF Handled
<1>10. ASSUME Beat(r.node, r.key, r.at), Answered(r.node, r.key)
       PROVE  Handled
  <2>1. CASE Proves(r.node, r.key) /\ r.at >= deadmen[r.node].deadline /\ Fire(r.node)
    <3>1. UNCHANGED proof
      BY <1>10, <2>1 DEF Answered, ProvesTo, Fire, Without
    <3> QED
      BY <1>7, <1>8, <1>9, <1>10, <2>1, <3>1
  <2>2. CASE /\ Proves(r.node, r.key) /\ Live(r.node)
             /\ deadmen' = [deadmen EXCEPT ![r.node].deadline = now + deadmen[r.node].period]
             /\ UNCHANGED ended
    <3>1. r.node \in Armed
      BY <2>2 DEF Proves, ProvesTo, Armed
    <3>2. /\ Armed' = Armed /\ deadmen' = [n \in Armed' |-> deadmen'[n]]
          /\ \A m \in Armed \ {r.node} : deadmen'[m] = deadmen[m]
          /\ deadmen'[r.node] = [deadmen[r.node] EXCEPT !.deadline = now + deadmen[r.node].period]
      BY <1>2, <2>2, <3>1 DEF Armed
    <3>3. /\ deadmen'[r.node].period = deadmen[r.node].period
          /\ deadmen'[r.node].deadline = now + deadmen[r.node].period
          /\ deadmen'[r.node].key = deadmen[r.node].key
      BY <1>3, <3>1, <3>2 DEF Man
    <3>4. proof' = [proof EXCEPT ![r.node] = now]
      BY <1>10, <2>2, <3>1, <3>2, <3>3 DEF Answered, Proves, ProvesTo, Live, Armed
    <3>5. proof'[r.node] = now /\ \A n \in Armed \ {r.node} : proof'[n] = proof[n]
      BY <1>1, <1>2, <1>3, <3>4
    <3>6. proof' \in [Node -> Nat]
      BY <1>2, <3>4
    <3>7. proof'[r.node] + deadmen'[r.node].period <= deadmen'[r.node].deadline
      BY <1>2, <1>3, <3>1, <3>3, <3>5
    <3>8. DeadmanInv'
      BY <1>7, <1>8, <1>10, <2>2
    <3> QED
      BY <2>2, <3>2, <3>5, <3>6, <3>7, <3>8 DEF Handled
  <2>3. CASE /\ ~(Proves(r.node, r.key) /\ (r.at >= deadmen[r.node].deadline \/ Live(r.node)))
             /\ UNCHANGED <<ended, deadmen>>
    <3>1. UNCHANGED proof
      BY <1>10, <2>3 DEF Answered, Proves, Live
    <3>2. DeadmanInv'
      <4>1. UNCHANGED dvars
        BY <1>10, <2>3 DEF Beat, dvars, broker
      <4> QED
        BY <1>2, <4>1, DeadmanStep
    <3> QED
      BY <1>5, <2>3, <3>1, <3>2
  <2> QED
    BY <1>10, <2>1, <2>2, <2>3 DEF Beat, NextDeadline
<1>11. ASSUME NEW recorded \in BOOLEAN, Disarm(r.node, r.key, r.at, recorded), UNCHANGED proof
       PROVE  Handled
  <2>1. CASE Proves(r.node, r.key) /\ r.at >= deadmen[r.node].deadline /\ Fire(r.node)
    BY <1>7, <1>8, <1>9, <1>11, <2>1
  <2>2. CASE /\ Proves(r.node, r.key)
             /\ deadmen' = Without(r.node) /\ UNCHANGED ended
    <3>1. Armed' = Armed \ {r.node} /\ deadmen' = [n \in Armed' |-> deadmen'[n]]
          /\ \A m \in Armed' : deadmen'[m] = deadmen[m]
      BY <2>2 DEF Without, Armed
    <3>2. DeadmanInv'
      BY <1>7, <1>8, <1>11, <2>2
    <3> QED
      BY <1>2, <1>11, <2>2, <3>1, <3>2 DEF Handled
  <2>3. CASE UNCHANGED <<ended, deadmen, quiet>>
    <3>1. DeadmanInv'
      <4>1. UNCHANGED dvars
        BY <1>11, <2>3 DEF Disarm, dvars, broker
      <4> QED
        BY <1>2, <4>1, DeadmanStep
    <3> QED
      BY <1>5, <1>11, <2>3, <3>1
  <2> QED
    BY <1>11, <2>1, <2>2, <2>3 DEF Disarm
<1>12. ASSUME End(r.node), UNCHANGED proof
       PROVE  Handled
  <2>1. DeadmanInv'
    BY <1>1, <1>2, <1>12, EndingShape, ShapeKeeps DEF Ending
  <2> QED
    BY <1>2, <1>12, <2>1 DEF Handled, End, Armed
<1>13. ASSUME UNCHANGED <<broker, proof>>
       PROVE  Handled
  <2>1. DeadmanInv'
    BY <1>2, <1>13, DeadmanStep DEF dvars
  <2> QED
    BY <1>5, <1>13, <2>1 DEF broker
<1> QED
  BY <1>6, <1>10, <1>11, <1>12, <1>13 DEF Perform, r

\* The request is handled, the revocation first if one was taken.
LEMMA HandleKeeps ==
  ASSUME LoopInv, Handle
  PROVE  LoopInv' /\ Handled
<1>1. /\ Taken # {} /\ Perform(First)
      /\ waiting' = IF urgent = Nobody THEN Tail(waiting) ELSE waiting
      /\ urgent' = Nobody /\ pc' = "top" /\ stood' = (revocations # <<>>)
      /\ UNCHANGED <<now, noted, lines>>
  BY DEF Handle, Goto
<1>2. Handled
  BY <1>1, PerformShape
<1>3. now \in Nat /\ now' = now
  BY <1>1, MenNow DEF LoopInv, LoopTypes
<1>4. StampedBy(waiting', now) /\ Len(waiting') <= MaxReaders
  <2>1. StampedBy(waiting, now) /\ Len(waiting) <= MaxReaders /\ MaxReaders \in Nat
    BY ServeConstants DEF LoopInv, LoopTypes
  <2>2. CASE urgent = Nobody
    <3>1. waiting # <<>>
      BY <1>1, <2>2 DEF Taken, ToSet
    <3>2. StampedBy(Tail(waiting), now) /\ Len(Tail(waiting)) = Len(waiting) - 1 /\ Len(waiting) \in Nat
      BY <1>3, <2>1, <3>1, Lines
    <3> QED
      BY <1>1, <2>1, <2>2, <3>2
  <2> QED
    BY <1>1, <2>1, <2>2
<1>5. LoopTypes'
  BY <1>1, <1>2, <1>3, <1>4 DEF LoopInv, LoopTypes, Handled, lines
<1>6. HeardInTime'
  <2> SUFFICES ASSUME NEW n \in Armed' \ ended'
               PROVE  proof'[n] + deadmen'[n].period <= AfterNotes(deadmen', noted)[n].deadline
    BY <1>1 DEF HeardInTime, Counted
  <2>1. /\ MenBy(deadmen, now) /\ MenBy(deadmen', now) /\ StampedBy(noted, now)
        /\ n \in DOMAIN deadmen'
    <3>1. DeadmanInv' /\ deadmen' = [m \in Armed' |-> deadmen'[m]]
      BY <1>2 DEF Handled
    <3>2. \A m \in Armed' : deadmen'[m] \in Man /\ deadmen'[m].deadline <= now + deadmen'[m].period
      BY <1>3, <3>1 DEF DeadmanInv, DeadmanTypeOK, WithinOnePeriod
    <3>3. MenBy(deadmen', now)
      BY <3>1, <3>2 DEF MenBy, Armed
    <3> QED
      BY <3>3, MenNow DEF LoopInv, LoopTypes, Armed
  <2>2. CASE n \in Armed /\ deadmen'[n] = deadmen[n] /\ proof'[n] = proof[n]
    <3>1. AfterNotes(deadmen', noted)[n] = Counted[n]
      BY <1>3, <2>1, <2>2, SameNotes DEF Counted, Armed
    <3>2. n \notin ended
      BY <1>2 DEF Handled
    <3> QED
      BY <2>2, <3>1, <3>2 DEF LoopInv, HeardInTime
  <2>3. CASE proof'[n] + deadmen'[n].period <= deadmen'[n].deadline
    <3>1. AfterNotes(deadmen', noted) \in Pushed(deadmen', now)
      BY <1>3, <2>1, NotesPush
    <3>2. /\ AfterNotes(deadmen', noted)[n] \in Man /\ deadmen'[n] \in Man
          /\ deadmen'[n].deadline <= AfterNotes(deadmen', noted)[n].deadline
      BY <2>1, <3>1 DEF Pushed, MenBy
    <3>3. proof'[n] \in Nat
      BY <1>2 DEF Handled, DeadmanInv, DeadmanTypeOK
    <3>4. \A man \in Man : man.deadline \in Nat /\ man.period \in Nat
      BY DeadmanConstants DEF Man
    <3> QED
      BY <2>3, <3>2, <3>3, <3>4
  <2> QED
    BY <1>2, <2>2, <2>3 DEF Handled
<1>7. LateIsSilent' /\ NextInLine'
  BY <1>1 DEF LateIsSilent, NextInLine, lines
<1> QED
  BY <1>2, <1>5, <1>6, <1>7 DEF LoopInv, Handled

LEMMA LoopStep == LoopInv /\ [LoopNext]_loopVars => LoopInv'
<1> SUFFICES ASSUME LoopInv, [LoopNext]_loopVars
             PROVE  LoopInv'
  OBVIOUS
<1>1. CASE TimeGoesOn
  BY <1>1, TimeKeeps
<1>2. CASE \E r \in Asked : Read(r)
  BY <1>2, ReadKeeps
<1>3. CASE \E r \in readers : Reader(r)
  BY <1>3, ReaderKeeps
<1>4. CASE TakeUrgent \/ Drain \/ WaitRequest \/ WaitOver \/ HandleNothing
  BY <1>4, TakingKeeps
<1>5. CASE JudgeDeadmen
  BY <1>5, JudgeKeeps
<1>6. CASE Handle
  BY <1>6, HandleKeeps
<1>7. CASE UNCHANGED loopVars
  <2>1. UNCHANGED <<dvars, noted, proof, lines, loop>>
    BY <1>7 DEF loopVars
  <2>2. LoopTypes' /\ LateIsSilent' /\ NextInLine'
    BY <2>1 DEF LoopInv, LoopTypes, LateIsSilent, NextInLine, Taken, Armed, dvars, broker,
                lines, loop
  <2> QED
    BY <2>1, <2>2, CustodyStands DEF LoopInv
<1> QED
  BY <1>1, <1>2, <1>3, <1>4, <1>5, <1>6, <1>7 DEF LoopNext, Handler

\* The types hold: no line outgrows its bound, and nothing in the handler's
\* hands was stamped in the future.
THEOREM LoopTypeCorrect == LoopSpec => []LoopTypeOK
<1>1. LoopInv => LoopTypeOK
  <2> SUFFICES ASSUME LoopInv
               PROVE  LoopTypeOK
    OBVIOUS
  <2>1. Taken \subseteq {r \in Stamped : r.at <= now}
    BY MenNow, Lines DEF LoopInv, LoopTypes, Taken
  <2> QED
    BY <2>1 DEF LoopInv, LoopTypes, DeadmanInv, LoopTypeOK
<1> QED
  BY <1>1, LoopStart, LoopStep, PTL DEF LoopSpec

\* A revocation that was handed over waits for the request being handled and
\* for no other, however many are in line before it (ESTOP-QUEUE-1).
THEOREM RevocationsFirst == LoopSpec => []RevocationGoesFirst
<1>1. LoopInv => RevocationGoesFirst
  BY DEF LoopInv, NextInLine, RevocationGoesFirst
<1> QED
  BY <1>1, LoopStart, LoopStep, PTL DEF LoopSpec

\* Under the serve loop too, with its notes and its judgments of the past, no
\* dead-man waits longer than a period and none lapses unsaid.
THEOREM LoopKeepsDeadmen == LoopSpec => [](WithinOnePeriod /\ NeverLapsesSilently)
<1>1. LoopInv => WithinOnePeriod /\ NeverLapsesSilently
  BY DEF LoopInv, DeadmanInv
<1> QED
  BY <1>1, LoopStart, LoopStep, PTL DEF LoopSpec

\* A dead-man fires in two places: in a judgment, or when a late beat or
\* disarming is handled.
LEMMA FiringIsFair ==
  ASSUME LoopInv, [LoopNext]_loopVars, NEW n \in Node, Fires(n)
  PROVE  /\ proof[n] + deadmen[n].period <= now
         /\ pc = "judge" => ~DisarmsInTime(n, Taken)
<1>1. n \in Armed \ ended /\ n \notin Armed' /\ n \in ended'
  BY DEF Fires, Armed
<1>2. /\ proof[n] \in Nat /\ deadmen[n].period \in Nat /\ deadmen[n].deadline \in Nat
      /\ now \in Nat
  BY <1>1, Untouched DEF LoopInv, LoopTypes
<1>3. CASE JudgeDeadmen
  <2>1. Counted[n].deadline <= AsOf
    BY <1>1, <1>3, Judged
  <2>2. /\ proof[n] + deadmen[n].period <= Counted[n].deadline
        /\ deadmen[n].deadline <= Counted[n].deadline
        /\ Counted[n].deadline \in Nat
    BY <1>1, CountedOf DEF LoopInv, HeardInTime
  <2>3. /\ AsOf \in Nat /\ AsOf <= now
        /\ \A r \in Taken : AsOf <= r.at
    BY AsOfLeast
  <2>4. ASSUME NEW r \in Taken, r.at < deadmen[n].deadline
        PROVE  FALSE
    <3>1. r \in Stamped /\ r.at \in Nat
      <4>1. Taken \subseteq {q \in Stamped : q.at <= now}
        BY <1>2, Lines DEF LoopInv, LoopTypes, Taken
      <4> QED
        BY <4>1 DEF Stamped
    <3> QED
      BY <1>2, <2>1, <2>2, <2>3, <2>4, <3>1
  <2> QED
    BY <1>2, <2>1, <2>2, <2>3, <2>4 DEF DisarmsInTime
<1>4. CASE Handle
  <2>1. Handled /\ pc = "handle" /\ First \in Taken
    BY <1>4, HandleKeeps, FirstTaken DEF Handle
  <2>2. deadmen[n].deadline <= First.at
    BY <1>1, <2>1 DEF Handled
  <2> QED
    BY <1>1, <2>1, <2>2 DEF LoopInv, LateIsSilent
<1>5. CASE UNCHANGED deadmen
  BY <1>1, <1>5 DEF Armed
<1>6. \/ JudgeDeadmen
      \/ Handle
      \/ UNCHANGED deadmen
  BY DEF LoopNext, Handler, TimeGoesOn, Tick, Read, Reader, HandOver, HandOverRevocation, SendWake,
         TakeUrgent, Drain, WaitRequest, WaitOver, HandleNothing, loopVars, dvars, broker
<1> QED
  BY <1>3, <1>4, <1>5, <1>6

\* Whoever spoke in time is not judged silent: no dead-man fires on a holder
\* whose beat was read and noted within its period, however late the beat was
\* handed over and whatever held the handler; and no judgment beats a disarming
\* that arrived in time and is in the handler's hands.
THEOREM FairJudgments == LoopSpec => JudgedFairly
<1> DEFINE Silent == \A n \in Node : Fires(n) => proof[n] + deadmen[n].period <= now
           Stands == \A n \in Node : (pc = "judge" /\ Fires(n)) => ~DisarmsInTime(n, Taken)
<1>1. LoopInv /\ [LoopNext]_loopVars => [Silent]_loopVars /\ [Stands]_loopVars
  BY FiringIsFair
<1> QED
  BY <1>1, LoopStart, LoopStep, PTL DEF LoopSpec, JudgedFairly, SilenceIsReal, WaitingDisarmStands
=============================================================================
