------------------------------ MODULE Deadman ------------------------------
(***************************************************************************)
(* Dead-men held by the broker (delulu-broker/src/deadman.rs): a monitor   *)
(* arms one on its own node and beats it with the key it was given; when   *)
(* the beats stop for a period the node is revoked, and all below it.      *)
(*                                                                         *)
(* The callers pass every instant, and whether the record an operation     *)
(* made was written: an arming that was not recorded is withdrawn, a       *)
(* disarming undone (delulu/src/brokerd.rs, RW 4.61).  The clock is the    *)
(* hearing clock of HearingClock.                                          *)
(***************************************************************************)
EXTENDS Integers

CONSTANTS
  Node,
  Under,       \* node -> it and all the nodes below it
  Period,      \* the periods a dead-man may be armed with
  MaxTime,     \* bound on the clock
  MaxArmings   \* bound on the armings tried

ASSUME DeadmanConstants ==
  /\ Under \in [Node -> SUBSET Node]
  /\ \A n \in Node : n \in Under[n]
  /\ Period \subseteq Nat \ {0}
  /\ MaxTime \in Nat
  /\ MaxArmings \in Nat

VARIABLES
  now,         \* the hearing clock
  ended,       \* the nodes revoked or expired, and all below them
  deadmen,     \* armed node -> its dead-man
  keys,        \* keys drawn so far; the next is one more
  told,        \* the armings that were answered: node and key
  quiet        \* keys of the disarmings that were recorded

broker == <<ended, deadmen, keys, told, quiet>>
dvars == <<now, broker>>

Time == 0 .. MaxTime
Key == 1 .. MaxArmings
Man == [period : Period, deadline : Nat, key : Key]
Armed == DOMAIN deadmen
Live(n) == n \notin ended
ProvesTo(men, n, k) == n \in DOMAIN men /\ men[n].key = k
Proves(n, k) == ProvesTo(deadmen, n, k)

Without(n) == [m \in Armed \ {n} |-> deadmen[m]]

-----------------------------------------------------------------------------
\* `fire_deadman`: a node that is dead already has nothing left to stop.
Fire(n) ==
  /\ deadmen' = Without(n)
  /\ ended' = IF Live(n) THEN ended \cup Under[n] ELSE ended

MayArm(n) == Live(n) /\ n \notin Armed

\* The first period starts when the arming is answered.
Arm(n, p, recorded) ==
  /\ \/ /\ MayArm(n)
        /\ recorded
        /\ keys < MaxArmings
        /\ keys' = keys + 1
        /\ deadmen' = [m \in Armed \cup {n} |->
                        IF m = n
                        THEN [period |-> p, deadline |-> now + p, key |-> keys']
                        ELSE deadmen[m]]
        /\ told' = told \cup {[node |-> n, key |-> keys']}
     \/ /\ MayArm(n)
        /\ ~recorded
        /\ keys < MaxArmings
        /\ keys' = keys + 1
        /\ UNCHANGED <<deadmen, told>>
     \/ /\ ~MayArm(n)
        /\ UNCHANGED <<deadmen, keys, told>>
  /\ UNCHANGED <<ended, quiet>>

\* (mutant) the next period from the arrival, not from the answer.
NextDeadlineFromArrival(n, arrived) == arrived + deadmen[n].period

NextDeadline(n, arrived) == now + deadmen[n].period

\* `beat_deadman_arrived`: a beat that arrived late fires.
Beat(n, k, arrived) ==
  /\ \/ /\ Proves(n, k)
        /\ arrived >= deadmen[n].deadline
        /\ Fire(n)
     \/ /\ Proves(n, k)
        /\ arrived < deadmen[n].deadline
        /\ Live(n)
        /\ deadmen' = [deadmen EXCEPT ![n].deadline = NextDeadline(n, arrived)]
        /\ UNCHANGED ended
     \/ /\ ~(Proves(n, k) /\ (arrived >= deadmen[n].deadline \/ Live(n)))
        /\ UNCHANGED <<ended, deadmen>>
  /\ UNCHANGED <<keys, told, quiet>>

\* (mutant) a note buys two periods.
HeardTwice(men, n, k, at) ==
  IF ProvesTo(men, n, k) /\ at < men[n].deadline
  THEN [men EXCEPT ![n].deadline = at + 2 * men[n].period]
  ELSE men

\* `deadman_heard`: the dead-men `men`, once a beat noted at `at` has counted.
Heard(men, n, k, at) ==
  IF /\ ProvesTo(men, n, k)
     /\ at < men[n].deadline
     /\ at + men[n].period > men[n].deadline
  THEN [men EXCEPT ![n].deadline = at + men[n].period]
  ELSE men

CountNote(n, k, at) ==
  /\ deadmen' = Heard(deadmen, n, k, at)
  /\ UNCHANGED <<ended, keys, told, quiet>>

\* (mutant) a disarming whose record was lost is not undone.
DisarmLost(n, k, arrived, recorded) ==
  /\ Proves(n, k)
  /\ arrived < deadmen[n].deadline
  /\ Live(n)
  /\ deadmen' = Without(n)
  /\ quiet' = IF recorded THEN quiet \cup {k} ELSE quiet
  /\ UNCHANGED <<ended, keys, told>>

\* `disarm_deadman_undoable`, and the daemon's undoing of it.
Disarm(n, k, arrived, recorded) ==
  /\ \/ /\ Proves(n, k)
        /\ arrived >= deadmen[n].deadline
        /\ Fire(n)
        /\ UNCHANGED quiet
     \/ /\ Proves(n, k)
        /\ arrived < deadmen[n].deadline
        /\ Live(n)
        /\ recorded
        /\ deadmen' = Without(n)
        /\ quiet' = quiet \cup {k}
        /\ UNCHANGED ended
     \/ /\ Proves(n, k)
        /\ arrived < deadmen[n].deadline
        /\ ~Live(n)
        /\ deadmen' = Without(n)
        /\ UNCHANGED <<ended, quiet>>
     \/ /\ ~(Proves(n, k) /\ (arrived >= deadmen[n].deadline \/ ~Live(n) \/ recorded))
        /\ UNCHANGED <<ended, deadmen, quiet>>
  /\ UNCHANGED <<keys, told>>

\* Of the dead-men `men`: those that are due, and those left once the ones on
\* dead nodes are dropped.  A node that dies in this pass is dropped in the next.
Due(men, asOf) == {n \in DOMAIN men : Live(n) /\ men[n].deadline <= asOf}

Left(men, asOf) ==
  [n \in {m \in DOMAIN men : Live(m)} \ Due(men, asOf) |-> men[n]]

\* `fire_expired_deadmen`, of the dead-men `men`.
FireExpired(men, asOf) ==
  /\ deadmen' = Left(men, asOf)
  /\ ended' = ended \cup UNION {Under[n] : n \in Due(men, asOf)}
  /\ UNCHANGED <<keys, told, quiet>>

\* A node is revoked, or expires.
End(n) ==
  /\ ended' = ended \cup Under[n]
  /\ UNCHANGED <<deadmen, keys, told, quiet>>

Tick ==
  /\ now < MaxTime
  /\ now' = now + 1
  /\ UNCHANGED broker

-----------------------------------------------------------------------------
DeadmanInit ==
  /\ now = 0
  /\ ended = {}
  /\ deadmen = [n \in {} |-> n]
  /\ keys = 0
  /\ told = {}
  /\ quiet = {}

\* Every call the broker takes, at any instant that has passed.
Arming ==
  \E n \in Node, p \in Period, recorded \in BOOLEAN : Arm(n, p, recorded)

Answering ==
  \E n \in Node, k \in Key, at \in 0 .. now :
    \/ Beat(n, k, at)
    \/ CountNote(n, k, at)
    \/ \E recorded \in BOOLEAN : Disarm(n, k, at, recorded)

Ending ==
  \/ \E n \in Node : End(n)
  \/ \E asOf \in 0 .. now : FireExpired(deadmen, asOf)

DeadmanNext ==
  \/ Tick
  \/ Arming /\ UNCHANGED now
  \/ Answering /\ UNCHANGED now
  \/ Ending /\ UNCHANGED now

DeadmanSpec == DeadmanInit /\ [][DeadmanNext]_dvars

-----------------------------------------------------------------------------
(* Properties.                                                             *)

\* Types; no key is given twice, and every armed key was answered to somebody.
DeadmanTypeOK ==
  /\ now \in Time
  /\ ended \in SUBSET Node
  /\ Armed \subseteq Node
  /\ \A n \in Armed : deadmen[n] \in Man
  /\ keys \in 0 .. MaxArmings
  /\ \A a \in told : a.node \in Node /\ a.key \in 1 .. keys
  /\ \A a, b \in told : a.key = b.key => a = b
  /\ \A n \in Armed : [node |-> n, key |-> deadmen[n].key] \in told

\* A monitor that was told its dead-man is armed may rely on it: either it is
\* armed still, or its disarming is on the chain, or the node is dead (RW 4.61:
\* a lost record never leaves the runs below without their dead-man, unsaid).
NeverLapsesSilently ==
  \A a \in told : \/ Proves(a.node, a.key)
                  \/ a.key \in quiet
                  \/ a.node \in ended

\* No dead-man waits longer than one period from now, whatever beats were
\* noted, handled or never handed over: a holder that falls silent is revoked
\* within the period it armed (D-V2-209).
WithinOnePeriod ==
  \A n \in Armed : deadmen[n].deadline <= now + deadmen[n].period

\* While a dead-man stands, its key and period stay what they were and its
\* deadline never moves back: no call of anybody replaces it, and no beat, note
\* or undone disarming costs its holder time it was given.
NeverShortened ==
  [][\A n \in Armed :
       (n \in DOMAIN deadmen')
         => /\ deadmen'[n].key = deadmen[n].key
            /\ deadmen'[n].period = deadmen[n].period
            /\ deadmen[n].deadline <= deadmen'[n].deadline]_dvars
=============================================================================
