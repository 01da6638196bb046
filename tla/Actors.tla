------------------------------- MODULE Actors -------------------------------
(***************************************************************************)
(* The actor runtime (delulu-runtime/src/actors.rs): worker threads that   *)
(* each own some of the actors, one job queue per worker, mailboxes with a *)
(* bound on top of it, and the count by which the main thread knows that   *)
(* nothing is left to do.                                                  *)
(*                                                                         *)
(* A step is what one thread does between two accesses to what threads     *)
(* share: the compare-and-swap on a mailbox's depth, the count, the queue, *)
(* and the two condition variables, whose waiters park under the lock and  *)
(* whose notifiers take it.  What a turn computes is left out: a turn      *)
(* sends, spawns, and ends or faults.                                      *)
(***************************************************************************)
EXTENDS Integers, Sequences, FiniteSets

CONSTANTS
  Worker, Main,    \* the threads
  Actor,
  Home,            \* actor -> the worker it is pinned to at its spawn
  Unbounded,
  NoOne,
  Policies,        \* the runs looked at: the overflow rule, what a death does, the bounds
  Starts,          \* the sets of actors that exist and are idle when the model starts
  MaxJob           \* bound on the messages and spawns of a program

Thread == Worker \cup {Main}

ASSUME ActorsAssumption ==
  /\ Main \notin Worker \cup Actor /\ NoOne \notin Actor /\ Worker # {}
  /\ Home \in [Actor -> Worker]
  /\ Unbounded \notin Nat
  /\ Policies \subseteq [dropNew : BOOLEAN, abort : BOOLEAN,
                         bound : [Actor -> {Unbounded} \cup (Nat \ {0})]]
  /\ Starts \subseteq SUBSET Actor /\ Starts # {}
  /\ MaxJob \in Nat

VARIABLES
  policy,    \* full: drop the new message, or its sender waits; is a fault the program's end
  queue,     \* worker -> its jobs
  cell,      \* actor -> "none", "live", "dead"
  spawned,   \* the actors somebody holds a reference to
  depth,     \* actor -> what its mailbox counts
  pending,   \* jobs and turns not finished
  died,      \* a turn faulted and the program is to abort
  pc, job,   \* thread -> where it is, and the job it handles
  out,       \* thread -> the job it is sending
  made,      \* jobs made so far; a job's number is their order
  drops,     \* `overflow_drops`
  deadSends, \* messages to an actor that cannot take them
  turns      \* `total_turns`

shared == <<queue, cell, spawned, depth, pending, died>>
counts == <<made, drops, deadSends, turns>>
actorVars == <<policy, shared, pc, job, out, counts>>

NoJob == [kind |-> "none", to |-> NoOne, from |-> NoOne, no |-> 0, past |-> FALSE]
Shutdown == [NoJob EXCEPT !.kind = "shutdown"]

Goto(t, where) == pc' = [pc EXCEPT ![t] = where]

\* Who sends: the actor whose turn it is, or the program's main function.
Sender(t) == IF t = Main THEN Main ELSE job[t].to

-----------------------------------------------------------------------------
(* Spawning and sending, from a turn or from main.                         *)

Making(t, kind, a) ==
  /\ made < MaxJob
  /\ made' = made + 1
  /\ out' = [out EXCEPT ![t] = [kind |-> kind, to |-> a, from |-> Sender(t), no |-> made,
                                past |-> FALSE]]

\* (mutant) the reference is out before the job is.
SpawnEarly(t, a) ==
  /\ pc[t] = "turn" /\ a \notin spawned
  /\ Making(t, "create", a)
  /\ spawned' = spawned \cup {a}
  /\ pending' = pending + 1
  /\ Goto(t, "push")
  /\ UNCHANGED <<queue, cell, depth, died, job, drops, deadSends, turns, policy>>

\* (mutant) a spawn is not counted.
SpawnUncounted(t, a) ==
  /\ pc[t] = "turn" /\ a \notin spawned
  /\ \A u \in Thread : out[u].to # a \/ out[u].kind # "create"
  /\ Making(t, "create", a)
  /\ Goto(t, "push")
  /\ UNCHANGED <<shared, job, drops, deadSends, turns, policy>>

\* `spawn`, up to the count: like a message it is counted before it can be seen.
Spawn(t, a) ==
  /\ pc[t] = "turn" /\ a \notin spawned
  /\ \A u \in Thread : out[u].to # a \/ out[u].kind # "create"
  /\ Making(t, "create", a)
  /\ pending' = pending + 1
  /\ Goto(t, "push")
  /\ UNCHANGED <<queue, cell, spawned, depth, died, job, drops, deadSends, turns, policy>>

Send(t, a) ==
  /\ pc[t] = "turn" /\ a \in spawned
  /\ Making(t, "send", a)
  /\ IF policy.bound[a] = Unbounded
     THEN pending' = pending + 1 /\ Goto(t, "push")
     ELSE UNCHANGED pending /\ Goto(t, "reserve")
  /\ UNCHANGED <<queue, cell, spawned, depth, died, job, drops, deadSends, turns, policy>>

Full(a) == depth[a] >= policy.bound[a]

\* A worker may not wait for itself, and nobody once the program has died.
MayNotWait(t) == Home[out[t].to] = t \/ died

\* The slot is the sender's, and the message is counted (`enqueue`).
Reserved(t, past) ==
  /\ depth' = [depth EXCEPT ![out[t].to] = @ + 1]
  /\ pending' = pending + 1
  /\ out' = [out EXCEPT ![t].past = past]
  /\ Goto(t, "push")
  /\ UNCHANGED <<queue, cell, spawned, died, job, counts, policy>>

\* One turn of the loop in `send`: take a slot, drop, go past the bound, or wait.
Reserve(t) ==
  /\ pc[t] = "reserve"
  /\ \/ /\ ~Full(out[t].to)
        /\ Reserved(t, FALSE)
     \/ /\ Full(out[t].to) /\ policy.dropNew
        /\ drops' = drops + 1
        /\ out' = [out EXCEPT ![t] = NoJob]
        /\ Goto(t, "turn")
        /\ UNCHANGED <<shared, job, made, deadSends, turns, policy>>
     \/ /\ Full(out[t].to) /\ ~policy.dropNew /\ MayNotWait(t)
        /\ Reserved(t, TRUE)
     \/ /\ Full(out[t].to) /\ ~policy.dropNew /\ ~MayNotWait(t)
        /\ Goto(t, "full")
        /\ UNCHANGED <<shared, job, out, counts, policy>>

\* (mutant) no second look under the lock.
ParkBlind(t) ==
  /\ pc[t] = "full"
  /\ Goto(t, "parked")
  /\ UNCHANGED <<shared, job, out, counts, policy>>

\* Under the lock the sender looks again before it waits.
Park(t) ==
  /\ pc[t] = "full"
  /\ Goto(t, IF Full(out[t].to) /\ ~died THEN "parked" ELSE "reserve")
  /\ UNCHANGED <<shared, job, out, counts, policy>>

Push(t) ==
  /\ pc[t] = "push"
  /\ LET w == Home[out[t].to] IN queue' = [queue EXCEPT ![w] = Append(@, out[t])]
  /\ spawned' = spawned \cup {out[t].to}
  /\ out' = [out EXCEPT ![t] = NoJob]
  /\ Goto(t, "turn")
  /\ UNCHANGED <<cell, depth, pending, died, job, counts, policy>>

-----------------------------------------------------------------------------
(* A worker.                                                               *)

\* (mutant) a message that gets no turn is not counted off.
TakeForgetting(w) ==
  /\ pc[w] = "idle" /\ queue[w] # <<>>
  /\ LET next == Head(queue[w]) IN
       /\ queue' = [queue EXCEPT ![w] = Tail(@)]
       /\ job' = [job EXCEPT ![w] = next]
       /\ \/ /\ next.kind = "shutdown"
             /\ Goto(w, "gone")
             /\ UNCHANGED <<deadSends, turns>>
          \/ /\ next.kind = "create" \/ (next.kind = "send" /\ cell[next.to] = "live")
             /\ Goto(w, "turn")
             /\ turns' = turns + 1
             /\ UNCHANGED deadSends
          \/ /\ next.kind = "send" /\ cell[next.to] # "live"
             /\ Goto(w, "release")
             /\ deadSends' = deadSends + 1
             /\ UNCHANGED turns
  /\ UNCHANGED <<cell, spawned, depth, pending, died, out, made, drops, policy>>

\* The next job; a message to an actor that is dead or unknown gets no turn.
Take(w) ==
  /\ pc[w] = "idle" /\ queue[w] # <<>>
  /\ LET next == Head(queue[w]) IN
       /\ queue' = [queue EXCEPT ![w] = Tail(@)]
       /\ job' = [job EXCEPT ![w] = next]
       /\ \/ /\ next.kind = "shutdown"
             /\ Goto(w, "gone")
             /\ UNCHANGED <<deadSends, turns>>
          \/ /\ next.kind = "create" \/ (next.kind = "send" /\ cell[next.to] = "live")
             /\ Goto(w, "turn")
             /\ turns' = turns + 1
             /\ UNCHANGED deadSends
          \/ /\ next.kind = "send" /\ cell[next.to] # "live"
             /\ Goto(w, "done")
             /\ deadSends' = deadSends + 1
             /\ UNCHANGED turns
  /\ UNCHANGED <<cell, spawned, depth, pending, died, out, made, drops, policy>>

EndTurn(w) ==
  /\ pc[w] = "turn"
  /\ cell' = [cell EXCEPT ![job[w].to] = "live"]
  /\ Goto(w, "done")
  /\ UNCHANGED <<queue, spawned, depth, pending, died, job, out, counts, policy>>

\* `actor_died`: both kinds of waiters are to learn of an abort.
Fault(w) ==
  /\ pc[w] = "turn"
  /\ cell' = [cell EXCEPT ![job[w].to] = "dead"]
  /\ died' = (died \/ policy.abort)
  /\ Goto(w, IF policy.abort THEN "abort" ELSE "done")
  /\ UNCHANGED <<queue, spawned, depth, pending, job, out, counts, policy>>

WakeSenders(w, where) ==
  pc' = [t \in Thread |-> IF t = w THEN where
                          ELSE IF pc[t] = "parked" THEN "reserve" ELSE pc[t]]

WakeMain(w, where) ==
  pc' = [t \in Thread |-> IF t = w THEN where
                          ELSE IF pc[t] = "asleep" THEN "finish" ELSE pc[t]]

AbortMain(w) ==
  /\ pc[w] = "abort"
  /\ WakeMain(w, "abort2")
  /\ UNCHANGED <<shared, job, out, counts, policy>>

AbortSenders(w) ==
  /\ pc[w] = "abort2"
  /\ WakeSenders(w, "done")
  /\ UNCHANGED <<shared, job, out, counts, policy>>

\* `done`: the last one wakes the main thread.
Done(w) ==
  /\ pc[w] = "done"
  /\ pending' = pending - 1
  /\ Goto(w, IF pending = 1 THEN "last" ELSE "release")
  /\ UNCHANGED <<queue, cell, spawned, depth, died, job, out, counts, policy>>

SayQuiet(w) ==
  /\ pc[w] = "last"
  /\ WakeMain(w, "release")
  /\ UNCHANGED <<shared, job, out, counts, policy>>

Counted(j) == j.kind = "send" /\ policy.bound[j.to] # Unbounded

\* (mutant) a message to a dead actor keeps its slot.
ReleaseLive(w) ==
  /\ pc[w] = "release"
  /\ IF Counted(job[w]) /\ cell[job[w].to] = "live"
     THEN depth' = [depth EXCEPT ![job[w].to] = @ - 1] /\ Goto(w, "freed")
     ELSE UNCHANGED depth /\ Goto(w, "idle")
  /\ job' = [job EXCEPT ![w] = NoJob]
  /\ UNCHANGED <<queue, cell, spawned, pending, died, out, counts, policy>>

\* `MailboxSlot`: on every way out the slot is given back, and then said.
Release(w) ==
  /\ pc[w] = "release"
  /\ IF Counted(job[w])
     THEN depth' = [depth EXCEPT ![job[w].to] = @ - 1] /\ Goto(w, "freed")
     ELSE UNCHANGED depth /\ Goto(w, "idle")
  /\ job' = [job EXCEPT ![w] = NoJob]
  /\ UNCHANGED <<queue, cell, spawned, pending, died, out, counts, policy>>

Freed(w) ==
  /\ pc[w] = "freed"
  /\ WakeSenders(w, "idle")
  /\ UNCHANGED <<shared, job, out, counts, policy>>

-----------------------------------------------------------------------------
(* The main thread, once main has returned.                                *)

MainReturns ==
  /\ pc[Main] = "turn"
  /\ Goto(Main, "finish")
  /\ UNCHANGED <<shared, job, out, counts, policy>>

\* `finish`: under the lock, wait until nothing is pending or the program died.
Finish ==
  /\ pc[Main] = "finish"
  /\ IF pending > 0 /\ ~died
     THEN Goto(Main, "asleep") /\ UNCHANGED queue
     ELSE /\ Goto(Main, "join")
          /\ queue' = [w \in Worker |-> Append(queue[w], Shutdown)]
  /\ UNCHANGED <<cell, spawned, depth, pending, died, job, out, counts, policy>>

Join ==
  /\ pc[Main] = "join" /\ \A w \in Worker : pc[w] = "gone"
  /\ Goto(Main, "over")
  /\ UNCHANGED <<shared, job, out, counts, policy>>

-----------------------------------------------------------------------------
ActorsInit ==
  /\ policy \in Policies
  /\ queue = [w \in Worker |-> <<>>]
  /\ spawned \in Starts
  /\ cell = [a \in Actor |-> IF a \in spawned THEN "live" ELSE "none"]
  /\ depth = [a \in Actor |-> 0]
  /\ pending = 0 /\ died = FALSE
  /\ pc = [t \in Thread |-> IF t = Main THEN "turn" ELSE "idle"]
  /\ job = [t \in Thread |-> NoJob]
  /\ out = [t \in Thread |-> NoJob]
  /\ made = 0 /\ drops = 0 /\ deadSends = 0 /\ turns = 0

Sending(t) ==
  \/ \E a \in Actor : Spawn(t, a) \/ Send(t, a)
  \/ Reserve(t)
  \/ Park(t)
  \/ Push(t)

Working(w) ==
  \/ Sending(w)
  \/ Take(w)
  \/ EndTurn(w)
  \/ Fault(w)
  \/ AbortMain(w)
  \/ AbortSenders(w)
  \/ Done(w)
  \/ SayQuiet(w)
  \/ Release(w)
  \/ Freed(w)

Mainly == Sending(Main) \/ MainReturns \/ Finish \/ Join

ActorsNext == Mainly \/ \E w \in Worker : Working(w)

\* Every thread that can move is scheduled; turns are finite.
ActorsSpec ==
  /\ ActorsInit /\ [][ActorsNext]_actorVars
  /\ WF_actorVars(Mainly) /\ \A w \in Worker : WF_actorVars(Working(w))

-----------------------------------------------------------------------------
(* Properties.                                                             *)

\* Jobs on a worker's queue, being sent, or being handled.
Queued(w) == {queue[w][i] : i \in DOMAIN queue[w]}
Work == {j \in UNION {Queued(w) : w \in Worker} : j.kind # "shutdown"}
Pushing == {out[t] : t \in {u \in Thread : pc[u] = "push"}}
Taken == {job[w] : w \in {v \in Worker : job[v].kind \in {"create", "send"}}}
Unfinished == {job[w] : w \in {v \in Worker : job[v] # NoJob /\
                                 pc[v] \notin {"last", "release", "gone"}}}

\* Every part of the state has the shape the threads give it, and the count is
\* what is on its way, queued and unfinished, whatever the interleaving.
ActorsTypeOK ==
  /\ policy \in Policies
  /\ cell \in [Actor -> {"none", "live", "dead"}]
  /\ spawned \subseteq Actor /\ made \in 0 .. MaxJob
  /\ died \in BOOLEAN /\ (died => policy.abort)
  /\ \A t \in Thread : out[t] = NoJob \/ out[t].to \in Actor
  /\ pending = Cardinality(Pushing \cup Work \cup Unfinished)

Slots(a) ==
  {j \in Pushing \cup Work \cup Taken :
     j.kind = "send" /\ j.to = a}

\* A mailbox counts exactly the messages that hold a slot, dead actor or not,
\* and never admits more than its bound but for those that may not wait: a
\* worker's to its own actors, and any once the program has died.
MailboxExact ==
  \A a \in Actor : policy.bound[a] # Unbounded =>
    /\ depth[a] = Cardinality(Slots(a))
    /\ Cardinality({j \in Slots(a) : ~j.past}) <= policy.bound[a]
    /\ \A j \in Slots(a) : j.past =>
         died \/ (j.from # Main /\ Home[j.from] = Home[a])

\* Between one sender and one actor messages are handled in the order sent, and
\* none reaches a worker before the job that creates its actor.
Earlier(j) ==
  {k \in Work \cup {out[t] : t \in Thread} :
     k.kind = "send" /\ k.from = j.from /\ k.to = j.to /\ k.no < j.no}

DeliveredInOrder ==
  \A w \in Worker : job[w].kind = "send" =>
    Earlier(job[w]) = {} /\ cell[job[w].to] # "none"

\* A mailbox holds what was sent, no more than its bound, in the order sent.
MailboxesHold == MailboxExact /\ DeliveredInOrder

\* The program ends on its own only when nothing is left: no queue holds a job,
\* no turn runs, and the report adds up: what was spawned or sent had its turn,
\* or was dropped and is counted once.
EndsWhenQuiet ==
  pc[Main] \in {"join", "over"} /\ ~died =>
    /\ Work = {} /\ Unfinished = {} /\ Pushing = {}
    /\ made = turns + drops + deadSends

\* A set of workers each waiting for room in a full mailbox of another of the set.
Cycle ==
  \E S \in SUBSET Worker :
    /\ S # {} /\ ~died
    /\ \A w \in S : pc[w] = "parked" /\ Full(out[w].to) /\ Home[out[w].to] \in S

\* Every program ends, but for the case documented as no guarantee: workers
\* waiting on each other's full mailboxes in a cycle.  No sender is left parked
\* with room to send, and the main thread is not left asleep.
EndsUnlessCycle == <>(pc[Main] = "over" \/ Cycle)
=============================================================================
