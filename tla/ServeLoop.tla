----------------------------- MODULE ServeLoop -----------------------------
(***************************************************************************)
(* The daemon's serve loop (serve_inner in delulu/src/brokerd.rs): readers *)
(* take requests whole, stamp them and hand them over; one handler alone   *)
(* touches custody.  A revocation has a line of its own, read first, and a *)
(* wake on the other for a handler that waits there (ESTOP-QUEUE-1).       *)
(* Dead-men are judged before every request, as of the earliest arrival    *)
(* still waiting (DEADMAN-BUSY-1), once the beats that readers noted have  *)
(* been counted (RW 4.98).                                                 *)
(*                                                                         *)
(* Any interleaving of the readers' steps with the handler's may happen.   *)
(* Of what a request does to custody only its part in the dead-men is      *)
(* modelled; the request that stops the daemon is left out.                *)
(***************************************************************************)
EXTENDS Deadman, SequencesExt

CONSTANTS
  MaxReaders,  \* readers at once, and the length of each line
  MaxNoted,    \* HEARD_NOTED
  MaxRequests, \* bound on the requests ever read
  Kinds        \* what is asked: "arm", "beat", "disarm", "revoke", "other"

ASSUME ServeConstants ==
  /\ MaxReaders \in Nat \ {0}
  /\ MaxNoted \in Nat
  /\ MaxRequests \in 0 .. MaxArmings
  /\ Kinds \subseteq {"arm", "beat", "disarm", "revoke", "other"}

VARIABLES
  readers,     \* stamped requests whose readers have not handed them over
  noted,       \* the beats noted since the last judgment
  requests,    \* the ordinary line, wakes among them
  revocations, \* the revocations' line
  waiting,     \* requests the handler has taken off the ordinary line
  urgent,      \* the revocation it has taken, or Nobody
  pc,          \* where the handler is
  sent,        \* requests read so far
  proof,       \* node -> when the holder of its dead-man was last heard
  stood        \* was a revocation in line when the last request was done

lines == <<readers, requests, revocations>>
loop == <<waiting, urgent, pc, stood>>
loopVars == <<dvars, noted, lines, loop, sent, proof>>

\* A request as it was stamped.
Request(kind, n, k) == [kind |-> kind, node |-> n, key |-> k, at |-> now]
Nobody == [kind |-> "nobody"]

\* What clients may ask: a key is one that was answered, or none of them (0).
Asked ==
  UNION {{Request(kind, n, 0) : kind \in Kinds}
           \cup {Request(kind, n, a.key) : kind \in Kinds \cap {"beat", "disarm"},
                                           a \in told}
         : n \in Node}

-----------------------------------------------------------------------------
(* Readers.                                                                *)

InTime(n) == now < proof[n] + deadmen[n].period

\* (mutant) a beat counts once it is handed over, as before RW 4.98.
StampUnnoted(r) ==
  /\ UNCHANGED noted
  /\ proof' = IF r.kind = "beat" /\ Proves(r.node, r.key) /\ InTime(r.node)
              THEN [proof EXCEPT ![r.node] = now] ELSE proof

\* `note_beat`: stamped and noted under one lock, if there is room.
StampAndNote(r) ==
  LET notes == r.kind = "beat" /\ Len(noted) < MaxNoted
  IN /\ noted' = IF notes THEN Append(noted, r) ELSE noted
     /\ proof' = IF notes /\ Proves(r.node, r.key) /\ InTime(r.node)
                 THEN [proof EXCEPT ![r.node] = now] ELSE proof

\* (mutant) no bound on the readers.
ReadAny(r) ==
  /\ sent < MaxRequests
  /\ r \notin readers
  /\ readers' = readers \cup {r}
  /\ StampAndNote(r)
  /\ sent' = sent + 1
  /\ UNCHANGED <<dvars, requests, revocations, loop>>

Read(r) ==
  /\ sent < MaxRequests
  /\ Cardinality(readers) < MaxReaders
  /\ r \notin readers
  /\ readers' = readers \cup {r}
  /\ StampAndNote(r)
  /\ sent' = sent + 1
  /\ UNCHANGED <<dvars, requests, revocations, loop>>

HandOver(r) ==
  /\ r.kind \notin {"revoke", "wake"}
  /\ Len(requests) < MaxReaders
  /\ requests' = Append(requests, r)
  /\ readers' = readers \ {r}
  /\ UNCHANGED <<dvars, noted, revocations, loop, sent, proof>>

\* The revocation goes into its line; the reader then turns to the wake.
HandOverRevocation(r) ==
  /\ r.kind = "revoke"
  /\ Len(revocations) < MaxReaders
  /\ revocations' = Append(revocations, r)
  /\ readers' = (readers \ {r}) \cup {[r EXCEPT !.kind = "wake"]}
  /\ UNCHANGED <<dvars, noted, requests, loop, sent, proof>>

\* A full line needs no wake, and gets none.
SendWake(r) ==
  /\ r.kind = "wake"
  /\ requests' = IF Len(requests) < MaxReaders THEN Append(requests, r) ELSE requests
  /\ readers' = readers \ {r}
  /\ UNCHANGED <<dvars, noted, revocations, loop, sent, proof>>

Reader(r) == HandOver(r) \/ HandOverRevocation(r) \/ SendWake(r)

-----------------------------------------------------------------------------
(* The handler.                                                            *)

Goto(step) == pc' = step

\* (mutant) the revocations' line is read when the other one is empty.
TakeUrgentLast ==
  /\ pc = "top"
  /\ urgent' = IF revocations = <<>> \/ waiting # <<>> THEN Nobody ELSE Head(revocations)
  /\ revocations' = IF urgent' = Nobody THEN revocations ELSE Tail(revocations)
  /\ Goto("drain")
  /\ UNCHANGED <<dvars, noted, readers, requests, waiting, stood, sent, proof>>

TakeUrgent ==
  /\ pc = "top"
  /\ urgent' = IF revocations = <<>> THEN Nobody ELSE Head(revocations)
  /\ revocations' = IF revocations = <<>> THEN <<>> ELSE Tail(revocations)
  /\ Goto("drain")
  /\ UNCHANGED <<dvars, noted, readers, requests, waiting, stood, sent, proof>>

TakeOne == LET r == Head(requests)
           IN IF r.kind = "wake" THEN waiting ELSE Append(waiting, r)

\* The ordinary line, one request after the other, while there is room.
Drain ==
  /\ pc = "drain"
  /\ \/ /\ requests # <<>>
        /\ Len(waiting) < MaxReaders
        /\ waiting' = TakeOne
        /\ requests' = Tail(requests)
        /\ UNCHANGED pc
     \/ /\ requests = <<>> \/ Len(waiting) = MaxReaders
        /\ Goto(IF urgent = Nobody /\ waiting = <<>> THEN "wait" ELSE "judge")
        /\ UNCHANGED <<waiting, requests>>
  /\ UNCHANGED <<dvars, noted, readers, revocations, urgent, stood, sent, proof>>

\* Nothing to do: the next request, or a wake, which is a reason to look again.
WaitRequest ==
  /\ pc = "wait"
  /\ requests # <<>>
  /\ waiting' = TakeOne
  /\ requests' = Tail(requests)
  /\ Goto(IF Head(requests).kind = "wake" THEN "top" ELSE "judge")
  /\ UNCHANGED <<dvars, noted, readers, revocations, urgent, stood, sent, proof>>

\* (mutant) the wait is for a request only.
WaitForever == FALSE

\* `recv_timeout`, no longer than the nearest deadline.
WaitOver ==
  /\ pc = "wait"
  /\ \E n \in Armed : deadmen[n].deadline <= now
  /\ Goto("judge")
  /\ UNCHANGED <<dvars, noted, lines, waiting, urgent, stood, sent, proof>>

Taken == (IF urgent = Nobody THEN {} ELSE {urgent}) \cup ToSet(waiting)

\* (mutant) judged as of now, as before DEADMAN-BUSY-1.
AsOfNow == now

\* The earliest arrival still waiting.
AsOf == Min({now} \cup {r.at : r \in Taken})

\* The dead-men `men`, once the beats noted in `rs` have counted, in their order.
AfterNotes(men, rs) ==
  LET after[i \in 0 .. Len(rs)] ==
        IF i = 0 THEN men ELSE Heard(after[i - 1], rs[i].node, rs[i].key, rs[i].at)
  IN after[Len(rs)]

Counted == AfterNotes(deadmen, noted)

\* The notes are taken and the time fixed under one lock; then `fire_deadmen`.
JudgeDeadmen ==
  /\ pc = "judge"
  /\ FireExpired(Counted, AsOf)
  /\ noted' = <<>>
  /\ Goto("handle")
  /\ UNCHANGED <<now, lines, waiting, urgent, stood, sent, proof>>

\* What is handled: the revocation first, or the request that waits longest.
First == IF urgent = Nobody THEN Head(waiting) ELSE urgent

\* The holder is heard when its arming or its beat is answered.
Answered(n, k) ==
  proof' = IF ProvesTo(deadmen', n, k) /\ n \notin ended
           THEN [proof EXCEPT ![n] = now] ELSE proof

Perform(r) ==
  \/ /\ r.kind = "arm"
     /\ \E p \in Period, recorded \in BOOLEAN : Arm(r.node, p, recorded)
     /\ IF keys' # keys THEN Answered(r.node, keys') ELSE UNCHANGED proof
  \/ /\ r.kind = "beat"
     /\ Beat(r.node, r.key, r.at)
     /\ Answered(r.node, r.key)
  \/ /\ r.kind = "disarm"
     /\ \E recorded \in BOOLEAN : Disarm(r.node, r.key, r.at, recorded)
     /\ UNCHANGED proof
  \/ /\ r.kind = "revoke"
     /\ End(r.node)
     /\ UNCHANGED proof
  \/ /\ r.kind = "other"
     /\ UNCHANGED <<broker, proof>>

Handle ==
  /\ pc = "handle"
  /\ Taken # {}
  /\ Perform(First)
  /\ waiting' = IF urgent = Nobody THEN Tail(waiting) ELSE waiting
  /\ urgent' = Nobody
  /\ stood' = (revocations # <<>>)
  /\ Goto("top")
  /\ UNCHANGED <<now, noted, lines, sent>>

HandleNothing ==
  /\ pc = "handle"
  /\ Taken = {}
  /\ stood' = (revocations # <<>>)
  /\ Goto("top")
  /\ UNCHANGED <<dvars, noted, lines, waiting, urgent, sent, proof>>

Handler ==
  \/ TakeUrgent
  \/ Drain
  \/ WaitRequest
  \/ WaitOver
  \/ JudgeDeadmen
  \/ Handle
  \/ HandleNothing

TimeGoesOn == Tick /\ UNCHANGED <<noted, lines, loop, sent, proof>>

-----------------------------------------------------------------------------
LoopInit ==
  /\ DeadmanInit
  /\ readers = {}
  /\ noted = <<>>
  /\ requests = <<>>
  /\ revocations = <<>>
  /\ waiting = <<>>
  /\ urgent = Nobody
  /\ pc = "top"
  /\ sent = 0
  /\ proof = [n \in Node |-> 0]
  /\ stood = FALSE

LoopNext ==
  \/ TimeGoesOn
  \/ \E r \in Asked : Read(r)
  \/ \E r \in readers : Reader(r)
  \/ Handler

LoopSpec == LoopInit /\ [][LoopNext]_loopVars

\* The operating system runs the handler's thread and the readers': a thread
\* that can take its next step takes it in the end.
LoopFairness ==
  /\ WF_loopVars(Handler)
  /\ WF_loopVars(\E r \in readers : Reader(r))

FairLoopSpec == LoopSpec /\ LoopFairness

-----------------------------------------------------------------------------
(* Properties.                                                             *)

LoopTypeOK ==
  /\ DeadmanTypeOK
  /\ Cardinality(readers) <= MaxReaders
  /\ Len(requests) <= MaxReaders
  /\ Len(revocations) <= MaxReaders
  /\ Len(waiting) <= MaxReaders
  /\ Len(noted) <= MaxNoted
  /\ pc \in {"top", "drain", "wait", "judge", "handle"}
  /\ \A r \in Taken : r.at <= now

\* The dead-man of `n` fires in this step.
Fires(n) ==
  n \in Armed /\ n \notin DOMAIN deadmen' /\ n \notin ended /\ n \in ended'

\* A dead-man fires only on a holder that was silent for a whole period: a beat
\* read in time counts however late it is handed over and handled, and whatever
\* the handler was held on (DEADMAN-BUSY-1, D-V2-209).
SilenceIsReal ==
  [][\A n \in Node : Fires(n) => proof[n] + deadmen[n].period <= now]_loopVars

DisarmsInTime(n, rs) ==
  \E r \in rs : /\ r.kind = "disarm"
                /\ Proves(n, r.key)
                /\ r.node = n
                /\ r.at < deadmen[n].deadline

\* A disarming that arrived in time and is in the handler's hands is not beaten
\* by the judgment that goes before it.
WaitingDisarmStands ==
  [][\A n \in Node :
       (pc = "judge" /\ Fires(n)) => ~DisarmsInTime(n, Taken)]_loopVars

\* Who spoke in time is not judged silent: neither a holder that beat within its
\* period, nor one whose disarming is in the handler's hands.
JudgedFairly == SilenceIsReal /\ WaitingDisarmStands

\* A revocation waits for the request being handled and for no other: no
\* ordinary request is handled while one stands that was in line when the last
\* was done (ESTOP-QUEUE-1).
RevocationGoesFirst == pc = "handle" /\ stood => urgent # Nobody

\* A dead-man past its deadline fires or is beaten, whatever wakes the loop or
\* does not: an idle daemon fires it too.
DeadlineIsKept ==
  \A n \in Node : (n \in Armed /\ deadmen[n].deadline <= now)
                    ~> (n \notin Armed \/ deadmen[n].deadline > now)

\* What the decision says of disarmings (D-V2-127): judged by when they arrived.
DisarmJudgedByArrival ==
  [][\A n \in Node :
       Fires(n) => ~DisarmsInTime(n, readers \cup ToSet(requests) \cup Taken)]_loopVars

\* What the loop's comment says of a revocation that was handed over: it is
\* handled, with no other request to wait for.
RevocationIsHandled == (revocations # <<>>) ~> (revocations = <<>>)
=============================================================================
