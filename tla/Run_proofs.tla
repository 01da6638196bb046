----------------------------- MODULE Run_proofs -----------------------------
(***************************************************************************)
(* What goes on inside one run.  What it is told of its authority is never *)
(* older than it may be, and what it minted does not outlive it: for every *)
(* number of threads and of nodes, whatever the interval, the period and   *)
(* the time a reply takes, and whichever requests are lost.  And its       *)
(* actors: mailboxes and the count of unfinished jobs are exact, messages  *)
(* keep their order, and the run ends when nothing is left, for every      *)
(* number of workers, actors and jobs and every interleaving of them.      *)
(***************************************************************************)
EXTENDS RunClient, Actors, FiniteSetTheorems, TLAPS

-----------------------------------------------------------------------------
(* The client: the invariant.                                              *)

Kinds == [kind : {"use", "state"}, taken : Time, live : BOOLEAN, ruled : BOOLEAN]
Snapshots == [taken : Time, at : Time, live : BOOLEAN, ruled : BOOLEAN]

\* The types, with the two parts of `ClientTypeOK` that relate them left out.
Types ==
  /\ now \in Time /\ up \in BOOLEAN /\ lease \in BOOLEAN
  /\ phase \in {"new", "issued", "running", "arming", "ended", "killed"}
  /\ overAt \in Time \cup {Never}
  /\ life \in [Node -> {"none", "live", "dead"}]
  /\ diedAt \in Time \cup {Never}
  /\ watch \in [Node -> 0 .. MaxTime + Period \cup {Never}]
  /\ held \subseteq Node /\ arming \in Minted \cup {None}
  /\ minted \subseteq Minted /\ lost \subseteq Node
  /\ late \subseteq [what : {"mint", "arm"}, node : Node]
  /\ ruled \in BOOLEAN /\ ruledAt \in Time \cup {Never}
  /\ asked \in [Client -> {None} \cup Kinds]
  /\ cache \in [Client -> {None} \cup Snapshots]

\* The daemon's tree: a dead-man is armed on live nodes of a daemon that is up,
\* and is not overdue; a live node is below a live root; the root dies once.
TreeInv ==
  /\ \A n \in Node : watch[n] # Never => life[n] = "live" /\ up /\ now <= watch[n]
  /\ \A n \in Node : life[n] = "live" => life[Own] = "live"
  /\ life[Own] # "dead" => diedAt = Never
  /\ ruled => ruledAt # Never

\* Where the run is: its nodes come one at a time, under a lease only the root
\* is there before it, and what it beats has been live; what is handled late is
\* for nodes the run has lost.
PhaseInv ==
  /\ phase \in {"new", "issued"} => ~lease /\ held = {}
  /\ phase = "new" => late = {} /\ \A n \in Node : life[n] = "none"
  /\ \A q \in late : q.node \in lost
  /\ phase = "arming" => lease /\ arming # None
  /\ phase \in {"new", "issued", "running", "ended"} => arming = None
  /\ \A n \in held : life[n] # "none" /\ (life[n] = "live" => watch[n] # Never)
  /\ Over => overAt # Never

\* The nodes whose dead-men stand for all the run holds.
Kept == IF lease THEN Minted ELSE {Own}

\* Those that may be live without one.
Unarmed ==
  lost \cup (IF lease /\ phase = "arming" THEN {arming} ELSE {})
       \cup (IF ~lease /\ phase = "issued" THEN {Own} ELSE {})

\* A dead-man that is not lost is no further off than the run's beats can put it.
WatchInv ==
  /\ \A n \in Kept : life[n] = "live" => watch[n] # Never \/ n \in Unarmed
  /\ \A n \in Node \ lost : watch[n] # Never => watch[n] <= (IF Over THEN overAt ELSE now) + Period

\* An answer, on its way or kept, was true when it was taken: had the root died
\* or a rule come in before, it would say so.
TrueWhenTaken(answer) ==
  /\ answer.taken <= now
  /\ answer.live /\ diedAt # Never => answer.taken <= diedAt
  /\ ~answer.ruled /\ ruled => answer.taken <= ruledAt

AnswerInv ==
  \A c \in Client :
    /\ asked[c] # None => TrueWhenTaken(asked[c])
    /\ cache[c] # None =>
         TrueWhenTaken(cache[c]) /\ cache[c].at <= now
           /\ cache[c].at - cache[c].taken <= Reply

ClientInv == Types /\ TreeInv /\ PhaseInv /\ WatchInv /\ AnswerInv /\ AllowsAreFresh

-----------------------------------------------------------------------------
(* What a revocation does.                                                 *)

\* `Below` is a tree of one level: the root is above every node.
LEMMA BelowRoot ==
  ASSUME RunAssumption
  PROVE  /\ Own \in Node /\ Minted \subseteq Node
         /\ Below(Own) = Node
         /\ \A n \in Node : n \in Below(n) /\ (Own \in Below(n) => n = Own)
BY DEF RunAssumption, Below, Node

\* What a step may do to the tree besides adding to it: live nodes die, with
\* their dead-men and, if the root does, with all that is below it; the root's
\* death is stamped with the moment; and the dead-men of `armed` are armed.
Erodes(armed) ==
  /\ life' \in [Node -> {"none", "live", "dead"}]
  /\ watch' \in [Node -> 0 .. MaxTime + Period \cup {Never}]
  /\ diedAt' \in Time \cup {Never}
  /\ \A n \in Node :
       \/ life'[n] = life[n] /\ watch'[n] = watch[n]
       \/ life[n] = "live" /\ life'[n] = "dead" /\ watch'[n] = Never
       \/ n \in armed /\ up /\ life[n] = "live" /\ life'[n] = "live" /\ watch'[n] = now + Period
  /\ \A n \in Node : life'[n] = "live" => life'[Own] = "live"
  /\ diedAt' = diedAt \/ (diedAt = Never /\ diedAt' = now)
  /\ life'[Own] # "dead" => diedAt' = Never

\* A revocation does no more, and none of the revoked is live after it.
LEMMA RevokedErodes ==
  ASSUME Types, TreeInv, NEW S \in SUBSET Node, Revoked(S)
  PROVE  Erodes({}) /\ \A n \in S : life'[n] # "live"
<1> USE RunAssumption, BelowRoot
<1>1. Dying(S) \subseteq {n \in Node : life[n] = "live"}
  BY DEF Dying
<1>2. \A n \in Node : n \in S /\ life[n] = "live" => n \in Dying(S)
  BY DEF Dying
<1>3. Own \in Dying(S) => \A n \in Node : life[n] = "live" => n \in Dying(S)
  BY DEF Dying
<1>4. /\ life' = [n \in Node |-> IF n \in Dying(S) THEN "dead" ELSE life[n]]
      /\ diedAt' = IF Own \in Dying(S) THEN now ELSE diedAt
      /\ watch' = [n \in Node |-> IF n \in Dying(S) THEN Never ELSE watch[n]]
  BY DEF Revoked
<1>5. \A n \in Node :
        \/ life'[n] = life[n] /\ watch'[n] = watch[n]
        \/ life[n] = "live" /\ life'[n] = "dead" /\ watch'[n] = Never
  BY <1>1, <1>4
<1>6. \A n \in Node : life'[n] = "live" => life'[Own] = "live"
  BY <1>1, <1>3, <1>4 DEF TreeInv
<1>7. /\ life' \in [Node -> {"none", "live", "dead"}]
      /\ watch' \in [Node -> 0 .. MaxTime + Period \cup {Never}]
      /\ diedAt' \in Time \cup {Never}
  BY <1>4 DEF Types
<1>8. /\ diedAt' = diedAt \/ (diedAt = Never /\ diedAt' = now)
      /\ life'[Own] # "dead" => diedAt' = Never
  BY <1>1, <1>4 DEF TreeInv
<1>9. \A n \in S : life'[n] # "live"
  BY <1>2, <1>4
<1> QED
  BY <1>5, <1>6, <1>7, <1>8, <1>9 DEF Erodes

\* Nor does arming, or beating, the dead-man of a live node.
LEMMA ArmedErodes ==
  ASSUME Types, TreeInv, NEW n \in Node, up, life[n] = "live",
         life' = life, diedAt' = diedAt,
         watch' = [watch EXCEPT ![n] = now + Period]
  PROVE  Erodes({n}) /\ watch'[n] # Never
<1> USE RunAssumption
<1>1. now + Period \in 0 .. MaxTime + Period /\ now + Period # Never
  BY DEF Types, Time
<1>2. watch' \in [Node -> 0 .. MaxTime + Period \cup {Never}]
  BY <1>1 DEF Types
<1>3. \A m \in Node : \/ life'[m] = life[m] /\ watch'[m] = watch[m]
                      \/ /\ m = n /\ life'[m] = "live"
                         /\ watch'[m] = now + Period
  BY DEF Types
<1> QED
  BY <1>1, <1>2, <1>3 DEF Erodes, Types, TreeInv

\* Nor does the failure of one; it leaves the node dead, armed or lost.
LEMMA NotArmedErodes ==
  ASSUME Types, TreeInv, NEW n \in Node, NEW gone \in BOOLEAN, NotArmed(n, gone)
  PROVE  /\ Erodes({n})
         /\ life'[n] = "live" => watch'[n] # Never \/ n \in lost'
         /\ lost' \in SUBSET Node /\ lost \subseteq lost'
         /\ late' = late \/ (late' = late \cup {ArmOf(n)} /\ n \in lost')
<1>1. CASE up /\ gone /\ Revoked({n}) /\ UNCHANGED <<lost, late>>
  <2>1. Erodes({}) /\ life'[n] # "live"
    BY <1>1, RevokedErodes
  <2> QED
    BY <1>1, <2>1 DEF Erodes, Types
<1>2. CASE /\ up /\ life[n] = "live"
           /\ watch' = [watch EXCEPT ![n] = now + Period]
           /\ UNCHANGED <<life, diedAt, lost, late>>
  BY <1>2, ArmedErodes DEF Types
<1>3. CASE /\ lost' = lost \cup {n}
           /\ late' = IF up THEN late \cup {ArmOf(n)} ELSE late
           /\ UNCHANGED <<life, diedAt, watch>>
  BY <1>3 DEF Erodes, Types, TreeInv
<1> QED
  BY <1>1, <1>2, <1>3 DEF NotArmed

\* What erosion leaves true of the tree.
LEMMA ErodedTree ==
  ASSUME Types, TreeInv, NEW armed, Erodes(armed),
         UNCHANGED <<now, ruled, ruledAt>>,
         up' = up \/ \A n \in Node : life'[n] # "live"
  PROVE  TreeInv'
<1> USE RunAssumption
<1>1. ASSUME NEW n \in Node, watch'[n] # Never
      PROVE  life'[n] = "live" /\ up' /\ now' <= watch'[n]
  BY <1>1 DEF Erodes, TreeInv, Types, Time
<1> QED
  BY <1>1 DEF Erodes, TreeInv

\* And of the dead-men on what the run keeps.
LEMMA ErodedWatch ==
  ASSUME Types, WatchInv, NEW armed, Erodes(armed),
         UNCHANGED <<now, lease>>,
         lost \subseteq lost',
         \A n \in Unarmed : life'[n] = "live" => watch'[n] # Never \/ n \in Unarmed',
         Over => armed \subseteq lost /\ Over' /\ UNCHANGED overAt,
         Over' => overAt' = now \/ Over
  PROVE  WatchInv'
<1> USE RunAssumption
<1>1. ASSUME NEW n \in Kept, life'[n] = "live"
      PROVE  watch'[n] # Never \/ n \in Unarmed'
  BY <1>1, BelowRoot DEF Erodes, WatchInv, Types, Time, Kept
<1>2. ASSUME NEW n \in Node \ lost', watch'[n] # Never
      PROVE  watch'[n] <= (IF Over' THEN overAt' ELSE now') + Period
  BY <1>2 DEF Erodes, WatchInv, Types, Time
<1> QED
  BY <1>1, <1>2 DEF WatchInv, Kept

\* What an answer says stays true of the moment it was taken: deaths and rules
\* come later, and no time is given back.
LEMMA AnswersStayTrue ==
  ASSUME Types, TreeInv, now' \in Time, now <= now', AnswerInv,
         diedAt' = diedAt \/ (diedAt = Never /\ diedAt' = now),
         (ruled' = ruled /\ ruledAt' = ruledAt) \/ ruledAt' = now,
         \A c \in Client : asked'[c] = asked[c] \/ asked'[c] = None,
         \A c \in Client : cache'[c] = cache[c] \/ cache'[c] = None
  PROVE  AnswerInv'
<1> USE RunAssumption
<1>1. ASSUME NEW c \in Client, asked'[c] # None
      PROVE  TrueWhenTaken(asked[c])'
  <2>1. asked'[c] = asked[c] /\ asked[c] \in Kinds /\ TrueWhenTaken(asked[c])
    BY <1>1 DEF Types, AnswerInv
  <2> QED
    BY <2>1 DEF TrueWhenTaken, Types, Time, Kinds
<1>2. ASSUME NEW c \in Client, cache'[c] # None
      PROVE  TrueWhenTaken(cache[c])' /\ cache'[c].at <= now'
               /\ cache'[c].at - cache'[c].taken <= Reply
  <2>1. /\ cache'[c] = cache[c] /\ cache[c] \in Snapshots
        /\ TrueWhenTaken(cache[c]) /\ cache[c].at <= now
        /\ cache[c].at - cache[c].taken <= Reply
    BY <1>2 DEF Types, AnswerInv
  <2> QED
    BY <2>1 DEF TrueWhenTaken, Types, Time, Snapshots
<1> QED
  BY <1>1, <1>2 DEF AnswerInv

\* A step that answers nobody serves nothing stale.
LEMMA SilentIsFresh == Silent => AllowsAreFresh'
BY DEF Silent, AllowsAreFresh

-----------------------------------------------------------------------------
(* The invariant holds: the daemon's steps.                                *)

\* It holds at the start.
LEMMA ClientStarts == ClientInit => ClientInv
<1> USE RunAssumption DEF ClientInit
<1>1. ClientInit => Types
  <2>1. ClientInit => now \in Time /\ 0 \in Nat
    BY DEF Time
  <2> QED
    BY <2>1 DEF Types, Time, Node
<1>2. ClientInit => TreeInv /\ PhaseInv
  BY DEF TreeInv, PhaseInv, Over, Node
<1>3. ClientInit => WatchInv
  BY DEF WatchInv, Kept, Node
<1>4. ClientInit => AnswerInv /\ AllowsAreFresh
  BY DEF AnswerInv, AllowsAreFresh, Quiet
<1> QED
  BY <1>1, <1>2, <1>3, <1>4 DEF ClientInv

\* A revocation, a dead-man that fires and the daemon's own end.
LEMMA RevocationKeeps ==
  ASSUME ClientInv, NEW S \in SUBSET Node, Revoked(S), Silent,
         UNCHANGED <<now, ruled, ruledAt, run, views>>,
         up' = up \/ (up' = FALSE /\ S = Node), late' = late \/ late' = {}
  PROVE  ClientInv'
<1> USE DEF ClientInv
<1>1. Erodes({}) /\ \A n \in S : life'[n] # "live"
  BY RevokedErodes
<1>2. Types'
  BY <1>1 DEF Types, Erodes, run, views, Time
<1>3. TreeInv'
  BY <1>1, ErodedTree
<1>4. PhaseInv'
  BY <1>1 DEF PhaseInv, Types, Erodes, Over, run
<1>5. WatchInv'
  <2>1. Unarmed' = Unarmed /\ Over' = Over /\ UNCHANGED <<lease, overAt, lost>>
    BY DEF Unarmed, Over, run
  <2> QED
    BY <1>1, <2>1, ErodedWatch
<1>6. AnswerInv'
  BY <1>1, <1>2, AnswersStayTrue DEF Types, Time, Erodes, views
<1> QED
  BY <1>2, <1>3, <1>4, <1>5, <1>6, SilentIsFresh

\* A new or lifted rule, a daemon that comes back, and the passing of time.
LEMMA RuleKeeps ==
  ASSUME ClientInv, NEW on \in BOOLEAN, Rule(on)
  PROVE  ClientInv'
<1> USE RunAssumption DEF ClientInv, Rule, run, views
<1>1. Types'
  BY DEF Types, Time
<1>2. TreeInv' /\ PhaseInv' /\ WatchInv'
  BY DEF TreeInv, PhaseInv, WatchInv, Kept, Unarmed, Types, Time, Over
<1>3. AnswerInv'
  BY <1>1, AnswersStayTrue DEF Types, Time
<1> QED
  BY <1>1, <1>2, <1>3, SilentIsFresh

\* A run that starts is where its use began.
LEMMA StartKeeps ==
  ASSUME ClientInv, DaemonStarts
  PROVE  ClientInv'
<1> USE RunAssumption DEF ClientInv, DaemonStarts, run, views
<1>1. Types'
  BY DEF Types
<1>2. TreeInv' /\ PhaseInv' /\ WatchInv'
  BY DEF TreeInv, PhaseInv, WatchInv, Kept, Unarmed, Over
<1>3. AnswerInv'
  BY <1>1, AnswersStayTrue DEF Types, Time
<1> QED
  BY <1>1, <1>2, <1>3, SilentIsFresh

\* Time alone makes no answer stale.
LEMMA TickKeeps ==
  ASSUME ClientInv, Tick
  PROVE  ClientInv'
<1> USE RunAssumption DEF ClientInv, Tick, daemon, run, views
<1>1. Types'
  BY DEF Types, Time
<1>2. TreeInv'
  BY DEF TreeInv, Types, Time, Due
<1>3. PhaseInv'
  BY DEF PhaseInv, Over
<1>4. WatchInv'
  BY DEF WatchInv, Kept, Unarmed, Types, Time, Over
<1>5. AnswerInv'
  BY <1>1, AnswersStayTrue DEF Types, Time
<1> QED
  BY <1>1, <1>2, <1>3, <1>4, <1>5, SilentIsFresh

\* A mint or an issue handled when nobody waits for it: the node is lost already.
LEMMA MintLateKeeps ==
  ASSUME ClientInv, NEW n \in Node, MintLate(n)
  PROVE  ClientInv'
<1> USE RunAssumption, BelowRoot DEF ClientInv, MintLate, MintOf, run, views
<1>1. /\ n \in lost /\ phase # "new" /\ late' \subseteq late
      /\ life[n] = "none" /\ watch[n] = Never /\ n \notin held
      /\ life' = [m \in Node |-> IF m = n THEN "live" ELSE life[m]]
      /\ life'[Own] = "live" /\ (n # Own => life[Own] = "live")
  BY DEF PhaseInv, TreeInv, Types, Born
<1>2. Types'
  BY <1>1 DEF Types
<1>3. TreeInv'
  BY <1>1 DEF TreeInv, Types
<1>4. PhaseInv'
  BY <1>1 DEF PhaseInv, Over, Types
<1>5. WatchInv'
  BY <1>1 DEF WatchInv, Kept, Unarmed, Over, Types
<1>6. AnswerInv'
  BY <1>2, AnswersStayTrue DEF Types, Time
<1> QED
  BY <1>2, <1>3, <1>4, <1>5, <1>6, SilentIsFresh

\* And an arming.
LEMMA ArmLateKeeps ==
  ASSUME ClientInv, NEW n \in Node, ArmLate(n)
  PROVE  ClientInv'
<1> USE RunAssumption, BelowRoot DEF ClientInv
<1>1. /\ up /\ life[n] = "live" /\ n \in lost /\ late' \subseteq late /\ Silent
      /\ watch' = [watch EXCEPT ![n] = now + Period]
      /\ UNCHANGED <<now, up, life, diedAt, ruled, ruledAt, lease, phase, overAt, held,
                     arming, minted, lost, views>>
  BY DEF ArmLate, ArmOf, PhaseInv, run
<1>2. Erodes({n}) /\ watch'[n] # Never
  BY <1>1, ArmedErodes
<1>3. Types'
  BY <1>1, <1>2 DEF Types, Erodes, views
<1>4. TreeInv'
  BY <1>1, <1>2, ErodedTree
<1>5. PhaseInv'
  BY <1>1, <1>2 DEF PhaseInv, Over, Types
<1>6. WatchInv'
  <2>1. Unarmed' = Unarmed /\ Over' = Over
    BY <1>1 DEF Unarmed, Over
  <2>2. \A m \in Unarmed : life'[m] = "live" => watch'[m] # Never \/ m \in Unarmed'
    BY <2>1
  <2> QED
    BY <1>1, <1>2, <2>1, <2>2, ErodedWatch
<1>7. AnswerInv'
  BY <1>1, <1>2, <1>3, AnswersStayTrue DEF Types, Time, views
<1> QED
  BY <1>1, <1>3, <1>4, <1>5, <1>6, <1>7, SilentIsFresh

-----------------------------------------------------------------------------
(* The invariant holds: the run's steps.                                   *)

\* A node is born, the root, or the run ends with it lost.
LEMMA IssueKeeps ==
  ASSUME ClientInv, NEW answered \in BOOLEAN, IssueRoot(answered)
  PROVE  ClientInv'
<1> USE RunAssumption, BelowRoot DEF ClientInv, views
<1>1. /\ phase = "new" /\ ~lease /\ held = {} /\ late = {} /\ arming = None /\ Silent
      /\ \A n \in Node : life[n] = "none" /\ watch[n] = Never
      /\ UNCHANGED <<now, up, diedAt, watch, ruled, ruledAt, lease, held, arming, minted, views>>
  BY DEF IssueRoot, PhaseInv, TreeInv
<1>2. \/ /\ phase' = "issued" /\ UNCHANGED <<overAt, lost, late>>
         /\ life' = [n \in Node |-> IF n = Own THEN "live" ELSE "none"]
      \/ /\ phase' = "ended" /\ overAt' = now /\ UNCHANGED life
         /\ lost' = {Own} /\ late' = {MintOf(Own)}
  BY <1>1 DEF IssueRoot, Born, Types
<1>3. Types'
  BY <1>1, <1>2 DEF Types, MintOf
<1>4. TreeInv'
  BY <1>1, <1>2 DEF TreeInv
<1>5. PhaseInv'
  BY <1>1, <1>2 DEF PhaseInv, Over, MintOf, Types, Time
<1>6. WatchInv'
  BY <1>1, <1>2 DEF WatchInv, Kept, Unarmed, Over
<1>7. AnswerInv'
  BY <1>1, <1>3, AnswersStayTrue DEF Types, Time
<1> QED
  BY <1>1, <1>3, <1>4, <1>5, <1>6, <1>7, SilentIsFresh

\* A mint adds a node that nothing cached knows of, or loses one.
LEMMA MintKeeps ==
  ASSUME ClientInv, NEW n \in Minted, NEW answered \in BOOLEAN, Mint(n, answered)
  PROVE  ClientInv'
<1> USE RunAssumption, BelowRoot DEF ClientInv, views
<1>1. /\ n \in Node /\ n # Own /\ n # None /\ phase = "running" /\ Silent
      /\ life[n] = "none" /\ watch[n] = Never /\ n \notin held /\ n \notin lost
      /\ UNCHANGED <<now, up, diedAt, watch, ruled, ruledAt, lease, overAt, held, views>>
  <2>1. phase = "running" /\ MintOf(n) \in Asking
    BY DEF Mint
  <2>2. \E m \in Minted \ lost : life[m] = "none" /\ MintOf(n) = MintOf(m)
    BY <2>1 DEF Asking
  <2>3. n \notin lost /\ life[n] = "none"
    BY <2>2 DEF MintOf
  <2> QED
    BY <2>1, <2>3 DEF Mint, PhaseInv, TreeInv, Types
<1>2. CASE /\ life[Own] = "live" /\ Born(n)
           /\ IF lease THEN phase' = "arming" /\ arming' = n /\ UNCHANGED minted
              ELSE minted' = minted \cup {n} /\ UNCHANGED <<phase, arming>>
           /\ UNCHANGED <<lost, late>>
  <2>1. /\ life' = [m \in Node |-> IF m = n THEN "live" ELSE life[m]]
        /\ life[Own] = "live" /\ life'[Own] = "live"
    BY <1>1, <1>2 DEF Types, Born
  <2>2. Types'
    BY <1>1, <1>2, <2>1 DEF Types
  <2>3. TreeInv'
    BY <1>1, <2>1 DEF TreeInv, Types
  <2>4. PhaseInv'
    BY <1>1, <1>2, <2>1 DEF PhaseInv, Over, Types
  <2>5. WatchInv'
    BY <1>1, <1>2, <2>1 DEF WatchInv, Kept, Unarmed, Over, Types
  <2>6. AnswerInv'
    BY <1>1, <2>2, AnswersStayTrue DEF Types, Time
  <2> QED
    BY <1>1, <2>2, <2>3, <2>4, <2>5, <2>6, SilentIsFresh
<1>3. CASE /\ lost' = lost \cup {n} /\ late' = late \cup {MintOf(n)}
           /\ UNCHANGED <<life, phase, arming, minted>>
  <2>1. Types'
    BY <1>1, <1>3 DEF Types, MintOf
  <2>2. TreeInv'
    BY <1>1, <1>3 DEF TreeInv
  <2>3. PhaseInv'
    BY <1>1, <1>3 DEF PhaseInv, Over, MintOf
  <2>4. WatchInv'
    BY <1>1, <1>3 DEF WatchInv, Kept, Unarmed, Over
  <2>5. AnswerInv'
    BY <1>1, <2>1, AnswersStayTrue DEF Types, Time
  <2> QED
    BY <1>1, <2>1, <2>2, <2>3, <2>4, <2>5, SilentIsFresh
<1> QED
  BY <1>2, <1>3 DEF Mint

\* The root's dead-man at the start.
LEMMA HoldKeeps ==
  ASSUME ClientInv, NEW armed \in BOOLEAN, NEW gone \in BOOLEAN, Hold(armed, gone)
  PROVE  ClientInv'
<1> USE RunAssumption, BelowRoot DEF ClientInv
<1>1. /\ phase = "issued" /\ ~lease /\ held = {} /\ arming = None /\ Silent
      /\ UNCHANGED <<now, up, ruled, ruledAt, lease, arming, minted, views>>
  BY DEF Hold, PhaseInv
<1>2. CASE /\ up /\ life[Own] = "live" /\ phase' = "running"
           /\ watch' = [watch EXCEPT ![Own] = now + Period]
           /\ held' = {Own}
           /\ UNCHANGED <<life, diedAt, overAt, lost, late>>
  <2>1. Erodes({Own}) /\ watch'[Own] # Never
    BY <1>2, ArmedErodes
  <2>2. Types'
    BY <1>1, <1>2, <2>1 DEF Types, Erodes, views
  <2>3. TreeInv'
    BY <1>1, <2>1, ErodedTree
  <2>4. PhaseInv'
    BY <1>1, <1>2, <2>1 DEF PhaseInv, Over
  <2>5. WatchInv'
    BY <1>1, <1>2, <2>1, ErodedWatch DEF Unarmed, Over
  <2>6. AnswerInv'
    BY <1>1, <1>2, <2>1, <2>2, AnswersStayTrue DEF Types, Time, views
  <2> QED
    BY <1>1, <2>2, <2>3, <2>4, <2>5, <2>6, SilentIsFresh
<1>3. CASE /\ phase' = "ended" /\ overAt' = now
           /\ NotArmed(Own, gone) /\ UNCHANGED held
  <2>1. /\ Erodes({Own})
        /\ life'[Own] = "live" => watch'[Own] # Never \/ Own \in lost'
        /\ lost' \in SUBSET Node /\ lost \subseteq lost'
        /\ late' = late \/ (late' = late \cup {ArmOf(Own)} /\ Own \in lost')
    BY <1>3, NotArmedErodes
  <2>2. Types'
    BY <1>1, <1>3, <2>1 DEF Types, Erodes, views, ArmOf
  <2>3. TreeInv'
    BY <1>1, <2>1, ErodedTree
  <2>4. PhaseInv'
    BY <1>1, <1>3, <2>1 DEF PhaseInv, Over, Types, Time, ArmOf
  <2>5. WatchInv'
    BY <1>1, <1>3, <2>1, ErodedWatch DEF Unarmed, Over
  <2>6. AnswerInv'
    BY <1>1, <2>1, <2>2, AnswersStayTrue DEF Types, Time, views, Erodes
  <2> QED
    BY <1>1, <2>2, <2>3, <2>4, <2>5, <2>6, SilentIsFresh
<1> QED
  BY <1>2, <1>3 DEF Hold

\* The dead-man of a node just minted under a lease.
LEMMA ArmMintedKeeps ==
  ASSUME ClientInv, NEW armed \in BOOLEAN, NEW gone \in BOOLEAN, ArmMinted(armed, gone)
  PROVE  ClientInv'
<1> USE RunAssumption, BelowRoot DEF ClientInv
<1>1. /\ phase = "arming" /\ lease /\ arming \in Minted /\ arming \in Node
      /\ phase' = "running" /\ arming' = None /\ Silent
      /\ UNCHANGED <<now, up, ruled, ruledAt, lease, overAt, views>>
  BY DEF ArmMinted, PhaseInv, Types
<1>2. /\ Erodes({arming})
      /\ life'[arming] = "live" => watch'[arming] # Never \/ arming \in lost'
      /\ lost' \in SUBSET Node /\ lost \subseteq lost'
      /\ held' \subseteq Node /\ minted' \subseteq Minted
      /\ late' = late \/ (late' = late \cup {ArmOf(arming)} /\ arming \in lost')
      /\ \A n \in held' : n \in held \/ (n = arming /\ life'[n] # "none" /\ watch'[n] # Never)
  <2>1. CASE /\ up /\ life[arming] = "live"
             /\ watch' = [watch EXCEPT ![arming] = now + Period]
             /\ held' = held \cup {arming} /\ minted' = minted \cup {arming}
             /\ UNCHANGED <<life, diedAt, lost, late>>
    <3>1. Erodes({arming}) /\ watch'[arming] # Never
      BY <1>1, <2>1, ArmedErodes
    <3> QED
      BY <1>1, <2>1, <3>1 DEF Types
  <2>2. CASE NotArmed(arming, gone) /\ UNCHANGED <<held, minted>>
    <3>1. /\ Erodes({arming})
          /\ life'[arming] = "live" => watch'[arming] # Never \/ arming \in lost'
          /\ lost' \in SUBSET Node /\ lost \subseteq lost'
          /\ late' = late \/ (late' = late \cup {ArmOf(arming)} /\ arming \in lost')
      BY <1>1, <2>2, NotArmedErodes
    <3> QED
      BY <1>1, <2>2, <3>1 DEF Types
  <2> QED
    BY <2>1, <2>2 DEF ArmMinted
<1>3. Types'
  BY <1>1, <1>2 DEF Types, Erodes, views, ArmOf
<1>4. TreeInv'
  BY <1>1, <1>2, ErodedTree
<1>5. PhaseInv'
  BY <1>1, <1>2 DEF PhaseInv, Over, Erodes, Types, Time, ArmOf
<1>6. WatchInv'
  BY <1>1, <1>2, ErodedWatch DEF Unarmed, Over
<1>7. AnswerInv'
  BY <1>1, <1>2, <1>3, AnswersStayTrue DEF Types, Time, views, Erodes
<1> QED
  BY <1>1, <1>3, <1>4, <1>5, <1>6, <1>7, SilentIsFresh

\* A beat.
LEMMA BeatKeeps ==
  ASSUME ClientInv, NEW n \in Node, Beat(n)
  PROVE  ClientInv'
<1> USE RunAssumption, BelowRoot DEF ClientInv
<1>1. /\ Going /\ up /\ n \in held /\ Silent
      /\ UNCHANGED <<now, up, life, diedAt, late, ruled, ruledAt, lease, phase, overAt, arming,
                     minted, lost, views>>
  BY DEF Beat
<1>2. Erodes({n}) /\ held' \subseteq held /\ (n \in held' => watch'[n] # Never)
  <2>1. CASE watch[n] # Never
    <3>1. life[n] = "live" /\ watch' = [watch EXCEPT ![n] = now + Period] /\ UNCHANGED held
      BY <2>1 DEF Beat, TreeInv
    <3> QED
      BY <1>1, <3>1, ArmedErodes
  <2>2. CASE watch[n] = Never
    BY <2>2 DEF Beat, Erodes, Types, TreeInv
  <2> QED
    BY <2>1, <2>2
<1>3. Types'
  BY <1>1, <1>2 DEF Types, Erodes, views
<1>4. TreeInv'
  BY <1>1, <1>2, ErodedTree
<1>5. PhaseInv'
  BY <1>1, <1>2 DEF PhaseInv, Over, Erodes, Types, Time
<1>6. WatchInv'
  <2>1. Unarmed' = Unarmed /\ ~Over /\ ~Over'
    BY <1>1 DEF Unarmed, Over, Going
  <2> QED
    BY <1>1, <1>2, <2>1, ErodedWatch
<1>7. AnswerInv'
  BY <1>1, <1>2, <1>3, AnswersStayTrue DEF Types, Time, views, Erodes
<1> QED
  BY <1>1, <1>3, <1>4, <1>5, <1>6, <1>7, SilentIsFresh

\* The run's end, in order or not.
LEMMA EndRunKeeps ==
  ASSUME ClientInv, NEW reached \in SUBSET Node, EndRun(reached)
  PROVE  ClientInv'
<1> USE RunAssumption, BelowRoot DEF ClientInv
<1>1. /\ phase = "running" /\ phase' = "ended" /\ overAt' = now /\ held' = {} /\ NoViews
      /\ minted' = {} /\ Silent
      /\ UNCHANGED <<now, up, late, ruled, ruledAt, lease, arming, lost>>
      /\ arming = None
  BY DEF EndRun, PhaseInv
<1>2. Erodes({})
  <2>1. Revoked(IF up THEN reached ELSE {})
    BY DEF EndRun
  <2> QED
    BY <2>1, RevokedErodes
<1>3. Types'
  BY <1>1, <1>2 DEF Types, Erodes, NoViews
<1>4. TreeInv'
  BY <1>1, <1>2, ErodedTree
<1>5. PhaseInv'
  BY <1>1 DEF PhaseInv, Over, Types, Time
<1>6. WatchInv'
  BY <1>1, <1>2, ErodedWatch DEF Unarmed, Over
<1>7. AnswerInv'
  BY <1>1 DEF NoViews, AnswerInv
<1> QED
  BY <1>1, <1>3, <1>4, <1>5, <1>6, <1>7, SilentIsFresh

\* Killed anywhere, a run has lost what it had asked for or not yet armed.
LEMMA KillKeeps ==
  ASSUME ClientInv, KillRun
  PROVE  ClientInv'
<1> USE RunAssumption, BelowRoot DEF ClientInv
<1>1. /\ ~Over /\ phase' = "killed" /\ overAt' = now /\ held' = {} /\ NoViews
      /\ minted' = {} /\ Silent
      /\ UNCHANGED <<now, up, life, diedAt, watch, ruled, ruledAt, lease, arming>>
  BY DEF KillRun
<1>2. /\ Asking \subseteq [what : {"mint", "arm"}, node : Node]
      /\ phase = "arming" => \A q \in Asking : q.node = arming
      /\ phase = "issued" => \A q \in Asking : q.node = Own
  BY DEF Asking, MintOf, ArmOf, PhaseInv, Types
<1>3. /\ lost \subseteq lost' /\ lost' \subseteq Node
      /\ late' \subseteq [what : {"mint", "arm"}, node : Node]
      /\ \A q \in late' : q.node \in lost'
      /\ phase = "arming" => arming \in lost'
      /\ phase = "issued" => Own \in lost'
  <2>1. CASE \E q \in Asking : /\ lost' = lost \cup {q.node}
                               /\ late' = IF up THEN late \cup {q} ELSE late
    <3>1. PICK q \in Asking : /\ lost' = lost \cup {q.node}
                              /\ late' = IF up THEN late \cup {q} ELSE late
      BY <2>1
    <3> QED
      BY <1>2, <3>1 DEF Types, PhaseInv
  <2>2. CASE phase \in {"new", "running"} /\ UNCHANGED <<lost, late>>
    BY <2>2 DEF Types, PhaseInv
  <2> QED
    BY <2>1, <2>2 DEF KillRun
<1>4. Erodes({})
  BY <1>1 DEF Erodes, Types, TreeInv
<1>5. Types'
  BY <1>1, <1>3 DEF Types, NoViews
<1>6. TreeInv'
  BY <1>1, <1>4, ErodedTree
<1>7. PhaseInv'
  BY <1>1, <1>3 DEF PhaseInv, Over, Types, Time
<1>8. WatchInv'
  <2>1. Unarmed \subseteq Unarmed'
    BY <1>1, <1>3 DEF Unarmed, Over
  <2> QED
    BY <1>1, <1>3, <1>4, <2>1, ErodedWatch DEF Over
<1>9. AnswerInv'
  BY <1>1 DEF NoViews, AnswerInv
<1> QED
  BY <1>1, <1>5, <1>6, <1>7, <1>8, <1>9, SilentIsFresh

-----------------------------------------------------------------------------
(* The invariant holds: the uses.                                          *)

\* What the daemon answers is true when it answers.
LEMMA QuestionsAreTrue ==
  ASSUME Types, TreeInv, NEW kind \in {"use", "state"}
  PROVE  Question(kind) \in Kinds /\ TrueWhenTaken(Question(kind))
<1>1. /\ now \in Time /\ now \in Int /\ (life[Own] = "live") \in BOOLEAN /\ ruled \in BOOLEAN
      /\ life[Own] = "live" => diedAt = Never
  BY DEF Types, TreeInv, Time
<1>2. Question(kind) \in Kinds
  BY <1>1 DEF Question, Kinds
<1>3. TrueWhenTaken(Question(kind))
  <2> DEFINE answer == Question(kind)
  <2>1. /\ answer.taken = now
        /\ answer.live = (life[Own] = "live")
        /\ answer.ruled = ruled
    BY Zenon DEF Question
  <2> HIDE DEF answer
  <2>2. answer.taken <= now
    BY <1>1, <2>1
  <2>3. answer.live => diedAt = Never
    BY <1>1, <2>1, Zenon
  <2>4. ruled => answer.ruled
    BY <2>1, Zenon
  <2>5. TrueWhenTaken(answer)
    BY <2>2, <2>3, <2>4, Zenon DEF TrueWhenTaken
  <2> QED
    BY <2>5 DEF answer
<1> QED
  BY <1>2, <1>3

\* A client may put true answers for those it had.
LEMMA ViewsKeep ==
  ASSUME ClientInv, NEW c \in Client, UNCHANGED <<now, daemon, run>>, AllowsAreFresh',
         NEW answer, answer = None \/ (answer \in Kinds /\ TrueWhenTaken(answer)),
         NEW snapshot,
         \/ snapshot = None \/ snapshot = cache[c]
         \/ /\ snapshot \in Snapshots /\ TrueWhenTaken(snapshot)
            /\ snapshot.at <= now /\ snapshot.at - snapshot.taken <= Reply,
         asked' = [asked EXCEPT ![c] = answer], cache' = [cache EXCEPT ![c] = snapshot]
  PROVE  ClientInv'
<1> USE RunAssumption DEF ClientInv
<1>1. UNCHANGED <<now, up, life, diedAt, watch, late, ruled, ruledAt, lease, phase, overAt,
                  held, arming, minted, lost>>
  BY DEF daemon, run
<1>2. /\ asked' \in [Client -> {None} \cup Kinds]
      /\ cache' \in [Client -> {None} \cup Snapshots]
  BY DEF Types
<1>3. Types'
  BY <1>1, <1>2 DEF Types
<1>4. TreeInv' /\ PhaseInv' /\ WatchInv'
  BY <1>1 DEF TreeInv, PhaseInv, WatchInv, Kept, Unarmed, Over
<1>5. ASSUME NEW d \in Client
      PROVE  /\ asked'[d] # None => TrueWhenTaken(asked[d])'
             /\ cache'[d] # None =>
                  TrueWhenTaken(cache[d])' /\ cache'[d].at <= now'
                    /\ cache'[d].at - cache'[d].taken <= Reply
  <2>1. /\ asked'[d] = IF d = c THEN answer ELSE asked[d]
        /\ cache'[d] = IF d = c THEN snapshot ELSE cache[d]
    BY DEF Types
  <2>2. asked'[d] # None => TrueWhenTaken(asked[d])'
    BY <1>1, <2>1 DEF AnswerInv, TrueWhenTaken
  <2>3. cache'[d] # None =>
          TrueWhenTaken(cache[d])' /\ cache'[d].at <= now'
            /\ cache'[d].at - cache'[d].taken <= Reply
    BY <1>1, <2>1 DEF AnswerInv, TrueWhenTaken
  <2> QED
    BY <2>2, <2>3
<1>6. AnswerInv'
  BY <1>5 DEF AnswerInv
<1> QED
  BY <1>3, <1>4, <1>6

\* Judged by a snapshot that is true and not too old, a use is served as a
\* fresh one is; and the question that may take its place is true.
LEMMA JudgedIsFresh ==
  ASSUME ClientInv, NEW c \in Client, UNCHANGED <<now, daemon, run>>,
         NEW snapshot \in Snapshots, TrueWhenTaken(snapshot),
         now - snapshot.taken < Reply + Epoch, Judge(c, snapshot)
  PROVE  /\ AllowsAreFresh'
         /\ \E answer : /\ answer = None \/ (answer \in Kinds /\ TrueWhenTaken(answer))
                        /\ asked' = [asked EXCEPT ![c] = answer]
<1> USE RunAssumption DEF ClientInv
<1>1. CASE snapshot.ruled
  <2>1. Question("use") \in Kinds /\ TrueWhenTaken(Question("use"))
    BY QuestionsAreTrue
  <2>2. Silent /\ asked' = [asked EXCEPT ![c] = IF up THEN Question("use") ELSE None]
    BY <1>1 DEF Judge
  <2> QED
    BY <2>1, <2>2, SilentIsFresh
<1>2. CASE ~snapshot.ruled
  <2>1. served'.ok = snapshot.live /\ served'.by = "snapshot"
        /\ asked' = [asked EXCEPT ![c] = None]
    BY <1>2 DEF Judge, Serve
  <2>2. UNCHANGED <<now, diedAt, ruled, ruledAt>>
    BY DEF daemon
  <2>3. served'.ok => Since(diedAt, Reply + Epoch)
    BY <2>1 DEF TrueWhenTaken, Since, Types, Snapshots, Time
  <2>4. ruled => Since(ruledAt, Reply + Epoch)
    BY <1>2 DEF TrueWhenTaken, Since, Types, Snapshots, Time, TreeInv
  <2>5. AllowsAreFresh'
    BY <2>1, <2>2, <2>3, <2>4 DEF AllowsAreFresh, Since
  <2> QED
    BY <2>1, <2>5
<1> QED
  BY <1>1, <1>2 DEF Types, Snapshots

\* A use answers from the snapshot or from the broker.
LEMMA UsesKeep ==
  ASSUME ClientInv, NEW c \in Client,
         \/ SyncUse(c) \/ \E permitted \in BOOLEAN : SyncAnswered(c, permitted)
         \/ Refresh(c) \/ Refreshed(c) \/ EpochUse(c) \/ GaveUp(c)
  PROVE  ClientInv'
<1> USE RunAssumption DEF ClientInv
<1>1. cache = [cache EXCEPT ![c] = cache[c]] /\ asked = [asked EXCEPT ![c] = asked[c]]
  BY DEF Types
<1>2. \A kind \in {"use", "state"} : Question(kind) \in Kinds /\ TrueWhenTaken(Question(kind))
  BY QuestionsAreTrue
<1>3. asked[c] # None => asked[c] \in Kinds /\ TrueWhenTaken(asked[c])
  BY DEF Types, AnswerInv
<1>4. cache[c] # None => /\ cache[c] \in Snapshots /\ TrueWhenTaken(cache[c])
                         /\ cache[c].at <= now /\ cache[c].at - cache[c].taken <= Reply
  BY DEF Types, AnswerInv
<1>5. CASE SyncUse(c)
  <2>1. /\ asked' = [asked EXCEPT ![c] = Question("use")] /\ cache' = [cache EXCEPT ![c] = cache[c]]
        /\ AllowsAreFresh' /\ UNCHANGED <<now, daemon, run>>
    BY <1>1, <1>5, SilentIsFresh DEF SyncUse
  <2> QED
    BY <1>2, <2>1, ViewsKeep
<1>6. ASSUME NEW permitted \in BOOLEAN, SyncAnswered(c, permitted)
      PROVE  ClientInv'
  <2>1. /\ asked' = [asked EXCEPT ![c] = None] /\ cache' = [cache EXCEPT ![c] = cache[c]]
        /\ UNCHANGED <<now, daemon, run>>
    BY <1>1, <1>6 DEF SyncAnswered
  <2>2. /\ served'.ok => asked[c].live
        /\ served'.by = "broker"
        /\ asked[c] # None /\ now - asked[c].taken <= Reply
        /\ UNCHANGED <<now, diedAt>>
    BY <1>6 DEF SyncAnswered, Serve, InTime, daemon
  <2>3. asked[c].live => Since(diedAt, Reply + 1)
    BY <1>3, <2>2 DEF TrueWhenTaken, Since, Types, Kinds, Time
  <2>4. AllowsAreFresh'
    BY <2>2, <2>3 DEF AllowsAreFresh, Since
  <2> QED
    BY <2>1, <2>4, ViewsKeep
<1>7. CASE Refresh(c)
  <2>1. /\ asked' = [asked EXCEPT ![c] = IF up THEN Question("state") ELSE asked[c]]
        /\ asked[c] = None /\ cache' = [cache EXCEPT ![c] = None]
        /\ AllowsAreFresh' /\ UNCHANGED <<now, daemon, run>>
    BY <1>1, <1>7, SilentIsFresh DEF Refresh
  <2> QED
    BY <1>2, <2>1, ViewsKeep
<1>8. CASE Refreshed(c)
  <2> DEFINE snapshot == [taken |-> asked[c].taken, at |-> now, live |-> asked[c].live,
                          ruled |-> asked[c].ruled]
  <2>1. /\ cache' = [cache EXCEPT ![c] = snapshot] /\ Judge(c, snapshot)
        /\ asked[c] # None /\ now - asked[c].taken <= Reply
        /\ UNCHANGED <<now, daemon, run>>
    BY <1>8 DEF Refreshed, InTime
  <2>2. /\ snapshot \in Snapshots /\ TrueWhenTaken(snapshot)
        /\ snapshot.at <= now /\ snapshot.at - snapshot.taken <= Reply
    BY <1>3, <2>1 DEF TrueWhenTaken, Types, Kinds, Snapshots, Time
  <2>3. now - snapshot.taken < Reply + Epoch
    BY <2>1, <2>2 DEF Types, Snapshots, Time
  <2> HIDE DEF snapshot
  <2>4. PICK answer : /\ answer = None \/ (answer \in Kinds /\ TrueWhenTaken(answer))
                      /\ asked' = [asked EXCEPT ![c] = answer]
    BY <2>1, <2>2, <2>3, JudgedIsFresh
  <2>5. AllowsAreFresh'
    BY <2>1, <2>2, <2>3, JudgedIsFresh
  <2> QED
    BY <2>1, <2>2, <2>4, <2>5, ViewsKeep
<1>9. CASE EpochUse(c)
  <2>1. /\ cache' = [cache EXCEPT ![c] = cache[c]] /\ Judge(c, cache[c])
        /\ cache[c] # None /\ now - cache[c].at < Epoch
        /\ UNCHANGED <<now, daemon, run>>
    BY <1>1, <1>9 DEF EpochUse, Fresh
  <2>2. cache[c] \in Snapshots /\ TrueWhenTaken(cache[c]) /\ now - cache[c].taken < Reply + Epoch
    BY <1>4, <2>1 DEF Types, Snapshots, Time
  <2>3. PICK answer : /\ answer = None \/ (answer \in Kinds /\ TrueWhenTaken(answer))
                      /\ asked' = [asked EXCEPT ![c] = answer]
    BY <2>1, <2>2, JudgedIsFresh
  <2>4. AllowsAreFresh'
    BY <2>1, <2>2, JudgedIsFresh
  <2> QED
    BY <2>1, <2>3, <2>4, ViewsKeep
<1>10. CASE GaveUp(c)
  <2>1. /\ asked' = [asked EXCEPT ![c] = None] /\ cache' = [cache EXCEPT ![c] = cache[c]]
        /\ AllowsAreFresh' /\ UNCHANGED <<now, daemon, run>>
    BY <1>1, <1>10, SilentIsFresh DEF GaveUp
  <2> QED
    BY <2>1, ViewsKeep
<1> QED
  BY <1>5, <1>6, <1>7, <1>8, <1>9, <1>10

-----------------------------------------------------------------------------
(* The invariant holds throughout, and what follows from it.               *)

\* Every step of the daemon, the client and the watchdog keeps the invariant.
LEMMA ClientStep ==
  ASSUME ClientInv, [ClientNext]_clientVars
  PROVE  ClientInv'
<1>1. CASE UNCHANGED clientVars
  BY <1>1 DEF clientVars, daemon, run, views, ClientInv, Types, Time, TreeInv, PhaseInv, WatchInv,
     AnswerInv, AllowsAreFresh, TrueWhenTaken, Kept, Unarmed, Over, Since
<1>2. CASE DaemonSteps
  <2>1. ASSUME NEW n \in Node, Operator(n) \/ Fire(n)
        PROVE  ClientInv'
    BY <2>1, RevocationKeeps DEF Operator, Fire
  <2>2. CASE DaemonStops
    BY <2>2, RevocationKeeps DEF DaemonStops
  <2> QED
    BY <1>2, <2>1, <2>2, RuleKeeps, StartKeeps, MintLateKeeps, ArmLateKeeps DEF DaemonSteps
<1>3. CASE RunSteps
  BY <1>3, IssueKeeps, HoldKeeps, ArmMintedKeeps, MintKeeps, BeatKeeps, EndRunKeeps, KillKeeps
     DEF RunSteps
<1>4. CASE Uses
  BY <1>4, UsesKeep DEF Uses
<1> QED
  BY <1>1, <1>2, <1>3, <1>4, TickKeeps DEF ClientNext

\* The run, its daemon and its threads keep the invariant.
THEOREM ClientInvHolds == ClientSpec => []ClientInv
BY ClientStarts, ClientStep, PTL DEF ClientSpec

\* Every part of the state has the shape the run and the daemon give it, a
\* dead-man is armed on live nodes only, and what is beaten and lives has one.
THEOREM ClientTypeCorrect == ClientSpec => []ClientTypeOK
<1>1. ClientInv => ClientTypeOK
  BY DEF ClientInv, Types, TreeInv, PhaseInv, ClientTypeOK, Kinds, Snapshots
<1> QED
  BY <1>1, ClientInvHolds, PTL

\* No thread is let do anything by an answer older than the reply's time and,
\* for a use judged by a snapshot, one interval (`check_at`, `cache_is_fresh`).
THEOREM NothingStaleAllowed == ClientSpec => []AllowsAreFresh
<1>1. ClientInv => AllowsAreFresh
  BY DEF ClientInv
<1> QED
  BY <1>1, ClientInvHolds, PTL

\* One period after a run is over none of its nodes is live, save those it was
\* never told of - the answer to its issue or mint lost, late or cut off by its
\* kill - and those whose arming was cut off or lost with the revocation after it.
THEOREM RunsLeaveNothing == ClientSpec => []NothingOutlivesItsRun
<1>1. ASSUME ClientInv, Over, now > overAt + Period,
             NEW n \in Node \ (IF lease THEN {Own} ELSE {}), life[n] = "live"
      PROVE  n \in UNION {Below(m) : m \in Stranded}
  <2> USE RunAssumption, BelowRoot, <1>1 DEF ClientInv
  <2>1. \A m \in Node \ lost : watch[m] = Never
    BY DEF TreeInv, WatchInv, Types, Time, PhaseInv
  <2>2. PICK m \in Kept : life[m] = "live" /\ n \in Below(m)
    BY DEF Kept, TreeInv, Node
  <2>3. m \in lost
    BY <2>1, <2>2 DEF WatchInv, Kept, Unarmed, Over
  <2>4. m \in Stranded
    BY <2>2, <2>3 DEF Stranded, Kept
  <2> QED
    BY <2>2, <2>4
<1>2. ClientInv => NothingOutlivesItsRun
  BY <1>1 DEF NothingOutlivesItsRun
<1> QED
  BY <1>2, ClientInvHolds, PTL

-----------------------------------------------------------------------------
(* The actors of a run.  Where each thread is says which job it has and    *)
(* what it has in hand; who sent a job says which thread made it.  So the  *)
(* jobs can be told apart, the sets the scheduler counts move by one job   *)
(* at a time, and its counts follow.                                       *)

\* A job that is one: what a sender makes, with the number it was made under.
Jobs == [kind : {"create", "send"}, to : Actor, from : Actor \cup {Main},
         no : Nat, past : BOOLEAN]

\* Where a thread has a job in its hands, and where a worker has one in its turn.
Handing == {"push", "reserve", "full", "parked"}
Turning == Handing \cup {"turn"}
Labels == Turning \cup {"idle", "abort", "abort2", "done", "last", "release", "freed", "gone",
                       "finish", "asleep", "join", "over"}

\* The types, with what is only sent or made where it can be.
Shapes ==
  /\ policy \in Policies
  /\ queue \in [Worker -> Seq(Jobs \cup {Shutdown})]
  /\ cell \in [Actor -> {"none", "live", "dead"}] /\ spawned \subseteq Actor
  /\ depth \in [Actor -> Int] /\ pending \in Int
  /\ died \in BOOLEAN /\ (died => policy.abort)
  /\ pc \in [Thread -> Labels]
  /\ job \in [Thread -> Jobs \cup {NoJob, Shutdown}]
  /\ out \in [Thread -> Jobs \cup {NoJob}]
  /\ made \in 0 .. MaxJob /\ drops \in Nat /\ deadSends \in Nat /\ turns \in Nat

\* Where a thread is, so are its job and what it has in hand.
Placed(t) ==
  /\ t = Main => pc[t] \in Turning \cup {"finish", "asleep", "join", "over"} /\ job[t] = NoJob
  /\ t \in Worker =>
       \/ pc[t] \in {"idle", "freed"} /\ job[t] = NoJob
       \/ pc[t] = "gone" /\ job[t] = Shutdown
       \/ /\ pc[t] \in Turning \cup {"abort", "abort2", "done", "last", "release"}
          /\ job[t] \in Jobs /\ Home[job[t].to] = t
  /\ IF pc[t] \in Handing THEN out[t] \in Jobs /\ out[t].from = Sender(t) ELSE out[t] = NoJob
  /\ pc[t] \in Handing \ {"push"} => out[t].kind = "send" /\ policy.bound[out[t].to] # Unbounded

\* A job waits at the worker its actor lives on.
Homes ==
  \A w \in Worker : \A i \in DOMAIN queue[w] :
    queue[w][i] # Shutdown => Home[queue[w][i].to] = w

Places == (\A t \in Thread : Placed(t)) /\ Homes

\* Two jobs of one sender.
Older(j, k) == j.from = k.from => j.no < k.no

\* The numbers of one sender climb: along a line, after the job the worker has, and
\* before the job the sender has in hand.
Ordered ==
  /\ \A t \in Thread : out[t] \in Jobs => out[t].no < made
  /\ \A w \in Worker : job[w] \in Jobs => job[w].no < made
  /\ \A w \in Worker : \A i \in DOMAIN queue[w] : queue[w][i] \in Jobs =>
       /\ queue[w][i].no < made
       /\ \A k \in 1 .. i - 1 : queue[w][k] \in Jobs => Older(queue[w][k], queue[w][i])
       /\ job[w] \in Jobs => Older(job[w], queue[w][i])
       /\ \A t \in Thread : out[t] \in Jobs => Older(queue[w][i], out[t])
  /\ \A w \in Worker, t \in Thread : job[w] \in Jobs /\ out[t] \in Jobs => Older(job[w], out[t])

\* The job that makes an actor.
Creates(j, a) == j.kind = "create" /\ j.to = a

\* An actor is made before it can be spoken to: its creation stands in the line of
\* its worker before what is sent to it, or is the worker's job, or is done.
CreatedFirst ==
  /\ \A a \in spawned : \/ cell[a] # "none"
                        \/ Creates(job[Home[a]], a)
                        \/ \E i \in DOMAIN queue[Home[a]] : Creates(queue[Home[a]][i], a)
  /\ \A t \in Thread : out[t].kind = "send" => out[t].to \in spawned
  /\ \A w \in Worker : \A i \in DOMAIN queue[w] : queue[w][i].kind = "send" =>
       \/ cell[queue[w][i].to] # "none"
       \/ Creates(job[w], queue[w][i].to)
       \/ \E k \in 1 .. i - 1 : Creates(queue[w][k], queue[w][i].to)
  /\ \A w \in Worker : job[w].kind = "send" \/ (job[w] \in Jobs /\ pc[w] \notin Turning) =>
       cell[job[w].to] # "none"

\* The jobs in hand.
Outs == {out[t] : t \in {u \in Thread : out[u] # NoJob}}

\* What the count of unfinished jobs counts, what is yet to be accounted for, and
\* what mailboxes may hold a slot for.
Outstanding == Pushing \cup Work \cup Unfinished
Open == Work \cup Outs
Holding == Pushing \cup Work \cup Taken

\* The count of jobs outstanding is exact, and every job made is accounted for.
Tally ==
  /\ IsFiniteSet(Outstanding) /\ pending = Cardinality(Outstanding)
  /\ IsFiniteSet(Open) /\ made = turns + drops + deadSends + Cardinality(Open)

\* A mailbox with a bound counts what it holds, and only those that may not wait go past it.
Box(a) ==
  /\ IsFiniteSet(Slots(a)) /\ depth[a] = Cardinality(Slots(a))
  /\ Cardinality({j \in Slots(a) : ~j.past}) <= policy.bound[a]
  /\ \A j \in Slots(a) : j.past => died \/ (j.from # Main /\ Home[j.from] = Home[a])

Boxes == \A a \in Actor : policy.bound[a] # Unbounded => Box(a)

\* What stands where there is no job is none, and neither is the word to stop.
LEMMA NoneIsJob ==
  /\ NoJob \notin Jobs /\ Shutdown \notin Jobs
  /\ NoJob.kind = "none" /\ Shutdown.kind = "shutdown"
  /\ \A j \in Jobs : j.kind \in {"create", "send"} /\ j.kind # "shutdown" /\ j.kind # "none"
BY DEF NoJob, Shutdown, Jobs

\* What a thread has in hand.
LEMMA InHand ==
  ASSUME Shapes, Places, NEW t \in Thread
  PROVE  /\ out[t] \in Jobs <=> pc[t] \in Handing
         /\ out[t] # NoJob <=> pc[t] \in Handing
         /\ pc[t] \in Handing => out[t].from = Sender(t)
BY NoneIsJob DEF Shapes, Places, Placed

\* A thread in a turn has a sender's name, and no other thread has the same.
LEMMA SenderIsOne ==
  ASSUME Shapes, Places, NEW t \in Thread, pc[t] \in Turning
  PROVE  /\ Sender(t) \in Actor \cup {Main}
         /\ Sender(t) = Main => t = Main
         /\ Sender(t) # Main => t \in Worker /\ job[t] \in Jobs /\ Home[Sender(t)] = t
<1>1. t # Main => t \in Worker /\ job[t] \in Jobs /\ Home[job[t].to] = t
  BY DEF Thread, Places, Placed, Turning, Handing
<1>2. t # Main => job[t].to \in Actor
  BY <1>1 DEF Jobs
<1> QED
  BY <1>1, <1>2, ActorsAssumption DEF Sender

-----------------------------------------------------------------------------
(* Types and places.                                                       *)

\* The start of a run: nothing is made, and the main thread is in its turn.
LEMMA ShapesStart == ActorsInit => Shapes /\ Places
<1> SUFFICES ASSUME ActorsInit PROVE Shapes /\ Places
  OBVIOUS
<1>1. Shapes
  <2>1. <<>> \in Seq(Jobs \cup {Shutdown})
    OBVIOUS
  <2>2. spawned \subseteq Actor
    BY ActorsAssumption DEF ActorsInit
  <2>3. made \in 0 .. MaxJob /\ drops \in Nat /\ deadSends \in Nat /\ turns \in Nat
    BY ActorsAssumption DEF ActorsInit
  <2>4. queue \in [Worker -> Seq(Jobs \cup {Shutdown})]
    BY <2>1 DEF ActorsInit
  <2>5. cell \in [Actor -> {"none", "live", "dead"}] /\ depth \in [Actor -> Int]
    BY DEF ActorsInit
  <2>6. pc \in [Thread -> Labels] /\ job \in [Thread -> Jobs \cup {NoJob, Shutdown}]
        /\ out \in [Thread -> Jobs \cup {NoJob}]
    BY DEF ActorsInit, Labels, Turning
  <2>7. policy \in Policies /\ pending \in Int /\ died = FALSE
    BY DEF ActorsInit
  <2> QED
    BY <2>2, <2>3, <2>4, <2>5, <2>6, <2>7 DEF Shapes
<1>2. Places
  BY ActorsAssumption, NoneIsJob DEF ActorsInit, Places, Placed, Homes, Thread, Turning, Handing
<1> QED
  BY <1>1, <1>2

\* A job just made is one.
LEMMA MadeIsJob ==
  ASSUME Shapes, Places, NEW t \in Thread, pc[t] = "turn", NEW a \in Actor,
         NEW kind \in {"create", "send"}, Making(t, kind, a)
  PROVE  \E j \in Jobs : /\ j.kind = kind /\ j.to = a /\ j.from = Sender(t) /\ j.no = made
                         /\ out' = [out EXCEPT ![t] = j]
                         /\ out[t] = NoJob
                         /\ made' = made + 1 /\ made' \in 0 .. MaxJob
<1> DEFINE j == [kind |-> kind, to |-> a, from |-> Sender(t), no |-> made, past |-> FALSE]
<1>1. Sender(t) \in Actor \cup {Main}
  BY SenderIsOne DEF Turning, Handing
<1>2. made \in Nat /\ made + 1 \in 0 .. MaxJob
  BY ActorsAssumption DEF Shapes, Making
<1>3. j \in Jobs
  BY <1>1, <1>2 DEF Jobs
<1>4. out[t] = NoJob
  BY DEF Places, Placed, Handing
<1> QED
  BY <1>2, <1>3, <1>4 DEF Making

\* A job let past the bound is otherwise the job it was.
LEMMA PastStaysJob ==
  ASSUME NEW j \in Jobs, NEW past \in BOOLEAN
  PROVE  /\ [j EXCEPT !.past = past] \in Jobs
         /\ [j EXCEPT !.past = past].kind = j.kind
         /\ [j EXCEPT !.past = past].to = j.to
         /\ [j EXCEPT !.past = past].from = j.from
         /\ [j EXCEPT !.past = past].no = j.no
         /\ [j EXCEPT !.past = past].past = past
BY DEF Jobs

\* Every step of the scheduler keeps the types.
LEMMA ShapesStep ==
  ASSUME Shapes, Places, [ActorsNext]_actorVars
  PROVE  Shapes'
<1> USE DEF Shapes, Labels, Turning, Handing
<1>1. ASSUME NEW t \in Thread, NEW a \in Actor, Spawn(t, a) \/ Send(t, a)
      PROVE  Shapes'
  <2>1. pc[t] = "turn" /\ \E kind \in {"create", "send"} : Making(t, kind, a)
    BY <1>1 DEF Spawn, Send
  <2>2. PICK j \in Jobs : out' = [out EXCEPT ![t] = j] /\ made' \in 0 .. MaxJob
    BY <2>1, MadeIsJob
  <2>3. UNCHANGED <<policy, queue, cell, spawned, depth, died, job, drops, deadSends, turns>>
    BY <1>1 DEF Spawn, Send
  <2>5. pending' \in Int
    BY <1>1 DEF Spawn, Send
  <2>6. pc' \in [Thread -> Labels]
    BY <1>1 DEF Spawn, Send, Goto
  <2>4. out' \in [Thread -> Jobs \cup {NoJob}]
    BY <2>2
  <2> QED
    BY <2>2, <2>3, <2>4, <2>5, <2>6
<1>2. ASSUME NEW t \in Thread, Reserve(t)
      PROVE  Shapes'
  <2>1. out[t] \in Jobs
    BY <1>2, InHand DEF Reserve, Handing
  <2>2. \A past \in BOOLEAN : [out EXCEPT ![t].past = past] \in [Thread -> Jobs \cup {NoJob}]
    BY <2>1, PastStaysJob
  <2>3. out[t].to \in Actor
    BY <2>1 DEF Jobs
  <2>4. CASE UNCHANGED <<shared, job, made, deadSends, turns, policy>> /\ drops' = drops + 1
             /\ out' = [out EXCEPT ![t] = NoJob] /\ Goto(t, "turn")
    BY <2>4 DEF shared, Goto
  <2>5. CASE UNCHANGED <<shared, job, out, counts, policy>> /\ Goto(t, "full")
    BY <2>5 DEF shared, counts, Goto
  <2>6. ASSUME NEW past \in BOOLEAN, Reserved(t, past)
        PROVE  Shapes'
    BY <2>2, <2>3, <2>6 DEF Reserved, Goto, counts
  <2> QED
    BY <1>2, <2>4, <2>5, <2>6 DEF Reserve
<1>3. ASSUME NEW t \in Thread, Park(t)
      PROVE  Shapes'
  BY <1>3 DEF Park, Goto, shared, counts
<1>4. ASSUME NEW t \in Thread, Push(t)
      PROVE  Shapes'
  <2>1. out[t] \in Jobs
    BY <1>4, InHand DEF Push, Handing
  <2>2. out[t].to \in Actor /\ Home[out[t].to] \in Worker
    BY <2>1, ActorsAssumption DEF Jobs
  <2>3. queue' \in [Worker -> Seq(Jobs \cup {Shutdown})]
    BY <1>4, <2>1, <2>2 DEF Push
  <2>4. spawned' \subseteq Actor
    BY <1>4, <2>2 DEF Push
  <2>5. out' \in [Thread -> Jobs \cup {NoJob}] /\ pc' \in [Thread -> Labels]
    BY <1>4 DEF Push, Goto
  <2> QED
    BY <1>4, <2>3, <2>4, <2>5 DEF Push, counts
<1>5. ASSUME NEW w \in Worker, Take(w)
      PROVE  Shapes'
  <2>1. Head(queue[w]) \in Jobs \cup {Shutdown} /\ Tail(queue[w]) \in Seq(Jobs \cup {Shutdown})
    BY <1>5 DEF Take
  <2>2. /\ queue' = [queue EXCEPT ![w] = Tail(@)] /\ job' = [job EXCEPT ![w] = Head(queue[w])]
        /\ \E where \in {"gone", "turn", "done"} : Goto(w, where)
        /\ deadSends' \in Nat /\ turns' \in Nat
        /\ UNCHANGED <<cell, spawned, depth, pending, died, out, made, drops, policy>>
    BY <1>5 DEF Take
  <2>3. queue' \in [Worker -> Seq(Jobs \cup {Shutdown})]
    BY <2>1, <2>2
  <2>4. job' \in [Thread -> Jobs \cup {NoJob, Shutdown}] /\ pc' \in [Thread -> Labels]
    BY <2>1, <2>2 DEF Goto
  <2> QED
    BY <2>2, <2>3, <2>4
<1>6. ASSUME NEW w \in Worker, EndTurn(w) \/ Fault(w)
      PROVE  Shapes'
  <2>1. \E state \in {"live", "dead"} : cell' = [cell EXCEPT ![job[w].to] = state]
    BY <1>6 DEF EndTurn, Fault
  <2>2. died' \in BOOLEAN /\ (died' => policy.abort) /\ pc' \in [Thread -> Labels]
        /\ UNCHANGED <<queue, spawned, depth, pending, job, out, counts, policy>>
    <3>1. policy.abort \in BOOLEAN
      BY ActorsAssumption
    <3> QED
      BY <1>6, <3>1 DEF EndTurn, Fault, Goto
  <2> QED
    BY <2>1, <2>2 DEF counts
<1>7. ASSUME NEW w \in Worker, AbortMain(w) \/ AbortSenders(w) \/ SayQuiet(w) \/ Freed(w)
      PROVE  Shapes'
  BY <1>7 DEF AbortMain, AbortSenders, SayQuiet, Freed, WakeMain, WakeSenders, shared, counts
<1>8. ASSUME NEW w \in Worker, Done(w)
      PROVE  Shapes'
  <2>1. pc' \in [Thread -> Labels]
    BY <1>8 DEF Done, Goto
  <2> QED
    BY <1>8, <2>1 DEF Done, counts
<1>9. ASSUME NEW w \in Worker, Release(w)
      PROVE  Shapes'
  <2>1. depth' \in [Actor -> Int]
    BY <1>9 DEF Release
  <2>2. pc' \in [Thread -> Labels] /\ job' \in [Thread -> Jobs \cup {NoJob, Shutdown}]
    BY <1>9 DEF Release, Goto
  <2> QED
    BY <1>9, <2>1, <2>2 DEF Release, counts
<1>10. ASSUME MainReturns \/ Finish \/ Join
       PROVE  Shapes'
  <2>1. [w \in Worker |-> Append(queue[w], Shutdown)] \in [Worker -> Seq(Jobs \cup {Shutdown})]
    OBVIOUS
  <2>2. queue' \in [Worker -> Seq(Jobs \cup {Shutdown})] /\ pc' \in [Thread -> Labels]
    BY <1>10, <2>1 DEF MainReturns, Finish, Join, Goto, shared
  <2> QED
    BY <1>10, <2>2 DEF MainReturns, Finish, Join, shared, counts
<1>11. CASE UNCHANGED actorVars
  BY <1>11 DEF actorVars, shared, counts
<1> QED
  BY <1>1, <1>2, <1>3, <1>4, <1>5, <1>6, <1>7, <1>8, <1>9, <1>10, <1>11
     DEF ActorsNext, Mainly, Working, Sending, Thread

\* Threads that are woken at most are where they were.
LEMMA OthersStand ==
  ASSUME Shapes, Places, policy' = policy, Homes', NEW t \in Thread, Placed(t)',
         \A u \in Thread \ {t} :
           /\ job'[u] = job[u] /\ out'[u] = out[u]
           /\ \/ pc'[u] = pc[u]
              \/ pc[u] = "parked" /\ pc'[u] = "reserve"
              \/ pc[u] = "asleep" /\ pc'[u] = "finish"
  PROVE  Places'
<1>1. ASSUME NEW u \in Thread \ {t}
      PROVE  Placed(u)'
  <2>1. Placed(u)
    BY DEF Places
  <2>2. pc'[u] \in Handing <=> pc[u] \in Handing
    BY DEF Handing
  <2>3. Sender(u)' = Sender(u)
    BY DEF Sender
  <2>4. pc'[u] = pc[u] => Placed(u)'
    BY <2>1, <2>2, <2>3 DEF Placed
  <2>5. pc[u] = "parked" /\ pc'[u] = "reserve" => Placed(u)'
    BY <2>1, <2>2, <2>3 DEF Placed, Turning, Handing
  <2>6. pc[u] = "asleep" /\ pc'[u] = "finish" => Placed(u)'
    BY <2>1, <2>2, <2>3 DEF Placed, Turning, Handing
  <2> QED
    BY <2>4, <2>5, <2>6
<1> QED
  BY <1>1 DEF Places

\* Every step leaves each thread with the job and the hand its place asks for.
LEMMA PlacesStep ==
  ASSUME Shapes, Places, [ActorsNext]_actorVars
  PROVE  Places'
<1>0. Shapes'
  BY ShapesStep
<1> USE DEF Handing, Turning
<1>1. ASSUME NEW t \in Thread, NEW a \in Actor, Spawn(t, a) \/ Send(t, a)
      PROVE  Places'
  <2>1. PICK kind \in {"create", "send"} :
          pc[t] = "turn" /\ Making(t, kind, a) /\ (Send(t, a) => kind = "send")
    BY <1>1 DEF Spawn, Send
  <2>2. PICK j \in Jobs : /\ out' = [out EXCEPT ![t] = j]
                          /\ j.from = Sender(t) /\ j.to = a /\ (Send(t, a) => j.kind = "send")
    BY <2>1, MadeIsJob
  <2>3. UNCHANGED <<policy, queue, job>>
    BY <1>1 DEF Spawn, Send
  <2>4. \/ Goto(t, "push")
        \/ Goto(t, "reserve") /\ Send(t, a) /\ policy.bound[a] # Unbounded
    BY <1>1 DEF Spawn, Send
  <2>5. Placed(t)
    BY DEF Places
  <2>6. out'[t] = j /\ Sender(t)' = Sender(t)
    BY <2>2, <2>3 DEF Shapes, Sender
  <2>7. Placed(t)'
    BY <2>1, <2>2, <2>3, <2>4, <2>5, <2>6 DEF Placed, Goto, Shapes
  <2>8. Homes'
    BY <2>3 DEF Places, Homes
  <2> QED
    BY <2>2, <2>3, <2>4, <2>7, <2>8, OthersStand DEF Goto, Shapes
<1>2. ASSUME NEW t \in Thread, Reserve(t)
      PROVE  Places'
  <2>1. out[t] \in Jobs /\ Placed(t)
    BY <1>2, InHand DEF Reserve, Places
  <2>2. UNCHANGED <<policy, queue, job>> /\ Sender(t)' = Sender(t)
    BY <1>2 DEF Reserve, Reserved, shared, counts, Sender
  <2>3. Homes'
    BY <2>2 DEF Places, Homes
  <2>4. CASE out' = [out EXCEPT ![t] = NoJob] /\ Goto(t, "turn")
    <3>1. Placed(t)'
      BY <1>2, <2>1, <2>2, <2>4 DEF Placed, Goto, Shapes, Reserve
    <3> QED
      BY <2>2, <2>3, <2>4, <3>1, OthersStand DEF Goto, Shapes
  <2>5. CASE out' = out /\ Goto(t, "full")
    <3>1. Placed(t)'
      BY <1>2, <2>1, <2>2, <2>5 DEF Placed, Goto, Shapes, Reserve
    <3> QED
      BY <2>2, <2>3, <2>5, <3>1, OthersStand DEF Goto, Shapes
  <2>6. ASSUME NEW past \in BOOLEAN, Reserved(t, past)
        PROVE  Places'
    <3>1. out' = [out EXCEPT ![t].past = past] /\ Goto(t, "push")
      BY <2>6 DEF Reserved
    <3>2. out'[t] \in Jobs /\ out'[t].from = out[t].from
      BY <2>1, <3>1, PastStaysJob DEF Shapes
    <3>3. Placed(t)'
      BY <1>2, <2>1, <2>2, <3>1, <3>2 DEF Placed, Goto, Shapes, Reserve
    <3> QED
      BY <2>2, <2>3, <3>1, <3>3, OthersStand DEF Goto, Shapes
  <2> QED
    BY <1>2, <2>4, <2>5, <2>6 DEF Reserve
<1>3. ASSUME NEW t \in Thread, Park(t)
      PROVE  Places'
  <2>1. Placed(t) /\ Homes
    BY DEF Places
  <2>2. UNCHANGED <<policy, queue, job, out>> /\ Sender(t)' = Sender(t) /\ Homes'
    BY <1>3, <2>1 DEF Park, shared, Sender, Homes
  <2>3. Placed(t)'
    BY <1>3, <2>1, <2>2 DEF Park, Placed, Goto, Shapes
  <2> QED
    BY <1>3, <2>2, <2>3, OthersStand DEF Park, Goto, Shapes
<1>4. ASSUME NEW t \in Thread, Push(t)
      PROVE  Places'
  <2>1. Placed(t) /\ Homes /\ out[t] \in Jobs
    BY <1>4, InHand DEF Places, Push
  <2> DEFINE h == Home[out[t].to]
  <2>2. h \in Worker
    BY <2>1, ActorsAssumption DEF Jobs
  <2>3. /\ UNCHANGED <<policy, job>> /\ Sender(t)' = Sender(t)
        /\ queue' = [queue EXCEPT ![h] = Append(@, out[t])]
        /\ out' = [out EXCEPT ![t] = NoJob] /\ Goto(t, "turn")
    BY <1>4 DEF Push, counts, Sender
  <2>4. Placed(t)'
    BY <1>4, <2>1, <2>3 DEF Push, Placed, Goto, Shapes
  <2>5. Homes'
    <3> SUFFICES ASSUME NEW w \in Worker, NEW i \in DOMAIN queue'[w], queue'[w][i] # Shutdown
                 PROVE  Home[queue'[w][i].to] = w
      BY DEF Homes
    <3> HIDE DEF h
    <3>1. CASE w # h
      BY <2>1, <2>3, <3>1 DEF Homes, Shapes
    <3>2. CASE w = h /\ i \in DOMAIN queue[w]
      <4>1. queue'[w][i] = queue[w][i]
        BY <2>1, <2>3, <3>2 DEF Shapes
      <4> QED
        BY <2>1, <4>1, <3>2 DEF Homes
    <3>3. CASE w = h /\ i \notin DOMAIN queue[w]
      <4>1. queue'[w][i] = out[t]
        BY <2>1, <2>3, <3>3 DEF Shapes
      <4> QED
        BY <4>1, <3>3 DEF h
    <3> QED
      BY <3>1, <3>2, <3>3
  <2> QED
    BY <2>3, <2>4, <2>5, OthersStand DEF Goto, Shapes
<1>5. ASSUME NEW w \in Worker, Take(w)
      PROVE  Places'
  <2> DEFINE next == Head(queue[w])
  <2>1. w \in Thread /\ w # Main /\ Placed(w) /\ Homes /\ queue[w] # <<>> /\ pc[w] = "idle"
    BY <1>5, ActorsAssumption DEF Places, Thread, Take
  <2>2. next = queue[w][1] /\ 1 \in DOMAIN queue[w] /\ next \in Jobs \cup {Shutdown}
    BY <2>1 DEF Shapes
  <2>3. /\ queue' = [queue EXCEPT ![w] = Tail(@)] /\ job' = [job EXCEPT ![w] = next]
        /\ \/ next.kind = "shutdown" /\ Goto(w, "gone")
           \/ next.kind # "shutdown" /\ \E where \in {"turn", "done"} : Goto(w, where)
        /\ UNCHANGED <<out, policy>>
    BY <1>5 DEF Take
  <2>4. next.kind = "shutdown" <=> next = Shutdown
    BY <2>2, NoneIsJob
  <2> HIDE DEF next
  <2>5. next # Shutdown => Home[next.to] = w
    BY <2>1, <2>2 DEF Homes
  <2>6. Placed(w)'
    BY <2>1, <2>2, <2>3, <2>4, <2>5 DEF Placed, Goto, Shapes
  <2>7. Homes'
    <3> SUFFICES ASSUME NEW v \in Worker, NEW i \in DOMAIN queue'[v], queue'[v][i] # Shutdown
                 PROVE  Home[queue'[v][i].to] = v
      BY DEF Homes
    <3>1. CASE v # w
      BY <2>1, <2>3, <3>1 DEF Homes, Shapes
    <3>2. CASE v = w
      <4>1. i + 1 \in DOMAIN queue[w] /\ queue'[w][i] = queue[w][i + 1]
        BY <2>1, <2>3, <3>2 DEF Shapes
      <4> QED
        BY <2>1, <4>1, <3>2 DEF Homes
    <3> QED
      BY <3>1, <3>2
  <2> QED
    BY <2>1, <2>3, <2>6, <2>7, OthersStand DEF Goto, Shapes
<1>6. ASSUME NEW w \in Worker, EndTurn(w) \/ Fault(w) \/ Done(w)
      PROVE  Places'
  <2>1. w \in Thread /\ w # Main /\ Placed(w) /\ Homes
    BY ActorsAssumption DEF Places, Thread
  <2>2. /\ UNCHANGED <<policy, queue, job, out>> /\ pc[w] \in {"turn", "done"}
        /\ \E where \in {"done", "abort", "last", "release"} : Goto(w, where)
    BY <1>6 DEF EndTurn, Fault, Done, counts
  <2>3. Homes'
    BY <2>1, <2>2 DEF Homes
  <2>4. Placed(w)'
    BY <2>1, <2>2 DEF Placed, Goto, Shapes
  <2> QED
    BY <2>1, <2>2, <2>3, <2>4, OthersStand DEF Goto, Shapes
<1>7. ASSUME NEW w \in Worker, AbortMain(w) \/ AbortSenders(w) \/ SayQuiet(w) \/ Freed(w)
      PROVE  Places'
  <2>1. w \in Thread /\ w # Main /\ Placed(w) /\ Homes
    BY ActorsAssumption DEF Places, Thread
  <2>2. /\ UNCHANGED <<policy, queue, job, out>>
        /\ \/ pc[w] \in {"abort", "abort2", "last"} /\ pc'[w] \in {"abort2", "done", "release"}
           \/ pc[w] = "freed" /\ pc'[w] = "idle"
        /\ \A u \in Thread \ {w} :
              \/ pc'[u] = pc[u]
              \/ pc[u] = "parked" /\ pc'[u] = "reserve"
              \/ pc[u] = "asleep" /\ pc'[u] = "finish"
    BY <1>7, <2>1 DEF AbortMain, AbortSenders, SayQuiet, Freed, WakeMain, WakeSenders, shared, counts
  <2>3. Homes'
    BY <2>1, <2>2 DEF Homes
  <2>4. Placed(w)'
    BY <2>1, <2>2 DEF Placed
  <2> QED
    BY <2>1, <2>2, <2>3, <2>4, OthersStand
<1>8. ASSUME NEW w \in Worker, Release(w)
      PROVE  Places'
  <2>1. w \in Thread /\ w # Main /\ Placed(w) /\ Homes
    BY ActorsAssumption DEF Places, Thread
  <2>2. /\ UNCHANGED <<policy, queue, out>> /\ pc[w] = "release"
        /\ job' = [job EXCEPT ![w] = NoJob]
        /\ \E where \in {"freed", "idle"} : Goto(w, where)
    BY <1>8 DEF Release, counts
  <2>3. Homes'
    BY <2>1, <2>2 DEF Homes
  <2>4. Placed(w)'
    BY <2>1, <2>2 DEF Placed, Goto, Shapes
  <2> QED
    BY <2>1, <2>2, <2>3, <2>4, OthersStand DEF Goto, Shapes
<1>9. ASSUME MainReturns \/ Finish \/ Join
      PROVE  Places'
  <2>1. Main \in Thread /\ Main \notin Worker /\ Placed(Main) /\ Homes
    BY ActorsAssumption DEF Places, Thread
  <2>2. /\ UNCHANGED <<policy, job, out>> /\ pc[Main] \in {"turn", "finish", "join"}
        /\ \E where \in {"finish", "asleep", "join", "over"} : Goto(Main, where)
    BY <1>9 DEF MainReturns, Finish, Join, counts, shared
  <2>3. queue' = queue \/ queue' = [w \in Worker |-> Append(queue[w], Shutdown)]
    BY <1>9 DEF MainReturns, Finish, Join, shared
  <2>4. Homes'
    <3> SUFFICES ASSUME NEW w \in Worker, NEW i \in DOMAIN queue'[w], queue'[w][i] # Shutdown
                 PROVE  Home[queue'[w][i].to] = w
      BY DEF Homes
    <3>1. i \in DOMAIN queue[w] /\ queue'[w][i] = queue[w][i]
      <4>1. CASE queue' = queue
        BY <4>1
      <4>2. CASE queue' = [v \in Worker |-> Append(queue[v], Shutdown)]
        <5>1. queue'[w] = Append(queue[w], Shutdown) /\ queue[w] \in Seq(Jobs \cup {Shutdown})
          BY <4>2 DEF Shapes
        <5>2. i \in DOMAIN queue[w] \/ queue'[w][i] = Shutdown
          BY <5>1
        <5> QED
          BY <5>1, <5>2
      <4> QED
        BY <2>3, <4>1, <4>2
    <3> QED
      BY <2>1, <3>1 DEF Homes
  <2>5. Placed(Main)'
    BY <2>1, <2>2 DEF Placed, Goto, Shapes
  <2> QED
    BY <2>1, <2>2, <2>4, <2>5, OthersStand DEF Goto, Shapes
<1>10. CASE UNCHANGED actorVars
  BY <1>10 DEF actorVars, shared, counts, Places, Placed, Homes, Sender
<1> QED
  BY <1>1, <1>2, <1>3, <1>4, <1>5, <1>6, <1>7, <1>8, <1>9, <1>10
     DEF ActorsNext, Mainly, Working, Sending, Thread

-----------------------------------------------------------------------------
(* Order of sending.                                                       *)

\* Nothing is sent yet, and only made actors stand.
LEMMA OrderStart == ActorsInit => Ordered /\ CreatedFirst
<1> SUFFICES ASSUME ActorsInit PROVE Ordered /\ CreatedFirst
  OBVIOUS
<1>1. Shapes /\ Places
  BY ShapesStart
<1>2. /\ \A t \in Thread : out[t] = NoJob /\ job[t] = NoJob
      /\ \A w \in Worker : queue[w] = <<>>
      /\ \A a \in spawned : cell[a] # "none"
  BY <1>1 DEF ActorsInit, Shapes
<1>3. \A w \in Worker : w \in Thread /\ DOMAIN queue[w] = {}
  BY <1>2 DEF Thread
<1> QED
  BY <1>2, <1>3, NoneIsJob DEF Ordered, CreatedFirst

\* Jobs that are dropped or done with put nothing out of order.
LEMMA FewerStayOrdered ==
  ASSUME Shapes, Ordered, queue' = queue, made' = made,
         \A t \in Thread : out'[t] \in Jobs =>
           out[t] \in Jobs /\ out'[t].no = out[t].no /\ out'[t].from = out[t].from,
         \A w \in Worker : job'[w] \in Jobs => job'[w] = job[w]
  PROVE  Ordered'
<1>1. ASSUME NEW w \in Worker, NEW i \in DOMAIN queue[w], queue[w][i] \in Jobs
      PROVE  /\ queue[w][i].no < made
             /\ \A k \in 1 .. i - 1 : queue[w][k] \in Jobs => Older(queue[w][k], queue[w][i])
             /\ job'[w] \in Jobs => Older(job'[w], queue[w][i])
             /\ \A t \in Thread : out'[t] \in Jobs => Older(queue[w][i], out'[t])
  BY <1>1 DEF Ordered, Older
<1>2. \A t \in Thread : out'[t] \in Jobs => out'[t].no < made
  BY DEF Ordered
<1>3. \A w \in Worker : job'[w] \in Jobs => job'[w].no < made
  BY DEF Ordered
<1>4. \A w \in Worker, t \in Thread : job'[w] \in Jobs /\ out'[t] \in Jobs => Older(job'[w], out'[t])
  BY DEF Ordered, Older
<1> QED
  BY <1>1, <1>2, <1>3, <1>4 DEF Ordered

\* A new job is the newest.
LEMMA MakingIsOrdered ==
  ASSUME Shapes, Ordered, NEW t \in Thread, NEW j \in Jobs, j.no = made,
         out' = [out EXCEPT ![t] = j], made' = made + 1, queue' = queue, job' = job
  PROVE  Ordered'
<1>1. made \in Nat
  BY ActorsAssumption DEF Shapes
<1>2. \A u \in Thread : out'[u] = IF u = t THEN j ELSE out[u]
  BY DEF Shapes
<1>3. ASSUME NEW w \in Worker, NEW i \in DOMAIN queue[w], queue[w][i] \in Jobs
      PROVE  /\ queue[w][i].no < made + 1
             /\ \A k \in 1 .. i - 1 : queue[w][k] \in Jobs => Older(queue[w][k], queue[w][i])
             /\ job[w] \in Jobs => Older(job[w], queue[w][i])
             /\ \A u \in Thread : out'[u] \in Jobs => Older(queue[w][i], out'[u])
  <2>1. queue[w][i].no \in Nat /\ queue[w][i].no < made
    BY <1>3 DEF Ordered, Jobs
  <2> QED
    BY <1>1, <1>2, <1>3, <2>1 DEF Ordered, Older
<1>4. \A u \in Thread : out'[u] \in Jobs => out'[u].no < made + 1
  <2> SUFFICES ASSUME NEW u \in Thread, out'[u] \in Jobs PROVE out'[u].no < made + 1
    OBVIOUS
  <2>1. out'[u].no \in Nat
    BY DEF Jobs
  <2> QED
    BY <1>1, <1>2, <2>1 DEF Ordered
<1>5. \A w \in Worker : job[w] \in Jobs => job[w].no \in Nat /\ job[w].no < made
  BY DEF Ordered, Jobs
<1>6. \A w \in Worker, u \in Thread : job[w] \in Jobs /\ out'[u] \in Jobs => Older(job[w], out'[u])
  BY <1>1, <1>2, <1>5 DEF Ordered, Older
<1>7. \A w \in Worker : job[w] \in Jobs => job[w].no < made + 1
  BY <1>1, <1>5
<1> QED
  BY <1>3, <1>4, <1>6, <1>7 DEF Ordered

\* A job pushed at the end of a line is newer than its sender's others there.
LEMMA PushIsOrdered ==
  ASSUME Shapes, Places, Ordered, NEW t \in Thread, Push(t)
  PROVE  Ordered'
<1>1. out[t] \in Jobs /\ pc[t] \in Turning
  BY InHand DEF Push, Handing, Turning
<1> DEFINE h == Home[out[t].to]
<1>2. h \in Worker
  BY <1>1, ActorsAssumption DEF Jobs
<1>3. /\ queue' = [queue EXCEPT ![h] = Append(@, out[t])]
      /\ out' = [out EXCEPT ![t] = NoJob] /\ job' = job /\ made' = made
  BY DEF Push, counts
<1> HIDE DEF h
<1>4. \A u \in Thread : out'[u] \in Jobs => u # t /\ out'[u] = out[u]
  BY <1>3, NoneIsJob DEF Shapes
<1>5. \A u \in Thread : out'[u] \in Jobs => out[t].from # out[u].from
  <2> SUFFICES ASSUME NEW u \in Thread, out'[u] \in Jobs PROVE out[t].from # out[u].from
    OBVIOUS
  <2>1. u # t /\ out[u] \in Jobs
    BY <1>4
  <2>2. pc[u] \in Turning /\ out[u].from = Sender(u) /\ out[t].from = Sender(t)
    BY <1>1, <2>1, InHand DEF Turning
  <2> QED
    BY <1>1, <2>1, <2>2, SenderIsOne
<1>6. ASSUME NEW w \in Worker, NEW i \in DOMAIN queue'[w], queue'[w][i] \in Jobs
      PROVE  /\ queue'[w][i].no < made
             /\ \A k \in 1 .. i - 1 : queue'[w][k] \in Jobs => Older(queue'[w][k], queue'[w][i])
             /\ job[w] \in Jobs => Older(job[w], queue'[w][i])
             /\ \A u \in Thread : out'[u] \in Jobs => Older(queue'[w][i], out'[u])
  <2>1. queue[w] \in Seq(Jobs \cup {Shutdown})
    BY DEF Shapes
  <2>2. CASE w = h /\ i = Len(queue[w]) + 1
    <3>1. queue'[w][i] = out[t] /\ \A k \in 1 .. i - 1 : k \in DOMAIN queue[w] /\ queue'[w][k] = queue[w][k]
      BY <1>2, <1>3, <2>1, <2>2 DEF Shapes
    <3>2. \A k \in 1 .. i - 1 : queue[w][k] \in Jobs => Older(queue[w][k], out[t])
      BY <1>1, <3>1 DEF Ordered
    <3>3. \A u \in Thread : out'[u] \in Jobs => Older(out[t], out'[u])
      BY <1>4, <1>5 DEF Older
    <3> QED
      BY <1>1, <3>1, <3>2, <3>3 DEF Ordered
  <2>3. CASE ~(w = h /\ i = Len(queue[w]) + 1)
    <3>1. /\ i \in DOMAIN queue[w] /\ queue'[w][i] = queue[w][i]
          /\ \A k \in 1 .. i - 1 : queue'[w][k] = queue[w][k]
      <4>1. CASE w # h
        BY <1>2, <1>3, <2>1, <4>1 DEF Shapes
      <4>2. CASE w = h
        <5>1. queue'[w] = Append(queue[w], out[t])
          BY <1>2, <1>3, <4>2 DEF Shapes
        <5> QED
          BY <2>1, <2>3, <4>2, <5>1
      <4> QED
        BY <4>1, <4>2
    <3> QED
      BY <1>4, <1>6, <3>1 DEF Ordered
  <2> QED
    BY <2>2, <2>3
<1>7. /\ \A u \in Thread : out'[u] \in Jobs => out'[u].no < made
      /\ \A w \in Worker, u \in Thread : job[w] \in Jobs /\ out'[u] \in Jobs => Older(job[w], out'[u])
      /\ \A w \in Worker : job[w] \in Jobs => job[w].no < made
  BY <1>4 DEF Ordered
<1> QED
  BY <1>3, <1>6, <1>7 DEF Ordered

\* What a worker takes is older than what is left in its line.
LEMMA TakeIsOrdered ==
  ASSUME Shapes, Places, Ordered, NEW w \in Worker, Take(w)
  PROVE  Ordered'
<1> DEFINE next == Head(queue[w])
<1>1. /\ queue' = [queue EXCEPT ![w] = Tail(@)] /\ job' = [job EXCEPT ![w] = next]
      /\ out' = out /\ made' = made /\ queue[w] # <<>> /\ w \in Thread
  BY DEF Take, Thread
<1>2. queue[w] \in Seq(Jobs \cup {Shutdown}) /\ next = queue[w][1] /\ 1 \in DOMAIN queue[w]
  BY <1>1 DEF Shapes
<1> HIDE DEF next
<1>3. \A v \in Worker : v # w => queue'[v] = queue[v] /\ job'[v] = job[v] /\ v \in Thread
  BY <1>1 DEF Shapes, Thread
<1>4. job'[w] = next
  BY <1>1 DEF Shapes
<1>5. \A i \in DOMAIN queue'[w] : i + 1 \in DOMAIN queue[w] /\ queue'[w][i] = queue[w][i + 1]
  <2>1. queue'[w] = Tail(queue[w])
    BY <1>1 DEF Shapes
  <2> SUFFICES ASSUME NEW i \in DOMAIN queue'[w]
               PROVE  i + 1 \in DOMAIN queue[w] /\ queue'[w][i] = queue[w][i + 1]
    OBVIOUS
  <2> DEFINE s == queue[w]
  <2>2. s # <<>> /\ s \in Seq(Jobs \cup {Shutdown}) /\ i \in DOMAIN Tail(s)
    BY <1>1, <1>2, <2>1
  <2> HIDE DEF s
  <2>3. i + 1 \in DOMAIN s /\ Tail(s)[i] = s[i + 1]
    BY <2>2
  <2> QED
    BY <2>1, <2>3 DEF s
<1>6. ASSUME NEW i \in DOMAIN queue'[w], queue'[w][i] \in Jobs
      PROVE  /\ queue'[w][i].no < made
             /\ \A k \in 1 .. i - 1 : queue'[w][k] \in Jobs => Older(queue'[w][k], queue'[w][i])
             /\ next \in Jobs => Older(next, queue'[w][i])
             /\ \A t \in Thread : out[t] \in Jobs => Older(queue'[w][i], out[t])
  <2>1. queue'[w] = Tail(queue[w]) /\ i \in Nat \ {0}
    BY <1>1, <1>2 DEF Shapes
  <2>2. \A k \in 1 .. i - 1 : k \in DOMAIN queue'[w] /\ k + 1 \in 1 .. (i + 1) - 1
    BY <1>2, <2>1
  <2>3. \A k \in 1 .. i - 1 : queue'[w][k] = queue[w][k + 1] /\ k + 1 \in 1 .. (i + 1) - 1
    BY <1>5, <2>2
  <2>4. 1 \in 1 .. (i + 1) - 1
    BY <2>1
  <2> QED
    BY <1>2, <1>5, <1>6, <2>3, <2>4 DEF Ordered
<1>7. next \in Jobs => next.no < made /\ \A t \in Thread : out[t] \in Jobs => Older(next, out[t])
  BY <1>2 DEF Ordered
<1>8. ASSUME NEW v \in Worker
      PROVE  /\ job'[v] \in Jobs => job'[v].no < made
             /\ \A t \in Thread : job'[v] \in Jobs /\ out[t] \in Jobs => Older(job'[v], out[t])
             /\ \A i \in DOMAIN queue'[v] : queue'[v][i] \in Jobs =>
                  /\ queue'[v][i].no < made
                  /\ \A k \in 1 .. i - 1 : queue'[v][k] \in Jobs => Older(queue'[v][k], queue'[v][i])
                  /\ job'[v] \in Jobs => Older(job'[v], queue'[v][i])
                  /\ \A t \in Thread : out[t] \in Jobs => Older(queue'[v][i], out[t])
  <2>1. CASE v = w
    BY <1>4, <1>6, <1>7, <2>1
  <2>2. CASE v # w
    BY <1>3, <2>2 DEF Ordered
  <2> QED
    BY <2>1, <2>2
<1>9. \A t \in Thread : out[t] \in Jobs => out[t].no < made
  BY DEF Ordered
<1> QED
  BY <1>1, <1>8, <1>9 DEF Ordered

\* The word to stop, put behind every line, is no sender's.
LEMMA ShutdownIsOrdered ==
  ASSUME Shapes, Ordered, queue' = [w \in Worker |-> Append(queue[w], Shutdown)],
         out' = out, job' = job, made' = made
  PROVE  Ordered'
<1>1. ASSUME NEW w \in Worker, NEW i \in DOMAIN queue'[w], queue'[w][i] \in Jobs
      PROVE  i \in DOMAIN queue[w] /\ queue'[w][i] = queue[w][i]
             /\ \A k \in 1 .. i - 1 : queue'[w][k] = queue[w][k]
  <2>1. queue'[w] = Append(queue[w], Shutdown) /\ queue[w] \in Seq(Jobs \cup {Shutdown})
    BY DEF Shapes
  <2>2. i \in DOMAIN queue[w] \/ queue'[w][i] = Shutdown
    BY <2>1
  <2> QED
    BY <1>1, <2>1, <2>2, NoneIsJob
<1>2. ASSUME NEW w \in Worker, NEW i \in DOMAIN queue'[w], queue'[w][i] \in Jobs
      PROVE  /\ queue'[w][i].no < made
             /\ \A k \in 1 .. i - 1 : queue'[w][k] \in Jobs => Older(queue'[w][k], queue'[w][i])
             /\ job[w] \in Jobs => Older(job[w], queue'[w][i])
             /\ \A u \in Thread : out[u] \in Jobs => Older(queue'[w][i], out[u])
  BY <1>1, <1>2 DEF Ordered
<1> QED
  BY <1>2 DEF Ordered

\* Every step keeps the jobs of one sender in the order they were made.
LEMMA OrderedStep ==
  ASSUME Shapes, Places, Ordered, [ActorsNext]_actorVars
  PROVE  Ordered'
<1>1. ASSUME NEW t \in Thread, NEW a \in Actor, Spawn(t, a) \/ Send(t, a)
      PROVE  Ordered'
  <2>1. PICK kind \in {"create", "send"} : pc[t] = "turn" /\ Making(t, kind, a)
    BY <1>1 DEF Spawn, Send
  <2>2. UNCHANGED <<queue, job>>
    BY <1>1 DEF Spawn, Send
  <2> QED
    BY <2>1, <2>2, MadeIsJob, MakingIsOrdered
<1>2. ASSUME NEW t \in Thread, Reserve(t)
      PROVE  Ordered'
  <2>1. UNCHANGED <<queue, job, made>>
    BY <1>2 DEF Reserve, Reserved, shared, counts
  <2>2. out[t] \in Jobs
    BY <1>2, InHand DEF Reserve, Handing
  <2>3. \/ out' = [out EXCEPT ![t] = NoJob] \/ out' = out
        \/ \E past \in BOOLEAN : out' = [out EXCEPT ![t].past = past]
    BY <1>2 DEF Reserve, Reserved
  <2>4. ASSUME NEW u \in Thread, out'[u] \in Jobs
        PROVE  out[u] \in Jobs /\ out'[u].no = out[u].no /\ out'[u].from = out[u].from
    <3>1. CASE u # t
      BY <2>3, <2>4, <3>1 DEF Shapes
    <3>2. CASE u = t
      <4>1. CASE out' = [out EXCEPT ![t] = NoJob] \/ out' = out
        BY <2>4, <3>2, <4>1, NoneIsJob DEF Shapes
      <4>2. ASSUME NEW past \in BOOLEAN, out' = [out EXCEPT ![t].past = past]
            PROVE  out[u] \in Jobs /\ out'[u].no = out[u].no /\ out'[u].from = out[u].from
        <5>1. out'[u] = [out[u] EXCEPT !.past = past]
          BY <3>2, <4>2 DEF Shapes
        <5> QED
          BY <2>2, <3>2, <5>1, PastStaysJob
      <4> QED
        BY <2>3, <4>1, <4>2
    <3> QED
      BY <3>1, <3>2
  <2> QED
    BY <2>1, <2>4, FewerStayOrdered
<1>3. ASSUME NEW t \in Thread, Push(t)
      PROVE  Ordered'
  BY <1>3, PushIsOrdered
<1>4. ASSUME NEW w \in Worker, Take(w)
      PROVE  Ordered'
  BY <1>4, TakeIsOrdered
<1>5. ASSUME NEW w \in Worker, Release(w)
      PROVE  Ordered'
  <2>1. UNCHANGED <<queue, out, made>> /\ job' = [job EXCEPT ![w] = NoJob]
    BY <1>5 DEF Release, counts
  <2>2. \A v \in Worker : job'[v] \in Jobs => job'[v] = job[v]
    BY <2>1, NoneIsJob DEF Shapes, Thread
  <2> QED
    BY <2>1, <2>2, FewerStayOrdered
<1>6. CASE Finish
  <2>1. UNCHANGED <<job, out, made>>
    BY <1>6 DEF Finish, counts
  <2>2. queue' = queue \/ queue' = [w \in Worker |-> Append(queue[w], Shutdown)]
    BY <1>6 DEF Finish
  <2> QED
    BY <2>1, <2>2, ShutdownIsOrdered, FewerStayOrdered
<1>7. CASE UNCHANGED <<queue, job, out, made>>
  BY <1>7, FewerStayOrdered
<1>8. ASSUME NEW t \in Thread, Park(t)
      PROVE  UNCHANGED <<queue, job, out, made>>
  BY <1>8 DEF Park, shared, counts
<1>9. ASSUME NEW w \in Worker, EndTurn(w) \/ Fault(w) \/ AbortMain(w) \/ AbortSenders(w)
               \/ Done(w) \/ SayQuiet(w) \/ Freed(w)
      PROVE  UNCHANGED <<queue, job, out, made>>
  BY <1>9 DEF EndTurn, Fault, AbortMain, AbortSenders, Done, SayQuiet, Freed, shared, counts
<1>10. MainReturns \/ Join \/ UNCHANGED actorVars => UNCHANGED <<queue, job, out, made>>
  BY DEF MainReturns, Join, actorVars, shared, counts
<1> QED
  BY <1>1, <1>2, <1>3, <1>4, <1>5, <1>6, <1>7, <1>8, <1>9, <1>10
     DEF ActorsNext, Mainly, Working, Sending, Thread

-----------------------------------------------------------------------------
(* Creation before use.                                                    *)

\* Nothing comes or goes, and no cell is emptied.
LEMMA CreationStands ==
  ASSUME Shapes, CreatedFirst, UNCHANGED <<queue, job, spawned>>,
         \A a \in Actor : cell[a] # "none" => cell'[a] # "none",
         \A t \in Thread : out'[t].kind = "send" => out'[t].to \in spawned,
         \A w \in Worker : job[w] \in Jobs /\ pc'[w] \notin Turning =>
           pc[w] \notin Turning \/ cell'[job[w].to] # "none"
  PROVE  CreatedFirst'
<1>1. \A a \in spawned : a \in Actor
  BY DEF Shapes
<1>2. \A w \in Worker : w \in Thread /\ (job[w].kind = "send" => job[w] \in Jobs)
  BY NoneIsJob DEF Shapes, Thread
<1>3. \A w \in Worker : job[w] \in Jobs => job[w].to \in Actor
  BY DEF Jobs
<1>4. \A w \in Worker : \A i \in DOMAIN queue[w] : queue[w][i].kind = "send" => queue[w][i].to \in Actor
  <2> SUFFICES ASSUME NEW w \in Worker, NEW i \in DOMAIN queue[w], queue[w][i].kind = "send"
               PROVE  queue[w][i].to \in Actor
    OBVIOUS
  <2>1. queue[w][i] \in Jobs \cup {Shutdown}
    BY DEF Shapes
  <2>2. queue[w][i] \in Jobs
    BY <2>1, NoneIsJob
  <2> QED
    BY <2>2 DEF Jobs
<1>5. \A a \in spawned : \/ cell'[a] # "none"
                         \/ Creates(job[Home[a]], a)
                         \/ \E i \in DOMAIN queue[Home[a]] : Creates(queue[Home[a]][i], a)
  BY <1>1 DEF CreatedFirst
<1>6. \A w \in Worker : \A i \in DOMAIN queue[w] : queue[w][i].kind = "send" =>
        \/ cell'[queue[w][i].to] # "none"
        \/ Creates(job[w], queue[w][i].to)
        \/ \E k \in 1 .. i - 1 : Creates(queue[w][k], queue[w][i].to)
  BY <1>4 DEF CreatedFirst
<1>7. \A w \in Worker : job[w].kind = "send" \/ (job[w] \in Jobs /\ pc'[w] \notin Turning) =>
        cell'[job[w].to] # "none"
  BY <1>2, <1>3 DEF CreatedFirst
<1> QED
  BY <1>5, <1>6, <1>7 DEF CreatedFirst, Creates

\* What is pushed stands behind the creation of what it is sent to.
LEMMA PushIsCreated ==
  ASSUME Shapes, Places, CreatedFirst, NEW t \in Thread, Push(t)
  PROVE  CreatedFirst'
<1>1. out[t] \in Jobs /\ t \in Thread
  BY InHand DEF Push, Handing
<1> DEFINE a == out[t].to
           h == Home[out[t].to]
<1>2. h \in Worker /\ a \in Actor /\ out[t].kind \in {"create", "send"}
  BY <1>1, ActorsAssumption DEF Jobs
<1>3. /\ queue' = [queue EXCEPT ![h] = Append(@, out[t])] /\ spawned' = spawned \cup {a}
      /\ out' = [out EXCEPT ![t] = NoJob] /\ Goto(t, "turn") /\ UNCHANGED <<cell, job>>
  BY DEF Push, counts
<1>4. h = Home[a]
  OBVIOUS
<1> HIDE DEF a, h
<1>5. \A w \in Worker : w # h => queue'[w] = queue[w]
  BY <1>3 DEF Shapes
<1>6. queue[h] \in Seq(Jobs \cup {Shutdown}) /\ queue'[h] = Append(queue[h], out[t])
  BY <1>2, <1>3 DEF Shapes
<1>7. /\ \A i \in DOMAIN queue[h] : i \in DOMAIN queue'[h] /\ queue'[h][i] = queue[h][i]
      /\ Len(queue[h]) + 1 \in DOMAIN queue'[h] /\ queue'[h][Len(queue[h]) + 1] = out[t]
      /\ \A i \in DOMAIN queue'[h] : i \in DOMAIN queue[h] \/ i = Len(queue[h]) + 1
      /\ \A i \in DOMAIN queue[h] : i \in 1 .. Len(queue[h]) + 1 - 1
  BY <1>1, <1>6
<1>8. ASSUME NEW b \in spawned'
      PROVE  \/ cell[b] # "none" \/ Creates(job[Home[b]], b)
             \/ \E i \in DOMAIN queue'[Home[b]] : Creates(queue'[Home[b]][i], b)
  <2>1. CASE b \in spawned
    <3>1. Home[b] \in Worker
      BY <2>1, ActorsAssumption DEF Shapes
    <3>2. CASE Home[b] # h
      BY <1>5, <2>1, <3>1, <3>2 DEF CreatedFirst
    <3>3. CASE Home[b] = h
      BY <1>7, <2>1, <3>3 DEF CreatedFirst
    <3> QED
      BY <3>2, <3>3
  <2>2. CASE b \notin spawned
    <3>1. b = a /\ out[t].kind = "create"
      <4>1. b = a
        BY <1>3, <2>2
      <4>2. out[t].kind # "send"
        BY <1>1, <2>2, <4>1 DEF CreatedFirst, a
      <4> QED
        BY <1>2, <4>1, <4>2
    <3>2. Creates(queue'[h][Len(queue[h]) + 1], b)
      BY <1>7, <3>1 DEF Creates, a
    <3> QED
      BY <1>4, <1>7, <3>1, <3>2
  <2> QED
    BY <2>1, <2>2
<1>9. ASSUME NEW u \in Thread, out'[u].kind = "send"
      PROVE  out'[u].to \in spawned'
  <2>1. u # t /\ out'[u] = out[u]
    BY <1>3, <1>9, NoneIsJob DEF Shapes
  <2> QED
    BY <1>3, <1>9, <2>1 DEF CreatedFirst
<1>10. ASSUME NEW w \in Worker, NEW i \in DOMAIN queue'[w], queue'[w][i].kind = "send"
       PROVE  \/ cell[queue'[w][i].to] # "none"
              \/ Creates(job[w], queue'[w][i].to)
              \/ \E k \in 1 .. i - 1 : Creates(queue'[w][k], queue'[w][i].to)
  <2>1. CASE w # h
    BY <1>5, <1>10, <2>1 DEF CreatedFirst
  <2>2. CASE w = h /\ i \in DOMAIN queue[h]
    <3>1. \A k \in 1 .. i - 1 : k \in DOMAIN queue[h]
      BY <1>6, <2>2
    <3> QED
      BY <1>7, <1>10, <2>2, <3>1 DEF CreatedFirst
  <2>3. CASE w = h /\ i = Len(queue[h]) + 1
    <3>1. queue'[w][i] = out[t] /\ a \in spawned
      BY <1>1, <1>7, <1>10, <2>3 DEF CreatedFirst, a
    <3>2. \/ cell[a] # "none" \/ Creates(job[h], a)
          \/ \E k \in DOMAIN queue[h] : Creates(queue[h][k], a)
      BY <1>4, <3>1 DEF CreatedFirst
    <3> QED
      BY <1>7, <2>3, <3>1, <3>2 DEF a
  <2> QED
    BY <1>7, <2>1, <2>2, <2>3
<1>11. ASSUME NEW w \in Worker, job[w].kind = "send" \/ (job[w] \in Jobs /\ pc'[w] \notin Turning)
       PROVE  cell[job[w].to] # "none"
  <2>1. w \in Thread /\ (pc'[w] \notin Turning => pc[w] \notin Turning)
    BY <1>3 DEF Goto, Shapes, Thread, Turning, Handing
  <2> QED
    BY <1>11, <2>1 DEF CreatedFirst
<1> QED
  BY <1>3, <1>8, <1>9, <1>10, <1>11 DEF CreatedFirst

\* What a worker takes has been created, or creates.
LEMMA TakeIsCreated ==
  ASSUME Shapes, Places, CreatedFirst, NEW w \in Worker, Take(w)
  PROVE  CreatedFirst'
<1> DEFINE next == Head(queue[w])
<1>1. /\ queue' = [queue EXCEPT ![w] = Tail(@)] /\ job' = [job EXCEPT ![w] = next]
      /\ out' = out /\ cell' = cell /\ spawned' = spawned /\ queue[w] # <<>> /\ w \in Thread
      /\ pc[w] = "idle"
      /\ \/ next.kind = "shutdown"
         \/ Goto(w, "turn")
         \/ next.kind = "send"
      /\ \E where \in {"gone", "turn", "done"} : Goto(w, where)
  BY DEF Take, Thread
<1>2. queue[w] \in Seq(Jobs \cup {Shutdown}) /\ next = queue[w][1] /\ 1 \in DOMAIN queue[w]
  BY <1>1 DEF Shapes
<1>3. job[w].kind = "none"
  BY <1>1, NoneIsJob DEF Places, Placed, Turning, Handing
<1>4. next \in Jobs => next.kind # "shutdown"
  BY NoneIsJob
<1> HIDE DEF next
<1>5. \A v \in Worker : v # w => queue'[v] = queue[v] /\ job'[v] = job[v] /\ v \in Thread
                                 /\ pc'[v] = pc[v]
  BY <1>1 DEF Shapes, Thread, Goto
<1>6. job'[w] = next
  BY <1>1 DEF Shapes
<1>7. /\ \A i \in DOMAIN queue'[w] : i + 1 \in DOMAIN queue[w] /\ queue'[w][i] = queue[w][i + 1]
      /\ \A i \in DOMAIN queue[w] : i # 1 => i - 1 \in DOMAIN queue'[w] /\ queue'[w][i - 1] = queue[w][i]
  <2> DEFINE s == queue[w]
  <2>1. queue'[w] = Tail(s) /\ s # <<>> /\ s \in Seq(Jobs \cup {Shutdown})
    BY <1>1, <1>2 DEF Shapes
  <2> HIDE DEF s
  <2>2. ASSUME NEW i \in DOMAIN Tail(s)
        PROVE  i + 1 \in DOMAIN s /\ Tail(s)[i] = s[i + 1]
    BY <2>1
  <2>3. ASSUME NEW i \in DOMAIN s, i # 1
        PROVE  i - 1 \in DOMAIN Tail(s) /\ Tail(s)[i - 1] = s[i]
    BY <2>1, <2>3
  <2> QED
    BY <2>1, <2>2, <2>3 DEF s
<1>8. ASSUME NEW a \in spawned
      PROVE  \/ cell[a] # "none" \/ Creates(job'[Home[a]], a)
             \/ \E i \in DOMAIN queue'[Home[a]] : Creates(queue'[Home[a]][i], a)
  <2>1. Home[a] \in Worker
    BY ActorsAssumption DEF Shapes
  <2>2. \/ cell[a] # "none" \/ Creates(job[Home[a]], a)
        \/ \E i \in DOMAIN queue[Home[a]] : Creates(queue[Home[a]][i], a)
    BY DEF CreatedFirst
  <2>3. CASE Home[a] # w
    BY <1>5, <2>1, <2>2, <2>3
  <2>4. CASE Home[a] = w
    <3>1. ~Creates(job[w], a)
      BY <1>3 DEF Creates
    <3>2. ASSUME NEW i \in DOMAIN queue[w], Creates(queue[w][i], a)
          PROVE  Creates(job'[w], a) \/ \E k \in DOMAIN queue'[w] : Creates(queue'[w][k], a)
      BY <1>2, <1>6, <1>7, <3>2
    <3> QED
      BY <2>2, <2>4, <3>1, <3>2
  <2> QED
    BY <2>3, <2>4
<1>9. ASSUME NEW v \in Worker, NEW i \in DOMAIN queue'[v], queue'[v][i].kind = "send"
      PROVE  \/ cell[queue'[v][i].to] # "none"
             \/ Creates(job'[v], queue'[v][i].to)
             \/ \E k \in 1 .. i - 1 : Creates(queue'[v][k], queue'[v][i].to)
  <2>1. CASE v # w
    BY <1>5, <1>9, <2>1 DEF CreatedFirst
  <2>2. CASE v = w
    <3> DEFINE a == queue'[w][i].to
    <3>1. i + 1 \in DOMAIN queue[w] /\ queue[w][i + 1] = queue'[w][i] /\ i \in Nat \ {0}
      <4>1. queue'[w] = Tail(queue[w])
        BY <1>1 DEF Shapes
      <4>2. DOMAIN Tail(queue[w]) \subseteq Nat \ {0}
        BY <1>1, <1>2
      <4> QED
        BY <1>7, <2>2, <4>1, <4>2
    <3>2. \/ cell[a] # "none"
          \/ Creates(job[w], a)
          \/ \E k \in 1 .. (i + 1) - 1 : Creates(queue[w][k], a)
      BY <1>9, <2>2, <3>1 DEF CreatedFirst
    <3>3. ~Creates(job[w], a)
      BY <1>3 DEF Creates
    <3>4. ASSUME NEW k \in 1 .. (i + 1) - 1, Creates(queue[w][k], a)
          PROVE  Creates(job'[w], a) \/ \E m \in 1 .. i - 1 : Creates(queue'[w][m], a)
      <4>1. CASE k = 1
        BY <1>2, <1>6, <3>4, <4>1
      <4>2. CASE k # 1
        <5>1. k - 1 \in 1 .. i - 1 /\ k \in DOMAIN queue[w]
          BY <1>2, <3>1, <4>2
        <5>2. queue'[w][k - 1] = queue[w][k]
          BY <1>7, <4>2, <5>1
        <5> QED
          BY <3>4, <5>1, <5>2
      <4> QED
        BY <4>1, <4>2
    <3> QED
      BY <2>2, <3>2, <3>3, <3>4
  <2> QED
    BY <2>1, <2>2
<1>10. ASSUME NEW v \in Worker, job'[v].kind = "send" \/ (job'[v] \in Jobs /\ pc'[v] \notin Turning)
       PROVE  cell[job'[v].to] # "none"
  <2>1. CASE v # w
    BY <1>5, <1>10, <2>1 DEF CreatedFirst
  <2>2. CASE v = w
    <3>1. next.kind = "send"
      <4>1. Goto(w, "turn") => pc'[w] \in Turning
        BY <1>1 DEF Goto, Shapes, Turning
      <4> QED
        BY <1>1, <1>4, <1>6, <1>10, <2>2, <4>1
    <3>2. ~Creates(job[w], next.to)
      BY <1>3 DEF Creates
    <3>3. cell[next.to] # "none"
      BY <1>2, <3>1, <3>2 DEF CreatedFirst
    <3> QED
      BY <1>6, <2>2, <3>3
  <2> QED
    BY <2>1, <2>2
<1>11. \A t \in Thread : out[t].kind = "send" => out[t].to \in spawned
  BY DEF CreatedFirst
<1> QED
  BY <1>1, <1>8, <1>9, <1>10, <1>11 DEF CreatedFirst

\* A worker that lets its job go is past creating.
LEMMA ReleaseIsCreated ==
  ASSUME Shapes, Places, CreatedFirst, NEW w \in Worker, Release(w)
  PROVE  CreatedFirst'
<1>1. /\ UNCHANGED <<queue, out, cell, spawned>> /\ job' = [job EXCEPT ![w] = NoJob]
      /\ pc[w] = "release" /\ w \in Thread
      /\ \A v \in Worker \ {w} : pc'[v] = pc[v] /\ job'[v] = job[v]
      /\ job'[w] = NoJob
  BY DEF Release, Goto, Shapes, Thread
<1>2. job[w] \in Jobs /\ pc[w] \notin Turning
  BY <1>1 DEF Places, Placed, Turning, Handing
<1>3. cell[job[w].to] # "none"
  BY <1>2 DEF CreatedFirst
<1>4. \A v \in Worker, a \in Actor : Creates(job[v], a) => Creates(job'[v], a) \/ cell[a] # "none"
  BY <1>1, <1>3 DEF Creates
<1>5. \A a \in spawned : \/ cell[a] # "none" \/ Creates(job'[Home[a]], a)
                         \/ \E i \in DOMAIN queue[Home[a]] : Creates(queue[Home[a]][i], a)
  <2>1. \A a \in spawned : a \in Actor /\ Home[a] \in Worker
    BY ActorsAssumption DEF Shapes
  <2> QED
    BY <1>4, <2>1 DEF CreatedFirst
<1>6. ASSUME NEW v \in Worker, NEW i \in DOMAIN queue[v], queue[v][i].kind = "send"
      PROVE  \/ cell[queue[v][i].to] # "none" \/ Creates(job'[v], queue[v][i].to)
             \/ \E k \in 1 .. i - 1 : Creates(queue[v][k], queue[v][i].to)
  <2>1. queue[v][i] \in Jobs \cup {Shutdown}
    BY DEF Shapes
  <2>2. queue[v][i] \in Jobs
    BY <1>6, <2>1, NoneIsJob
  <2>3. queue[v][i].to \in Actor
    BY <2>2 DEF Jobs
  <2> QED
    BY <1>4, <1>6, <2>3 DEF CreatedFirst
<1>7. \A v \in Worker : job'[v].kind = "send" \/ (job'[v] \in Jobs /\ pc'[v] \notin Turning) =>
        cell[job'[v].to] # "none"
  BY <1>1, NoneIsJob DEF CreatedFirst
<1> QED
  BY <1>1, <1>5, <1>6, <1>7 DEF CreatedFirst

\* Closing the lines takes no creation out of them.
LEMMA FinishIsCreated ==
  ASSUME Shapes, Places, CreatedFirst, Finish
  PROVE  CreatedFirst'
<1>1. /\ UNCHANGED <<job, out, cell, spawned>> /\ \A w \in Worker : pc'[w] = pc[w]
  BY ActorsAssumption DEF Finish, Goto, Shapes, Thread, counts
<1>2. CASE queue' = queue
  <2>1. \A w \in Worker : pc'[w] \notin Turning => pc[w] \notin Turning
    BY <1>1
  <2>2. \A t \in Thread : out'[t].kind = "send" => out'[t].to \in spawned
    BY <1>1 DEF CreatedFirst
  <2> QED
    BY <1>1, <1>2, <2>1, <2>2, CreationStands
<1>3. CASE queue' = [w \in Worker |-> Append(queue[w], Shutdown)]
  <2>1. ASSUME NEW w \in Worker
        PROVE  /\ \A i \in DOMAIN queue[w] : i \in DOMAIN queue'[w] /\ queue'[w][i] = queue[w][i]
               /\ \A i \in DOMAIN queue'[w] : queue'[w][i].kind = "send" => i \in DOMAIN queue[w]
               /\ \A i \in DOMAIN queue[w] : \A k \in 1 .. i - 1 : k \in DOMAIN queue[w]
    <3>1. queue'[w] = Append(queue[w], Shutdown) /\ queue[w] \in Seq(Jobs \cup {Shutdown})
      BY <1>3 DEF Shapes
    <3>2. \A i \in DOMAIN queue'[w] : i \in DOMAIN queue[w] \/ queue'[w][i] = Shutdown
      BY <3>1
    <3> QED
      BY <3>1, <3>2, NoneIsJob
  <2>2. \A a \in spawned : \/ cell[a] # "none" \/ Creates(job[Home[a]], a)
                           \/ \E i \in DOMAIN queue'[Home[a]] : Creates(queue'[Home[a]][i], a)
    <3>1. \A a \in spawned : Home[a] \in Worker
      BY ActorsAssumption DEF Shapes
    <3> QED
      BY <2>1, <3>1 DEF CreatedFirst
  <2>3. ASSUME NEW w \in Worker, NEW i \in DOMAIN queue'[w], queue'[w][i].kind = "send"
        PROVE  \/ cell[queue'[w][i].to] # "none" \/ Creates(job[w], queue'[w][i].to)
               \/ \E k \in 1 .. i - 1 : Creates(queue'[w][k], queue'[w][i].to)
    BY <2>1, <2>3 DEF CreatedFirst
  <2> QED
    BY <1>1, <2>2, <2>3 DEF CreatedFirst
<1> QED
  BY <1>2, <1>3 DEF Finish

\* Every step keeps creations ahead of what is sent.
LEMMA CreatedStep ==
  ASSUME Shapes, Places, CreatedFirst, [ActorsNext]_actorVars
  PROVE  CreatedFirst'
<1>0. /\ \A t \in Thread : out[t].kind = "send" => out[t].to \in spawned
      /\ \A w \in Worker : w \in Thread /\ w # Main
  BY ActorsAssumption DEF CreatedFirst, Thread
<1>1. ASSUME NEW t \in Thread, NEW a \in Actor, Spawn(t, a) \/ Send(t, a)
      PROVE  CreatedFirst'
  <2>1. PICK kind \in {"create", "send"} :
          pc[t] = "turn" /\ Making(t, kind, a) /\ (kind = "send" => a \in spawned)
    BY <1>1 DEF Spawn, Send
  <2>2. UNCHANGED <<queue, job, cell, spawned>> /\ \E where \in {"push", "reserve"} : Goto(t, where)
    BY <1>1 DEF Spawn, Send
  <2>3. \A u \in Thread : out'[u].kind = "send" => out'[u].to \in spawned
    BY <1>0, <2>1, MadeIsJob DEF Shapes
  <2>4. \A w \in Worker : pc'[w] \notin Turning => pc[w] \notin Turning
    BY <1>0, <2>2 DEF Goto, Shapes, Turning, Handing
  <2> QED
    BY <2>2, <2>3, <2>4, CreationStands
<1>2. ASSUME NEW t \in Thread, Reserve(t)
      PROVE  CreatedFirst'
  <2>1. UNCHANGED <<queue, job, cell, spawned>> /\ \E where \in {"push", "turn", "full"} : Goto(t, where)
    BY <1>2 DEF Reserve, Reserved, shared, counts
  <2>2. out[t] \in Jobs
    BY <1>2, InHand DEF Reserve, Handing
  <2>3. \/ out' = [out EXCEPT ![t] = NoJob] \/ out' = out
        \/ \E past \in BOOLEAN : out' = [out EXCEPT ![t].past = past]
    BY <1>2 DEF Reserve, Reserved
  <2>4. ASSUME NEW u \in Thread, out'[u].kind = "send"
        PROVE  out'[u].to \in spawned
    <3>1. CASE u # t
      BY <1>0, <2>3, <2>4, <3>1 DEF Shapes
    <3>2. CASE u = t /\ (out' = [out EXCEPT ![t] = NoJob] \/ out' = out)
      BY <1>0, <2>4, <3>2, NoneIsJob DEF Shapes
    <3>3. ASSUME u = t, NEW past \in BOOLEAN, out' = [out EXCEPT ![t].past = past]
          PROVE  out'[u].to \in spawned
      <4>1. out'[u] = [out[u] EXCEPT !.past = past]
        BY <3>3 DEF Shapes
      <4> QED
        BY <1>0, <2>2, <2>4, <3>3, <4>1, PastStaysJob
    <3> QED
      BY <2>3, <3>1, <3>2, <3>3
  <2>5. \A w \in Worker : pc'[w] \notin Turning => pc[w] \notin Turning
    BY <1>0, <2>1 DEF Goto, Shapes, Turning, Handing
  <2> QED
    BY <2>1, <2>4, <2>5, CreationStands
<1>3. ASSUME NEW t \in Thread, Park(t)
      PROVE  CreatedFirst'
  <2>1. UNCHANGED <<queue, job, cell, spawned, out>> /\ \E where \in {"parked", "reserve"} : Goto(t, where)
    BY <1>3 DEF Park, shared
  <2>2. \A w \in Worker : pc'[w] \notin Turning => pc[w] \notin Turning
    BY <1>0, <2>1 DEF Goto, Shapes, Turning, Handing
  <2> QED
    BY <1>0, <2>1, <2>2, CreationStands
<1>4. ASSUME NEW w \in Worker, EndTurn(w) \/ Fault(w)
      PROVE  CreatedFirst'
  <2>1. /\ UNCHANGED <<queue, job, spawned, out>> /\ \E where \in {"done", "abort"} : Goto(w, where)
        /\ \E state \in {"live", "dead"} : cell' = [cell EXCEPT ![job[w].to] = state]
        /\ pc[w] = "turn"
    BY <1>4 DEF EndTurn, Fault
  <2>2. job[w] \in Jobs
    BY <1>0, <2>1 DEF Places, Placed
  <2>3. job[w].to \in Actor
    BY <2>2 DEF Jobs
  <2>4. cell'[job[w].to] # "none" /\ \A a \in Actor : cell[a] # "none" => cell'[a] # "none"
    BY <2>1, <2>3 DEF Shapes
  <2>5. \A v \in Worker \ {w} : pc'[v] = pc[v]
    BY <1>0, <2>1 DEF Goto, Shapes
  <2> QED
    BY <1>0, <2>1, <2>4, <2>5, CreationStands
<1>5. ASSUME NEW w \in Worker, AbortMain(w) \/ AbortSenders(w) \/ SayQuiet(w) \/ Freed(w) \/ Done(w)
      PROVE  CreatedFirst'
  <2>1. UNCHANGED <<queue, job, cell, spawned, out>>
    BY <1>5 DEF AbortMain, AbortSenders, SayQuiet, Freed, Done, shared, counts
  <2>2. ASSUME NEW v \in Worker, pc[v] \in Turning
        PROVE  pc'[v] \in Turning
    <3>1. pc[w] \notin Turning
      BY <1>5 DEF AbortMain, AbortSenders, SayQuiet, Freed, Done, Turning, Handing
    <3>2. v # w
      BY <2>2, <3>1
    <3>3. \/ pc'[v] = pc[v]
          \/ pc[v] = "parked" /\ pc'[v] = "reserve"
          \/ pc[v] = "asleep" /\ pc'[v] = "finish"
      BY <1>0, <1>5, <3>2 DEF AbortMain, AbortSenders, SayQuiet, Freed, Done, Goto, WakeMain, WakeSenders, Shapes
    <3> QED
      BY <2>2, <3>3 DEF Turning, Handing
  <2> QED
    BY <1>0, <2>1, <2>2, CreationStands
<1>6. CASE MainReturns \/ Join \/ UNCHANGED actorVars
  <2>1. UNCHANGED <<queue, job, cell, spawned, out>>
    BY <1>6 DEF MainReturns, Join, actorVars, shared, counts
  <2>2. \A w \in Worker : pc'[w] = pc[w]
    BY <1>0, <1>6 DEF MainReturns, Join, Goto, actorVars, Shapes
  <2> QED
    BY <1>0, <2>1, <2>2, CreationStands
<1> QED
  BY <1>1, <1>2, <1>3, <1>4, <1>5, <1>6, PushIsCreated, TakeIsCreated, ReleaseIsCreated, FinishIsCreated
     DEF ActorsNext, Mainly, Working, Sending, Thread

-----------------------------------------------------------------------------
(* How the counts move.                                                    *)

\* One job more to finish, or one less, or none; and what that makes of the count.
CountMoves ==
  \/ Outstanding' = Outstanding /\ pending' = pending
  \/ \E j : j \notin Outstanding /\ Outstanding' = Outstanding \cup {j} /\ pending' = pending + 1
  \/ \E j \in Outstanding : Outstanding' = Outstanding \ {j} /\ pending' = pending - 1

\* One job made, or one accounted for, or one that is marked, or none.
OpenMoves ==
  \/ Open' = Open /\ UNCHANGED counts
  \/ \E j : /\ j \notin Open /\ Open' = Open \cup {j}
            /\ made' = made + 1 /\ UNCHANGED <<turns, drops, deadSends>>
  \/ \E j \in Open : /\ Open' = Open \ {j} /\ made' = made
                     /\ turns' + drops' + deadSends' = turns + drops + deadSends + 1
  \/ \E j \in Open : \E k : /\ k \notin Open \ {j} /\ Open' = (Open \ {j}) \cup {k}
                            /\ UNCHANGED counts

\* A slot given back, or taken: within the bound, or by one that may not wait.
BoxMoves(a) ==
  \/ Slots(a)' = Slots(a) /\ depth'[a] = depth[a]
  \/ \E j \in Slots(a) : Slots(a)' = Slots(a) \ {j} /\ depth'[a] = depth[a] - 1
  \/ \E j : /\ j \notin Slots(a) /\ Slots(a)' = Slots(a) \cup {j} /\ depth'[a] = depth[a] + 1
            /\ j.past \in BOOLEAN
            /\ IF j.past THEN died \/ (j.from # Main /\ Home[j.from] = Home[a])
               ELSE depth[a] < policy.bound[a]

\* What a step may do to the counts.
Moves ==
  /\ CountMoves /\ OpenMoves /\ policy' = policy /\ (died => died')
  /\ \A a \in Actor : policy.bound[a] # Unbounded => BoxMoves(a)

\* Counts that move with their sets stay exact.
LEMMA TallyMoves ==
  ASSUME Shapes, Tally, CountMoves, OpenMoves
  PROVE  Tally'
<1>1. IsFiniteSet(Outstanding') /\ pending' = Cardinality(Outstanding')
  <2>1. IsFiniteSet(Outstanding) /\ pending = Cardinality(Outstanding)
    BY DEF Tally
  <2>2. ASSUME NEW j, j \notin Outstanding, Outstanding' = Outstanding \cup {j}, pending' = pending + 1
        PROVE  IsFiniteSet(Outstanding') /\ pending' = Cardinality(Outstanding')
    BY <2>1, <2>2, FS_AddElement
  <2>3. ASSUME NEW j \in Outstanding, Outstanding' = Outstanding \ {j}, pending' = pending - 1
        PROVE  IsFiniteSet(Outstanding') /\ pending' = Cardinality(Outstanding')
    BY <2>1, <2>3, FS_RemoveElement
  <2> QED
    BY <2>1, <2>2, <2>3 DEF CountMoves
<1>2. IsFiniteSet(Open') /\ made' = turns' + drops' + deadSends' + Cardinality(Open')
  <2>1. /\ IsFiniteSet(Open) /\ made = turns + drops + deadSends + Cardinality(Open)
        /\ turns \in Nat /\ drops \in Nat /\ deadSends \in Nat
    BY DEF Tally, Shapes
  <2>2. Cardinality(Open) \in Nat
    BY <2>1, FS_CardinalityType
  <2>3. ASSUME NEW j, j \notin Open, Open' = Open \cup {j},
               made' = made + 1, UNCHANGED <<turns, drops, deadSends>>
        PROVE  IsFiniteSet(Open') /\ made' = turns' + drops' + deadSends' + Cardinality(Open')
    <3>1. IsFiniteSet(Open') /\ Cardinality(Open') = Cardinality(Open) + 1
      BY <2>1, <2>3, FS_AddElement
    <3> QED
      BY <2>1, <2>2, <2>3, <3>1
  <2>4. ASSUME NEW j \in Open, Open' = Open \ {j}, made' = made,
               turns' + drops' + deadSends' = turns + drops + deadSends + 1
        PROVE  IsFiniteSet(Open') /\ made' = turns' + drops' + deadSends' + Cardinality(Open')
    <3>1. IsFiniteSet(Open') /\ Cardinality(Open') = Cardinality(Open) - 1
      BY <2>1, <2>4, FS_RemoveElement
    <3> QED
      BY <2>1, <2>2, <2>4, <3>1
  <2>5. ASSUME NEW j \in Open, NEW k, k \notin Open \ {j}, Open' = (Open \ {j}) \cup {k},
               UNCHANGED counts
        PROVE  IsFiniteSet(Open') /\ made' = turns' + drops' + deadSends' + Cardinality(Open')
    <3>1. IsFiniteSet(Open \ {j}) /\ Cardinality(Open \ {j}) = Cardinality(Open) - 1
      BY <2>1, FS_RemoveElement
    <3>2. IsFiniteSet(Open') /\ Cardinality(Open') = Cardinality(Open \ {j}) + 1
      BY <2>5, <3>1, FS_AddElement
    <3> QED
      BY <2>1, <2>2, <2>5, <3>1, <3>2 DEF counts
  <2>6. Open' = Open /\ UNCHANGED counts
          => IsFiniteSet(Open') /\ made' = turns' + drops' + deadSends' + Cardinality(Open')
    BY <2>1 DEF counts
  <2> QED
    BY <2>3, <2>4, <2>5, <2>6 DEF OpenMoves
<1> QED
  BY <1>1, <1>2 DEF Tally

\* A mailbox that moves so keeps its count and its bound.
LEMMA BoxKept ==
  ASSUME Shapes, NEW a \in Actor, policy.bound[a] # Unbounded, Box(a), BoxMoves(a),
         policy' = policy, died => died'
  PROVE  Box(a)'
<1>1. policy.bound[a] \in Nat
  BY ActorsAssumption DEF Shapes
<1>2. IsFiniteSet(Slots(a)) /\ depth[a] = Cardinality(Slots(a)) /\ Cardinality(Slots(a)) \in Nat
  BY FS_CardinalityType DEF Box
<1> DEFINE Within(s) == {j \in s : ~j.past}
<1>3. IsFiniteSet(Within(Slots(a))) /\ Cardinality(Within(Slots(a))) <= policy.bound[a]
  BY <1>2, FS_Subset DEF Box
<1>4. CASE Slots(a)' = Slots(a) /\ depth'[a] = depth[a]
  BY <1>4 DEF Box
<1>5. ASSUME NEW j \in Slots(a), Slots(a)' = Slots(a) \ {j}, depth'[a] = depth[a] - 1
      PROVE  Box(a)'
  <2>1. IsFiniteSet(Slots(a)') /\ depth'[a] = Cardinality(Slots(a)')
    BY <1>2, <1>5, FS_RemoveElement
  <2>2. Within(Slots(a)') \subseteq Within(Slots(a))
    BY <1>5
  <2>3. Cardinality(Within(Slots(a)')) <= Cardinality(Within(Slots(a)))
        /\ Cardinality(Within(Slots(a)')) \in Nat /\ Cardinality(Within(Slots(a))) \in Nat
    BY <1>3, <2>2, FS_Subset, FS_CardinalityType
  <2>4. Cardinality(Within(Slots(a)')) <= policy.bound[a]
    BY <1>1, <1>3, <2>3
  <2>5. \A k \in Slots(a)' : k.past => died' \/ (k.from # Main /\ Home[k.from] = Home[a])
    BY <1>5 DEF Box
  <2> QED
    BY <2>1, <2>4, <2>5 DEF Box
<1>6. ASSUME NEW j, j \notin Slots(a), Slots(a)' = Slots(a) \cup {j}, depth'[a] = depth[a] + 1,
             j.past \in BOOLEAN,
             IF j.past THEN died \/ (j.from # Main /\ Home[j.from] = Home[a])
             ELSE depth[a] < policy.bound[a]
      PROVE  Box(a)'
  <2>1. IsFiniteSet(Slots(a)') /\ Cardinality(Slots(a)') = Cardinality(Slots(a)) + 1
    BY <1>2, <1>6, FS_AddElement
  <2>2. Cardinality(Within(Slots(a)')) <= policy.bound[a]
    <3>1. CASE j.past
      <4>1. Within(Slots(a)') = Within(Slots(a))
        BY <1>6, <3>1
      <4> QED
        BY <1>3, <4>1
    <3>2. CASE ~j.past
      <4>1. Within(Slots(a)') \subseteq Slots(a)'
        OBVIOUS
      <4>2. IsFiniteSet(Within(Slots(a)'))
            /\ Cardinality(Within(Slots(a)')) <= Cardinality(Slots(a)')
        BY <2>1, <4>1, FS_Subset
      <4>3. Cardinality(Within(Slots(a)')) \in Nat
        BY <4>2, FS_CardinalityType
      <4>4. depth[a] < policy.bound[a]
        BY <1>6, <3>2
      <4> HIDE DEF Within
      <4> QED
        BY <1>1, <1>2, <2>1, <4>2, <4>3, <4>4
    <3> QED
      BY <1>6, <3>1, <3>2
  <2>3. \A k \in Slots(a)' : k.past => died' \/ (k.from # Main /\ Home[k.from] = Home[a])
    BY <1>6 DEF Box
  <2> QED
    BY <1>2, <1>6, <2>1, <2>2, <2>3 DEF Box
<1> QED
  BY <1>4, <1>5, <1>6 DEF BoxMoves

-----------------------------------------------------------------------------
(* What is where.                                                          *)

\* The jobs in a set of lines.
WorkOf(q) == {j \in Jobs : \E w \in Worker : \E i \in DOMAIN q[w] : q[w][i] = j}

\* A job is in the lines when it is at some place of one.
LEMMA WorkIs ==
  ASSUME NEW q \in [Worker -> Seq(Jobs \cup {Shutdown})]
  PROVE  {j \in UNION {{q[w][i] : i \in DOMAIN q[w]} : w \in Worker} : j.kind # "shutdown"}
           = WorkOf(q)
<1>1. \A w \in Worker : \A i \in DOMAIN q[w] : q[w][i] \in Jobs \cup {Shutdown}
  OBVIOUS
<1> QED
  BY <1>1, NoneIsJob DEF WorkOf

\* The jobs of the lines, before a step.
LEMMA WorkNow == Shapes => Work = WorkOf(queue)
BY WorkIs DEF Shapes, Work, Queued

\* The jobs of the lines, after it.
LEMMA WorkThen == Shapes' => Work' = WorkOf(queue')
BY WorkIs DEF Shapes, Work, Queued

\* No job is in two places.
LEMMA Distinct ==
  ASSUME Shapes, Places, Ordered
  PROVE  /\ \A t \in Thread : out[t] \in Jobs =>
              /\ out[t] \notin Work
              /\ \A w \in Worker : out[t] # job[w]
              /\ \A u \in Thread \ {t} : out[u] # out[t]
         /\ \A w \in Worker : job[w] \in Jobs =>
              /\ job[w] \notin Work
              /\ \A v \in Worker \ {w} : job[v] # job[w]
         /\ \A w \in Worker : \A i, k \in DOMAIN queue[w] :
              queue[w][i] \in Jobs /\ i # k => queue[w][k] # queue[w][i]
         /\ \A w, v \in Worker : \A i \in DOMAIN queue[w], k \in DOMAIN queue[v] :
              queue[w][i] \in Jobs /\ w # v => queue[v][k] # queue[w][i]
<1>0. \A j \in Jobs : j.no \in Nat /\ ~Older(j, j)
  BY DEF Jobs, Older
<1>1. ASSUME NEW t \in Thread, out[t] \in Jobs
      PROVE  /\ out[t] \notin Work
             /\ \A w \in Worker : out[t] # job[w]
             /\ \A u \in Thread \ {t} : out[u] # out[t]
  <2>1. out[t] \notin Work
    BY <1>0, <1>1, WorkNow DEF WorkOf, Ordered
  <2>2. \A w \in Worker : out[t] # job[w]
    BY <1>0, <1>1 DEF Ordered
  <2>3. ASSUME NEW u \in Thread \ {t}, out[u] = out[t]
        PROVE  FALSE
    <3>1. pc[u] \in Turning /\ pc[t] \in Turning /\ out[u].from = Sender(u) /\ out[t].from = Sender(t)
      BY <1>1, <2>3, InHand DEF Turning
    <3> QED
      BY <2>3, <3>1, SenderIsOne
  <2> QED
    BY <2>1, <2>2, <2>3
<1>2. \A w \in Worker : w \in Thread /\ (job[w] \in Jobs => Home[job[w].to] = w)
  BY NoneIsJob DEF Places, Placed, Thread
<1>3. \A w \in Worker : \A i \in DOMAIN queue[w] : queue[w][i] \in Jobs => Home[queue[w][i].to] = w
  BY NoneIsJob DEF Places, Homes
<1>4. ASSUME NEW w \in Worker, job[w] \in Jobs
      PROVE  /\ job[w] \notin Work
             /\ \A v \in Worker \ {w} : job[v] # job[w]
  BY <1>0, <1>2, <1>3, <1>4, WorkNow DEF WorkOf, Ordered
<1>5. ASSUME NEW w \in Worker, NEW i \in DOMAIN queue[w], NEW k \in DOMAIN queue[w],
             queue[w][i] \in Jobs, i # k, queue[w][k] = queue[w][i]
      PROVE  FALSE
  <2>1. i \in Nat /\ k \in Nat /\ i >= 1 /\ k >= 1
    <3>1. queue[w] \in Seq(Jobs \cup {Shutdown})
      BY DEF Shapes
    <3> QED
      BY <3>1
  <2>2. i \in 1 .. k - 1 \/ k \in 1 .. i - 1
    BY <1>5, <2>1
  <2> QED
    BY <1>0, <1>5, <2>2 DEF Ordered
<1>6. ASSUME NEW w \in Worker, NEW v \in Worker, NEW i \in DOMAIN queue[w], NEW k \in DOMAIN queue[v],
             queue[w][i] \in Jobs, w # v, queue[v][k] = queue[w][i]
      PROVE  FALSE
  BY <1>3, <1>6
<1> QED
  BY <1>1, <1>4, <1>5, <1>6

\* A push adds one job to the lines.
LEMMA WorkAppended ==
  ASSUME NEW q \in [Worker -> Seq(Jobs \cup {Shutdown})], NEW h \in Worker, NEW j \in Jobs
  PROVE  WorkOf([q EXCEPT ![h] = Append(@, j)]) = WorkOf(q) \cup {j}
<1> DEFINE r == [q EXCEPT ![h] = Append(@, j)]
<1>1. /\ \A w \in Worker : w # h => r[w] = q[w]
      /\ r[h] = Append(q[h], j) /\ q[h] \in Seq(Jobs \cup {Shutdown})
  OBVIOUS
<1> HIDE DEF r
<1>2. /\ \A i \in DOMAIN q[h] : i \in DOMAIN r[h] /\ r[h][i] = q[h][i]
      /\ \A i \in DOMAIN r[h] : i \in DOMAIN q[h] \/ r[h][i] = j
      /\ \E i \in DOMAIN r[h] : r[h][i] = j
  <2>1. Len(q[h]) + 1 \in DOMAIN r[h] /\ r[h][Len(q[h]) + 1] = j
    BY <1>1
  <2>2. \A i \in DOMAIN r[h] : i \in DOMAIN q[h] \/ i = Len(q[h]) + 1
    BY <1>1
  <2>3. \A i \in DOMAIN q[h] : i \in DOMAIN r[h] /\ r[h][i] = q[h][i]
    BY <1>1
  <2> QED
    BY <2>1, <2>2, <2>3
<1>3. WorkOf(r) = WorkOf(q) \cup {j}
  BY <1>1, <1>2 DEF WorkOf
<1> QED
  BY <1>3 DEF r

\* The word to stop is no job of the lines.
LEMMA WorkClosed ==
  ASSUME NEW q \in [Worker -> Seq(Jobs \cup {Shutdown})]
  PROVE  WorkOf([w \in Worker |-> Append(q[w], Shutdown)]) = WorkOf(q)
<1> DEFINE r == [w \in Worker |-> Append(q[w], Shutdown)]
<1>1. ASSUME NEW w \in Worker
      PROVE  /\ \A i \in DOMAIN q[w] : i \in DOMAIN r[w] /\ r[w][i] = q[w][i]
             /\ \A i \in DOMAIN r[w] : r[w][i] \in Jobs => i \in DOMAIN q[w]
  <2>1. r[w] = Append(q[w], Shutdown) /\ q[w] \in Seq(Jobs \cup {Shutdown})
    OBVIOUS
  <2> HIDE DEF r
  <2>2. \A i \in DOMAIN r[w] : i \in DOMAIN q[w] \/ r[w][i] = Shutdown
    BY <2>1
  <2>3. \A i \in DOMAIN q[w] : i \in DOMAIN r[w] /\ r[w][i] = q[w][i]
    BY <2>1
  <2> QED
    BY <2>2, <2>3, NoneIsJob
<1> HIDE DEF r
<1>2. WorkOf(r) = WorkOf(q)
  BY <1>1 DEF WorkOf
<1> QED
  BY <1>2 DEF r

\* What a worker takes is no longer in any line.
LEMMA WorkTaken ==
  ASSUME Shapes, Places, Ordered, NEW w \in Worker, Take(w)
  PROVE  /\ Head(queue[w]) \in Jobs \cup {Shutdown}
         /\ Head(queue[w]) \in Jobs => Head(queue[w]) \in Work
         /\ Work' = Work \ {Head(queue[w])}
<1> DEFINE next == Head(queue[w])
<1>1. queue[w] \in Seq(Jobs \cup {Shutdown}) /\ queue[w] # <<>>
  BY DEF Shapes, Take
<1>2. next = queue[w][1] /\ 1 \in DOMAIN queue[w] /\ next \in Jobs \cup {Shutdown}
  BY <1>1
<1> HIDE DEF next
<1>3. next \in Jobs => next \in Work
  BY <1>2, WorkNow DEF WorkOf
<1>4. queue'[w] = Tail(queue[w]) /\ \A v \in Worker : v # w => queue'[v] = queue[v]
  BY DEF Take, Shapes
<1>5. \A i \in DOMAIN queue'[w] : /\ i + 1 \in DOMAIN queue[w] /\ queue'[w][i] = queue[w][i + 1]
                                  /\ i + 1 # 1
  <2> DEFINE s == queue[w]
  <2>1. s # <<>> /\ s \in Seq(Jobs \cup {Shutdown})
    BY <1>1
  <2> HIDE DEF s
  <2>2. \A i \in DOMAIN Tail(s) : i + 1 \in DOMAIN s /\ Tail(s)[i] = s[i + 1] /\ i + 1 # 1
    BY <2>1
  <2> QED
    BY <1>4, <2>2 DEF s
<1>6. \A i \in DOMAIN queue[w] : i # 1 => i - 1 \in DOMAIN queue'[w] /\ queue'[w][i - 1] = queue[w][i]
  <2> DEFINE s == queue[w]
  <2>1. s # <<>> /\ s \in Seq(Jobs \cup {Shutdown})
    BY <1>1
  <2> HIDE DEF s
  <2>2. \A i \in DOMAIN s : i # 1 => i - 1 \in DOMAIN Tail(s) /\ Tail(s)[i - 1] = s[i]
    BY <2>1
  <2> QED
    BY <1>4, <2>2 DEF s
<1>7. Work' = WorkOf(queue')
  BY ShapesStep, WorkThen DEF ActorsNext, Working
<1>8. WorkOf(queue') = WorkOf(queue) \ {next}
  <2>1. ASSUME NEW j \in WorkOf(queue')
        PROVE  j \in WorkOf(queue) /\ j # next
    <3>1. PICK v \in Worker : \E i \in DOMAIN queue'[v] : queue'[v][i] = j /\ j \in Jobs
      BY <2>1 DEF WorkOf
    <3>2. CASE v = w
      BY <1>2, <1>5, <3>1, <3>2, Distinct DEF WorkOf
    <3>3. CASE v # w
      BY <1>2, <1>4, <3>1, <3>3, Distinct DEF WorkOf
    <3> QED
      BY <3>2, <3>3
  <2>2. ASSUME NEW j \in WorkOf(queue), j # next
        PROVE  j \in WorkOf(queue')
    <3>1. PICK v \in Worker : \E i \in DOMAIN queue[v] : queue[v][i] = j /\ j \in Jobs
      BY <2>2 DEF WorkOf
    <3>2. CASE v = w
      BY <1>2, <1>6, <2>2, <3>1, <3>2 DEF WorkOf
    <3>3. CASE v # w
      BY <1>4, <3>1, <3>3 DEF WorkOf
    <3> QED
      BY <3>2, <3>3
  <2> QED
    BY <2>1, <2>2
<1> QED
  BY <1>2, <1>3, <1>7, <1>8, WorkNow DEF next

\* Where a worker has accounted for its job, or has none to account for.
Finished == {"last", "release", "gone"}

\* Nothing changes hands.
LEMMA NothingMoves ==
  ASSUME Work' = Work, out' = out, job' = job, depth' = depth, pending' = pending,
         UNCHANGED counts, policy' = policy, died => died',
         \A t \in Thread : pc'[t] = "push" <=> pc[t] = "push",
         \A w \in Worker : job[w] # NoJob => (pc'[w] \in Finished <=> pc[w] \in Finished)
  PROVE  Moves /\ Outstanding' = Outstanding
<1>1. Pushing' = Pushing
  BY DEF Pushing
<1>2. Unfinished' = Unfinished
  BY DEF Unfinished, Finished
<1>3. Taken' = Taken /\ Outs' = Outs
  BY DEF Taken, Outs
<1>4. Outstanding' = Outstanding /\ Open' = Open /\ Holding' = Holding
  BY <1>1, <1>2, <1>3 DEF Outstanding, Open, Holding
<1>5. \A a \in Actor : Slots(a)' = Slots(a)
  BY <1>4 DEF Slots, Holding
<1> QED
  BY <1>4, <1>5 DEF Moves, CountMoves, OpenMoves, BoxMoves

\* Where a job in hand is, and is not.
LEMMA HandIsApart ==
  ASSUME Shapes, Places, Ordered, NEW t \in Thread, out[t] \in Jobs
  PROVE  /\ out[t] \notin Work /\ out[t] \notin Taken /\ out[t] \notin Unfinished
         /\ pc[t] # "push" => out[t] \notin Pushing
         /\ out[t] \in Outs
<1>1. \A w \in Worker : out[t] # job[w]
  BY Distinct
<1>2. out[t] \notin Taken /\ out[t] \notin Unfinished
  BY <1>1 DEF Taken, Unfinished
<1>3. pc[t] # "push" => out[t] \notin Pushing
  BY Distinct DEF Pushing
<1>4. out[t] \in Outs
  BY NoneIsJob DEF Outs
<1> QED
  BY <1>2, <1>3, <1>4, Distinct

\* A job with a number not yet given is nowhere.
LEMMA NewIsApart ==
  ASSUME Shapes, Places, Ordered, NEW j \in Jobs, j.no = made
  PROVE  j \notin Outstanding /\ j \notin Open /\ j \notin Holding
<1>1. made \in Nat /\ ~(made < made)
  BY ActorsAssumption DEF Shapes
<1>2. \A t \in Thread : out[t] # j
  BY <1>1 DEF Ordered
<1>3. \A w \in Worker : job[w] # j
  BY <1>1 DEF Ordered
<1>4. j \notin Work
  BY <1>1, WorkNow DEF WorkOf, Ordered
<1> QED
  BY <1>2, <1>3, <1>4 DEF Outstanding, Open, Holding, Pushing, Outs, Taken, Unfinished

-----------------------------------------------------------------------------
(* What each step moves.                                                   *)

\* A spawn and a send make one job: one outstanding, or one to find room for.
LEMMA MakingMoves ==
  ASSUME Shapes, Places, Ordered, NEW t \in Thread, NEW a \in Actor, Spawn(t, a) \/ Send(t, a)
  PROVE  Moves
<1>1. PICK kind \in {"create", "send"} :
        /\ pc[t] = "turn" /\ Making(t, kind, a)
        /\ \/ kind = "create" /\ Goto(t, "push") /\ pending' = pending + 1
           \/ kind = "send" /\ policy.bound[a] = Unbounded /\ Goto(t, "push") /\ pending' = pending + 1
           \/ Goto(t, "reserve") /\ pending' = pending
  BY DEF Spawn, Send
<1>2. PICK j \in Jobs : /\ j.kind = kind /\ j.to = a /\ j.no = made
                        /\ out' = [out EXCEPT ![t] = j] /\ out[t] = NoJob /\ made' = made + 1
  BY <1>1, MadeIsJob
<1>3. UNCHANGED <<queue, job, depth, died, drops, deadSends, turns, policy>>
  BY DEF Spawn, Send
<1>4. j \notin Outstanding /\ j \notin Open /\ j \notin Holding
  BY <1>2, NewIsApart
<1>5. /\ \A u \in Thread : u # t => pc'[u] = pc[u] /\ out'[u] = out[u]
      /\ out'[t] = j /\ pc'[t] \in {"push", "reserve"} /\ (pc'[t] = "push" <=> Goto(t, "push"))
  BY <1>1, <1>2 DEF Goto, Shapes
<1>6. Work' = Work /\ Taken' = Taken
  BY <1>3 DEF Work, Queued, Taken
<1>7. Unfinished' = Unfinished
  <2>1. \A w \in Worker : pc'[w] \in Finished <=> pc[w] \in Finished
    BY <1>1, <1>5 DEF Finished, Thread
  <2> QED
    BY <1>3, <2>1 DEF Unfinished, Finished
<1>8. Outs' = Outs \cup {j}
  BY <1>2, <1>5, NoneIsJob DEF Outs
<1>9. CASE pc'[t] = "push"
  <2>1. Pushing' = Pushing \cup {j}
    BY <1>1, <1>5, <1>9 DEF Pushing
  <2>2. Outstanding' = Outstanding \cup {j} /\ Open' = Open \cup {j} /\ Holding' = Holding \cup {j}
    BY <1>6, <1>7, <1>8, <2>1 DEF Outstanding, Open, Holding
  <2>3. Goto(t, "push")
    BY <1>5, <1>9
  <2>4. ~Goto(t, "reserve")
    BY <1>9 DEF Goto, Shapes
  <2>5. pending' = pending + 1
    BY <1>1, <2>4
  <2>6. \A b \in Actor : policy.bound[b] # Unbounded => Slots(b)' = Slots(b)
    <3>1. \A b \in Actor : policy.bound[b] # Unbounded => ~(j.kind = "send" /\ j.to = b)
      BY <1>1, <1>2, <2>4
    <3> QED
      BY <2>2, <3>1 DEF Slots, Holding
  <2> QED
    BY <1>2, <1>3, <1>4, <2>2, <2>5, <2>6 DEF Moves, CountMoves, OpenMoves, BoxMoves
<1>10. CASE pc'[t] # "push"
  <2>1. Pushing' = Pushing
    BY <1>1, <1>5, <1>10 DEF Pushing
  <2>2. Outstanding' = Outstanding /\ Open' = Open \cup {j} /\ Holding' = Holding
    BY <1>6, <1>7, <1>8, <2>1 DEF Outstanding, Open, Holding
  <2>3. ~Goto(t, "push")
    BY <1>5, <1>10
  <2>4. pending' = pending
    BY <1>1, <2>3
  <2>5. \A b \in Actor : Slots(b)' = Slots(b)
    BY <2>2 DEF Slots, Holding
  <2> QED
    BY <1>2, <1>3, <1>4, <2>2, <2>4, <2>5 DEF Moves, CountMoves, OpenMoves, BoxMoves
<1> QED
  BY <1>9, <1>10

\* A send into a bounded mailbox takes a slot, is dropped at the bound, or waits.
LEMMA ReserveMoves ==
  ASSUME Shapes, Places, Ordered, NEW t \in Thread, Reserve(t)
  PROVE  Moves
<1>1. out[t] \in Jobs /\ pc[t] = "reserve" /\ out[t].kind = "send" /\ policy.bound[out[t].to] # Unbounded
  BY InHand DEF Reserve, Handing, Places, Placed
<1>2. UNCHANGED <<queue, job, died, policy, made, turns, deadSends>>
  BY DEF Reserve, Reserved, shared, counts
<1>3. Work' = Work /\ Taken' = Taken
  BY <1>2 DEF Work, Queued, Taken
<1>4. out[t].to \in Actor /\ (t \in Worker => Home[out[t].from] = t) /\ (out[t].from = Main <=> t = Main)
  <2>1. pc[t] \in Turning /\ out[t].from = Sender(t)
    BY <1>1, InHand DEF Turning, Handing
  <2> QED
    BY <1>1, <2>1, SenderIsOne, ActorsAssumption DEF Jobs, Sender, Thread
<1>5. ASSUME \E where \in {"push", "turn", "full"} : Goto(t, where)
      PROVE  Unfinished' = Unfinished
  <2>1. \A w \in Worker : pc'[w] \in Finished <=> pc[w] \in Finished
    BY <1>1, <1>5 DEF Finished, Thread, Goto, Shapes
  <2> QED
    BY <1>2, <2>1 DEF Unfinished, Finished
<1>6. CASE drops' = drops + 1 /\ out' = [out EXCEPT ![t] = NoJob] /\ Goto(t, "turn") /\ UNCHANGED shared
  <2>1. /\ \A u \in Thread : u # t => pc'[u] = pc[u] /\ out'[u] = out[u]
        /\ out'[t] = NoJob /\ pc'[t] = "turn"
    BY <1>6 DEF Goto, Shapes
  <2>2. Pushing' = Pushing
    BY <1>1, <2>1 DEF Pushing
  <2>3. Outs' = Outs \ {out[t]}
    BY <1>1, <2>1, Distinct, NoneIsJob DEF Outs
  <2>4. out[t] \in Open /\ out[t] \notin Work
    BY <1>1, HandIsApart DEF Open
  <2>5. Outstanding' = Outstanding /\ Open' = Open \ {out[t]} /\ Holding' = Holding
    BY <1>3, <1>5, <1>6, <2>2, <2>3, <2>4 DEF Outstanding, Open, Holding
  <2>6. turns' + drops' + deadSends' = turns + drops + deadSends + 1
    BY <1>2, <1>6 DEF Shapes
  <2>7. \A b \in Actor : Slots(b)' = Slots(b)
    BY <2>5 DEF Slots, Holding
  <2> QED
    BY <1>2, <1>6, <2>4, <2>5, <2>6, <2>7 DEF Moves, CountMoves, OpenMoves, BoxMoves, shared
<1>7. CASE Goto(t, "full") /\ UNCHANGED <<shared, job, out, counts, policy>>
  <2>1. \A u \in Thread : pc'[u] = "push" <=> pc[u] = "push"
    BY <1>1, <1>7 DEF Goto, Shapes
  <2>2. \A w \in Worker : pc'[w] \in Finished <=> pc[w] \in Finished
    BY <1>1, <1>7 DEF Finished, Thread, Goto, Shapes
  <2> QED
    BY <1>3, <1>7, <2>1, <2>2, NothingMoves DEF shared
<1>8. ASSUME NEW past \in BOOLEAN, Reserved(t, past),
             IF past THEN MayNotWait(t) ELSE ~Full(out[t].to)
      PROVE  Moves
  <2> DEFINE j == [out[t] EXCEPT !.past = past]
  <2>1. j \in Jobs /\ j.kind = "send" /\ j.to = out[t].to /\ j.from = out[t].from /\ j.no = out[t].no
        /\ j.past = past
    BY <1>1, PastStaysJob
  <2>2. /\ \A u \in Thread : u # t => pc'[u] = pc[u] /\ out'[u] = out[u]
        /\ out'[t] = j /\ pc'[t] = "push" /\ pending' = pending + 1
        /\ depth' = [depth EXCEPT ![out[t].to] = @ + 1] /\ UNCHANGED counts
    BY <1>8 DEF Reserved, Goto, Shapes
  <2> HIDE DEF j
  <2>3. Pushing' = Pushing \cup {j}
    BY <1>1, <2>2 DEF Pushing
  <2>4. Outs' = (Outs \ {out[t]}) \cup {j}
    BY <1>1, <2>1, <2>2, Distinct, NoneIsJob DEF Outs
  <2>5. out[t] \in Open /\ out[t] \notin Work
    BY <1>1, HandIsApart DEF Open
  <2>6. /\ \A u \in Thread : u # t => out[u] # j
        /\ \A w \in Worker : job[w] # j
        /\ j \notin Work
    <3>1. ASSUME NEW u \in Thread, u # t, out[u] = j
          PROVE  FALSE
      <4>1. pc[u] \in Turning /\ pc[t] \in Turning /\ out[u].from = Sender(u) /\ out[t].from = Sender(t)
        BY <1>1, <2>1, <3>1, InHand DEF Turning
      <4> QED
        BY <2>1, <3>1, <4>1, SenderIsOne
    <3>2. j.no \in Nat
      BY <2>1 DEF Jobs
    <3>3. \A w \in Worker : job[w] # j
      BY <1>1, <2>1, <3>2 DEF Ordered, Older
    <3>4. j \notin Work
      BY <1>1, <2>1, <3>2, WorkNow DEF WorkOf, Ordered, Older
    <3> QED
      BY <3>1, <3>3, <3>4
  <2>7. j \notin Outstanding /\ j \notin Open \ {out[t]} /\ j \notin Holding
    <3>1. j \notin Pushing
      BY <1>1, <2>6 DEF Pushing
    <3>2. j \notin Taken /\ j \notin Unfinished
      BY <2>6 DEF Taken, Unfinished
    <3>3. j \notin Outs \ {out[t]}
      BY <2>6 DEF Outs
    <3> QED
      BY <2>6, <3>1, <3>2, <3>3 DEF Outstanding, Open, Holding
  <2>8. Unfinished' = Unfinished
    BY <1>5, <1>8 DEF Reserved
  <2>9. Outstanding' = Outstanding \cup {j} /\ Open' = (Open \ {out[t]}) \cup {j} /\ Holding' = Holding \cup {j}
    BY <1>3, <2>3, <2>4, <2>5, <2>8 DEF Outstanding, Open, Holding
  <2>10. ASSUME NEW b \in Actor, policy.bound[b] # Unbounded
         PROVE  BoxMoves(b)
    <3>1. CASE b # out[t].to
      <4>1. Slots(b)' = Slots(b)
        BY <2>1, <2>9, <3>1 DEF Slots, Holding
      <4>2. depth'[b] = depth[b]
        BY <1>4, <2>2, <3>1 DEF Shapes
      <4> QED
        BY <4>1, <4>2 DEF BoxMoves
    <3>2. CASE b = out[t].to
      <4>1. Slots(b)' = Slots(b) \cup {j} /\ j \notin Slots(b)
        BY <2>1, <2>7, <2>9, <3>2 DEF Slots, Holding
      <4>2. depth'[b] = depth[b] + 1
        BY <1>4, <2>2, <3>2 DEF Shapes
      <4>3. past => died \/ (j.from # Main /\ Home[j.from] = Home[b])
        <5>1. past => Home[out[t].to] = t \/ died
          BY <1>8 DEF MayNotWait
        <5>2. Home[out[t].to] \in Worker
          BY <1>4, ActorsAssumption
        <5> QED
          BY <1>4, <2>1, <3>2, <5>1, <5>2, ActorsAssumption
      <4>4. ~past => depth[b] < policy.bound[b]
        <5>1. policy.bound[b] \in Nat /\ depth[b] \in Int
          BY <2>10, ActorsAssumption DEF Shapes
        <5> QED
          BY <1>8, <3>2, <5>1 DEF Full
      <4> QED
        BY <2>1, <4>1, <4>2, <4>3, <4>4 DEF BoxMoves
    <3> QED
      BY <3>1, <3>2
  <2> QED
    BY <1>2, <2>2, <2>5, <2>7, <2>9, <2>10 DEF Moves, CountMoves, OpenMoves
<1>9. (~Full(out[t].to) /\ Reserved(t, FALSE)) \/ (MayNotWait(t) /\ Reserved(t, TRUE)) => Moves
  BY <1>8
<1> QED
  BY <1>6, <1>7, <1>9 DEF Reserve

\* A push takes a job from the hand to the line.
LEMMA PushMoves ==
  ASSUME Shapes, Places, Ordered, NEW t \in Thread, Push(t)
  PROVE  Moves
<1>1. out[t] \in Jobs /\ pc[t] = "push"
  BY InHand DEF Push, Handing
<1>2. Home[out[t].to] \in Worker
  BY <1>1, ActorsAssumption DEF Jobs
<1>3. /\ queue' = [queue EXCEPT ![Home[out[t].to]] = Append(@, out[t])]
      /\ UNCHANGED <<job, depth, pending, died, counts, policy>>
      /\ \A u \in Thread : u # t => pc'[u] = pc[u] /\ out'[u] = out[u]
      /\ out'[t] = NoJob /\ pc'[t] = "turn"
  BY DEF Push, Goto, Shapes
<1>4. Work' = Work \cup {out[t]}
  <2>1. Shapes'
    BY ShapesStep DEF ActorsNext, Mainly, Working, Sending, Thread
  <2>2. WorkOf(queue') = WorkOf(queue) \cup {out[t]}
    BY <1>1, <1>2, <1>3, WorkAppended DEF Shapes
  <2> QED
    BY <2>1, <2>2, WorkNow, WorkThen
<1>5. Taken' = Taken
  BY <1>3 DEF Taken
<1>6. Unfinished' = Unfinished
  <2>1. \A w \in Worker : pc'[w] \in Finished <=> pc[w] \in Finished
    BY <1>1, <1>3 DEF Finished, Thread
  <2> QED
    BY <1>3, <2>1 DEF Unfinished, Finished
<1>7. Pushing' = Pushing \ {out[t]} /\ out[t] \in Pushing
  BY <1>1, <1>3, Distinct DEF Pushing
<1>8. Outs' = Outs \ {out[t]} /\ out[t] \in Outs
  BY <1>1, <1>3, Distinct, NoneIsJob DEF Outs
<1>9. Outstanding' = Outstanding /\ Open' = Open /\ Holding' = Holding
  BY <1>4, <1>5, <1>6, <1>7, <1>8 DEF Outstanding, Open, Holding
<1>10. \A a \in Actor : Slots(a)' = Slots(a)
  BY <1>9 DEF Slots, Holding
<1> QED
  BY <1>3, <1>9, <1>10 DEF Moves, CountMoves, OpenMoves, BoxMoves

\* A worker takes a job out of its line, or finds its actor dead and drops it.
LEMMA TakeMoves ==
  ASSUME Shapes, Places, Ordered, NEW w \in Worker, Take(w)
  PROVE  /\ Moves /\ Outstanding' = Outstanding
         /\ Work = {} => UNCHANGED counts
<1> DEFINE next == Head(queue[w])
<1>1. next \in Jobs \cup {Shutdown} /\ (next \in Jobs => next \in Work) /\ Work' = Work \ {next}
  BY WorkTaken
<1>2. /\ w \in Thread /\ w # Main /\ pc[w] = "idle" /\ job[w] = NoJob
  BY ActorsAssumption, NoneIsJob DEF Take, Places, Placed, Thread, Turning, Handing
<1>3. /\ \/ next.kind = "shutdown" /\ Goto(w, "gone") /\ UNCHANGED <<deadSends, turns>>
         \/ /\ next.kind # "shutdown" /\ \E where \in {"turn", "done"} : Goto(w, where)
            /\ \/ turns' = turns + 1 /\ deadSends' = deadSends
               \/ turns' = turns /\ deadSends' = deadSends + 1
      /\ UNCHANGED <<depth, pending, died, out, made, drops, policy>>
      /\ job' = [job EXCEPT ![w] = next]
  BY DEF Take
<1> HIDE DEF next
<1>4. /\ \A v \in Worker : v # w => job'[v] = job[v] /\ pc'[v] = pc[v]
      /\ \A u \in Thread : u # w => pc'[u] = pc[u]
      /\ job'[w] = next
      /\ next.kind = "shutdown" => pc'[w] = "gone"
      /\ next.kind # "shutdown" => pc'[w] \in {"turn", "done"}
  BY <1>2, <1>3 DEF Goto, Shapes, Thread
<1>5. Pushing' = Pushing /\ Outs' = Outs
  <2>1. pc'[w] # "push"
    BY <1>4
  <2> QED
    BY <1>2, <1>3, <1>4, <2>1 DEF Pushing, Outs
<1>6. CASE next = Shutdown
  <2>1. next.kind = "shutdown" /\ next \notin Work
    BY <1>6, NoneIsJob, WorkNow DEF WorkOf
  <2>2. Work' = Work /\ UNCHANGED counts
    BY <1>1, <1>3, <2>1 DEF counts
  <2>3. Taken' = Taken
    BY <1>2, <1>4, <2>1, NoneIsJob DEF Taken
  <2>4. Unfinished' = Unfinished
    BY <1>2, <1>4, <2>1 DEF Unfinished
  <2>5. Outstanding' = Outstanding /\ Open' = Open /\ Holding' = Holding
    BY <1>5, <2>2, <2>3, <2>4 DEF Outstanding, Open, Holding
  <2>6. \A a \in Actor : Slots(a)' = Slots(a)
    BY <2>5 DEF Slots, Holding
  <2> QED
    BY <1>3, <2>2, <2>5, <2>6 DEF Moves, CountMoves, OpenMoves, BoxMoves
<1>7. CASE next \in Jobs
  <2>1. next.kind \in {"create", "send"} /\ next # NoJob /\ next \in Work
    BY <1>1, <1>7, NoneIsJob
  <2>2. pc'[w] \in {"turn", "done"}
    BY <1>4, <2>1
  <2>3. Taken' = Taken \cup {next}
    BY <1>2, <1>4, <2>1, NoneIsJob DEF Taken
  <2>4. Unfinished' = Unfinished \cup {next}
    BY <1>2, <1>4, <2>1, <2>2 DEF Unfinished
  <2>5. next \notin Outs
    BY <2>1, Distinct, NoneIsJob, <1>7 DEF Outs
  <2>6. Outstanding' = Outstanding /\ Open' = Open \ {next} /\ Holding' = Holding /\ next \in Open
    BY <1>1, <1>5, <2>1, <2>3, <2>4, <2>5 DEF Outstanding, Open, Holding
  <2>7. \A a \in Actor : Slots(a)' = Slots(a)
    BY <2>6 DEF Slots, Holding
  <2>8. made' = made /\ turns' + drops' + deadSends' = turns + drops + deadSends + 1
    BY <1>3, <2>1 DEF Shapes
  <2> QED
    BY <1>3, <2>1, <2>6, <2>7, <2>8 DEF Moves, CountMoves, OpenMoves, BoxMoves
<1> QED
  BY <1>1, <1>6, <1>7

\* A job that ends is outstanding no longer.
LEMMA DoneMoves ==
  ASSUME Shapes, Places, Ordered, NEW w \in Worker, Done(w)
  PROVE  /\ Moves
         /\ job[w] \in Unfinished
<1>1. w \in Thread /\ w # Main /\ pc[w] = "done" /\ job[w] \in Jobs
  BY ActorsAssumption DEF Done, Places, Placed, Thread
<1>2. /\ \A u \in Thread : u # w => pc'[u] = pc[u]
      /\ pc'[w] \in {"last", "release"} /\ pending' = pending - 1
      /\ UNCHANGED <<queue, depth, died, job, out, counts, policy>>
  BY <1>1 DEF Done, Goto, Shapes
<1>3. Work' = Work /\ Taken' = Taken /\ Outs' = Outs
  BY <1>2 DEF Work, Queued, Taken, Outs
<1>4. Pushing' = Pushing
  BY <1>1, <1>2 DEF Pushing
<1>5. job[w] \in Unfinished
  BY <1>1, NoneIsJob DEF Unfinished
<1>6. Unfinished' = Unfinished \ {job[w]}
  <2>1. \A v \in Worker : v # w => pc'[v] = pc[v] /\ job[v] # job[w]
    BY <1>1, <1>2, Distinct DEF Thread
  <2> QED
    BY <1>1, <1>2, <2>1, NoneIsJob DEF Unfinished
<1>7. job[w] \notin Work /\ job[w] \notin Pushing
  <2>1. \A t \in Thread : out[t] # job[w]
    BY <1>1, Distinct
  <2> QED
    BY <1>1, <2>1, Distinct DEF Pushing
<1>8. Outstanding' = Outstanding \ {job[w]} /\ job[w] \in Outstanding /\ Open' = Open /\ Holding' = Holding
  BY <1>3, <1>4, <1>5, <1>6, <1>7 DEF Outstanding, Open, Holding
<1>9. \A a \in Actor : Slots(a)' = Slots(a)
  BY <1>8 DEF Slots, Holding
<1> QED
  BY <1>2, <1>5, <1>8, <1>9 DEF Moves, CountMoves, OpenMoves, BoxMoves

\* A worker gives back the slot of the job it has ended.
LEMMA ReleaseMoves ==
  ASSUME Shapes, Places, Ordered, NEW w \in Worker, Release(w)
  PROVE  Moves /\ Outstanding' = Outstanding
<1>1. w \in Thread /\ w # Main /\ pc[w] = "release" /\ job[w] \in Jobs
  BY ActorsAssumption DEF Release, Places, Placed, Thread
<1>2. /\ \A u \in Thread : u # w => pc'[u] = pc[u]
      /\ \A v \in Worker : v # w => job'[v] = job[v]
      /\ job'[w] = NoJob /\ pc'[w] \in {"freed", "idle"}
      /\ IF Counted(job[w]) THEN depth' = [depth EXCEPT ![job[w].to] = @ - 1] ELSE depth' = depth
      /\ UNCHANGED <<queue, pending, died, out, counts, policy>>
  BY <1>1 DEF Release, Goto, Shapes, Thread
<1>3. Work' = Work /\ Outs' = Outs
  BY <1>2 DEF Work, Queued, Outs
<1>4. Pushing' = Pushing
  BY <1>1, <1>2 DEF Pushing
<1>5. Unfinished' = Unfinished
  <2>1. \A v \in Worker : v # w => pc'[v] = pc[v] /\ job'[v] = job[v]
    BY <1>2 DEF Thread
  <2> QED
    BY <1>1, <1>2, <2>1 DEF Unfinished
<1>6. Taken' = Taken \ {job[w]} /\ job[w] \in Taken
  <2>1. \A v \in Worker : v # w => job'[v] = job[v] /\ job[v] # job[w]
    BY <1>1, <1>2, Distinct
  <2> QED
    BY <1>1, <1>2, <2>1, NoneIsJob DEF Taken
<1>7. job[w] \notin Work /\ job[w] \notin Pushing
  <2>1. \A t \in Thread : out[t] # job[w]
    BY <1>1, Distinct
  <2> QED
    BY <1>1, <2>1, Distinct DEF Pushing
<1>8. Outstanding' = Outstanding /\ Open' = Open /\ Holding' = Holding \ {job[w]} /\ job[w] \in Holding
  BY <1>3, <1>4, <1>5, <1>6, <1>7 DEF Outstanding, Open, Holding
<1>9. ASSUME NEW a \in Actor, policy.bound[a] # Unbounded
      PROVE  BoxMoves(a)
  <2>1. job[w].to \in Actor
    BY <1>1 DEF Jobs
  <2>2. CASE job[w].kind = "send" /\ job[w].to = a
    <3>1. Counted(job[w])
      BY <1>9, <2>2 DEF Counted
    <3>2. depth'[a] = depth[a] - 1
      BY <1>2, <2>1, <2>2, <3>1 DEF Shapes
    <3>3. job[w] \in Slots(a) /\ Slots(a)' = Slots(a) \ {job[w]}
      BY <1>8, <2>2 DEF Slots, Holding
    <3> QED
      BY <3>2, <3>3 DEF BoxMoves
  <2>3. CASE ~(job[w].kind = "send" /\ job[w].to = a)
    <3>1. depth'[a] = depth[a]
      BY <1>2, <2>1, <2>3 DEF Shapes, Counted
    <3>2. Slots(a)' = Slots(a)
      BY <1>8, <2>3 DEF Slots, Holding
    <3> QED
      BY <3>1, <3>2 DEF BoxMoves
  <2> QED
    BY <2>2, <2>3
<1> QED
  BY <1>2, <1>8, <1>9 DEF Moves, CountMoves, OpenMoves

\* The steps of a worker at which nothing changes hands.
LEMMA TurnMoves ==
  ASSUME Shapes, Places, Ordered, NEW w \in Worker,
         EndTurn(w) \/ Fault(w) \/ AbortMain(w) \/ AbortSenders(w) \/ SayQuiet(w) \/ Freed(w)
  PROVE  Moves /\ Outstanding' = Outstanding /\ UNCHANGED counts
<1>1. w \in Thread /\ w # Main
  BY ActorsAssumption DEF Thread
<1>2. UNCHANGED <<queue, job, out, depth, pending, counts, policy>> /\ (died => died')
  <2>1. Fault(w) => (died => died')
    BY Zenon DEF Fault
  <2>2. EndTurn(w) \/ AbortMain(w) \/ AbortSenders(w) \/ SayQuiet(w) \/ Freed(w) => died' = died
    BY DEF EndTurn, AbortMain, AbortSenders, SayQuiet, Freed, shared
  <2>3. UNCHANGED <<queue, job, out, depth, pending, counts, policy>>
    BY DEF EndTurn, Fault, AbortMain, AbortSenders, SayQuiet, Freed, shared
  <2> QED
    BY <2>1, <2>2, <2>3
<1>3. ASSUME NEW u \in Thread, u # w
      PROVE  \/ pc'[u] = pc[u]
             \/ pc[u] = "parked" /\ pc'[u] = "reserve"
             \/ pc[u] = "asleep" /\ pc'[u] = "finish"
  BY <1>3 DEF EndTurn, Fault, AbortMain, AbortSenders, SayQuiet, Freed, Goto, WakeMain,
              WakeSenders, Shapes
<1>4. \/ pc[w] \in {"turn", "abort", "abort2"} /\ pc'[w] \in {"abort", "abort2", "done"}
      \/ pc[w] = "last" /\ pc'[w] = "release"
      \/ pc[w] = "freed" /\ pc'[w] = "idle"
  BY <1>1 DEF EndTurn, Fault, AbortMain, AbortSenders, SayQuiet, Freed, Goto, WakeMain,
              WakeSenders, Shapes
<1>5. \A t \in Thread : pc'[t] = "push" <=> pc[t] = "push"
  BY <1>3, <1>4
<1>6. \A v \in Worker : pc'[v] \in Finished <=> pc[v] \in Finished
  BY <1>3, <1>4 DEF Finished, Thread
<1>7. Work' = Work
  BY <1>2 DEF Work, Queued
<1> QED
  BY <1>2, <1>5, <1>6, <1>7, NothingMoves

\* The main thread's own steps, and those that only wait.
LEMMA MainMoves ==
  ASSUME Shapes, Places, Ordered, MainReturns \/ Finish \/ Join \/ UNCHANGED actorVars
  PROVE  Moves /\ Outstanding' = Outstanding /\ UNCHANGED counts
<1>1. Main \in Thread /\ Main \notin Worker
  BY ActorsAssumption DEF Thread
<1>2. UNCHANGED <<job, out, depth, pending, died, counts, policy>>
  BY DEF MainReturns, Finish, Join, actorVars, shared
<1>3. /\ \A w \in Worker : pc'[w] = pc[w]
      /\ \A t \in Thread : pc'[t] = "push" <=> pc[t] = "push"
  <2>1. CASE UNCHANGED actorVars
    BY <2>1 DEF actorVars
  <2>2. CASE MainReturns \/ Finish \/ Join
    <3>1. \E where \in {"finish", "asleep", "join", "over"} : Goto(Main, where)
      BY <2>2 DEF MainReturns, Finish, Join
    <3>2. pc[Main] \in {"turn", "finish", "join"}
      BY <2>2 DEF MainReturns, Finish, Join
    <3> QED
      BY <1>1, <3>1, <3>2 DEF Goto, Shapes, Thread
  <2> QED
    BY <2>1, <2>2
<1>4. Work' = Work
  <2>1. CASE queue' = queue
    BY <2>1 DEF Work, Queued
  <2>2. CASE queue' = [w \in Worker |-> Append(queue[w], Shutdown)]
    <3>1. Shapes'
      BY ShapesStep DEF ActorsNext, Mainly
    <3>2. WorkOf(queue') = WorkOf(queue)
      BY <2>2, WorkClosed DEF Shapes
    <3> QED
      BY <3>1, <3>2, WorkNow, WorkThen
  <2> QED
    BY <2>1, <2>2 DEF MainReturns, Finish, Join, actorVars, shared
<1> QED
  BY <1>2, <1>3, <1>4, NothingMoves

\* A sender that waits for room changes nothing but where it is.
LEMMA ParkMoves ==
  ASSUME Shapes, Places, Ordered, NEW t \in Thread, Park(t)
  PROVE  Moves
<1>1. UNCHANGED <<queue, job, out, depth, pending, died, counts, policy>>
  BY DEF Park, shared
<1>2. pc[t] = "full" /\ \E where \in {"parked", "reserve"} : Goto(t, where)
  BY DEF Park
<1>3. \A u \in Thread : pc'[u] = "push" <=> pc[u] = "push"
  BY <1>2 DEF Goto, Shapes
<1>4. \A w \in Worker : pc'[w] \in Finished <=> pc[w] \in Finished
  BY <1>2 DEF Goto, Shapes, Finished, Thread
<1>5. Work' = Work
  BY <1>1 DEF Work, Queued
<1> QED
  BY <1>1, <1>3, <1>4, <1>5, NothingMoves

\* Every step moves at most one job between the sets that are counted.
LEMMA EveryStepMoves ==
  ASSUME Shapes, Places, Ordered, [ActorsNext]_actorVars
  PROVE  Moves
BY MakingMoves, ReserveMoves, ParkMoves, PushMoves, TakeMoves, DoneMoves, ReleaseMoves, TurnMoves,
   MainMoves DEF ActorsNext, Mainly, Working, Sending, Thread

-----------------------------------------------------------------------------
(* The end.                                                                *)

\* Once main is told to go, nothing is due.
AllDone ==
  pc[Main] \in {"join", "over"} /\ ~died =>
    Outstanding = {} /\ made = turns + drops + deadSends

\* With nothing due no thread is in a turn.
LEMMA NobodyTurns ==
  ASSUME Shapes, Places, Outstanding = {}, NEW w \in Worker
  PROVE  pc[w] \in {"idle", "freed"} \cup Finished
<1>1. w \in Thread
  BY DEF Thread
<1>2. ~(job[w] # NoJob /\ pc[w] \notin Finished)
  BY DEF Outstanding, Unfinished, Finished
<1> QED
  BY <1>1, <1>2, NoneIsJob DEF Places, Placed, Finished

\* Main is told to go only when the count is nothing; and with nothing outstanding
\* no thread is in a turn, so none makes a job again.
LEMMA AllDoneStep ==
  ASSUME Shapes, Places, Ordered, Tally, AllDone, [ActorsNext]_actorVars
  PROVE  AllDone'
<1> SUFFICES ASSUME pc'[Main] \in {"join", "over"}, ~died'
             PROVE  Outstanding' = {} /\ made' = turns' + drops' + deadSends'
  BY DEF AllDone
<1>1. Main \in Thread /\ Main \notin Worker
  BY ActorsAssumption DEF Thread
<1>2. ~died
  BY EveryStepMoves DEF Moves, Shapes
<1>3. CASE pc[Main] \in {"join", "over"}
  <2>1. Outstanding = {} /\ made = turns + drops + deadSends
    BY <1>2, <1>3 DEF AllDone
  <2>2. \A t \in Thread : pc[t] \notin {"turn", "push", "reserve", "full"}
    BY <1>3, <2>1, NobodyTurns DEF Thread, Finished
  <2>3. ~\E t \in Thread : Sending(t)
    BY <2>2 DEF Sending, Spawn, Send, Reserve, Park, Push
  <2>4. \A w \in Worker : ~Done(w)
    BY <2>1, DoneMoves DEF Outstanding
  <2>5. Work = {}
    BY <2>1 DEF Outstanding
  <2>6. ASSUME NEW w \in Worker, Working(w)
        PROVE  Outstanding' = Outstanding /\ UNCHANGED counts
    <3>1. Release(w) => Outstanding' = Outstanding /\ UNCHANGED counts
      BY ReleaseMoves DEF Release
    <3>2. Take(w) => Outstanding' = Outstanding /\ UNCHANGED counts
      BY <2>5, TakeMoves
    <3>3. ~Sending(w)
      BY <2>3 DEF Thread
    <3> QED
      BY <2>4, <2>6, <3>1, <3>2, <3>3, TurnMoves DEF Working
  <2>7. MainReturns \/ Finish \/ Join \/ UNCHANGED actorVars => Outstanding' = Outstanding /\ UNCHANGED counts
    BY MainMoves
  <2>8. Outstanding' = Outstanding /\ UNCHANGED counts
    BY <1>1, <2>3, <2>6, <2>7 DEF ActorsNext, Mainly
  <2> QED
    BY <2>1, <2>8 DEF counts
<1>4. CASE pc[Main] \notin {"join", "over"}
  <2>1. Finish
    <3>1. ASSUME NEW w \in Worker, Working(w)
          PROVE  pc'[Main] \notin {"join", "over"}
      <4>1. w # Main /\ w \in Thread
        BY <1>1 DEF Thread
      <4>2. \/ pc'[Main] = pc[Main] \/ pc'[Main] \in {"reserve", "finish"}
        <5>1. Sending(w) => pc'[Main] = pc[Main]
          BY <1>1, <4>1 DEF Sending, Spawn, Send, Reserve, Reserved, Park, Push, Goto, Shapes
        <5>2. Take(w) \/ EndTurn(w) \/ Fault(w) \/ Done(w) \/ Release(w) => pc'[Main] = pc[Main]
          BY <1>1, <4>1 DEF Take, EndTurn, Fault, Done, Release, Goto, Shapes
        <5>3. AbortMain(w) \/ AbortSenders(w) \/ SayQuiet(w) \/ Freed(w)
                => pc'[Main] = pc[Main] \/ pc'[Main] \in {"reserve", "finish"}
          BY <1>1, <4>1 DEF AbortMain, AbortSenders, SayQuiet, Freed, WakeMain, WakeSenders
        <5> QED
          BY <3>1, <5>1, <5>2, <5>3 DEF Working
      <4> QED
        BY <1>4, <4>2
    <3>2. Sending(Main) \/ MainReturns => pc'[Main] \notin {"join", "over"}
      BY <1>1 DEF Sending, Spawn, Send, Reserve, Reserved, Park, Push, MainReturns, Goto, Shapes
    <3>3. ~Join
      BY <1>4 DEF Join
    <3>4. ~UNCHANGED actorVars
      BY <1>4 DEF actorVars
    <3> QED
      BY <3>1, <3>2, <3>3, <3>4 DEF ActorsNext, Mainly
  <2>2. ~(pending > 0) /\ pc[Main] = "finish"
    <3>1. Goto(Main, "asleep") => pc'[Main] = "asleep"
      BY <1>1 DEF Goto, Shapes
    <3> QED
      BY <1>2, <2>1, <3>1 DEF Finish
  <2>3. Outstanding = {}
    <3>1. IsFiniteSet(Outstanding) /\ pending = Cardinality(Outstanding) /\ Cardinality(Outstanding) \in Nat
      BY FS_CardinalityType DEF Tally
    <3>2. Cardinality(Outstanding) = 0
      BY <2>2, <3>1
    <3> QED
      BY <3>1, <3>2, FS_EmptySet
  <2>4. Open = {}
    <3>1. \A t \in Thread : pc[t] \notin Handing
      BY <2>2, <2>3, NobodyTurns DEF Thread, Handing, Finished
    <3>2. Outs = {}
      BY <3>1, InHand DEF Outs
    <3> QED
      BY <2>3, <3>2 DEF Open, Outstanding
  <2>5. made = turns + drops + deadSends
    <3>1. Cardinality(Open) = 0
      BY <2>4, FS_EmptySet
    <3> QED
      BY <3>1 DEF Tally, Shapes
  <2>6. Outstanding' = Outstanding /\ UNCHANGED counts
    BY <2>1, MainMoves
  <2> QED
    BY <2>3, <2>5, <2>6 DEF counts
<1> QED
  BY <1>3, <1>4

-----------------------------------------------------------------------------
\* The invariant: of the conjuncts, `Tally`, `Boxes` and `AllDone` are what is wanted,
\* and the others are what they need to be kept by a step.
ActorsInv == Shapes /\ Places /\ Ordered /\ CreatedFirst /\ Tally /\ Boxes /\ AllDone

\* It holds when a run starts.
LEMMA ActorsStart == ActorsInit => ActorsInv
<1> SUFFICES ASSUME ActorsInit PROVE ActorsInv
  OBVIOUS
<1>1. Shapes /\ Places /\ Ordered /\ CreatedFirst
  BY ShapesStart, OrderStart
<1>2. Main \in Thread /\ \A w \in Worker : w \in Thread
  BY DEF Thread
<1>3. /\ \A t \in Thread : out[t] = NoJob /\ job[t] = NoJob /\ pc[t] # "push"
      /\ \A w \in Worker : DOMAIN queue[w] = {}
  BY DEF ActorsInit
<1>4. Work = {}
  BY <1>1, <1>3, WorkNow DEF WorkOf
<1>5. Pushing = {} /\ Outs = {} /\ Unfinished = {} /\ Taken = {}
  BY <1>2, <1>3, NoneIsJob DEF Pushing, Outs, Unfinished, Taken
<1>6. Outstanding = {} /\ Open = {} /\ Holding = {}
  BY <1>4, <1>5 DEF Outstanding, Open, Holding
<1>7. Tally
  BY <1>6, FS_EmptySet DEF Tally, ActorsInit
<1>8. Boxes
  <2> SUFFICES ASSUME NEW a \in Actor, policy.bound[a] # Unbounded
               PROVE  Box(a)
    BY DEF Boxes
  <2>1. Slots(a) = {} /\ {j \in Slots(a) : ~j.past} = {}
    BY <1>6 DEF Slots, Holding
  <2>2. depth[a] = 0
    BY DEF ActorsInit
  <2>3. policy.bound[a] \in Nat
    BY <1>1, ActorsAssumption DEF Shapes
  <2>4. Cardinality({}) = 0 /\ IsFiniteSet({})
    BY FS_EmptySet
  <2> QED
    BY <2>1, <2>2, <2>3, <2>4 DEF Box
<1>9. AllDone
  BY <1>2 DEF ActorsInit, AllDone
<1> QED
  BY <1>1, <1>7, <1>8, <1>9 DEF ActorsInv

\* Every step of the scheduler keeps it.
LEMMA ActorsStep == ActorsInv /\ [ActorsNext]_actorVars => ActorsInv'
<1> SUFFICES ASSUME ActorsInv, [ActorsNext]_actorVars
             PROVE  ActorsInv'
  OBVIOUS
<1> USE DEF ActorsInv
<1>1. Shapes' /\ Places' /\ Ordered' /\ CreatedFirst'
  BY ShapesStep, PlacesStep, OrderedStep, CreatedStep
<1>2. Moves
  BY EveryStepMoves
<1>3. Tally'
  BY <1>2, TallyMoves DEF Moves
<1>4. Boxes'
  BY <1>2, BoxKept DEF Moves, Boxes
<1>5. AllDone'
  BY AllDoneStep
<1> QED
  BY <1>1, <1>3, <1>4, <1>5

\* The threads of `actors.rs` keep the invariant, for every number of workers, of actors and of jobs, every
\* placing of the actors on the workers, and every policy of the mailboxes.
THEOREM ActorsInvHolds == ActorsSpec => []ActorsInv
BY ActorsStart, ActorsStep, PTL DEF ActorsSpec

\* Every part of the state has the shape the threads give it, and `pending` is
\* the number of jobs on their way, queued and unfinished, between any two accesses.
THEOREM ActorsTypeCorrect == ActorsSpec => []ActorsTypeOK
<1>1. ActorsInv => ActorsTypeOK
  <2> SUFFICES ASSUME ActorsInv PROVE ActorsTypeOK
    OBVIOUS
  <2>1. \A t \in Thread : out[t] = NoJob \/ out[t].to \in Actor
    BY DEF ActorsInv, Shapes, Jobs
  <2> QED
    BY <2>1 DEF ActorsInv, Shapes, Tally, Outstanding, ActorsTypeOK
<1> QED
  BY <1>1, ActorsInvHolds, PTL

\* What a worker has been sent it has been sent in order.
LEMMA NoneIsEarlier ==
  ASSUME ActorsInv
  PROVE  DeliveredInOrder
<1> SUFFICES ASSUME NEW w \in Worker, job[w].kind = "send"
             PROVE  Earlier(job[w]) = {} /\ cell[job[w].to] # "none"
  BY DEF DeliveredInOrder
<1> USE DEF ActorsInv
<1>1. job[w] \in Jobs /\ w \in Thread /\ Home[job[w].to] = w
  BY NoneIsJob DEF Shapes, Places, Placed, Thread
<1>2. cell[job[w].to] # "none"
  BY DEF CreatedFirst
<1>3. ASSUME NEW k \in Earlier(job[w])
      PROVE  FALSE
  <2>1. k.kind = "send" /\ k.from = job[w].from /\ k.to = job[w].to /\ k.no < job[w].no
        /\ (k \in Work \/ \E t \in Thread : k = out[t])
    BY <1>3 DEF Earlier
  <2>2. job[w].no \in Nat
    BY <1>1 DEF Jobs
  <2>3. CASE k \in Work
    <3>1. PICK v \in Worker : \E i \in DOMAIN queue[v] : queue[v][i] = k /\ k \in Jobs
      BY <2>3, WorkNow DEF WorkOf
    <3>2. v = w
      BY <1>1, <2>1, <3>1, NoneIsJob DEF Places, Homes
    <3>3. Older(job[w], k) /\ k.no \in Nat
      BY <1>1, <3>1, <3>2 DEF Ordered, Jobs
    <3> QED
      BY <2>1, <2>2, <3>3 DEF Older
  <2>4. ASSUME NEW t \in Thread, k = out[t]
        PROVE  FALSE
    <3>1. out[t] \in Jobs
      BY <2>1, <2>4, NoneIsJob DEF Shapes
    <3>2. Older(job[w], k) /\ k.no \in Nat
      BY <1>1, <2>4, <3>1 DEF Ordered, Jobs
    <3> QED
      BY <2>1, <2>2, <3>2 DEF Older
  <2> QED
    BY <2>1, <2>3, <2>4
<1> QED
  BY <1>2, <1>3

\* The count of a bounded mailbox (`depth`) is exactly what holds a slot
\* in it, it is within the bound but for those that may not wait, and what one sender sent
\* an actor is taken in the order it was sent, after the actor was made.
THEOREM MailboxesStand == ActorsSpec => []MailboxesHold
<1>1. ActorsInv => MailboxesHold
  BY NoneIsEarlier DEF ActorsInv, Boxes, Box, MailboxExact, MailboxesHold
<1> QED
  BY <1>1, ActorsInvHolds, PTL

\* When the main thread is told to go (`finish`) and nothing has died, no job is
\* outstanding on any worker, and every job made has had its turn or was counted as dropped.
THEOREM EndIsQuiet == ActorsSpec => []EndsWhenQuiet
<1>1. ActorsInv => EndsWhenQuiet
  BY DEF ActorsInv, AllDone, Outstanding, EndsWhenQuiet
<1> QED
  BY <1>1, ActorsInvHolds, PTL
=============================================================================
