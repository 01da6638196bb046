------------------------------ MODULE RunClient ------------------------------
(***************************************************************************)
(* A run under the daemon (delulu/src/broker_client.rs): the nodes it      *)
(* holds in the daemon's tree, and the clients - one per thread - through  *)
(* which its operations are authorized.                                    *)
(*                                                                         *)
(* A synchronous use is one round trip.  An epoch-class use is judged by a *)
(* snapshot of the node's state, asked for again once it is Epoch old; the *)
(* daemon answers at one moment and the client stamps the snapshot when it *)
(* has the answer, at most Reply later, so both moments are kept here.     *)
(*                                                                         *)
(* A run started with its own root arms a dead-man on it and beats it; one *)
(* under a lease arms one on each node it mints.  The daemon is taken from *)
(* GrantTree and DaemonClock: revocation reaches what is below, a dead-man *)
(* not beaten for Period fires, a daemon that stops loses its tree.        *)
(* A request whose answer is lost or late fails for the run and may still  *)
(* be handled, then or later.                                              *)
(***************************************************************************)
EXTENDS Integers, FiniteSets

CONSTANTS
  Client,           \* the run's threads
  Own,              \* the node the run runs as
  Plugin, Device,   \* the nodes it may mint below it
  Epoch,            \* how long a snapshot is used
  Reply,            \* how long a reply may take (`REQUEST_DEADLINE`)
  Period,           \* the dead-man's period
  Never, None,
  MaxTime           \* bound on the clock

Minted == Plugin \cup Device
Node == {Own} \cup Minted

ASSUME RunAssumption ==
  /\ Own \notin Minted
  /\ Epoch \in Nat \ {0} /\ Period \in Nat \ {0} /\ Reply \in Nat /\ MaxTime \in Nat
  /\ Never \notin Nat /\ None \notin Node

VARIABLES
  now, up,
  lease,       \* the run redeemed a lease: Own is its delegator's
  phase, overAt,
  life,        \* node -> "none", "live", "dead"
  diedAt,      \* when Own did
  watch,       \* node -> when its dead-man is due
  held,        \* the nodes the run's beater beats
  arming,      \* the node just minted, its dead-man not yet armed
  minted,      \* the nodes the run was handed and revokes at its end
  lost,        \* nodes the run never had the answer of, or could neither arm nor revoke
  late,        \* requests nobody waits for any more and the daemon may yet handle
  ruled, ruledAt,  \* is the epoch class under a guard rule, and since when
  asked,       \* client -> the answer on its way to it
  cache,       \* client -> its snapshot
  served       \* what this step answered the program

daemon == <<up, life, diedAt, watch, late, ruled, ruledAt>>
run == <<lease, phase, overAt, held, arming, minted, lost>>
views == <<asked, cache>>
clientVars == <<now, daemon, run, views, served>>

Quiet == served = [by |-> "none", ok |-> FALSE, client |-> None]
Silent == served' = [by |-> "none", ok |-> FALSE, client |-> None]
Serve(c, by, ok) == served' = [by |-> by, ok |-> ok, client |-> c]

Over == phase \in {"ended", "killed"}
Going == phase \in {"running", "arming"}

-----------------------------------------------------------------------------
(* The daemon's side.                                                      *)

Below(n) == IF n = Own THEN Node ELSE {n}

Dying(S) == {m \in Node : life[m] = "live" /\ \E n \in S : m \in Below(n)}

\* What a revocation of every node of S does; a dead-man goes with its node.
Revoked(S) ==
  /\ life' = [n \in Node |-> IF n \in Dying(S) THEN "dead" ELSE life[n]]
  /\ diedAt' = IF Own \in Dying(S) THEN now ELSE diedAt
  /\ watch' = [n \in Node |-> IF n \in Dying(S) THEN Never ELSE watch[n]]

\* The run's threads go with it.
NoViews == asked' = [c \in Client |-> None] /\ cache' = [c \in Client |-> None]

Born(n) == life' = [life EXCEPT ![n] = "live"]

Operator(n) ==
  /\ up /\ life[n] = "live"
  /\ Revoked({n})
  /\ Silent /\ UNCHANGED <<now, up, late, ruled, ruledAt, run, views>>

Due(n) == up /\ watch[n] # Never /\ watch[n] <= now

Fire(n) ==
  /\ Due(n)
  /\ Revoked({n})
  /\ Silent /\ UNCHANGED <<now, up, late, ruled, ruledAt, run, views>>

Rule(on) ==
  /\ up /\ ruled # on
  /\ ruled' = on /\ ruledAt' = now
  /\ Silent /\ UNCHANGED <<now, up, life, diedAt, watch, late, run, views>>

DaemonStops ==
  /\ up
  /\ up' = FALSE
  /\ Revoked(Node)
  /\ late' = {}
  /\ Silent /\ UNCHANGED <<now, ruled, ruledAt, run, views>>

DaemonStarts ==
  /\ ~up
  /\ up' = TRUE
  /\ Silent /\ UNCHANGED <<now, life, diedAt, watch, late, ruled, ruledAt, run, views>>

MintOf(n) == [what |-> "mint", node |-> n]
ArmOf(n) == [what |-> "arm", node |-> n]

\* The daemon handles what nobody waits for: a mint or an issue whose asker gave
\* up or was killed, and the arming of a dead-man.
MintLate(n) ==
  /\ up /\ MintOf(n) \in late
  /\ life[n] = "none" /\ (n # Own => life[Own] = "live")
  /\ Born(n)
  /\ late' = late \ {MintOf(n)}
  /\ Silent /\ UNCHANGED <<now, up, diedAt, watch, ruled, ruledAt, run, views>>

ArmLate(n) ==
  /\ up /\ ArmOf(n) \in late
  /\ life[n] = "live"
  /\ watch' = [watch EXCEPT ![n] = now + Period]
  /\ late' = late \ {ArmOf(n)}
  /\ Silent /\ UNCHANGED <<now, up, life, diedAt, ruled, ruledAt, run, views>>

\* Nothing waits for a dead-man that is due.
Tick ==
  /\ now < MaxTime
  /\ \A n \in Node : ~Due(n)
  /\ now' = now + 1
  /\ Silent /\ UNCHANGED <<daemon, run, views>>

-----------------------------------------------------------------------------
(* The run's nodes.                                                        *)

\* What the run may be waiting for the answer to.
Asking ==
  CASE phase = "new"     -> {MintOf(Own)}
    [] phase = "issued"  -> {ArmOf(Own)}
    [] phase = "running" -> {MintOf(n) : n \in {m \in Minted \ lost : life[m] = "none"}}
    [] phase = "arming"  -> {ArmOf(arming)}
    [] OTHER             -> {}

\* `issue_root`; a run whose request fails does not start, whatever the daemon
\* made or makes of it.
IssueRoot(answered) ==
  /\ phase = "new" /\ up
  /\ \/ /\ answered
        /\ phase' = "issued"
        /\ Born(Own)
        /\ UNCHANGED <<overAt, lost, late>>
     \/ /\ ~answered
        /\ phase' = "ended" /\ overAt' = now
        /\ lost' = {Own} /\ late' = {MintOf(Own)}
        /\ UNCHANGED life
  /\ Silent
  /\ UNCHANGED <<now, up, diedAt, watch, ruled, ruledAt, lease, held, arming, minted, views>>

\* An arming that was refused or not answered, and the one request, `gone` or
\* not, by which the node is then revoked; an answer lost on its way back leaves
\* the dead-man armed and nobody to beat it, and so may a request handled late.
NotArmed(n, gone) ==
  \/ /\ up /\ gone
     /\ Revoked({n})
     /\ UNCHANGED <<lost, late>>
  \/ /\ ~gone /\ up /\ life[n] = "live"
     /\ watch' = [watch EXCEPT ![n] = now + Period]
     /\ UNCHANGED <<life, diedAt, lost, late>>
  \/ /\ ~gone
     /\ lost' = lost \cup {n}
     /\ late' = IF up THEN late \cup {ArmOf(n)} ELSE late
     /\ UNCHANGED <<life, diedAt, watch>>

\* `RunNode::hold`: a run whose root cannot be dead-manned does not start.
Hold(armed, gone) ==
  /\ phase = "issued"
  /\ \/ /\ armed /\ up /\ life[Own] = "live"
        /\ phase' = "running"
        /\ watch' = [watch EXCEPT ![Own] = now + Period]
        /\ held' = {Own}
        /\ UNCHANGED <<life, diedAt, overAt, lost, late>>
     \/ /\ ~armed
        /\ phase' = "ended" /\ overAt' = now
        /\ NotArmed(Own, gone)
        /\ UNCHANGED held
  /\ Silent
  /\ UNCHANGED <<now, up, ruled, ruledAt, lease, arming, minted, views>>

\* `attenuate`, its first request: under a lease the node is to be armed next;
\* without an answer the run has no node, whatever the daemon made of it.
Mint(n, answered) ==
  /\ phase = "running" /\ up
  /\ MintOf(n) \in Asking
  /\ \/ /\ answered /\ life[Own] = "live"
        /\ Born(n)
        /\ IF lease THEN phase' = "arming" /\ arming' = n /\ UNCHANGED minted
           ELSE minted' = minted \cup {n} /\ UNCHANGED <<phase, arming>>
        /\ UNCHANGED <<lost, late>>
     \/ /\ ~answered
        /\ lost' = lost \cup {n} /\ late' = late \cup {MintOf(n)}
        /\ UNCHANGED <<life, phase, arming, minted>>
  /\ Silent
  /\ UNCHANGED <<now, up, diedAt, watch, ruled, ruledAt, lease, overAt, held, views>>

\* (mutant) a node that could not be armed is handed out.
ArmMintedAnyway(armed, gone) ==
  /\ phase = "arming"
  /\ phase' = "running" /\ arming' = None /\ minted' = minted \cup {arming}
  /\ IF armed /\ up /\ life[arming] = "live"
     THEN watch' = [watch EXCEPT ![arming] = now + Period] /\ held' = held \cup {arming}
     ELSE UNCHANGED <<watch, held>>
  /\ Silent
  /\ UNCHANGED <<now, up, life, diedAt, ruled, ruledAt, lease, overAt, lost, late, views>>

\* Its second: `Reaper::arm`, or else the node is revoked and not handed out.
ArmMinted(armed, gone) ==
  /\ phase = "arming"
  /\ phase' = "running" /\ arming' = None
  /\ \/ /\ armed /\ up /\ life[arming] = "live"
        /\ watch' = [watch EXCEPT ![arming] = now + Period]
        /\ held' = held \cup {arming} /\ minted' = minted \cup {arming}
        /\ UNCHANGED <<life, diedAt, lost, late>>
     \/ /\ ~armed
        /\ NotArmed(arming, gone)
        /\ UNCHANGED <<held, minted>>
  /\ Silent
  /\ UNCHANGED <<now, up, ruled, ruledAt, lease, overAt, views>>

\* (mutant) a beat for a node that died arms its dead-man again.
BeatBlind(n) ==
  /\ Going /\ up
  /\ n \in held
  /\ watch' = [watch EXCEPT ![n] = now + Period]
  /\ Silent
  /\ UNCHANGED <<now, up, life, diedAt, late, ruled, ruledAt, lease, phase, overAt, held,
                 arming, minted, lost, views>>

\* One beat of the beater: refused for a node that died, which is then dropped.
Beat(n) ==
  /\ Going /\ up
  /\ n \in held
  /\ IF watch[n] # Never
     THEN watch' = [watch EXCEPT ![n] = now + Period] /\ UNCHANGED held
     ELSE held' = held \ {n} /\ UNCHANGED watch
  /\ Silent
  /\ UNCHANGED <<now, up, life, diedAt, late, ruled, ruledAt, lease, phase, overAt, arming,
                 minted, lost, views>>

\* The run ends: the nodes it was handed for its plugins and devices and its own
\* root are revoked, one request each, and any of them may be lost.
EndRun(reached) ==
  /\ phase = "running"
  /\ phase' = "ended" /\ overAt' = now
  /\ reached \subseteq minted \cup (IF lease THEN {} ELSE {Own})
  /\ Revoked(IF up THEN reached ELSE {})
  /\ held' = {} /\ minted' = {} /\ NoViews
  /\ Silent
  /\ UNCHANGED <<now, up, late, ruled, ruledAt, lease, arming, lost>>

\* A run is killed anywhere, a request it has sent still on its way; one that
\* holds a node not yet armed has had no time to revoke it.
KillRun ==
  /\ ~Over
  /\ phase' = "killed" /\ overAt' = now
  /\ \/ \E q \in Asking : /\ lost' = lost \cup {q.node}
                          /\ late' = IF up THEN late \cup {q} ELSE late
     \/ phase \in {"new", "running"} /\ UNCHANGED <<lost, late>>
  /\ held' = {} /\ minted' = {} /\ NoViews
  /\ Silent
  /\ UNCHANGED <<now, up, life, diedAt, watch, ruled, ruledAt, lease, arming>>

-----------------------------------------------------------------------------
(* Uses.                                                                   *)

\* `cache_is_fresh`.
Fresh(c) == cache[c] # None /\ now - cache[c].at < Epoch

Question(kind) == [kind |-> kind, taken |-> now, live |-> life[Own] = "live", ruled |-> ruled]

InTime(c) == now - asked[c].taken <= Reply

\* A synchronous use reaches the daemon, which answers it as things stand.
SyncUse(c) ==
  /\ Going /\ up /\ asked[c] = None
  /\ asked' = [asked EXCEPT ![c] = Question("use")]
  /\ Silent /\ UNCHANGED <<now, daemon, run, cache>>

\* Its answer; the guard may refuse what the tree allows.
SyncAnswered(c, permitted) ==
  /\ Going /\ asked[c] # None /\ asked[c].kind = "use" /\ InTime(c)
  /\ Serve(c, "broker", asked[c].live /\ permitted)
  /\ asked' = [asked EXCEPT ![c] = None]
  /\ UNCHANGED <<now, daemon, run, cache>>

\* (mutant) the old snapshot is kept while a new one is asked for.
RefreshKeeping(c) ==
  /\ Going /\ asked[c] = None /\ ~Fresh(c)
  /\ asked' = IF up THEN [asked EXCEPT ![c] = Question("state")] ELSE asked
  /\ IF up \/ cache[c] = None THEN Silent ELSE Serve(c, "snapshot", cache[c].live)
  /\ UNCHANGED <<now, daemon, run, cache>>

\* An epoch-class use without a fresh snapshot drops the one it has and asks;
\* with no daemon to ask, it is refused.
Refresh(c) ==
  /\ Going /\ asked[c] = None /\ ~Fresh(c)
  /\ cache' = [cache EXCEPT ![c] = None]
  /\ asked' = IF up THEN [asked EXCEPT ![c] = Question("state")] ELSE asked
  /\ Silent /\ UNCHANGED <<now, daemon, run>>

\* `check_at` once a snapshot is there: under a rule, ask; else judge by it.
Judge(c, snapshot) ==
  IF snapshot.ruled
  THEN /\ asked' = [asked EXCEPT ![c] = IF up THEN Question("use") ELSE None]
       /\ Silent
  ELSE /\ asked' = [asked EXCEPT ![c] = None]
       /\ Serve(c, "snapshot", snapshot.live)

\* `refresh_cache` has its answer, and the use that asked for it goes on.
Refreshed(c) ==
  /\ Going /\ asked[c] # None /\ asked[c].kind = "state" /\ InTime(c)
  /\ LET snapshot == [taken |-> asked[c].taken, at |-> now, live |-> asked[c].live,
                      ruled |-> asked[c].ruled]
     IN cache' = [cache EXCEPT ![c] = snapshot] /\ Judge(c, snapshot)
  /\ UNCHANGED <<now, daemon, run>>

EpochUse(c) ==
  /\ Going /\ asked[c] = None /\ Fresh(c)
  /\ Judge(c, cache[c])
  /\ UNCHANGED <<now, daemon, run, cache>>

\* No answer in time: the use is refused.
GaveUp(c) ==
  /\ asked[c] # None /\ ~InTime(c)
  /\ asked' = [asked EXCEPT ![c] = None]
  /\ Silent /\ UNCHANGED <<now, daemon, run, cache>>

-----------------------------------------------------------------------------
ClientInit ==
  /\ now = 0 /\ up = TRUE
  /\ lease \in BOOLEAN
  /\ phase = IF lease THEN "running" ELSE "new"
  /\ overAt = Never
  /\ life = [n \in Node |-> IF lease /\ n = Own THEN "live" ELSE "none"]
  /\ diedAt = Never
  /\ watch = [n \in Node |-> Never]
  /\ held = {} /\ arming = None /\ minted = {} /\ lost = {} /\ late = {}
  /\ ruled = FALSE /\ ruledAt = Never
  /\ asked = [c \in Client |-> None]
  /\ cache = [c \in Client |-> None]
  /\ Quiet

DaemonSteps ==
  \/ \E n \in Node : Operator(n) \/ Fire(n)
  \/ \E on \in BOOLEAN : Rule(on)
  \/ DaemonStops
  \/ DaemonStarts
  \/ \E n \in Node : MintLate(n) \/ ArmLate(n)

RunSteps ==
  \/ \E answered \in BOOLEAN : IssueRoot(answered)
  \/ \E armed, gone \in BOOLEAN : Hold(armed, gone) \/ ArmMinted(armed, gone)
  \/ \E n \in Minted, answered \in BOOLEAN : Mint(n, answered)
  \/ \E n \in Node : Beat(n)
  \/ \E reached \in SUBSET Node : EndRun(reached)
  \/ KillRun

Uses ==
  \E c \in Client :
    \/ SyncUse(c)
    \/ \E permitted \in BOOLEAN : SyncAnswered(c, permitted)
    \/ Refresh(c)
    \/ Refreshed(c)
    \/ EpochUse(c)
    \/ GaveUp(c)

ClientNext == DaemonSteps \/ RunSteps \/ Uses \/ Tick

ClientSpec == ClientInit /\ [][ClientNext]_clientVars

-----------------------------------------------------------------------------
(* Properties.                                                             *)

Time == 0 .. MaxTime

\* Every part of the state has the shape the run and the daemon give it; a
\* dead-man is armed on live nodes only, and a live node being beaten has one.
ClientTypeOK ==
  /\ now \in Time /\ up \in BOOLEAN /\ lease \in BOOLEAN
  /\ phase \in {"new", "issued", "running", "arming", "ended", "killed"}
  /\ overAt \in Time \cup {Never}
  /\ life \in [Node -> {"none", "live", "dead"}]
  /\ diedAt \in Time \cup {Never}
  /\ watch \in [Node -> 0 .. MaxTime + Period \cup {Never}]
  /\ \A n \in Node : watch[n] # Never => life[n] = "live"
  /\ \A n \in held : life[n] = "live" => watch[n] # Never
  /\ held \subseteq Node /\ arming \in Minted \cup {None}
  /\ minted \subseteq Minted /\ lost \subseteq Node
  /\ late \subseteq [what : {"mint", "arm"}, node : lost]
  /\ ruled \in BOOLEAN /\ ruledAt \in Time \cup {Never}
  /\ \A c \in Client :
       /\ asked[c] \in {None} \cup [kind : {"use", "state"}, taken : Time,
                                    live : BOOLEAN, ruled : BOOLEAN]
       /\ cache[c] \in {None} \cup [taken : Time, at : Time, live : BOOLEAN,
                                    ruled : BOOLEAN]

Since(t, bound) == t # Never => now - t < bound

\* A revocation, an expiry or a lost daemon reaches every thread of the run: a
\* synchronous use within the reply's time, an epoch-class use within that and
\* one interval; and so does a new guard rule, from which on the class asks.
AllowsAreFresh ==
  served.ok =>
    /\ Since(diedAt, Reply + (IF served.by = "snapshot" THEN Epoch ELSE 1))
    /\ served.by = "snapshot" /\ ruled => Since(ruledAt, Reply + Epoch)

\* What a run minted ends with it, however the run ends: one period after its
\* last beat could have arrived none of its nodes is live, unless nothing told
\* the run of it or nothing of the run got through: the answer to its issue, or
\* under a lease to its mint, was lost or came too late, the run was killed
\* before it had armed it, or neither the arming nor the revocation after it got
\* through (`RunNode`, `issue_root`, `attenuate`).  Of a run with a root of its
\* own only the root can be left so, and what it minted is below it.
Stranded == IF lease THEN lost ELSE lost \cap {Own}

NothingOutlivesItsRun ==
  Over /\ now > overAt + Period =>
    \A n \in Node \ (IF lease THEN {Own} ELSE {}) :
      life[n] = "live" => n \in UNION {Below(m) : m \in Stranded}

\* The comment's own words: a run killed before its end leaves none of the
\* nodes it minted live.
KilledLeavesNone ==
  phase = "killed" /\ now > overAt + Period => \A n \in Minted : life[n] # "live"

\* The comment's own words: a revocation reaches epoch-class uses within one
\* interval.
WithinOneInterval == served.ok /\ served.by = "snapshot" => Since(diedAt, Epoch)
=============================================================================
