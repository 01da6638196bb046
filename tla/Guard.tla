-------------------------------- MODULE Guard --------------------------------
(***************************************************************************)
(* The guard (delulu-broker/src/guard.rs and its arms in brokerd.rs): the  *)
(* second gate, on top of the grant tree.  The owner writes rules that     *)
(* make classes of authority warned about, guarded or sealed; a delegated  *)
(* node's guarded use needs a permit, which its holder asks for and the    *)
(* owner approves.  Rules live in memory and on disk, permits and requests *)
(* in memory only.                                                         *)
(*                                                                         *)
(* One action is one request to the daemon, with what it does when its     *)
(* record cannot be written (`recorded` is FALSE): what loosens is undone, *)
(* what tightens stands.  Node ids, deadlines and seqs are GrantTree's;    *)
(* here a node is its parent, its authority and whether it was revoked.    *)
(***************************************************************************)
EXTENDS Integers, FiniteSets

CONSTANTS
  Node, NoNode,
  AnyName,            \* the pattern `*`
  NameWithin(_, _),   \* itself; a path below a path; a secret's send to somebody, of the secret
  Rule,               \* the class and pattern pairs the owner may rule on
  Edit,               \* what the owner makes of them: rule and tier
  Subset,             \* what holders ask permits for
  Grant,              \* the authorities callers mint
  Use,                \* the uses holders make
  Count, NoLimit,     \* how many uses an approval is for; 0 is taken like any other
  Absent, Corrupt,    \* no policy file that can be read; one that does not parse
  PermitTtl, RequestTtl,
  MaxTime,            \* bound on the clock
  MaxId               \* bound on the ids of requests and of permits

Free == 0
Warn == 1
Guarded == 2
Sealed == 3
Tier == Free .. Sealed

ASSUME GuardAssumption ==
  /\ NoNode \notin Node
  /\ PermitTtl \in Nat /\ RequestTtl \in Nat
  /\ MaxTime \in Nat /\ MaxId \in Nat
  /\ Count \subseteq Nat /\ NoLimit \notin Nat
  /\ Edit \subseteq [rule : Rule, tier : Tier]
  /\ Absent \notin [Rule -> Tier] /\ Corrupt \notin [Rule -> Tier] /\ Absent # Corrupt

VARIABLES
  tree,        \* node -> parent, authority, revoked or not
  policy,      \* rule -> tier; 0 is no rule
  poisoned,    \* the stored policy did not parse
  bypass,
  permits, requests, nextPermit, nextRequest,
  disk,        \* the stored policy
  now,         \* what the ratcheted clock shows
  chain,       \* what the audit chain says: of the policy ever, of the rest since the start
  stored,      \* .held: no write of the policy failed since one succeeded or the start;
               \* .lost: the rules a start after a failed write brought back looser
  answer       \* what this step answered, when it was a use

memory == <<policy, poisoned, bypass, permits, requests, nextPermit, nextRequest>>
guardVars == <<tree, memory, disk, now, chain, stored, answer>>

-----------------------------------------------------------------------------
(* Classes and what their uses require.                                    *)

NoEffect == "none"

\* `class_use_effect`; the console, the clock and the dice have no class of
\* their own and are gated by their effect alone.
EffectOf == [fs_read |-> "Read", fs_write |-> "Write", net |-> "Net",
             declassify |-> "Declassify", foreign_c |-> "ForeignCall",
             device |-> "Actuate", effect |-> NoEffect, secret |-> NoEffect,
             foreign_python |-> NoEffect, console |-> "Write", clock |-> "Clock",
             rand |-> "Rand"]

Effect == {"Read", "Write", "Net", "Declassify", "ForeignCall", "Actuate", "Clock", "Rand"}

\* `EFFECT_BEARING_CLASSES`.
AxisClass == {"fs_read", "fs_write", "net", "declassify", "foreign_c", "device"}

\* `class_is_path_valued`.
PathClass == {"fs_read", "fs_write"}

GuardClass == AxisClass \cup {"effect", "secret", "foreign_python"}
UseClass == AxisClass \cup {"console", "clock", "rand"}

\* The dimensions `mint_within_subset` looks at.
MintDimension == {"fs_read", "fs_write", "net", "secret", "declassify",
                  "foreign_c", "foreign_python"}

DefaultRule == [class : {"declassify", "foreign_c", "foreign_python"}, name : {AnyName}]

DefaultPolicy == [r \in Rule |-> IF r \in DefaultRule THEN Guarded ELSE Free]

\* `pattern_matches`: a path covers what is below it, a secret its sends.
Matches(class, pattern, name) ==
  \/ pattern = AnyName
  \/ name = pattern
  \/ class \in PathClass \cup {"declassify"} /\ NameWithin(name, pattern)

\* `overlaps`.
Alike(p, q) == p = AnyName \/ q = AnyName \/ p = q

\* `paths_overlap`, which only paths are asked about.
PathsOverlap(class, p, q) == class \in PathClass /\ (NameWithin(p, q) \/ NameWithin(q, p))

\* `effect_pattern_denotes`: an effect that does not exist is never used.
Denotes(pattern) == pattern = AnyName \/ pattern \in Effect

Strongest(rules) ==
  CHOOSE t \in Tier : /\ \A r \in rules : policy[r] <= t
                      /\ t = Free \/ \E r \in rules : policy[r] = t

UseRules(u) ==
  {r \in Rule : \/ r.class = u.class /\ Matches(r.class, r.name, u.name)
                \/ r.class = "effect" /\ Matches(r.class, r.name, EffectOf[u.class])}

MintRules(grant) ==
  {r \in Rule : \E i \in grant :
     /\ r.class = i.class
     /\ Matches(r.class, r.name, i.name) \/ PathsOverlap(r.class, r.name, i.name)}

\* (mutant) the cross-cutting effect rules left out.
SubsetRulesOwnClass(subset) ==
  {r \in Rule : \E e \in subset :
     /\ r.class = e.class
     /\ Alike(r.name, e.name) \/ PathsOverlap(r.class, r.name, e.name)}

\* Every rule on some use the subset would let through.
SubsetRules(subset) ==
  {r \in Rule : \E e \in subset :
     \/ /\ r.class = e.class
        /\ Alike(r.name, e.name) \/ PathsOverlap(r.class, r.name, e.name)
        /\ r.class = "effect" => Denotes(r.name) /\ Denotes(e.name)
     \/ /\ r.class = "effect" /\ e.class \in AxisClass
        /\ Alike(r.name, EffectOf[e.class])
     \/ /\ e.class = "effect" /\ r.class \in AxisClass
        /\ Alike(e.name, EffectOf[r.class])}

UseTier(u) == Strongest(UseRules(u))
MintTier(grant) == Strongest(MintRules(grant))
SubsetTier(subset) == Strongest(SubsetRules(subset))

\* `covers_use`.
Covers(subset, u) ==
  \E e \in subset : \/ e.class = u.class /\ Matches(e.class, e.name, u.name)
                    \/ e.class = "effect" /\ Matches(e.class, e.name, EffectOf[u.class])

\* `mint_within_subset`.
MintWithin(subset, grant) ==
  \A i \in grant : i.class \in MintDimension =>
     \E e \in subset : e.class = i.class /\ Matches(e.class, e.name, i.name)

\* Rules and permits are over guard classes, uses over those that reach the
\* broker; and of two patterns that hold one name, one holds the other.
ASSUME NamesAreSane ==
  /\ \A x \in Rule \cup UNION Subset : x.class \in GuardClass
  /\ \A u \in Use : u.class \in UseClass
  /\ \A u \in Use, x, y \in Rule \cup UNION Subset :
       NameWithin(u.name, x.name) /\ NameWithin(u.name, y.name) =>
         NameWithin(x.name, y.name) \/ NameWithin(y.name, x.name)

\* `loosened_by`: a rule gone, or its tier lowered.
Loosened(before, after) == \E r \in Rule : after[r] < before[r]

-----------------------------------------------------------------------------
(* The tree, as far as the guard reads it.                                 *)

Nodes == DOMAIN tree

UpClosed(S) == \A m \in S : tree[m].parent # NoNode => tree[m].parent \in S

Path(n) == {a \in Nodes : \A S \in SUBSET Nodes : n \in S /\ UpClosed(S) => a \in S}

Live(n) == n \in Nodes /\ \A a \in Path(n) : ~tree[a].revoked

Gated(n) == n \notin Nodes \/ tree[n].parent # NoNode

Within(child, parent) ==
  \A i \in child : \E j \in parent : i.class = j.class /\ NameWithin(i.name, j.name)

Insert(n, p, grant) ==
  [m \in Nodes \cup {n} |->
     IF m = n THEN [parent |-> p, auth |-> grant, revoked |-> FALSE] ELSE tree[m]]

\* `validate`: liveness, then the effect, then the scope.
Authorized(n, u) ==
  /\ Live(n)
  /\ \E i \in tree[n].auth : i.class = "effect" /\ i.name = EffectOf[u.class]
  /\ u.class \in AxisClass =>
        \E i \in tree[n].auth : i.class = u.class /\ NameWithin(u.name, i.name)

-----------------------------------------------------------------------------
(* Permits and requests.                                                   *)

\* `guard_gc`: permits that ran out go, and requests nobody decided in time.
CurrentPermits == {p \in permits : now < p.until}
CurrentRequests ==
  {r \in requests : r.status = "pending" => now < r.created + RequestTtl}

PendingRequest(id) == {r \in CurrentRequests : r.id = id /\ r.status = "pending"}

\* The permit an honored use is charged to: the oldest that covers it.
Honoring(n, u) ==
  LET fits == {p \in CurrentPermits : p.node = n /\ Covers(p.subset, u)} IN
    {p \in fits : \A q \in fits : p.id <= q.id}

\* (mutant) a counted permit that never runs down.
ChargedNot(p) == CurrentPermits

Charged(p) ==
  LET rest == CurrentPermits \ {p} IN
    IF p.left = NoLimit THEN CurrentPermits
    ELSE IF p.left <= 1 THEN rest
    ELSE rest \cup {[p EXCEPT !.left = @ - 1]}

Answer(n, u, by, id) == answer' = [node |-> n, use |-> u, by |-> by, permit |-> id]

NoId == -1
NoAnswer == [node |-> NoNode, use |-> NoNode, by |-> "none", permit |-> NoId]
Silent == answer' = NoAnswer

-----------------------------------------------------------------------------
(* The owner edits the policy.                                             *)

\* `persist_guard_policy` writes in place and only logs a failure: the file may
\* keep what it held, or be left cut, inside a character even, and a file that
\* is not text is taken for none at the next start.
Store(p, lost) ==
  \/ disk' = p /\ stored' = [held |-> TRUE, lost |-> lost]
  \/ disk' \in {disk, Absent, Corrupt} /\ stored' = [held |-> FALSE, lost |-> lost]

\* (mutant) an undone edit is on disk already.
PolicyEditedEarly(r, tier, recorded) ==
  LET after == [policy EXCEPT ![r] = tier] IN
    /\ Store(after, IF recorded THEN stored.lost \ {r} ELSE stored.lost)
    /\ policy' = IF recorded \/ ~Loosened(policy, after) THEN after ELSE policy
    /\ chain' = IF recorded THEN [chain EXCEPT !.policy[r] = tier] ELSE chain

\* `guard_policy_edited`: an unrecorded edit stands unless it loosens.
PolicyEdited(r, tier, recorded) ==
  LET after == [policy EXCEPT ![r] = tier] IN
    \/ /\ recorded
       /\ policy' = after
       /\ Store(after, stored.lost \ {r})
       /\ chain' = [chain EXCEPT !.policy[r] = tier]
    \/ /\ ~recorded
       /\ ~Loosened(policy, after)
       /\ policy' = after
       /\ Store(after, stored.lost)
       /\ UNCHANGED chain
    \/ /\ ~recorded
       /\ Loosened(policy, after)
       /\ UNCHANGED <<policy, disk, stored, chain>>

SetRule(r, tier, recorded) ==
  /\ PolicyEdited(r, tier, recorded)
  /\ Silent
  /\ UNCHANGED <<tree, poisoned, bypass, permits, requests, nextPermit, nextRequest,
                 now>>

UnsetRule(r, recorded) ==
  /\ PolicyEdited(r, Free, recorded)
  /\ Silent
  /\ UNCHANGED <<tree, poisoned, bypass, permits, requests, nextPermit, nextRequest,
                 now>>

\* (mutant) an unrecorded bypass stays on.
SetBypassStays(on, recorded) ==
  /\ bypass' = on
  /\ chain' = IF recorded THEN [chain EXCEPT !.bypass = on] ELSE chain
  /\ Silent
  /\ UNCHANGED <<tree, policy, poisoned, permits, requests, nextPermit, nextRequest,
                 disk, now, stored>>

\* Turned on without a record, a bypass is turned off again; off, it stays off.
SetBypass(on, recorded) ==
  /\ bypass' = (on /\ recorded)
  /\ chain' = IF recorded THEN [chain EXCEPT !.bypass = on] ELSE chain
  /\ Silent
  /\ UNCHANGED <<tree, policy, poisoned, permits, requests, nextPermit, nextRequest,
                 disk, now, stored>>

-----------------------------------------------------------------------------
(* Asking, approving, denying, withdrawing.                                *)

\* An undecided request of the same node for the same is answered with its id.
Ask(n, subset, recorded) ==
  /\ SubsetTier(subset) # Sealed
  /\ permits' = CurrentPermits
  /\ LET new == [id |-> nextRequest, node |-> n, subset |-> subset, created |-> now,
                 status |-> "pending"]
         same == {r \in CurrentRequests : r.node = n /\ r.subset = subset
                                                     /\ r.status = "pending"}
     IN \/ /\ same # {}
           /\ requests' = CurrentRequests
           /\ UNCHANGED <<nextRequest, chain>>
        \/ /\ same = {}
           /\ nextRequest < MaxId
           /\ nextRequest' = nextRequest + 1
           /\ requests' = CurrentRequests \cup (IF recorded THEN {new} ELSE {})
           /\ chain' = IF recorded THEN [chain EXCEPT !.asked = @ \cup {new}] ELSE chain
  /\ Silent
  /\ UNCHANGED <<tree, policy, poisoned, bypass, nextPermit, disk, now, stored>>

\* What the chain says of an approval, and what was sealed when it was given.
Approval(r, until, uses) ==
  [request |-> r.id, node |-> r.node, subset |-> r.subset, at |-> now, until |-> until,
   uses |-> uses, spent |-> 0, sealed |-> {u \in Use : UseTier(u) = Sealed}]

AddApproval(a) ==
  [chain EXCEPT !.approved = [i \in DOMAIN @ \cup {nextPermit} |->
                                IF i = nextPermit THEN a ELSE @[i]]]

\* (mutant) an unrecorded approval keeps its permit.
ApproveKept(id, uses, recorded) ==
  /\ nextPermit < MaxId
  /\ \E r \in PendingRequest(id) :
       LET p == [id |-> nextPermit, node |-> r.node, subset |-> r.subset,
                 until |-> now + PermitTtl, left |-> uses]
       IN /\ SubsetTier(r.subset) # Sealed
          /\ permits' = CurrentPermits \cup {p}
          /\ requests' = (CurrentRequests \ {r}) \cup {[r EXCEPT !.status = "approved"]}
          /\ chain' = IF recorded THEN AddApproval(Approval(r, p.until, uses)) ELSE chain
  /\ nextPermit' = nextPermit + 1
  /\ Silent
  /\ UNCHANGED <<tree, policy, poisoned, bypass, nextRequest, disk, now, stored>>

\* A sealed subset leaves the request pending; a lost record withdraws the permit.
Approve(id, uses, recorded) ==
  /\ nextPermit < MaxId
  /\ \E r \in PendingRequest(id) :
       LET p == [id |-> nextPermit, node |-> r.node, subset |-> r.subset,
                 until |-> now + PermitTtl, left |-> uses]
       IN /\ SubsetTier(r.subset) # Sealed
          /\ \/ /\ recorded
                /\ permits' = CurrentPermits \cup {p}
                /\ requests' = (CurrentRequests \ {r})
                                 \cup {[r EXCEPT !.status = "approved"]}
                /\ chain' = AddApproval(Approval(r, p.until, uses))
             \/ /\ ~recorded
                /\ permits' = CurrentPermits
                /\ requests' = CurrentRequests
                /\ UNCHANGED chain
  /\ nextPermit' = nextPermit + 1
  /\ Silent
  /\ UNCHANGED <<tree, policy, poisoned, bypass, nextRequest, disk, now, stored>>

\* A denial stands whether or not it was recorded.
Deny(id) ==
  /\ permits' = CurrentPermits
  /\ \E r \in PendingRequest(id) :
       requests' = (CurrentRequests \ {r}) \cup {[r EXCEPT !.status = "denied"]}
  /\ Silent
  /\ UNCHANGED <<tree, policy, poisoned, bypass, nextPermit, nextRequest, disk, now,
                 chain, stored>>

\* And so does the revocation of a permit.
RevokePermit(id, recorded) ==
  /\ \E p \in permits : p.id = id /\ permits' = permits \ {p}
  /\ chain' = IF recorded THEN [chain EXCEPT !.ended = @ \cup {id}] ELSE chain
  /\ Silent
  /\ UNCHANGED <<tree, policy, poisoned, bypass, requests, nextPermit, nextRequest, disk,
                 now, stored>>

\* Listing requests or permits sweeps what ran out.
List ==
  /\ permits' = CurrentPermits
  /\ requests' = CurrentRequests
  /\ Silent
  /\ UNCHANGED <<tree, policy, poisoned, bypass, nextPermit, nextRequest, disk, now,
                 chain, stored>>

-----------------------------------------------------------------------------
(* A use.                                                                  *)

Keeps == UNCHANGED <<tree, policy, poisoned, bypass, nextPermit, nextRequest, disk, now,
                     stored>>

\* A use whose record is lost is refused and nothing of it is answered, though a
\* permit it was charged to stays charged.
Answered(n, u, by, id, recorded) ==
  IF recorded THEN Answer(n, u, by, id) ELSE Silent

PassUse(n, u, by, recorded) ==
  /\ Answered(n, u, by, NoId, recorded)
  /\ UNCHANGED <<permits, requests, chain>>

\* The tiers in which the answer does not depend on permits.
UsePlainly(n, u, recorded) ==
  /\ Authorized(n, u)
  /\ \/ (~Gated(n) \/ UseTier(u) = Free) /\ PassUse(n, u, "ungated", recorded)
     \/ Gated(n) /\ UseTier(u) = Warn /\ PassUse(n, u, "warned", recorded)
     \/ Gated(n) /\ UseTier(u) = Sealed /\ PassUse(n, u, "sealed", recorded)
     \/ Gated(n) /\ UseTier(u) = Guarded /\ bypass /\ PassUse(n, u, "bypassed", recorded)
     \/ /\ Gated(n) /\ UseTier(u) = Guarded /\ ~bypass /\ poisoned
        /\ PassUse(n, u, "blocked", recorded)
  /\ Keeps

NeedsPermit(n, u) ==
  Authorized(n, u) /\ Gated(n) /\ UseTier(u) = Guarded /\ ~bypass /\ ~poisoned

\* (mutant) permits looked up without sweeping first.
UseByPermitUnswept(n, u, recorded) ==
  /\ NeedsPermit(n, u)
  /\ \E p \in permits :
       /\ p.node = n
       /\ Covers(p.subset, u)
       /\ permits' = Charged(p)
       /\ Answered(n, u, "permit", p.id, recorded)
       /\ chain' = IF recorded /\ p.left # NoLimit
                   THEN [chain EXCEPT !.approved[p.id].spent = @ + 1] ELSE chain
  /\ requests' = CurrentRequests
  /\ Keeps

UseByPermit(n, u, recorded) ==
  /\ NeedsPermit(n, u)
  /\ \E p \in Honoring(n, u) :
       /\ permits' = Charged(p)
       /\ Answered(n, u, "permit", p.id, recorded)
       /\ chain' = IF recorded /\ p.left # NoLimit
                   THEN [chain EXCEPT !.approved[p.id].spent = @ + 1] ELSE chain
  /\ requests' = CurrentRequests
  /\ Keeps

\* Without one, the latest request for it decides what the holder is told.
UseBlocked(n, u) ==
  /\ NeedsPermit(n, u)
  /\ Honoring(n, u) = {}
  /\ LET for == {r \in CurrentRequests : r.node = n /\ Covers(r.subset, u)}
         last == {r \in for : \A q \in for : q.id <= r.id}
     IN Answer(n, u,
               IF \E r \in last : r.status = "pending" THEN "pending"
               ELSE IF \E r \in last : r.status = "denied" THEN "denied" ELSE "blocked",
               NoId)
  /\ permits' = CurrentPermits
  /\ requests' = CurrentRequests
  /\ UNCHANGED chain
  /\ Keeps

-----------------------------------------------------------------------------
(* Minting.                                                                *)

\* `guard_check_mint`: may this be minted under p by who does not or does name
\* the owner code?
MintFree(grant, owner) == MintTier(grant) = Free \/ owner

MintByPermit(p, grant) ==
  /\ MintTier(grant) \in {Warn, Guarded}
  /\ ~poisoned
  /\ \E permit \in CurrentPermits : permit.node = p /\ MintWithin(permit.subset, grant)

\* The gate sweeps permits and requests whenever it asks for permits.
SweptByMint(grant, owner) ==
  IF MintFree(grant, owner) \/ MintTier(grant) = Sealed \/ poisoned
  THEN UNCHANGED <<permits, requests>>
  ELSE permits' = CurrentPermits /\ requests' = CurrentRequests

MintGate(p, grant, owner) == MintFree(grant, owner) \/ MintByPermit(p, grant)

\* A child whose record is lost is withdrawn.
Mint(p, n, grant, owner, recorded) ==
  /\ n \in Node \ Nodes
  /\ MintGate(p, grant, owner)
  /\ SweptByMint(grant, owner)
  /\ Live(p)
  /\ Within(grant, tree[p].auth)
  /\ tree' = IF recorded THEN Insert(n, p, grant) ELSE tree
  /\ chain' = IF recorded /\ ~MintFree(grant, owner)
              THEN [chain EXCEPT !.minted =
                      @ \cup {[under |-> p, grant |-> grant, at |-> now,
                               guarded |-> {i \in grant : MintTier({i}) # Free}]}]
              ELSE chain
  /\ Silent
  /\ UNCHANGED <<policy, poisoned, bypass, nextPermit, nextRequest, disk, now, stored>>

MintRefused(p, grant, owner) ==
  /\ ~MintGate(p, grant, owner)
  /\ SweptByMint(grant, owner)
  /\ Silent
  /\ UNCHANGED <<tree, policy, poisoned, bypass, nextPermit, nextRequest, disk, now,
                 chain, stored>>

Issue(n, grant) ==
  /\ n \in Node \ Nodes
  /\ tree' = Insert(n, NoNode, grant)
  /\ Silent
  /\ UNCHANGED <<memory, disk, now, chain, stored>>

\* A revocation reaches the whole subtree.
Kill(n) ==
  /\ Live(n)
  /\ tree' = [m \in Nodes |-> IF n \in Path(m) THEN [tree[m] EXCEPT !.revoked = TRUE]
                              ELSE tree[m]]
  /\ Silent
  /\ UNCHANGED <<memory, disk, now, chain, stored>>

-----------------------------------------------------------------------------
(* Time, and a restart.                                                    *)

Tick ==
  /\ now < MaxTime
  /\ now' = now + 1
  /\ Silent
  /\ UNCHANGED <<tree, memory, disk, chain, stored>>

Loaded == IF disk \in {Absent, Corrupt} THEN DefaultPolicy ELSE disk

EmptyChain(p, b) ==
  [policy |-> p, bypass |-> b, asked |-> {}, approved |-> [i \in {} |-> NoNode],
   ended |-> {}, minted |-> {}]

\* A daemon stops and another starts: it reads the policy, and a file that does
\* not parse poisons it.  What the chain says of the rules stays on the chain.
Restart(on) ==
  /\ tree' = [n \in {} |-> NoNode]
  /\ policy' = Loaded
  /\ poisoned' = (disk = Corrupt)
  /\ bypass' = on
  /\ permits' = {} /\ requests' = {}
  /\ nextPermit' = 0 /\ nextRequest' = 0
  /\ chain' = EmptyChain(chain.policy, on)
  /\ answer' = NoAnswer
  /\ stored' = [held |-> TRUE,
                 lost |-> stored.lost \cup (IF stored.held THEN {}
                                           ELSE {r \in Rule : Loaded[r] < policy[r]})]
  /\ UNCHANGED <<disk, now>>

-----------------------------------------------------------------------------
GuardInit ==
  /\ tree = [n \in {} |-> NoNode]
  /\ policy = DefaultPolicy
  /\ poisoned = FALSE
  /\ bypass = FALSE
  /\ permits = {} /\ requests = {}
  /\ nextPermit = 0 /\ nextRequest = 0
  /\ disk = Absent
  /\ now = 0
  /\ chain = EmptyChain(DefaultPolicy, FALSE)
  /\ stored = [held |-> TRUE, lost |-> {}]
  /\ answer = NoAnswer

Editing ==
  \E e \in Edit, recorded \in BOOLEAN :
    \/ e.tier # Free /\ SetRule(e.rule, e.tier, recorded)
    \/ e.tier = Free /\ UnsetRule(e.rule, recorded)

Deciding ==
  \E id \in 0 .. MaxId :
    \/ \E uses \in Count \cup {NoLimit}, recorded \in BOOLEAN : Approve(id, uses, recorded)
    \/ Deny(id)
    \/ \E recorded \in BOOLEAN : RevokePermit(id, recorded)

Using ==
  \E n \in Nodes, u \in Use :
    \/ \E recorded \in BOOLEAN : UsePlainly(n, u, recorded) \/ UseByPermit(n, u, recorded)
    \/ UseBlocked(n, u)

Minting ==
  \E grant \in Grant :
    \/ \E n \in Node : Issue(n, grant)
    \/ \E p \in Nodes, owner \in BOOLEAN :
         \/ \E n \in Node, recorded \in BOOLEAN : Mint(p, n, grant, owner, recorded)
         \/ MintRefused(p, grant, owner)

GuardNext ==
  \/ Editing
  \/ \E on, recorded \in BOOLEAN : SetBypass(on, recorded)
  \/ \E n \in Nodes, subset \in Subset, recorded \in BOOLEAN : Ask(n, subset, recorded)
  \/ Deciding
  \/ List
  \/ Using
  \/ Minting
  \/ \E n \in Nodes : Kill(n)
  \/ Tick
  \/ \E on \in BOOLEAN : Restart(on)

GuardSpec == GuardInit /\ [][GuardNext]_guardVars

-----------------------------------------------------------------------------
(* Properties.                                                             *)

Asked == [id : 0 .. MaxId, node : Node, subset : Subset, created : Nat,
          status : {"pending", "approved", "denied"}]

\* Every part of the state has the shape the daemon gives it.
GuardTypeOK ==
  /\ Nodes \subseteq Node
  /\ \A n \in Nodes : tree[n].parent \in Nodes \cup {NoNode}
                    /\ tree[n].auth \in Grant /\ tree[n].revoked \in BOOLEAN
  /\ policy \in [Rule -> Tier]
  /\ poisoned \in BOOLEAN /\ bypass \in BOOLEAN
  /\ stored \in [held : BOOLEAN, lost : SUBSET Rule]
  /\ permits \subseteq [id : 0 .. MaxId, node : Node, subset : Subset, until : Nat,
                        left : Nat \cup {NoLimit}]
  /\ requests \subseteq Asked /\ chain.asked \subseteq Asked
  /\ nextPermit \in 0 .. MaxId /\ nextRequest \in 0 .. MaxId
  /\ disk \in [Rule -> Tier] \cup {Absent, Corrupt}
  /\ now \in 0 .. MaxTime
  /\ chain.policy \in [Rule -> Tier] /\ chain.bypass \in BOOLEAN
  /\ DOMAIN chain.approved \subseteq 0 .. nextPermit - 1
  /\ chain.ended \subseteq DOMAIN chain.approved

\* What the code makes of an approval's number of uses: one approved for no use
\* at all (`guard approve --uses 0`) is good for one, since `guard_verdict_use`
\* looks whether the permit is spent after charging it and not before.
Allowed(a) == IF a.uses = 0 THEN 1 ELSE a.uses

\* Every permit the daemon holds is one the chain says was approved, for the
\* same node, subset and time, not revoked since, with no more uses left than
\* were approved and are not recorded as made; and a permit approved for some
\* uses is gone once they are made (`guard_approve` with its withdrawal,
\* `guard_permit_revoke`, the charge in `guard_verdict_use`).
PermitsAccounted ==
  \A p \in permits :
    /\ p.id \in DOMAIN chain.approved \ chain.ended
    /\ LET a == chain.approved[p.id] IN
         /\ a.node = p.node /\ a.subset = p.subset /\ a.until = p.until
         /\ p.left = NoLimit <=> a.uses = NoLimit
         /\ p.left # NoLimit => /\ p.left >= 1 \/ a.uses = 0
                                /\ p.left + a.spent <= a.uses

\* No approval covers a use that was sealed when it was given: lifting the seal
\* later wakes no permit nobody approved under it (F-CUSTODY-1,
\* `tier_for_subset`).  It holds where rules and permits name secrets; a permit
\* for the send of one slips under a seal on its name (GuardSend.cfg).
SealsHoldOverApprovals ==
  \A i \in DOMAIN chain.approved :
    \A u \in chain.approved[i].sealed : ~Covers(chain.approved[i].subset, u)

\* A use let through by a permit is on the node that asked for it, inside what
\* was approved and before it ran out, with a use still unspent (one, when it was
\* approved for none); and the request it answers was on the chain and had not
\* run out when it was approved.
HonoredAsApproved ==
  [][answer'.by = "permit" =>
       /\ answer'.permit \in DOMAIN chain.approved \ chain.ended
       /\ LET a == chain.approved[answer'.permit] IN
            /\ a.node = answer'.node /\ Covers(a.subset, answer'.use)
            /\ now < a.until
            /\ a.uses # NoLimit => a.spent < Allowed(a)
            /\ \E r \in chain.asked :
                 /\ r.id = a.request /\ r.node = a.node /\ r.subset = a.subset
                 /\ a.at < r.created + RequestTtl]_guardVars

\* The guard in force is never looser than what the chain says of it, this
\* daemon's edits and those of the daemons before it: an edit or a bypass that
\* loosens and could not be recorded does not stand, and no start brings an older
\* rule back, but for rules whose write had failed before a start
\* (`guard_policy_edited`, `withdraw_unrecorded_guard_bypass`,
\* `load_guard_policy`).
NothingLooserThanChain ==
  /\ \A r \in Rule \ stored.lost : policy[r] >= chain.policy[r]
  /\ bypass => chain.bypass

\* Unless a write of it failed, the policy the next start would read is the one
\* in force: an undone edit never comes back.
StoredIsInForce == stored.held => Loaded = policy

\* A permit that stood in for the owner at a mint covers every guarded item the
\* child holds (the doc comment of `mint_within_subset`).
MintsCovered ==
  \A m \in chain.minted :
    \E a \in {chain.approved[i] : i \in DOMAIN chain.approved} :
      /\ a.node = m.under /\ a.at <= m.at /\ m.at < a.until
      /\ \A i \in m.guarded :
           \E e \in a.subset : e.class = i.class /\ Matches(e.class, e.name, i.name)

\* A permit is what its approval made of it, from the answer to its last use: on
\* the books for as long as it lasts, spent by what it let pass, and never
\* honoured beyond its time, its uses, or what was approved; an approval for no
\* use at all is honoured once.
PermitsAreKept == []PermitsAccounted /\ HonoredAsApproved

\* What guards a holder is what the chain says, or tighter, now and after every
\* start: no lost record leaves looser rules behind.  A lost write does, at the
\* next start and for the rules it should have stored: `persist_guard_policy` is
\* best-effort and only logs it.
RulesStand == NothingLooserThanChain /\ StoredIsInForce

\* What `--uses` is said to be, and does not hold (GuardUses.cfg): `guard approve`
\* is for "a positive integer" of uses, and a permit for N of them is honoured N
\* times at most.
SpentAsApproved ==
  \A i \in DOMAIN chain.approved :
    chain.approved[i].uses # NoLimit => chain.approved[i].spent <= chain.approved[i].uses

\* What is said of a policy store that is corrupt, and does not hold
\* (GuardStart.cfg): it never fails open, so that what the chain says is guarded
\* or sealed is still guarded.  A daemon that cannot parse its file has only the
\* default rules.
CorruptNeverOpens ==
  poisoned => \A r \in Rule : chain.policy[r] >= Guarded => policy[r] >= Guarded
=============================================================================
