------------------------------ MODULE GrantTree ------------------------------
(***************************************************************************)
(* The custody core: the tree of grants one broker keeps in memory         *)
(* (delulu-broker/src/tree.rs), its revocation epoch, its audit counter    *)
(* and the clock it judges deadlines by.                                   *)
(*                                                                         *)
(* One action is one broker call.  Calls never overlap: the daemon's serve *)
(* loop owns the broker and answers one request at a time.  What does vary *)
(* between calls is the wall clock, which may step either way, and the     *)
(* floor the shared audit chain gives the counter, because other writers   *)
(* append to the same chain.                                               *)
(***************************************************************************)
EXTENDS Authority, FiniteSets

CONSTANTS
  Node,       \* the ids the id source can draw; none is drawn twice
  NoNode,     \* the parent of a root
  NoTtl,      \* a grant without a deadline
  Request,    \* the authorities callers ask for
  Deadline,   \* the deadlines they name
  Reading,    \* what the wall clock may show
  MinTime,    \* where the ratchet starts, below every reading
  Floor,      \* what the chain may answer as its next seq
  MaxHops,    \* the bound of the upward liveness walk (1024 in the code)
  MaxSeq      \* bound on the audit counter: it ends every run

ASSUME ConstantsAreSane ==
  /\ NoNode \notin Node
  /\ NoTtl \notin Int
  /\ Request \subseteq Grant
  /\ Deadline \subseteq Int
  /\ Reading \subseteq Int
  /\ MinTime \in Int
  /\ Floor \subseteq Nat
  /\ MaxHops \in Nat \ {0}
  /\ MaxSeq \in Nat

VARIABLES
  tree,       \* id -> node, the nodes minted so far
  epoch,      \* moved by every revocation; clients poll it
  seq,        \* the next audit seq
  hiWater,    \* the highest clock reading ever taken
  revokes     \* the revocation records written to the chain

vars == <<tree, epoch, seq, hiWater, revokes>>

Nodes == DOMAIN tree

\* revokedBy = 0 is the stored state `Live`; seqs start at 1.
NodeRec == [parent    : Node \cup {NoNode},
            auth      : Grant,
            ttl       : Int \cup {NoTtl},
            revokedBy : Nat]

RevokeRec == [seq : Nat, caller : Node, target : Node]

-----------------------------------------------------------------------------
(* Topology: parent pointers, walked upwards.                              *)

Child(n, p) == tree[n].parent = p

\* Sets of nodes that hold the parent of each of their members.
UpClosed(S) == \A m \in S : tree[m].parent # NoNode => tree[m].parent \in S

\* A node and its ancestors: what a walk from it over parent pointers meets.
Path(n) == {a \in Nodes : \A S \in SUBSET Nodes : n \in S /\ UpClosed(S) => a \in S}

\* (mutant) one level of children only, the queue not fed with what it finds.
SubtreeOneLevel(t) == {n \in Nodes : n = t \/ Child(n, t)}

Subtree(t) == {n \in Nodes : t \in Path(n)}

Insert(n, node) == [m \in Nodes \cup {n} |-> IF m = n THEN node ELSE tree[m]]

-----------------------------------------------------------------------------
(* Time and liveness.                                                      *)

\* (mutant) the raw clock.
RatchetRaw(reading) == reading

\* The ratchet: a reading never falls below one already taken.
Ratchet(reading) == IF reading > hiWater THEN reading ELSE hiWater

Revoked(n) == tree[n].revokedBy # 0

Expired(n, now) == tree[n].ttl # NoTtl /\ now >= tree[n].ttl

\* Live, judged with its ancestors; a walk that reaches the bound fails closed.
LiveAt(n, now) ==
  /\ Cardinality(Path(n)) < MaxHops
  /\ \A a \in Path(n) : ~Revoked(a) /\ ~Expired(a, now)

Live(n) == LiveAt(n, hiWater)

-----------------------------------------------------------------------------
(* The audit counter takes the chain's next seq as a floor.                *)

SeqFrom(floor) == IF floor > seq THEN floor ELSE seq

\* (mutant) the counter left at the seq it gave out.
TakeSeqKept(floor) ==
  /\ SeqFrom(floor) <= MaxSeq
  /\ seq' = SeqFrom(floor)

TakeSeq(floor) ==
  /\ SeqFrom(floor) <= MaxSeq
  /\ seq' = SeqFrom(floor) + 1

-----------------------------------------------------------------------------
(* The broker's calls.                                                     *)

Issue(n, request, ttl, reading, floor) ==
  /\ n \in Node \ Nodes
  /\ tree' = Insert(n, [parent |-> NoNode, auth |-> request,
                        ttl |-> ttl, revokedBy |-> 0])
  /\ hiWater' = Ratchet(reading)
  /\ TakeSeq(floor)
  /\ UNCHANGED <<epoch, revokes>>

\* (mutant) the dead-parent refusal left out.
MayAttenuateDead(p, request, now) ==
  /\ p \in Nodes
  /\ Within(InheritBudget(request, tree[p].auth), tree[p].auth)

\* What `attenuate_core` asks before it mints a child under p.
MayAttenuate(p, request, now) ==
  /\ p \in Nodes
  /\ LiveAt(p, now)
  /\ Within(InheritBudget(request, tree[p].auth), tree[p].auth)

\* (mutant) the request stored as it was typed, its budget not inherited.
AttenuateAsTyped(p, n, request, ttl, reading, floor) ==
  /\ n \in Node \ Nodes
  /\ MayAttenuate(p, request, Ratchet(reading))
  /\ tree' = Insert(n, [parent |-> p, auth |-> request, ttl |-> ttl, revokedBy |-> 0])
  /\ hiWater' = Ratchet(reading)
  /\ TakeSeq(floor)
  /\ UNCHANGED <<epoch, revokes>>

\* The child's deadline is stored as given: expiry is inherited when read.
Attenuate(p, n, request, ttl, reading, floor) ==
  /\ n \in Node \ Nodes
  /\ MayAttenuate(p, request, Ratchet(reading))
  /\ tree' = Insert(n, [parent |-> p, auth |-> InheritBudget(request, tree[p].auth),
                        ttl |-> ttl, revokedBy |-> 0])
  /\ hiWater' = Ratchet(reading)
  /\ TakeSeq(floor)
  /\ UNCHANGED <<epoch, revokes>>

AttenuateRefused(p, request, reading, floor) ==
  /\ ~MayAttenuate(p, request, Ratchet(reading))
  /\ hiWater' = Ratchet(reading)
  /\ TakeSeq(floor)
  /\ UNCHANGED <<tree, epoch, revokes>>

\* (mutant) the arguments swapped: a holder reaches up.
IsSelfOrDescendantSwapped(n, a) == n \in Path(a)

IsSelfOrDescendant(n, a) == a \in Path(n)

MayRevoke(caller, target) ==
  /\ caller \in Nodes
  /\ target \in Nodes
  /\ IsSelfOrDescendant(target, caller)

\* (mutant) every node of the subtree stamped again.
RevokeRestamps(caller, target, reading, floor) ==
  /\ MayRevoke(caller, target)
  /\ tree' = [n \in Nodes |->
                IF n \in Subtree(target)
                THEN [tree[n] EXCEPT !.revokedBy = SeqFrom(floor)]
                ELSE tree[n]]
  /\ epoch' = epoch + 1
  /\ revokes' = revokes \cup
        {[seq |-> SeqFrom(floor), caller |-> caller, target |-> target]}
  /\ hiWater' = Ratchet(reading)
  /\ TakeSeq(floor)

\* (mutant) nodes stamped with the count before the chain's floor is taken.
RevokeStampsStale(caller, target, reading, floor) ==
  /\ MayRevoke(caller, target)
  /\ tree' = [n \in Nodes |->
                IF n \in Subtree(target) /\ ~Revoked(n)
                THEN [tree[n] EXCEPT !.revokedBy = seq]
                ELSE tree[n]]
  /\ epoch' = epoch + 1
  /\ revokes' = revokes \cup
        {[seq |-> SeqFrom(floor), caller |-> caller, target |-> target]}
  /\ hiWater' = Ratchet(reading)
  /\ TakeSeq(floor)

Revoke(caller, target, reading, floor) ==
  /\ MayRevoke(caller, target)
  /\ tree' = [n \in Nodes |->
                IF n \in Subtree(target) /\ ~Revoked(n)
                THEN [tree[n] EXCEPT !.revokedBy = SeqFrom(floor)]
                ELSE tree[n]]
  /\ epoch' = epoch + 1
  /\ revokes' = revokes \cup
        {[seq |-> SeqFrom(floor), caller |-> caller, target |-> target]}
  /\ hiWater' = Ratchet(reading)
  /\ TakeSeq(floor)

RevokeRefused(caller, target, reading, floor) ==
  /\ ~MayRevoke(caller, target)
  /\ hiWater' = Ratchet(reading)
  /\ TakeSeq(floor)
  /\ UNCHANGED <<tree, epoch, revokes>>

\* `extend_ttl`: forward only.  Only a contact receipt reaches it, and only for
\* an adopted node, which is a root with a deadline.
ExtendTtl(n, deadline, reading, floor) ==
  /\ n \in Nodes
  /\ Child(n, NoNode)
  /\ tree[n].ttl # NoTtl
  /\ tree' = IF tree[n].ttl >= deadline THEN tree
             ELSE [tree EXCEPT ![n].ttl = deadline]
  /\ hiWater' = Ratchet(reading)
  /\ TakeSeq(floor)
  /\ UNCHANGED <<epoch, revokes>>

\* Inspecting, listing or checking a node reads the clock and nothing else.
Observe(reading) ==
  /\ hiWater' = Ratchet(reading)
  /\ UNCHANGED <<tree, epoch, seq, revokes>>

-----------------------------------------------------------------------------
Init ==
  /\ tree = [n \in {} |-> NoNode]
  /\ epoch = 0
  /\ seq = 1
  /\ hiWater = MinTime
  /\ revokes = {}

Minting ==
  \E n \in Node, request \in Request, ttl \in Deadline \cup {NoTtl},
     reading \in Reading, floor \in Floor :
        \/ Issue(n, request, ttl, reading, floor)
        \/ \E p \in Nodes : Attenuate(p, n, request, ttl, reading, floor)

Refusing ==
  \E reading \in Reading, floor \in Floor, p, q \in Node, request \in Request :
        \/ AttenuateRefused(p, request, reading, floor)
        \/ RevokeRefused(p, q, reading, floor)

Revoking ==
  \E caller, target \in Nodes, reading \in Reading, floor \in Floor :
        Revoke(caller, target, reading, floor)

Extending ==
  \E n \in Nodes, deadline \in Deadline, reading \in Reading, floor \in Floor :
        ExtendTtl(n, deadline, reading, floor)

Next ==
  \/ Minting
  \/ Refusing
  \/ Revoking
  \/ Extending
  \/ \E reading \in Reading : Observe(reading)

Spec == Init /\ [][Next]_vars

-----------------------------------------------------------------------------
(* Properties.                                                             *)

\* Types: every parent pointer leads to a node of the tree, every stamp is a
\* seq already taken, and the records name nodes of the tree.
TypeOK ==
  /\ Nodes \subseteq Node
  /\ tree \in [Nodes -> NodeRec]
  /\ \A n \in Nodes : tree[n].parent \in Nodes \cup {NoNode}
  /\ \A n \in Nodes : tree[n].revokedBy < seq
  /\ epoch \in Nat
  /\ seq \in Nat \ {0}
  /\ hiWater \in Int
  /\ revokes \subseteq RevokeRec
  /\ \A r \in revokes : r.target \in Nodes

\* No chain of delegations widens: a grant holds no more than any ancestor
\* (`attenuate_core` compares with the direct parent only, after filling in
\* an absent budget).
NothingWidens ==
  \A n \in Nodes : \A a \in Path(n) : Within(tree[n].auth, tree[a].auth)

\* Revocation is transitive and stays so: whatever is minted later, no node
\* under a revoked node is unrevoked (`revoke_core`, and the dead-parent
\* refusal in `attenuate_core`).
RevocationCoversSubtree ==
  \A n \in Nodes : \A a \in Path(n) : Revoked(a) => Revoked(n)

\* No grant outlives an ancestor, although a child's deadline is never clamped
\* to its parent's (`effective_state_inherited`).
NoneOutlivesAncestor ==
  \A n \in Nodes : Live(n) => \A a \in Path(n) : Live(a) /\ ~Expired(a, hiWater)

\* The stamp on a revoked node names the record of a revocation that reached
\* it: made by a caller at or above the target, at or above the node.
RevocationAccounted ==
  \A n \in Nodes : Revoked(n) =>
    \E r \in revokes : /\ r.seq = tree[n].revokedBy
                       /\ r.target \in Path(n)
                       /\ r.caller \in Path(r.target)

\* A revoked node stays in the tree, revoked, under the stamp of the first
\* revocation that covered it (`revoke_core` passes over nodes not Live).
RevocationIsFinal ==
  [][\A n \in Nodes : Revoked(n) =>
        n \in Nodes' /\ tree'[n].revokedBy = tree[n].revokedBy]_vars

\* What expired stays expired, whatever the wall clock does, unless a receipt
\* moved the deadline of the root above it (`now`'s ratchet).
ExpiryIsFinal ==
  [][\A n \in Nodes : ~Live(n) /\ Live(n)' =>
        \E a \in Path(n) : Child(a, NoNode) /\ tree'[a].ttl # tree[a].ttl]_vars

\* A revocation reaches everything under its target, minted before it or after,
\* and every revoked node names the record of one that reached it.
RevocationReaches == RevocationCoversSubtree /\ RevocationAccounted

\* Neither way of dying is undone, by no order of calls and no step of the clock:
\* the revoked under the stamp they died with, the expired but for a receipt.
EndsAreFinal == RevocationIsFinal /\ ExpiryIsFinal

\* The tree implements the custody promise.
Promise ==
  INSTANCE Custody WITH
    holds     <- [n \in Nodes |-> tree[n].auth],
    from      <- [n \in Nodes |-> tree[n].parent],
    inForce   <- {n \in Nodes : Live(n)},
    withdrawn <- {n \in Nodes : Revoked(n)}

\* Every call of the broker is a step the custody promise allows: authority in
\* force never grows except by a root, a narrower hand-out or a renewed root,
\* and never leans on authority that is not in force (all of tree.rs).
KeepsPromise == Promise!Spec
=============================================================================
