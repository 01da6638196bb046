-------------------------- MODULE GrantTree_proofs --------------------------
(***************************************************************************)
(* Proofs about the grant tree, for every set of ids, every authority      *)
(* order that is a preorder, and every clock: types, what is above a node, *)
(* what two states have in common, and at last the custody promise kept.   *)
(***************************************************************************)
EXTENDS GrantTree, FiniteSetTheorems, TLAPS

(***************************************************************************)
(* Topology.  A set that holds n and the parent of each of its members     *)
(* holds the whole path of n: this is how every fact about ancestors is    *)
(* reduced to a fact about a node and its parent.                          *)
(***************************************************************************)

\* The induction over ancestors every proof below uses, in place of the walk
\* over parent pointers in the code.
LEMMA PathInduction ==
  ASSUME NEW n \in Nodes, NEW S \in SUBSET Nodes, n \in S, UpClosed(S)
  PROVE  Path(n) \subseteq S
BY DEF Path

\* A node is on its own path: every walk starts at the node itself.
LEMMA PathSelf ==
  ASSUME NEW n \in Nodes
  PROVE  n \in Path(n)
BY DEF Path

\* What is above an ancestor is above the node: the walk goes on from there.
LEMMA PathTransitive ==
  ASSUME NEW n \in Nodes, NEW a \in Path(n)
  PROVE  Path(a) \subseteq Path(n)
BY DEF Path

\* What is above the parent is above the child.
LEMMA PathOfParent ==
  ASSUME NEW n \in Nodes, tree[n].parent \in Nodes, tree[n].parent # NoNode
  PROVE  Path(tree[n].parent) \subseteq Path(n)
BY DEF Path, UpClosed

-----------------------------------------------------------------------------
(* Types.                                                                  *)

\* A minted node keeps the tree well-typed (issue, attenuate_core).
LEMMA InsertType ==
  ASSUME TypeOK, NEW n \in Node \ Nodes, NEW node \in NodeRec,
         node.parent \in Nodes \cup {NoNode}, node.revokedBy = 0,
         tree' = Insert(n, node), NEW floor \in Floor, TakeSeq(floor)
  PROVE  /\ Nodes' = Nodes \cup {n}
         /\ Nodes' \subseteq Node
         /\ tree' \in [Nodes' -> NodeRec]
         /\ \A m \in Nodes' : tree'[m].parent \in Nodes' \cup {NoNode}
         /\ \A m \in Nodes' : tree'[m].revokedBy < seq'
         /\ seq' \in Nat \ {0}
<1>1. Nodes' = Nodes \cup {n}
  BY DEF Insert, Nodes
<1>2. seq' \in Nat \ {0} /\ seq < seq'
  BY ConstantsAreSane DEF TypeOK, TakeSeq, SeqFrom
<1>3. tree' \in [Nodes' -> NodeRec]
  BY <1>1 DEF Insert, TypeOK
<1>4. \A m \in Nodes' : tree'[m].parent \in Nodes' \cup {NoNode}
  BY <1>1 DEF Insert, TypeOK
<1>5. \A m \in Nodes' : tree'[m].revokedBy < seq'
  <2> SUFFICES ASSUME NEW m \in Nodes' PROVE tree'[m].revokedBy < seq'
    OBVIOUS
  <2>1. CASE m = n
    BY <1>1, <1>2, <2>1 DEF Insert
  <2>2. CASE m # n
    <3>1. m \in Nodes /\ tree'[m] = tree[m]
      BY <1>1, <2>2 DEF Insert
    <3>2. tree[m].revokedBy \in Nat /\ tree[m].revokedBy < seq /\ seq \in Nat
      BY <3>1 DEF TypeOK, NodeRec
    <3> QED
      BY <1>2, <3>1, <3>2
  <2> QED
    BY <2>1, <2>2
<1> QED
  BY <1>1, <1>2, <1>3, <1>4, <1>5 DEF TypeOK

\* An inherited budget is the request's own or the parent's, so what is stored
\* is a grant (inherit_budget).
LEMMA InheritType ==
  ASSUME NEW request \in Grant, NEW parent \in Grant
  PROVE  InheritBudget(request, parent) \in Grant
BY DEF InheritBudget, Grant

\* The ratcheted clock is a reading no lower than any before it (now).
LEMMA RatchetType ==
  ASSUME TypeOK, NEW reading \in Reading
  PROVE  Ratchet(reading) \in Int /\ hiWater <= Ratchet(reading)
BY ConstantsAreSane DEF TypeOK, Ratchet

\* Every call keeps the types.
LEMMA TypeStep ==
  ASSUME TypeOK, [Next]_vars
  PROVE  TypeOK'
<1> USE ConstantsAreSane
<1>1. ASSUME NEW n \in Node, NEW request \in Request,
             NEW ttl \in Deadline \cup {NoTtl},
             NEW reading \in Reading, NEW floor \in Floor,
             Issue(n, request, ttl, reading, floor)
      PROVE  TypeOK'
  <2> DEFINE node == [parent |-> NoNode, auth |-> request,
                      ttl |-> ttl, revokedBy |-> 0]
  <2>1. node \in NodeRec /\ n \in Node \ Nodes
    BY <1>1 DEF NodeRec, Issue
  <2>2. tree' = Insert(n, node) /\ TakeSeq(floor)
    BY <1>1 DEF Issue
  <2> HIDE DEF node
  <2>3. node.parent = NoNode /\ node.revokedBy = 0
    BY DEF node
  <2>4. hiWater' \in Int
    BY <1>1, RatchetType DEF Issue
  <2> QED
    BY <1>1, <2>1, <2>2, <2>3, <2>4, InsertType DEF Issue, TypeOK
<1>2. ASSUME NEW n \in Node, NEW request \in Request,
             NEW ttl \in Deadline \cup {NoTtl}, NEW p \in Nodes,
             NEW reading \in Reading, NEW floor \in Floor,
             Attenuate(p, n, request, ttl, reading, floor)
      PROVE  TypeOK'
  <2> DEFINE node == [parent |-> p, auth |-> InheritBudget(request, tree[p].auth),
                      ttl |-> ttl, revokedBy |-> 0]
  <2>1. node \in NodeRec /\ n \in Node \ Nodes
    <3>1. tree[p].auth \in Grant /\ p \in Node
      BY DEF TypeOK, NodeRec
    <3> QED
      BY <1>2, <3>1, InheritType DEF NodeRec, Attenuate
  <2>2. tree' = Insert(n, node) /\ TakeSeq(floor)
    BY <1>2 DEF Attenuate
  <2> HIDE DEF node
  <2>3. node.parent = p /\ node.revokedBy = 0
    BY DEF node
  <2>4. hiWater' \in Int
    BY <1>2, RatchetType DEF Attenuate
  <2> QED
    BY <1>2, <2>1, <2>2, <2>3, <2>4, InsertType DEF Attenuate, TypeOK
<1>3. ASSUME NEW reading \in Reading, NEW floor \in Floor,
             hiWater' = Ratchet(reading), TakeSeq(floor),
             UNCHANGED <<tree, epoch, revokes>>
      PROVE  TypeOK'
  <2>1. hiWater' \in Int
    BY <1>3, RatchetType
  <2>2. seq' \in Nat \ {0} /\ seq < seq'
    BY <1>3 DEF TypeOK, TakeSeq, SeqFrom
  <2>3. Nodes' = Nodes
    BY <1>3 DEF Nodes
  <2>4. ASSUME NEW n \in Nodes PROVE tree[n].revokedBy < seq'
    <3>1. tree[n].revokedBy \in Nat /\ tree[n].revokedBy < seq /\ seq \in Nat
      BY DEF TypeOK, NodeRec
    <3> QED
      BY <2>2, <3>1
  <2> QED
    BY <1>3, <2>1, <2>2, <2>3, <2>4 DEF TypeOK
<1>4. ASSUME NEW caller \in Nodes, NEW target \in Nodes,
             NEW reading \in Reading, NEW floor \in Floor,
             Revoke(caller, target, reading, floor)
      PROVE  TypeOK'
  <2>1. hiWater' \in Int
    BY <1>4, RatchetType DEF Revoke
  <2>2. /\ seq' \in Nat \ {0} /\ seq < seq'
        /\ SeqFrom(floor) \in Nat /\ SeqFrom(floor) < seq'
    BY <1>4 DEF TypeOK, TakeSeq, SeqFrom, Revoke
  <2>3. Nodes' = Nodes
    BY <1>4 DEF Revoke, Nodes
  <2>4. ASSUME NEW n \in Nodes
        PROVE  /\ tree'[n] \in NodeRec
               /\ tree'[n].parent = tree[n].parent
               /\ tree'[n].revokedBy < seq'
    <3>1. tree[n] \in NodeRec /\ tree[n].revokedBy < seq /\ seq \in Nat
      BY DEF TypeOK
    <3>2. CASE n \in Subtree(target) /\ ~Revoked(n)
      <4>1. tree'[n] = [tree[n] EXCEPT !.revokedBy = SeqFrom(floor)]
        BY <1>4, <3>2 DEF Revoke
      <4> QED
        BY <2>2, <3>1, <4>1 DEF NodeRec
    <3>3. CASE ~(n \in Subtree(target) /\ ~Revoked(n))
      <4>1. tree'[n] = tree[n]
        BY <1>4, <3>3 DEF Revoke
      <4>2. tree[n].revokedBy \in Nat
        BY <3>1 DEF NodeRec
      <4> QED
        BY <2>2, <3>1, <4>1, <4>2
    <3> QED
      BY <3>2, <3>3
  <2>5. tree' \in [Nodes -> NodeRec]
    BY <1>4, <2>4 DEF Revoke
  <2>6. epoch' \in Nat /\ revokes' \subseteq RevokeRec
    BY <1>4, <2>2 DEF Revoke, TypeOK, RevokeRec
  <2>7. \A r \in revokes' : r.target \in Nodes
    BY <1>4 DEF Revoke, TypeOK
  <2> QED
    BY <2>1, <2>2, <2>3, <2>4, <2>5, <2>6, <2>7 DEF TypeOK
<1>5. ASSUME NEW n \in Nodes, NEW deadline \in Deadline,
             NEW reading \in Reading, NEW floor \in Floor,
             ExtendTtl(n, deadline, reading, floor)
      PROVE  TypeOK'
  <2>1. hiWater' \in Int
    BY <1>5, RatchetType DEF ExtendTtl
  <2>2. seq' \in Nat \ {0} /\ seq < seq'
    BY <1>5 DEF TypeOK, TakeSeq, SeqFrom, ExtendTtl
  <2>3. Nodes' = Nodes
    BY <1>5 DEF ExtendTtl, Nodes, TypeOK
  <2>4. ASSUME NEW m \in Nodes
        PROVE  /\ tree'[m] \in NodeRec
               /\ tree'[m].parent = tree[m].parent
               /\ tree'[m].revokedBy = tree[m].revokedBy
    <3>1. tree[m] \in NodeRec /\ deadline \in Int
      BY DEF TypeOK
    <3>2. tree'[m] = tree[m] \/ tree'[m] = [tree[m] EXCEPT !.ttl = deadline]
      BY <1>5 DEF ExtendTtl, TypeOK
    <3> QED
      BY <3>1, <3>2 DEF NodeRec
  <2>5. tree' \in [Nodes -> NodeRec]
    BY <1>5, <2>4 DEF ExtendTtl, TypeOK
  <2>6. ASSUME NEW m \in Nodes PROVE tree'[m].revokedBy < seq'
    <3>1. tree[m].revokedBy \in Nat /\ tree[m].revokedBy < seq /\ seq \in Nat
      BY DEF TypeOK, NodeRec
    <3> QED
      BY <2>2, <2>4, <3>1
  <2> QED
    BY <1>5, <2>1, <2>2, <2>3, <2>4, <2>5, <2>6 DEF TypeOK, ExtendTtl
<1>6. ASSUME NEW reading \in Reading, Observe(reading)
      PROVE  TypeOK'
  BY <1>6, RatchetType DEF Observe, TypeOK, Nodes
<1>7. CASE UNCHANGED vars
  BY <1>7 DEF vars, TypeOK, Nodes
<1> QED
  BY <1>1, <1>2, <1>3, <1>4, <1>5, <1>6, <1>7
  DEF Next, Minting, Refusing, Revoking, Extending, AttenuateRefused, RevokeRefused

\* TypeOK for every run of every length: parents are nodes of the tree and no
\* stamp is ahead of the counter.
THEOREM TypeCorrect == Spec => []TypeOK
<1>1. Init => TypeOK
  BY ConstantsAreSane DEF Init, TypeOK, Nodes, NodeRec
<1>2. TypeOK /\ [Next]_vars => TypeOK'
  BY TypeStep
<1> QED
  BY <1>1, <1>2, PTL DEF Spec

-----------------------------------------------------------------------------
(* What one step may do to the tree.                                       *)

\* The step keeps the nodes, their parents and their authority.
Stays ==
  /\ Nodes' = Nodes
  /\ \A n \in Nodes : /\ tree'[n].parent = tree[n].parent
                      /\ tree'[n].auth = tree[n].auth

\* The step mints node as n, a root or a child of a node live at that moment.
Mints(n, node) ==
  /\ n \in Node \ Nodes
  /\ node \in NodeRec
  /\ node.revokedBy = 0
  /\ tree' = Insert(n, node)
  /\ node.parent # NoNode =>
       /\ node.parent \in Nodes
       /\ LiveAt(node.parent, hiWater')
       /\ Within(node.auth, tree[node.parent].auth)

\* The step marks the unrevoked part of the subtree of t with stamp s.
Marks(t, s) ==
  \A n \in Nodes :
    tree'[n].revokedBy = IF n \in Subtree(t) /\ ~Revoked(n) THEN s
                         ELSE tree[n].revokedBy

\* The record of the revocation: who asked, from where, under which seq.
Recorded(t, s) ==
  \E c \in Path(t) : [seq |-> s, caller |-> c, target |-> t] \in revokes'

\* Only roots get new deadlines.
RootsRetimed ==
  \A n \in Nodes : tree'[n].ttl # tree[n].ttl => Child(n, NoNode)

\* No node gets one.
Untimed == \A n \in Nodes : tree'[n].ttl = tree[n].ttl

\* No step touches a stamp.
Unmarked == \A n \in Nodes : tree'[n].revokedBy = tree[n].revokedBy

\* Every call of the broker mints one node, or marks one subtree, or at most
\* moves the deadline of a root (all of tree.rs).
LEMMA StepShape ==
  ASSUME TypeOK, [Next]_vars
  PROVE  \/ Stays /\ Unmarked /\ RootsRetimed
         \/ Stays /\ Untimed /\ \E t \in Nodes, s \in Nat \ {0} :
              Marks(t, s) /\ Recorded(t, s)
         \/ \E n \in Node, node \in NodeRec : Mints(n, node)
<1> USE ConstantsAreSane
<1>1. ASSUME NEW n \in Node, NEW request \in Request,
             NEW ttl \in Deadline \cup {NoTtl},
             NEW reading \in Reading, NEW floor \in Floor,
             Issue(n, request, ttl, reading, floor)
      PROVE  \E node \in NodeRec : Mints(n, node)
  <2> DEFINE node == [parent |-> NoNode, auth |-> request,
                      ttl |-> ttl, revokedBy |-> 0]
  <2>1. node \in NodeRec
    BY DEF NodeRec
  <2>2. Mints(n, node)
    BY <1>1, <2>1 DEF Mints, Issue
  <2> QED
    BY <2>1, <2>2
<1>2. ASSUME NEW n \in Node, NEW request \in Request,
             NEW ttl \in Deadline \cup {NoTtl}, NEW p \in Nodes,
             NEW reading \in Reading, NEW floor \in Floor,
             Attenuate(p, n, request, ttl, reading, floor)
      PROVE  \E node \in NodeRec : Mints(n, node)
  <2> DEFINE auth == InheritBudget(request, tree[p].auth)
             node == [parent |-> p, auth |-> auth,
                      ttl |-> ttl, revokedBy |-> 0]
  <2>1. auth \in Grant /\ p \in Node
    BY InheritType DEF TypeOK, NodeRec
  <2>2. /\ n \in Node \ Nodes
        /\ tree' = Insert(n, node)
        /\ Within(auth, tree[p].auth)
        /\ LiveAt(p, hiWater')
    BY <1>2 DEF Attenuate, MayAttenuate
  <2> HIDE DEF auth
  <2>3. node \in NodeRec
    BY <2>1 DEF NodeRec
  <2>4. Mints(n, node)
    BY <2>2, <2>3 DEF Mints
  <2> QED
    BY <2>3, <2>4
<1>3. ASSUME tree' = tree
      PROVE  Stays /\ Unmarked /\ RootsRetimed
  BY <1>3 DEF Stays, Unmarked, RootsRetimed, Nodes
<1>4. ASSUME NEW caller \in Nodes, NEW target \in Nodes,
             NEW reading \in Reading, NEW floor \in Floor,
             Revoke(caller, target, reading, floor)
      PROVE  Stays /\ Untimed /\ \E t \in Nodes, s \in Nat \ {0} :
               Marks(t, s) /\ Recorded(t, s)
  <2>1. SeqFrom(floor) \in Nat \ {0}
    BY DEF TypeOK, SeqFrom
  <2>2. Nodes' = Nodes
    BY <1>4 DEF Revoke, Nodes
  <2>3. ASSUME NEW n \in Nodes
        PROVE  /\ tree'[n].parent = tree[n].parent
               /\ tree'[n].auth = tree[n].auth
               /\ tree'[n].ttl = tree[n].ttl
               /\ tree'[n].revokedBy =
                    IF n \in Subtree(target) /\ ~Revoked(n) THEN SeqFrom(floor)
                    ELSE tree[n].revokedBy
    <3>1. tree[n] \in NodeRec
      BY DEF TypeOK
    <3>2. tree'[n] = IF n \in Subtree(target) /\ ~Revoked(n)
                     THEN [tree[n] EXCEPT !.revokedBy = SeqFrom(floor)]
                     ELSE tree[n]
      BY <1>4 DEF Revoke
    <3> QED
      BY <3>1, <3>2 DEF NodeRec
  <2>4. Marks(target, SeqFrom(floor))
    BY <2>3 DEF Marks
  <2>5. Stays /\ Untimed
    BY <2>2, <2>3 DEF Stays, Untimed
  <2>6. Recorded(target, SeqFrom(floor))
    BY <1>4 DEF Revoke, MayRevoke, IsSelfOrDescendant, Recorded
  <2> QED
    BY <2>1, <2>4, <2>5, <2>6
<1>5. ASSUME NEW n \in Nodes, NEW deadline \in Deadline,
             NEW reading \in Reading, NEW floor \in Floor,
             ExtendTtl(n, deadline, reading, floor)
      PROVE  Stays /\ Unmarked /\ RootsRetimed
  <2>1. Nodes' = Nodes
    BY <1>5 DEF ExtendTtl, Nodes, TypeOK
  <2>2. ASSUME NEW m \in Nodes
        PROVE  /\ tree'[m].parent = tree[m].parent
               /\ tree'[m].auth = tree[m].auth
               /\ tree'[m].revokedBy = tree[m].revokedBy
               /\ tree'[m].ttl # tree[m].ttl => m = n
    <3>1. tree[m] \in NodeRec
      BY DEF TypeOK
    <3>2. \/ tree'[m] = tree[m]
          \/ m = n /\ tree'[m] = [tree[m] EXCEPT !.ttl = deadline]
      BY <1>5 DEF ExtendTtl, TypeOK
    <3> QED
      BY <3>1, <3>2 DEF NodeRec
  <2>3. Child(n, NoNode)
    BY <1>5 DEF ExtendTtl
  <2> QED
    BY <2>1, <2>2, <2>3 DEF Stays, Unmarked, RootsRetimed
<1>6. CASE \E reading \in Reading : Observe(reading)
  BY <1>3, <1>6 DEF Observe
<1>7. CASE UNCHANGED vars
  BY <1>3, <1>7 DEF vars
<1>8. CASE Refusing
  BY <1>3, <1>8 DEF Refusing, AttenuateRefused, RevokeRefused
<1>9. CASE Minting
  BY <1>1, <1>2, <1>9 DEF Minting
<1>10. CASE Revoking
  BY <1>4, <1>10 DEF Revoking
<1>11. CASE Extending
  BY <1>5, <1>11 DEF Extending
<1> QED
  BY <1>6, <1>7, <1>8, <1>9, <1>10, <1>11 DEF Next

\* What a minted node leaves as it was: the old nodes are the same records.
LEMMA MintKeeps ==
  ASSUME NEW n, NEW node, Mints(n, node)
  PROVE  /\ Nodes' = Nodes \cup {n}
         /\ n \notin Nodes
         /\ tree'[n] = node
         /\ \A m \in Nodes : tree'[m] = tree[m]
BY DEF Mints, Insert, Nodes

-----------------------------------------------------------------------------
(* Nothing widens: the inductive form compares a node with its parent.     *)

WithinParent ==
  \A n \in Nodes : tree[n].parent # NoNode =>
    Within(tree[n].auth, tree[tree[n].parent].auth)

\* Containment is reflexive: a grant may be handed on whole.
LEMMA WithinReflexive ==
  ASSUME NEW g \in Grant
  PROVE  Within(g, g)
BY ScopeWithinIsPreorder, NoBudgetIsNoBudget DEF Grant, Budget, Within, BudgetWithin

\* Containment is transitive, the absent budget at its top included: this is
\* why a comparison with the parent bounds the whole chain (attenuation_check).
LEMMA WithinTransitive ==
  ASSUME NEW g \in Grant, NEW h \in Grant, NEW k \in Grant,
         Within(g, h), Within(h, k)
  PROVE  Within(g, k)
<1>1. ScopeWithin(g.scope, k.scope)
  BY ScopeWithinIsPreorder DEF Grant, Within
<1>2. BudgetWithin(g.budget, k.budget)
  <2>1. CASE k.budget = NoBudget
    BY <2>1 DEF BudgetWithin
  <2>2. CASE k.budget # NoBudget
    <3>1. h.budget # NoBudget /\ g.budget # NoBudget
      BY <2>2 DEF Within, BudgetWithin
    <3>2. g.budget \in Budget /\ h.budget \in Budget /\ k.budget \in Budget
      BY <2>2, <3>1 DEF Grant
    <3> QED
      BY <3>1, <3>2 DEF Within, BudgetWithin, Budget
  <2> QED
    BY <2>1, <2>2
<1> QED
  BY <1>1, <1>2 DEF Within

\* What keeping and minting nodes asks of a tree.
TreeOK ==
  /\ Nodes \subseteq Node
  /\ tree \in [Nodes -> NodeRec]
  /\ \A n \in Nodes : tree[n].parent \in Nodes \cup {NoNode}

\* A step that keeps the nodes or mints one keeps each within its parent.
LEMMA WithinParentKept ==
  ASSUME TreeOK, WithinParent,
         \/ Stays
         \/ \E n \in Node, node \in NodeRec : Mints(n, node)
  PROVE  WithinParent'
<1>1. CASE Stays
  <2> SUFFICES ASSUME NEW n \in Nodes', tree'[n].parent # NoNode
               PROVE  Within(tree'[n].auth, tree'[tree'[n].parent].auth)
    BY DEF WithinParent
  <2>1. n \in Nodes /\ tree[n].parent # NoNode
    BY <1>1 DEF Stays
  <2>2. tree[n].parent \in Nodes
    BY <2>1 DEF TreeOK
  <2> QED
    BY <1>1, <2>1, <2>2 DEF Stays, WithinParent
<1>2. ASSUME NEW n \in Node, NEW node \in NodeRec, Mints(n, node)
      PROVE  WithinParent'
  <2>1. /\ Nodes' = Nodes \cup {n}
        /\ n \notin Nodes
        /\ tree'[n] = node
        /\ \A m \in Nodes : tree'[m] = tree[m]
    BY <1>2, MintKeeps
  <2> SUFFICES ASSUME NEW m \in Nodes', tree'[m].parent # NoNode
               PROVE  Within(tree'[m].auth, tree'[tree'[m].parent].auth)
    BY DEF WithinParent
  <2>2. CASE m = n
    BY <1>2, <2>1, <2>2 DEF Mints
  <2>3. CASE m # n
    <3>1. m \in Nodes /\ tree[m].parent \in Nodes
      BY <2>1, <2>3 DEF TreeOK
    <3> QED
      BY <2>1, <3>1 DEF WithinParent
  <2> QED
    BY <2>2, <2>3
<1> QED
  BY <1>1, <1>2

\* Every call keeps each node within its parent.
LEMMA WithinParentStep ==
  ASSUME TypeOK, WithinParent, [Next]_vars
  PROVE  WithinParent'
BY StepShape, WithinParentKept DEF TypeOK, TreeOK

\* The whole chain follows: the ancestors that bound n are closed upwards.
LEMMA WithinChain ==
  ASSUME TreeOK, WithinParent
  PROVE  NothingWidens
<1> SUFFICES ASSUME NEW n \in Nodes
             PROVE  \A a \in Path(n) : Within(tree[n].auth, tree[a].auth)
  BY DEF NothingWidens
<1> DEFINE S == {m \in Nodes : Within(tree[n].auth, tree[m].auth)}
<1>1. \A m \in Nodes : tree[m].auth \in Grant
  BY DEF TreeOK, NodeRec
<1>2. n \in S
  BY <1>1, WithinReflexive
<1>3. UpClosed(S)
  <2> SUFFICES ASSUME NEW m \in S, tree[m].parent # NoNode
               PROVE  tree[m].parent \in S
    BY DEF UpClosed
  <2>1. tree[m].parent \in Nodes
    BY DEF TreeOK
  <2>2. Within(tree[m].auth, tree[tree[m].parent].auth)
    BY DEF WithinParent
  <2> QED
    BY <1>1, <2>1, <2>2, WithinTransitive
<1> HIDE DEF S
<1>4. S \in SUBSET Nodes
  BY DEF S
<1>5. Path(n) \subseteq S
  BY <1>2, <1>3, <1>4, PathInduction
<1> QED
  BY <1>5 DEF S

\* No chain of delegations, of any length, widens what its root was given.
THEOREM NothingEverWidens == Spec => []NothingWidens
<1>1. Init => TypeOK /\ WithinParent
  BY ConstantsAreSane DEF Init, TypeOK, Nodes, NodeRec, WithinParent
<1>2. TypeOK /\ WithinParent /\ [Next]_vars => (TypeOK /\ WithinParent)'
  BY TypeStep, WithinParentStep
<1>3. TypeOK /\ WithinParent => NothingWidens
  BY WithinChain DEF TypeOK, TreeOK
<1> QED
  BY <1>1, <1>2, <1>3, PTL DEF Spec

-----------------------------------------------------------------------------
(* Revocation covers the subtree, now and later.                           *)

RevokedWithParent ==
  \A n \in Nodes : tree[n].parent # NoNode /\ Revoked(tree[n].parent) => Revoked(n)

\* Every call keeps a child of a revoked node revoked: a mint is refused under
\* one, and a revocation marks children with their parents.
LEMMA RevokedWithParentStep ==
  ASSUME TypeOK, RevokedWithParent, [Next]_vars
  PROVE  RevokedWithParent'
<1>1. CASE Stays /\ Unmarked
  <2> SUFFICES ASSUME NEW n \in Nodes', tree'[n].parent # NoNode,
                      tree'[tree'[n].parent].revokedBy # 0
               PROVE  tree'[n].revokedBy # 0
    BY DEF RevokedWithParent, Revoked
  <2>1. n \in Nodes /\ tree[n].parent # NoNode /\ tree[n].parent \in Nodes
    BY <1>1 DEF Stays, TypeOK
  <2> QED
    BY <1>1, <2>1 DEF Stays, Unmarked, RevokedWithParent, Revoked
<1>2. ASSUME Stays, NEW t \in Nodes, NEW s \in Nat \ {0}, Marks(t, s)
      PROVE  RevokedWithParent'
  <2> SUFFICES ASSUME NEW n \in Nodes', tree'[n].parent # NoNode,
                      tree'[tree'[n].parent].revokedBy # 0
               PROVE  tree'[n].revokedBy # 0
    BY DEF RevokedWithParent, Revoked
  <2> DEFINE p == tree[n].parent
  <2>1. n \in Nodes /\ p # NoNode /\ p \in Nodes /\ tree'[n].parent = p
    BY <1>2 DEF Stays, TypeOK
  <2>2. CASE Revoked(p)
    BY <1>2, <2>1, <2>2 DEF Marks, RevokedWithParent, Revoked
  <2>3. CASE ~Revoked(p)
    <3>1. t \in Path(p)
      BY <1>2, <2>1, <2>3 DEF Marks, Subtree, Revoked
    <3>2. n \in Subtree(t)
      BY <2>1, <3>1, PathOfParent DEF Subtree
    <3> QED
      BY <1>2, <2>1, <3>2 DEF Marks, Revoked
  <2> QED
    BY <2>2, <2>3
<1>3. ASSUME NEW n \in Node, NEW node \in NodeRec, Mints(n, node)
      PROVE  RevokedWithParent'
  <2>1. /\ Nodes' = Nodes \cup {n}
        /\ n \notin Nodes
        /\ tree'[n] = node
        /\ \A m \in Nodes : tree'[m] = tree[m]
    BY <1>3, MintKeeps
  <2> SUFFICES ASSUME NEW m \in Nodes', tree'[m].parent # NoNode,
                      tree'[tree'[m].parent].revokedBy # 0
               PROVE  tree'[m].revokedBy # 0
    BY DEF RevokedWithParent, Revoked
  <2>2. CASE m = n
    <3>1. node.parent \in Nodes /\ ~Revoked(node.parent)
      BY <1>3, <2>1, <2>2, PathSelf DEF Mints, LiveAt
    <3> QED
      BY <2>1, <2>2, <3>1 DEF Revoked
  <2>3. CASE m # n
    <3>1. m \in Nodes /\ tree[m].parent \in Nodes
      BY <2>1, <2>3 DEF TypeOK
    <3> QED
      BY <2>1, <3>1 DEF RevokedWithParent, Revoked
  <2> QED
    BY <2>2, <2>3
<1> QED
  BY <1>1, <1>2, <1>3, StepShape

\* The whole subtree follows: the unrevoked nodes are closed upwards.
LEMMA RevokedChain ==
  ASSUME TypeOK, RevokedWithParent
  PROVE  RevocationCoversSubtree
<1> SUFFICES ASSUME NEW n \in Nodes, ~Revoked(n)
             PROVE  \A a \in Path(n) : ~Revoked(a)
  BY DEF RevocationCoversSubtree
<1> DEFINE S == {m \in Nodes : ~Revoked(m)}
<1>1. n \in S /\ S \in SUBSET Nodes
  OBVIOUS
<1>2. UpClosed(S)
  BY DEF UpClosed, TypeOK, RevokedWithParent
<1> HIDE DEF S
<1>3. Path(n) \subseteq S
  BY <1>1, <1>2, PathInduction
<1> QED
  BY <1>3 DEF S

\* No node under a revoked node is ever unrevoked, minted before or after.
THEOREM RevocationIsTransitive == Spec => []RevocationCoversSubtree
<1>1. Init => TypeOK /\ RevokedWithParent
  BY ConstantsAreSane DEF Init, TypeOK, Nodes, NodeRec, RevokedWithParent
<1>2. TypeOK /\ RevokedWithParent /\ [Next]_vars => (TypeOK /\ RevokedWithParent)'
  BY TypeStep, RevokedWithParentStep
<1>3. TypeOK /\ RevokedWithParent => RevocationCoversSubtree
  BY RevokedChain
<1> QED
  BY <1>1, <1>2, <1>3, PTL DEF Spec

\* A revoked node stays, under its first stamp, whatever is called after.
THEOREM RevocationStands == Spec => RevocationIsFinal
<1>1. ASSUME TypeOK, [Next]_vars, NEW n \in Nodes, Revoked(n)
      PROVE  n \in Nodes' /\ tree'[n].revokedBy = tree[n].revokedBy
  <2>1. CASE Stays /\ Unmarked
    BY <1>1, <2>1 DEF Stays, Unmarked
  <2>2. ASSUME Stays, NEW t \in Nodes, NEW s \in Nat \ {0}, Marks(t, s)
        PROVE  n \in Nodes' /\ tree'[n].revokedBy = tree[n].revokedBy
    BY <1>1, <2>2 DEF Stays, Marks
  <2>3. ASSUME NEW m \in Node, NEW node \in NodeRec, Mints(m, node)
        PROVE  n \in Nodes' /\ tree'[n].revokedBy = tree[n].revokedBy
    BY <1>1, <2>3, MintKeeps
  <2> QED
    BY <1>1, <2>1, <2>2, <2>3, StepShape
<1>2. TypeOK /\ [Next]_vars =>
        [\A n \in Nodes : Revoked(n) =>
            n \in Nodes' /\ tree'[n].revokedBy = tree[n].revokedBy]_vars
  BY <1>1
<1> QED
  BY <1>2, TypeCorrect, PTL DEF Spec, RevocationIsFinal

-----------------------------------------------------------------------------
(* Paths are stable: a walk started at a node meets the same ancestors     *)
(* ever after, because parents are never rewritten.                        *)

\* The path of a node is closed upwards: the walk stops only at a root.
LEMMA PathUpClosed ==
  ASSUME TypeOK, NEW n \in Nodes
  PROVE  UpClosed(Path(n))
<1> SUFFICES ASSUME NEW m \in Path(n), tree[m].parent # NoNode
             PROVE  tree[m].parent \in Path(n)
  BY DEF UpClosed
<1>1. m \in Nodes /\ tree[m].parent \in Nodes
  BY DEF Path, TypeOK
<1>2. ASSUME NEW S \in SUBSET Nodes, n \in S, UpClosed(S)
      PROVE  tree[m].parent \in S
  <2>1. m \in S
    BY <1>2 DEF Path
  <2> QED
    BY <1>2, <2>1 DEF UpClosed
<1> QED
  BY <1>1, <1>2 DEF Path

\* Above a node there is the node, and what is above its parent.
LEMMA PathAbove ==
  ASSUME TypeOK, NEW n \in Nodes
  PROVE  Path(n) \subseteq {n} \cup
           (IF tree[n].parent = NoNode THEN {} ELSE Path(tree[n].parent))
<1>1. CASE tree[n].parent = NoNode
  <2>1. UpClosed({n}) /\ {n} \in SUBSET Nodes
    BY <1>1 DEF UpClosed
  <2> QED
    BY <1>1, <2>1 DEF Path
<1>2. CASE tree[n].parent # NoNode
  <2> DEFINE p == tree[n].parent
             S == {n} \cup Path(p)
  <2>1. p \in Nodes
    BY <1>2 DEF TypeOK
  <2>2. UpClosed(Path(p)) /\ p \in Path(p) /\ Path(p) \subseteq Nodes
    BY <2>1, PathUpClosed, PathSelf DEF Path
  <2>3. UpClosed(S)
    BY <2>2 DEF UpClosed
  <2> HIDE DEF p
  <2>4. Path(n) \subseteq S
    BY <2>2, <2>3, PathInduction
  <2> QED
    BY <1>2, <2>4 DEF p
<1> QED
  BY <1>1, <1>2

\* A step that moves no parent leaves every path alone.
LEMMA PathStays ==
  ASSUME Stays, NEW n \in Nodes
  PROVE  Path(n)' = Path(n)
<1>1. Nodes' = Nodes
  BY DEF Stays
<1>2. ASSUME NEW S \in SUBSET Nodes
      PROVE  UpClosed(S)' <=> UpClosed(S)
  BY DEF UpClosed, Stays
<1> QED
  BY <1>1, <1>2 DEF Path

\* A mint leaves the paths of the nodes already there alone.
LEMMA PathMint ==
  ASSUME TypeOK, NEW k, NEW node, Mints(k, node), NEW n \in Nodes
  PROVE  Path(n)' = Path(n)
<1>1. /\ Nodes' = Nodes \cup {k}
      /\ k \notin Nodes
      /\ \A m \in Nodes : tree'[m] = tree[m]
  BY MintKeeps
<1>2. Path(n) \subseteq Nodes /\ UpClosed(Path(n)) /\ n \in Path(n)
  BY PathUpClosed, PathSelf DEF Path
<1>3. ASSUME NEW a \in Path(n) PROVE a \in Path(n)'
  <2>1. a \in Nodes'
    BY <1>1, <1>2
  <2>2. ASSUME NEW S \in SUBSET (Nodes'), n \in S, UpClosed(S)'
        PROVE  a \in S
    <3> DEFINE T == S \cap Nodes
    <3>1. UpClosed(T)
      <4> SUFFICES ASSUME NEW m \in T, tree[m].parent # NoNode
                   PROVE  tree[m].parent \in T
        BY DEF UpClosed
      <4>1. tree[m].parent \in Nodes
        BY DEF TypeOK
      <4>2. tree'[m].parent \in S
        BY <1>1, <2>2 DEF UpClosed
      <4> QED
        BY <1>1, <4>1, <4>2
    <3>2. n \in T /\ T \in SUBSET Nodes
      BY <2>2
    <3>3. a \in T
      BY <3>1, <3>2, PathInduction
    <3> QED
      BY <3>3
  <2> QED
    BY <2>1, <2>2 DEF Path
<1>4. ASSUME NEW a \in Path(n)' PROVE a \in Path(n)
  <2> DEFINE P == Path(n)
  <2>1. P \in SUBSET (Nodes') /\ n \in P
    BY <1>1, <1>2
  <2>2. \A m \in P : tree'[m].parent # NoNode => tree'[m].parent \in P
    BY <1>1, <1>2 DEF UpClosed
  <2> HIDE DEF P
  <2>3. a \in P
    BY <1>4, <2>1, <2>2 DEF Path, UpClosed
  <2> QED
    BY <2>3 DEF P
<1> QED
  BY <1>3, <1>4
-----------------------------------------------------------------------------
(* Liveness of a grant: inherited from above, and lost with time.          *)

\* The invariant every fact about a walk of bounded length needs: only
\* finitely many nodes were ever minted.
FinitelyMany == IsFiniteSet(Nodes)

\* Every call keeps the tree finite: it mints at most one node.
LEMMA FiniteStep ==
  ASSUME TypeOK, FinitelyMany, [Next]_vars
  PROVE  FinitelyMany'
<1>1. CASE Stays
  BY <1>1 DEF Stays, FinitelyMany
<1>2. ASSUME NEW n \in Node, NEW node \in NodeRec, Mints(n, node)
      PROVE  FinitelyMany'
  BY <1>2, MintKeeps, FS_AddElement DEF FinitelyMany
<1> QED
  BY <1>1, <1>2, StepShape

\* The walk from an ancestor is part of the walk from the node, so where the
\* node is live the ancestor is, within the same bound
\* (effective_state_inherited).
LEMMA LiveAbove ==
  ASSUME TypeOK, FinitelyMany, NEW n \in Nodes, NEW a \in Path(n), NEW now,
         LiveAt(n, now)
  PROVE  a \in Nodes /\ LiveAt(a, now)
<1>1. a \in Nodes /\ Path(a) \subseteq Path(n) /\ Path(n) \subseteq Nodes
  BY PathTransitive DEF Path
<1>2. IsFiniteSet(Path(n)) /\ IsFiniteSet(Path(a))
  BY <1>1, FS_Subset DEF FinitelyMany
<1>3. /\ Cardinality(Path(a)) <= Cardinality(Path(n))
      /\ Cardinality(Path(a)) \in Nat
      /\ Cardinality(Path(n)) \in Nat
  BY <1>1, <1>2, FS_Subset, FS_CardinalityType
<1>4. Cardinality(Path(a)) < MaxHops
  BY <1>3, ConstantsAreSane DEF LiveAt
<1> QED
  BY <1>1, <1>4 DEF LiveAt

\* What is live later was live before: nothing comes back with time alone.
LEMMA LiveEarlier ==
  ASSUME TypeOK, NEW n \in Nodes, NEW now \in Int, NEW later \in Int,
         now <= later, LiveAt(n, later)
  PROVE  LiveAt(n, now)
<1>1. ASSUME NEW a \in Path(n) PROVE ~Expired(a, now)
  <2>1. tree[a] \in NodeRec
    BY DEF Path, TypeOK
  <2>2. ~Expired(a, later)
    BY DEF LiveAt
  <2>3. CASE tree[a].ttl = NoTtl
    BY <2>3 DEF Expired
  <2>4. CASE tree[a].ttl # NoTtl
    <3>1. tree[a].ttl \in Int
      BY <2>1, <2>4 DEF NodeRec
    <3> QED
      BY <2>2, <2>4, <3>1 DEF Expired
  <2> QED
    BY <2>3, <2>4
<1> QED
  BY <1>1 DEF LiveAt

\* No call moves the broker's clock back (now).
LEMMA ClockStep ==
  ASSUME TypeOK, [Next]_vars
  PROVE  hiWater \in Int /\ hiWater' \in Int /\ hiWater <= hiWater'
<1>1. hiWater \in Int
  BY DEF TypeOK
<1>2. ASSUME NEW reading \in Reading, hiWater' = Ratchet(reading)
      PROVE  hiWater' \in Int /\ hiWater <= hiWater'
  BY <1>2, RatchetType
<1>3. CASE UNCHANGED vars
  BY <1>1, <1>3 DEF vars
<1>4. CASE Minting
  BY <1>1, <1>2, <1>4 DEF Minting, Issue, Attenuate
<1>5. CASE Refusing
  BY <1>1, <1>2, <1>5 DEF Refusing, AttenuateRefused, RevokeRefused
<1>6. CASE Revoking \/ Extending \/ \E reading \in Reading : Observe(reading)
  BY <1>1, <1>2, <1>6 DEF Revoking, Revoke, Extending, ExtendTtl, Observe
<1> QED
  BY <1>3, <1>4, <1>5, <1>6 DEF Next

\* Where a step keeps a path, and its deadlines, and unmarks nothing on it,
\* only the clock can change what is live: a grant live after it was before.
LEMMA LiveKept ==
  ASSUME TypeOK, [Next]_vars, NEW n \in Nodes, Path(n)' = Path(n), Live(n)',
         \A a \in Path(n) : /\ tree'[a].ttl = tree[a].ttl
                            /\ Revoked(a) => tree'[a].revokedBy # 0
  PROVE  Live(n)
<1>1. LiveAt(n, hiWater')
  BY DEF Live, LiveAt, Revoked, Expired
<1> QED
  BY <1>1, ClockStep, LiveEarlier DEF Live

\* In every state, a live grant is unrevoked and its parent is live.
LEMMA LeansOnLive ==
  TypeOK /\ FinitelyMany =>
    \A n \in Nodes : Live(n) =>
      ~Revoked(n) /\ (tree[n].parent # NoNode => Live(tree[n].parent))
<1> SUFFICES ASSUME TypeOK, FinitelyMany, NEW n \in Nodes, Live(n)
             PROVE  /\ ~Revoked(n)
                    /\ tree[n].parent # NoNode => Live(tree[n].parent)
  OBVIOUS
<1>1. ~Revoked(n)
  BY PathSelf DEF Live, LiveAt
<1>2. ASSUME tree[n].parent # NoNode PROVE Live(tree[n].parent)
  <2>1. tree[n].parent \in Path(n)
    BY <1>2, PathSelf, PathUpClosed DEF UpClosed
  <2> QED
    BY <2>1, LiveAbove DEF Live
<1> QED
  BY <1>1, <1>2

\* The same after every step: the promise's Covered.
LEMMA StaysCovered ==
  ASSUME TypeOK, FinitelyMany, [Next]_vars
  PROVE  Promise!Covered
<1>1. (TypeOK /\ FinitelyMany =>
         \A n \in Nodes : Live(n) =>
           ~Revoked(n) /\ (tree[n].parent # NoNode => Live(tree[n].parent)))'
  BY LeansOnLive, PTL
<1>2. TypeOK' /\ FinitelyMany'
  BY TypeStep, FiniteStep
<1>3. \A n \in Nodes' : Live(n)' =>
        ~Revoked(n)' /\ (tree[n].parent # NoNode => Live(tree[n].parent))'
  BY <1>1, <1>2
<1>4. \A n \in Nodes' : tree'[n].parent \in Nodes' \cup {NoNode}
  BY <1>2 DEF TypeOK
<1> QED
  BY <1>3, <1>4 DEF Promise!Covered
-----------------------------------------------------------------------------
(* The refinement.                                                         *)

Promised == [Promise!Next]_(Promise!custody)

\* A call that mints nothing and marks nothing renews roots, or lets time pass.
LEMMA RetimedPromised ==
  ASSUME TypeOK, FinitelyMany, [Next]_vars, Stays, Unmarked, RootsRetimed
  PROVE  Promised
<1>1. /\ [n \in Nodes |-> tree[n].auth]' = [n \in Nodes |-> tree[n].auth]
      /\ [n \in Nodes |-> tree[n].parent]' = [n \in Nodes |-> tree[n].parent]
      /\ {n \in Nodes : Revoked(n)}' = {n \in Nodes : Revoked(n)}
  BY DEF Stays, Unmarked, Revoked
<1>2. ASSUME NEW n \in Nodes, Live(n)', ~Live(n), tree[n].parent # NoNode
      PROVE  tree[n].parent \in Nodes /\ ~Live(tree[n].parent)
  <2> DEFINE p == tree[n].parent
  <2>1. p \in Nodes /\ Path(p) \subseteq Path(n)
    BY <1>2, PathOfParent DEF TypeOK
  <2>2. Path(n)' = Path(n)
    BY PathStays
  <2>3. PICK r \in Path(n) : tree'[r].ttl # tree[r].ttl
    <3>1. \A a \in Path(n) : Revoked(a) => tree'[a].revokedBy # 0
      BY DEF Unmarked, Revoked, Path
    <3> QED
      BY <1>2, <2>2, <3>1, LiveKept
  <2>4. r \in Nodes /\ tree[r].parent = NoNode
    BY <2>3 DEF RootsRetimed, Child, Path
  <2>5. r # n /\ r \in Path(p)
    BY <1>2, <2>3, <2>4, PathAbove
  <2>6. ASSUME Live(p) PROVE FALSE
    <3>1. Cardinality(Path(n)) < MaxHops
      BY <1>2, <2>2 DEF Live, LiveAt
    <3>2. \A a \in Path(p) : ~Revoked(a) /\ ~Expired(a, hiWater)
      BY <2>6 DEF Live, LiveAt
    <3>3. ~Revoked(n)
      BY <1>2, <2>2, PathSelf DEF Live, LiveAt, Unmarked, Revoked
    <3>4. ~Expired(n, hiWater)
      <4>1. tree'[n].ttl = tree[n].ttl
        BY <1>2 DEF RootsRetimed, Child
      <4>2. ~(tree[n].ttl # NoTtl /\ hiWater' >= tree[n].ttl)
        BY <1>2, <2>2, <4>1, PathSelf DEF Live, LiveAt, Expired
      <4>3. tree[n].ttl \in Int \cup {NoTtl}
        BY DEF TypeOK, NodeRec
      <4> QED
        BY <4>2, <4>3, ClockStep DEF Expired
    <3>5. \A a \in Path(n) : ~Revoked(a) /\ ~Expired(a, hiWater)
      BY <1>2, <3>2, <3>3, <3>4, PathAbove
    <3> QED
      BY <1>2, <3>1, <3>5 DEF Live, LiveAt
  <2> QED
    BY <2>1, <2>6
<1>3. ASSUME NEW n \in Nodes, Live(n)', ~Live(n), tree[n].parent # NoNode
      PROVE  tree[n].parent \in {m \in Nodes : Live(m)}' \ {m \in Nodes : Live(m)}
  <2>1. tree[n].parent \in Nodes /\ ~Live(tree[n].parent)
    BY <1>2, <1>3
  <2>2. Promise!Covered
    BY StaysCovered
  <2>3. n \in Nodes' /\ tree'[n].parent = tree[n].parent
    BY DEF Stays
  <2> QED
    BY <1>3, <2>1, <2>2, <2>3 DEF Promise!Covered
<1>4. Promise!Renew
  BY <1>1, <1>3 DEF Promise!Renew, Stays
<1> QED
  BY <1>4, StaysCovered DEF Promised, Promise!Next

\* A revocation withdraws, and brings nothing back.
LEMMA MarkedPromised ==
  ASSUME TypeOK, FinitelyMany, [Next]_vars, Stays, Untimed,
         NEW t \in Nodes, NEW s \in Nat \ {0}, Marks(t, s)
  PROVE  Promised
<1>1. /\ [n \in Nodes |-> tree[n].auth]' = [n \in Nodes |-> tree[n].auth]
      /\ [n \in Nodes |-> tree[n].parent]' = [n \in Nodes |-> tree[n].parent]
  BY DEF Stays
<1>2. \A n \in Nodes : Revoked(n) => tree'[n].revokedBy # 0
  BY DEF Marks, Revoked
<1>3. ASSUME NEW n \in Nodes, Live(n)' PROVE Live(n)
  BY <1>2, <1>3, PathStays, LiveKept DEF Untimed, Path
<1>4. Promise!Withdraw
  BY <1>1, <1>2, <1>3
  DEF Promise!Withdraw, Promise!OnlyLapses, Promise!Known, Stays, Revoked
<1> QED
  BY <1>4, StaysCovered DEF Promised, Promise!Next

\* A mint enters a root or hands out under a grant in force.
LEMMA MintPromised ==
  ASSUME TypeOK, FinitelyMany, [Next]_vars,
         NEW n \in Node, NEW node \in NodeRec, Mints(n, node)
  PROVE  Promised
<1>1. /\ Nodes' = Nodes \cup {n}
      /\ n \notin Nodes
      /\ tree'[n] = node
      /\ \A m \in Nodes : tree'[m] = tree[m]
  BY MintKeeps
<1>2. \A m \in Nodes : Path(m)' = Path(m)
  BY PathMint
<1>3. ASSUME NEW m \in Nodes, Live(m)' PROVE Live(m)
  <2>1. \A a \in Path(m) : /\ tree'[a].ttl = tree[a].ttl
                           /\ Revoked(a) => tree'[a].revokedBy # 0
    BY <1>1 DEF Path, Revoked
  <2> QED
    BY <1>2, <1>3, <2>1, LiveKept
<1>4. {m \in Nodes : Revoked(m)}' = {m \in Nodes : Revoked(m)}
  BY <1>1 DEF Revoked, Mints
<1>5. Promise!Record(n, node.auth, node.parent)
  <2>1. [m \in Nodes |-> tree[m].auth]' =
          [m \in Nodes \cup {n} |-> IF m = n THEN node.auth
                                    ELSE [k \in Nodes |-> tree[k].auth][m]]
    BY <1>1
  <2>2. [m \in Nodes |-> tree[m].parent]' =
          [m \in Nodes \cup {n} |-> IF m = n THEN node.parent
                                    ELSE [k \in Nodes |-> tree[k].parent][m]]
    BY <1>1
  <2>3. Promise!Known = Nodes
    BY DEF Promise!Known
  <2>4. Promise!OnlyLapses
    BY <1>3, <2>3 DEF Promise!OnlyLapses
  <2> QED
    BY <1>1, <1>4, <2>1, <2>2, <2>3, <2>4 DEF Promise!Record
<1>6. /\ n \in Promise!Known' \ Promise!Known
      /\ [m \in Nodes |-> tree[m].auth]'[n] = node.auth
  BY <1>1 DEF Promise!Known
<1>7. CASE node.parent = NoNode
  <2>1. Promise!Enter(n, node.auth)
    BY <1>5, <1>7 DEF Promise!Enter
  <2> QED
    BY <1>6, <2>1, StaysCovered DEF Promised, Promise!Next
<1>8. CASE node.parent # NoNode
  <2> DEFINE p == node.parent
  <2>1. p \in Nodes /\ LiveAt(p, hiWater') /\ Within(node.auth, tree[p].auth)
    BY <1>8 DEF Mints
  <2>2. Live(p)
    BY <2>1, ClockStep, LiveEarlier DEF Live
  <2>3. Live(p)'
    BY <1>1, <1>2, <2>1 DEF Live, LiveAt, Revoked, Expired, Path
  <2>4. p \in {m \in Nodes : Live(m)} /\ p \in {m \in Nodes : Live(m)}'
    BY <1>1, <2>1, <2>2, <2>3
  <2>5. Within(node.auth, [m \in Nodes |-> tree[m].auth][p])
    BY <2>1
  <2>6. Promise!Record(n, node.auth, p)
    BY <1>5
  <2> HIDE DEF p
  <2>7. Promise!HandOut(p, n, node.auth)
    BY <2>4, <2>5, <2>6
    DEF Promise!HandOut, Promise!Within, Promise!BudgetWithin,
        Within, BudgetWithin
  <2>8. Promise!HandOut(p, n, [m \in Nodes |-> tree[m].auth]'[n])
    BY <1>6, <2>7
  <2>9. Promise!Next
    BY <1>6, <2>4, <2>8, StaysCovered DEF Promise!Next
  <2> QED
    BY <2>9 DEF Promised
<1> QED
  BY <1>7, <1>8

\* The tree starts where the promise starts, with nothing held.
LEMMA InitPromised == Init => Promise!Init
BY DEF Init, Promise!Init, Nodes

\* The grant tree implements the custody promise, for every set of ids, every
\* authority order, every clock and every bound on the walk.
THEOREM PromiseKept == Spec => KeepsPromise
<1>1. Init => TypeOK /\ FinitelyMany
  BY ConstantsAreSane, FS_EmptySet
  DEF Init, TypeOK, Nodes, NodeRec, FinitelyMany
<1>2. TypeOK /\ FinitelyMany /\ [Next]_vars => (TypeOK /\ FinitelyMany)'
  BY TypeStep, FiniteStep
<1>3. TypeOK /\ FinitelyMany /\ [Next]_vars => [Promise!Next]_(Promise!custody)
  BY StepShape, RetimedPromised, MarkedPromised, MintPromised DEF Promised
<1> QED
  BY <1>1, <1>2, <1>3, InitPromised, PTL DEF Spec, KeepsPromise, Promise!Spec

-----------------------------------------------------------------------------
(* The clock and the records.                                              *)

\* What is not live comes back only with a new deadline for the root above it,
\* wherever the wall clock goes.
THEOREM ExpiryStands == Spec => ExpiryIsFinal
<1>1. ASSUME TypeOK, [Next]_vars, NEW n \in Nodes, ~Live(n), Live(n)'
      PROVE  \E a \in Path(n) : Child(a, NoNode) /\ tree'[a].ttl # tree[a].ttl
  <2>1. CASE Stays /\ Unmarked /\ RootsRetimed
    <3>1. \A a \in Path(n) : Revoked(a) => tree'[a].revokedBy # 0
      BY <2>1 DEF Unmarked, Revoked, Path
    <3>2. PICK a \in Path(n) : tree'[a].ttl # tree[a].ttl
      BY <1>1, <2>1, <3>1, PathStays, LiveKept
    <3> QED
      BY <2>1, <3>2 DEF RootsRetimed, Path
  <2>2. ASSUME Stays, Untimed, NEW t \in Nodes, NEW s \in Nat \ {0}, Marks(t, s)
        PROVE  FALSE
    <3>1. \A a \in Path(n) : /\ tree'[a].ttl = tree[a].ttl
                             /\ Revoked(a) => tree'[a].revokedBy # 0
      BY <2>2 DEF Untimed, Marks, Revoked, Path
    <3> QED
      BY <1>1, <2>2, <3>1, PathStays, LiveKept
  <2>3. ASSUME NEW m \in Node, NEW node \in NodeRec, Mints(m, node)
        PROVE  FALSE
    <3>1. \A a \in Path(n) : tree'[a] = tree[a]
      BY <2>3, MintKeeps DEF Path
    <3> QED
      BY <1>1, <2>3, <3>1, PathMint, LiveKept DEF Revoked
  <2> QED
    BY <1>1, <2>1, <2>2, <2>3, StepShape
<1>2. TypeOK /\ [Next]_vars =>
        [\A n \in Nodes : ~Live(n) /\ Live(n)' =>
            \E a \in Path(n) : Child(a, NoNode) /\ tree'[a].ttl # tree[a].ttl]_vars
  BY <1>1
<1> QED
  BY <1>2, TypeCorrect, PTL DEF Spec, ExpiryIsFinal

\* Revocation records are kept.
LEMMA RecordsKept ==
  ASSUME [Next]_vars
  PROVE  revokes \subseteq revokes'
<1>1. CASE UNCHANGED vars
  BY <1>1 DEF vars
<1>2. CASE Minting
  BY <1>2 DEF Minting, Issue, Attenuate
<1>3. CASE Refusing
  BY <1>3 DEF Refusing, AttenuateRefused, RevokeRefused
<1>4. CASE Revoking \/ Extending \/ \E reading \in Reading : Observe(reading)
  BY <1>4 DEF Revoking, Revoke, Extending, ExtendTtl, Observe
<1> QED
  BY <1>1, <1>2, <1>3, <1>4 DEF Next

\* Every call keeps each stamp accounted for: paths never change, so the
\* record that reached a node still does.
LEMMA AccountedStep ==
  ASSUME TypeOK, RevocationAccounted, [Next]_vars
  PROVE  RevocationAccounted'
<1>1. ASSUME NEW n \in Nodes, n \in Nodes', Revoked(n), NEW r \in revokes,
             r.seq = tree[n].revokedBy, r.target \in Path(n),
             r.caller \in Path(r.target),
             tree'[n].revokedBy = tree[n].revokedBy,
             \A m \in Nodes : Path(m)' = Path(m)
      PROVE  \E q \in revokes' : /\ q.seq = tree'[n].revokedBy
                                 /\ q.target \in Path(n)'
                                 /\ q.caller \in Path(q.target)'
  <2>1. r.target \in Nodes
    BY <1>1 DEF Path
  <2>2. Path(n)' = Path(n) /\ Path(r.target)' = Path(r.target)
    BY <1>1, <2>1
  <2> QED
    BY <1>1, <2>2, RecordsKept
<1>2. CASE Stays /\ Unmarked
  <2> SUFFICES ASSUME NEW n \in Nodes', Revoked(n)'
               PROVE  \E q \in revokes' : /\ q.seq = tree'[n].revokedBy
                                          /\ q.target \in Path(n)'
                                          /\ q.caller \in Path(q.target)'
    BY DEF RevocationAccounted
  <2>1. n \in Nodes /\ Revoked(n) /\ tree'[n].revokedBy = tree[n].revokedBy
    BY <1>2 DEF Stays, Unmarked, Revoked
  <2>2. \A m \in Nodes : Path(m)' = Path(m)
    BY <1>2, PathStays
  <2> QED
    BY <1>1, <2>1, <2>2 DEF RevocationAccounted
<1>3. ASSUME Stays, NEW t \in Nodes, NEW s \in Nat \ {0}, Marks(t, s),
             Recorded(t, s)
      PROVE  RevocationAccounted'
  <2> SUFFICES ASSUME NEW n \in Nodes', Revoked(n)'
               PROVE  \E q \in revokes' : /\ q.seq = tree'[n].revokedBy
                                          /\ q.target \in Path(n)'
                                          /\ q.caller \in Path(q.target)'
    BY DEF RevocationAccounted
  <2>1. n \in Nodes
    BY <1>3 DEF Stays
  <2>2. \A m \in Nodes : Path(m)' = Path(m)
    BY <1>3, PathStays
  <2>3. CASE n \in Subtree(t) /\ ~Revoked(n)
    <3>1. tree'[n].revokedBy = s /\ t \in Path(n)
      BY <1>3, <2>1, <2>3 DEF Marks, Subtree
    <3>2. PICK c \in Path(t) :
            [seq |-> s, caller |-> c, target |-> t] \in revokes'
      BY <1>3 DEF Recorded
    <3>3. t \in Path(n)' /\ c \in Path(t)'
      BY <2>1, <2>2, <3>1
    <3> DEFINE q == [seq |-> s, caller |-> c, target |-> t]
    <3>4. q.seq = s /\ q.target = t /\ q.caller = c
      OBVIOUS
    <3> HIDE DEF q
    <3> QED
      BY <3>1, <3>2, <3>3, <3>4 DEF q
  <2>4. CASE ~(n \in Subtree(t) /\ ~Revoked(n))
    <3>1. tree'[n].revokedBy = tree[n].revokedBy /\ Revoked(n)
      BY <1>3, <2>1, <2>4 DEF Marks, Revoked
    <3> QED
      BY <1>1, <2>1, <2>2, <3>1 DEF RevocationAccounted
  <2> QED
    BY <2>3, <2>4
<1>4. ASSUME NEW k \in Node, NEW node \in NodeRec, Mints(k, node)
      PROVE  RevocationAccounted'
  <2> SUFFICES ASSUME NEW n \in Nodes', Revoked(n)'
               PROVE  \E q \in revokes' : /\ q.seq = tree'[n].revokedBy
                                          /\ q.target \in Path(n)'
                                          /\ q.caller \in Path(q.target)'
    BY DEF RevocationAccounted
  <2>1. /\ n \in Nodes
        /\ Revoked(n)
        /\ tree'[n].revokedBy = tree[n].revokedBy
    BY <1>4, MintKeeps DEF Mints, Revoked
  <2>2. \A m \in Nodes : Path(m)' = Path(m)
    BY <1>4, PathMint
  <2> QED
    BY <1>1, <2>1, <2>2 DEF RevocationAccounted
<1> QED
  BY <1>2, <1>3, <1>4, StepShape

\* The stamp on a revoked node always names a revocation that reached it, by a
\* caller at or above its target.
THEOREM RevocationsAccounted == Spec => []RevocationAccounted
<1>1. Init => TypeOK /\ RevocationAccounted
  BY ConstantsAreSane DEF Init, TypeOK, Nodes, NodeRec, RevocationAccounted
<1>2. TypeOK /\ RevocationAccounted /\ [Next]_vars =>
        (TypeOK /\ RevocationAccounted)'
  BY TypeStep, AccountedStep
<1> QED
  BY <1>1, <1>2, PTL DEF Spec

\* No grant is live under one that is not, for all the bounded walks.
THEOREM NoneOutlives == Spec => []NoneOutlivesAncestor
<1>1. Init => TypeOK /\ FinitelyMany
  BY ConstantsAreSane, FS_EmptySet
  DEF Init, TypeOK, Nodes, NodeRec, FinitelyMany
<1>2. TypeOK /\ FinitelyMany /\ [Next]_vars => (TypeOK /\ FinitelyMany)'
  BY TypeStep, FiniteStep
<1>3. TypeOK /\ FinitelyMany => NoneOutlivesAncestor
  <2> SUFFICES ASSUME TypeOK, FinitelyMany, NEW n \in Nodes, Live(n),
                      NEW a \in Path(n)
               PROVE  Live(a) /\ ~Expired(a, hiWater)
    BY DEF NoneOutlivesAncestor
  <2> QED
    BY LiveAbove DEF Live, LiveAt
<1> QED
  BY <1>1, <1>2, <1>3, PTL DEF Spec

\* A revocation reaches all that is under it and names its record, for trees of
\* any size and shape.
THEOREM RevocationsReach == Spec => []RevocationReaches
<1>1. RevocationCoversSubtree /\ RevocationAccounted => RevocationReaches
  BY DEF RevocationReaches
<1> QED
  BY <1>1, RevocationIsTransitive, RevocationsAccounted, PTL

\* The revoked stay revoked and the expired stay expired.
THEOREM EndsStand == Spec => EndsAreFinal
BY RevocationStands, ExpiryStands DEF EndsAreFinal
=============================================================================
