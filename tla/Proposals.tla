------------------------------ MODULE Proposals ------------------------------
(***************************************************************************)
(* Proposals (delulu-broker/src/proposal.rs and its arms in brokerd.rs): a *)
(* holder that was refused asks for more; somebody with a node that covers *)
(* it approves, and the approval mints a new node under the approver's,    *)
(* holding what the proposer holds and what it asked for.  The proposer's  *)
(* own node is never widened.  Proposals live in memory only.              *)
(*                                                                         *)
(* The mint goes through Guard's gate and the tree's order.  Of the guard  *)
(* the composition takes the steps that change nodes and permits; an ask   *)
(* that names a budget is refused outright and left out.                   *)
(***************************************************************************)
EXTENDS Guard

CONSTANTS
  Wanted,       \* the authorities holders ask for
  MaxProposal   \* bound on the ids of proposals

Item == UNION (Grant \cup Wanted)

\* The names in authorities are ordered (`Scopes::within`).
ASSUME ProposalAssumption ==
  /\ MaxProposal \in Nat
  /\ \A i \in Item : NameWithin(i.name, i.name)
  /\ \A i, j, k \in Item :
       NameWithin(i.name, j.name) /\ NameWithin(j.name, k.name) => NameWithin(i.name, k.name)

VARIABLES
  proposals, nextProposal,
  filed,        \* what the chain says was proposed
  granted       \* what the chain says was approved

proposalVars == <<proposals, nextProposal, filed, granted>>

-----------------------------------------------------------------------------
Devices(grant) == {i.name : i \in {j \in grant : j.class = "device"}}

\* (mutant) an ask for what the node holds already is taken.
UnproposableNothing(held, asks) == asks = {}

\* `unproposable`.
Unproposable(held, asks) ==
  \/ asks = {}
  \/ Devices(asks) \cap Devices(held) # {}
  \/ Within(asks, held)

Join(held, asks) == held \cup asks

Pending(id) == {p \in proposals : p.id = id /\ p.status = "pending"}

Decide(p, status, child, under) ==
  (proposals \ {p}) \cup {[p EXCEPT !.status = status, !.child = child, !.under = under]}

\* A proposal pending for the same node and the same ask is answered with its
\* id; one whose record is lost is taken off the list.
Propose(n, asks, recorded) ==
  /\ Live(n)
  /\ ~Unproposable(tree[n].auth, asks)
  /\ LET new == [id |-> nextProposal, node |-> n, asks |-> asks, status |-> "pending",
                 child |-> NoNode, under |-> NoNode]
         same == {p \in proposals : p.node = n /\ p.asks = asks /\ p.status = "pending"}
     IN \/ same # {} /\ UNCHANGED proposalVars
        \/ /\ same = {}
           /\ nextProposal < MaxProposal
           /\ nextProposal' = nextProposal + 1
           /\ proposals' = proposals \cup (IF recorded THEN {new} ELSE {})
           /\ filed' = IF recorded THEN [i \in DOMAIN filed \cup {new.id} |->
                                           IF i = new.id THEN [node |-> n, asks |-> asks]
                                           ELSE filed[i]]
                       ELSE filed
           /\ UNCHANGED granted
  /\ UNCHANGED guardVars

\* (mutant) the proposer's node is not looked at again.
GrantsTheDead(p, under, n, owner) ==
  /\ MintGate(under, Join(tree[p.node].auth, p.asks), owner)
  /\ Live(under)
  /\ Within(Join(tree[p.node].auth, p.asks), tree[under].auth)
  /\ n \in Node \ Nodes

Grants(p, under, n, owner) ==
  /\ Live(p.node)
  /\ MintGate(under, Join(tree[p.node].auth, p.asks), owner)
  /\ Live(under)
  /\ Within(Join(tree[p.node].auth, p.asks), tree[under].auth)
  /\ n \in Node \ Nodes

\* (mutant) an unrecorded approval withdraws its node and stays decided.
ApproveProposalHalf(id, under, n, owner, recorded) ==
  /\ \E p \in Pending(id) :
       /\ Grants(p, under, n, owner)
       /\ SweptByMint(Join(tree[p.node].auth, p.asks), owner)
       /\ tree' = IF recorded THEN Insert(n, under, Join(tree[p.node].auth, p.asks)) ELSE tree
       /\ proposals' = Decide(p, "approved", n, under)
       /\ granted' = IF recorded THEN granted \cup {[id |-> id, child |-> n, under |-> under]}
                     ELSE granted
  /\ Silent
  /\ UNCHANGED <<policy, poisoned, bypass, nextPermit, nextRequest, disk, now, chain,
                 stored, nextProposal, filed>>

\* `approve_proposal` with `withdraw_unrecorded_proposal_approval`: either of the
\* two records lost, the node goes and the proposal is pending again.
ApproveProposal(id, under, n, owner, recorded) ==
  /\ \E p \in Pending(id) :
       /\ Grants(p, under, n, owner)
       /\ SweptByMint(Join(tree[p.node].auth, p.asks), owner)
       /\ \/ /\ recorded
             /\ tree' = Insert(n, under, Join(tree[p.node].auth, p.asks))
             /\ proposals' = Decide(p, "approved", n, under)
             /\ granted' = granted \cup {[id |-> id, child |-> n, under |-> under]}
          \/ /\ ~recorded
             /\ UNCHANGED <<tree, proposals, granted>>
  /\ Silent
  /\ UNCHANGED <<policy, poisoned, bypass, nextPermit, nextRequest, disk, now, chain,
                 stored, nextProposal, filed>>

\* A refusal leaves the proposal pending; the gate may have swept on its way.
ApprovalRefused(id, under, n, owner) ==
  /\ \E p \in Pending(id) :
       /\ ~Grants(p, under, n, owner)
       /\ IF Live(p.node) THEN SweptByMint(Join(tree[p.node].auth, p.asks), owner)
          ELSE UNCHANGED <<permits, requests>>
  /\ Silent
  /\ UNCHANGED <<tree, policy, poisoned, bypass, nextPermit, nextRequest, disk, now,
                 chain, stored, proposalVars>>

\* A rejection stands whether or not it was recorded.
Reject(id) ==
  /\ \E p \in Pending(id) : proposals' = Decide(p, "rejected", NoNode, NoNode)
  /\ UNCHANGED <<guardVars, nextProposal, filed, granted>>

RestartWithProposals(on) ==
  /\ Restart(on)
  /\ proposals' = {} /\ nextProposal' = 0
  /\ filed' = [i \in {} |-> NoNode] /\ granted' = {}

-----------------------------------------------------------------------------
ProposalsInit ==
  /\ GuardInit
  /\ proposals = {} /\ nextProposal = 0
  /\ filed = [i \in {} |-> NoNode] /\ granted = {}

GuardSteps ==
  /\ \/ \E n \in Nodes, subset \in Subset, recorded \in BOOLEAN : Ask(n, subset, recorded)
     \/ Deciding
     \/ Minting
     \/ \E n \in Nodes : Kill(n)
  /\ UNCHANGED proposalVars

Proposing ==
  \E n \in Nodes, asks \in Wanted, recorded \in BOOLEAN : Propose(n, asks, recorded)

DecidingProposals ==
  \E id \in 0 .. MaxProposal, under \in Nodes, n \in Node, owner, recorded \in BOOLEAN :
    \/ ApproveProposal(id, under, n, owner, recorded)
    \/ ApprovalRefused(id, under, n, owner)
    \/ Reject(id)

ProposalsNext ==
  \/ GuardSteps
  \/ Proposing
  \/ DecidingProposals
  \/ RestartWithProposals(FALSE)

ProposalsSpec == ProposalsInit /\ [][ProposalsNext]_<<guardVars, proposalVars>>

-----------------------------------------------------------------------------
(* Properties.                                                             *)

\* Every part of the proposals' state has the shape the daemon gives it.
ProposalsTypeOK ==
  /\ proposals \subseteq [id : 0 .. MaxProposal, node : Nodes, asks : Wanted,
                          status : {"pending", "approved", "rejected"},
                          child : Nodes \cup {NoNode}, under : Nodes \cup {NoNode}]
  /\ nextProposal \in 0 .. MaxProposal
  /\ DOMAIN filed \subseteq 0 .. nextProposal - 1
  /\ granted \subseteq [id : DOMAIN filed, child : Nodes, under : Nodes]

\* What the daemon lists, what the tree holds and what the chain says agree: a
\* proposal is on the list exactly when the chain saw it filed, and approved
\* exactly when the chain saw its approval, once, and the tree holds the node
\* it names, under the approver's, with the proposer's authority and the ask
\* and nothing else (`approve_proposal` and both withdrawals).
ProposalsAccounted ==
  /\ {p.id : p \in proposals} = DOMAIN filed
  /\ \A p \in proposals :
       /\ filed[p.id] = [node |-> p.node, asks |-> p.asks]
       /\ {g \in granted : g.id = p.id} =
            IF p.status = "approved" THEN {[id |-> p.id, child |-> p.child, under |-> p.under]}
            ELSE {}
       /\ p.status = "approved" =>
            /\ tree[p.child].parent = p.under
            /\ tree[p.child].auth = Join(tree[p.node].auth, p.asks)

\* No proposal is ever approved under its proposer's own node or below it: a
\* holder cannot relax its own limits by asking, whatever it minted meanwhile.
NoSelfRelaxing ==
  \A p \in proposals : p.status = "approved" => p.node \notin Path(p.under)

\* While the daemon runs, a decided proposal stays as it was decided, and one
\* that becomes approved has a proposer whose node is live.
DecisionsStand ==
  [][proposals' # {} =>
       \A p \in proposals :
         \E q \in proposals' :
           /\ q.id = p.id
           /\ p.status # "pending" => q = p
           /\ p.status = "pending" /\ q.status = "approved" => Live(p.node)]_proposalVars

\* Approval stays with who is above: no proposal relaxes its author's own rules,
\* and no decision is taken twice or back.
ApprovalIsFromAbove == []NoSelfRelaxing /\ DecisionsStand
=============================================================================
