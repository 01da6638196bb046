-------------------------- MODULE Proposals_proofs --------------------------
(***************************************************************************)
(* The guard's books agree with the chain and with each other, no looser   *)
(* rule outlives a lost record, and no seal is slept through; and with the *)
(* guard's gate: proposals are what the chain says, decided once and from  *)
(* above.  For every set of nodes, rules and authorities, whichever        *)
(* records are lost and whenever the daemon restarts.                      *)
(***************************************************************************)
EXTENDS Proposals, TLAPS

-----------------------------------------------------------------------------
(* The guard's invariant.                                                  *)

Permits == [id : 0 .. MaxId, node : Node, subset : Subset, until : Nat,
            left : Nat \cup {NoLimit}]

Approvals == [request : 0 .. MaxId, node : Node, subset : Subset, at : Nat, until : Nat,
              uses : Nat \cup {NoLimit}, spent : Nat, sealed : SUBSET Use]

\* The shape of the tree, and of all that the daemon has, whatever authority its
\* nodes hold.
TreeShape ==
  /\ Nodes \subseteq Node
  /\ \A n \in Nodes :
       /\ tree[n] = [parent |-> tree[n].parent, auth |-> tree[n].auth,
                     revoked |-> tree[n].revoked]
       /\ tree[n].parent \in Nodes \cup {NoNode} /\ tree[n].revoked \in BOOLEAN

Holdings ==
  /\ TreeShape
  /\ policy \in [Rule -> Tier]
  /\ poisoned \in BOOLEAN /\ bypass \in BOOLEAN
  /\ stored \in [held : BOOLEAN, lost : SUBSET Rule]
  /\ permits \subseteq Permits
  /\ requests \subseteq Asked
  /\ nextPermit \in 0 .. MaxId /\ nextRequest \in 0 .. MaxId
  /\ disk \in [Rule -> Tier] \cup {Absent, Corrupt}
  /\ now \in 0 .. MaxTime

\* The shape of what the chain says.
Books ==
  /\ chain = [policy |-> chain.policy, bypass |-> chain.bypass, asked |-> chain.asked,
              approved |-> chain.approved, ended |-> chain.ended, minted |-> chain.minted]
  /\ chain.policy \in [Rule -> Tier] /\ chain.bypass \in BOOLEAN
  /\ chain.asked \subseteq Asked
  /\ DOMAIN chain.approved \subseteq 0 .. nextPermit - 1
  /\ chain.approved \in [DOMAIN chain.approved -> Approvals]
  /\ chain.ended \subseteq DOMAIN chain.approved

\* One permit to an approval, which is what the charge of a use relies on; an
\* undecided request and the one an approval answered are on the chain.
Traced ==
  /\ \A p, q \in permits : p.id = q.id => p = q
  /\ \A r \in requests : r.status = "pending" => r \in chain.asked
  /\ \A i \in DOMAIN chain.approved :
       LET a == chain.approved[i] IN
         \E r \in chain.asked : /\ r.id = a.request /\ r.node = a.node /\ r.subset = a.subset
                                /\ a.at < r.created + RequestTtl

GuardInv == Holdings /\ Books /\ PermitsAccounted /\ Traced /\ RulesStand

Granted == \A n \in Nodes : tree[n].auth \in Grant

-----------------------------------------------------------------------------
(* Steps that leave the books alone.                                       *)

\* Sweeping only takes away.
LEMMA SweptIsLess == CurrentPermits \subseteq permits /\ CurrentRequests \subseteq requests
BY DEF CurrentPermits, CurrentRequests

\* A step may shrink what is held and decide requests.
LEMMA ShrinkKeeps ==
  ASSUME GuardInv, permits' \subseteq permits, requests' \subseteq Asked,
         \A r \in requests' : r.status = "pending" => r \in requests,
         TreeShape',
         nextRequest' \in 0 .. MaxId, nextPermit' \in 0 .. MaxId, nextPermit <= nextPermit',
         now' \in 0 .. MaxTime,
         UNCHANGED <<policy, poisoned, bypass, disk, stored>>,
         chain' = chain \/ \E minted : chain' = [chain EXCEPT !.minted = minted]
  PROVE  GuardInv'
<1> USE GuardAssumption DEF GuardInv
<1>1. /\ chain' = [policy |-> chain'.policy, bypass |-> chain'.bypass, asked |-> chain'.asked,
                   approved |-> chain'.approved, ended |-> chain'.ended, minted |-> chain'.minted]
      /\ chain'.policy = chain.policy /\ chain'.bypass = chain.bypass
      /\ chain'.asked = chain.asked /\ chain'.approved = chain.approved
      /\ chain'.ended = chain.ended
  BY DEF Books
<1>2. Holdings'
  BY DEF Holdings, TreeShape, Nodes
<1>3. Books'
  BY <1>1 DEF Books, Holdings
<1>4. PermitsAccounted'
  BY <1>1 DEF PermitsAccounted
<1>5. Traced'
  BY <1>1 DEF Traced
<1>6. RulesStand'
  BY <1>1 DEF RulesStand, NothingLooserThanChain, StoredIsInForce, Loaded
<1> QED
  BY <1>2, <1>3, <1>4, <1>5, <1>6

-----------------------------------------------------------------------------
(* The owner's edits.                                                      *)

\* The policy a daemon without a file starts with.
LEMMA DefaultsAreTiers == DefaultPolicy \in [Rule -> Tier]
BY DEF DefaultPolicy, Tier, Guarded, Free, Sealed

\* A rule is looser after an edit than before only if it is the one edited.
LEMMA OneRuleEdited ==
  ASSUME policy \in [Rule -> Tier], NEW r \in Rule, NEW tier \in Tier
  PROVE  /\ [policy EXCEPT ![r] = tier] \in [Rule -> Tier]
         /\ [policy EXCEPT ![r] = tier][r] = tier
         /\ \A q \in Rule \ {r} : [policy EXCEPT ![r] = tier][q] = policy[q]
         /\ ~Loosened(policy, [policy EXCEPT ![r] = tier]) => policy[r] <= tier
BY DEF Loosened, Tier, Free, Sealed

\* An edit: what tightens stands, what loosens stands on the chain or not at all.
LEMMA EditKeeps ==
  ASSUME GuardInv, NEW r \in Rule, NEW tier \in Tier, NEW recorded \in BOOLEAN,
         PolicyEdited(r, tier, recorded),
         UNCHANGED <<tree, poisoned, bypass, permits, requests, nextPermit, nextRequest, now>>
  PROVE  GuardInv'
<1> USE GuardAssumption DEF GuardInv
<1> DEFINE after == [policy EXCEPT ![r] = tier]
<1>0. /\ policy \in [Rule -> Tier] /\ chain.policy \in [Rule -> Tier]
      /\ after \in [Rule -> Tier] /\ after[r] = tier
      /\ \A q \in Rule \ {r} : after[q] = policy[q]
      /\ ~Loosened(policy, after) => policy[r] <= tier
  <2>1. policy \in [Rule -> Tier] /\ chain.policy \in [Rule -> Tier]
    BY DEF Holdings, Books
  <2> QED
    BY <2>1, OneRuleEdited
<1>1. /\ chain' = [policy |-> chain'.policy, bypass |-> chain'.bypass, asked |-> chain'.asked,
                   approved |-> chain'.approved, ended |-> chain'.ended, minted |-> chain'.minted]
      /\ chain'.bypass = chain.bypass
      /\ chain'.asked = chain.asked /\ chain'.approved = chain.approved
      /\ chain'.ended = chain.ended
      /\ \/ /\ policy' = after /\ chain'.policy = [chain.policy EXCEPT ![r] = tier]
            /\ stored'.lost = stored.lost \ {r}
         \/ /\ policy' = after /\ chain'.policy = chain.policy /\ ~Loosened(policy, after)
            /\ stored'.lost = stored.lost
         \/ policy' = policy /\ chain'.policy = chain.policy /\ stored' = stored
  BY DEF Books, PolicyEdited, Store
<1>2. /\ \/ disk' = policy' /\ stored'.held = TRUE
         \/ disk' \in {disk, Absent, Corrupt} /\ stored'.held = FALSE
         \/ UNCHANGED <<policy, disk, stored>>
      /\ stored' \in [held : BOOLEAN, lost : SUBSET Rule]
  <2>1. stored.lost \in SUBSET Rule /\ stored.lost \ {r} \in SUBSET Rule
    BY DEF Holdings
  <2>2. CASE UNCHANGED <<policy, disk, stored>>
    BY <2>2 DEF Holdings
  <2>3. ASSUME NEW lost \in SUBSET Rule, policy' = after, Store(after, lost)
        PROVE  /\ \/ disk' = policy' /\ stored'.held = TRUE
                  \/ disk' \in {disk, Absent, Corrupt} /\ stored'.held = FALSE
               /\ stored' \in [held : BOOLEAN, lost : SUBSET Rule]
    <3>1. CASE disk' = after /\ stored' = [held |-> TRUE, lost |-> lost]
      BY <2>3, <3>1
    <3>2. CASE disk' \in {disk, Absent, Corrupt} /\ stored' = [held |-> FALSE, lost |-> lost]
      BY <3>2
    <3> QED
      BY <2>3, <3>1, <3>2 DEF Store
  <2> QED
    BY <2>1, <2>2, <2>3 DEF PolicyEdited
<1> HIDE DEF after
<1>3. Holdings'
  BY <1>0, <1>1, <1>2 DEF Holdings, TreeShape, Nodes
<1>4. Books'
  BY <1>0, <1>1 DEF Books
<1>5. PermitsAccounted' /\ Traced'
  BY <1>1 DEF PermitsAccounted, Traced
<1>6. NothingLooserThanChain'
  <2>1. ASSUME NEW q \in Rule \ stored'.lost
        PROVE  policy'[q] >= chain'.policy[q]
    BY <1>0, <1>1 DEF RulesStand, NothingLooserThanChain, Tier, Free, Sealed
  <2> QED
    BY <1>1, <2>1 DEF RulesStand, NothingLooserThanChain
<1>7. StoredIsInForce'
  <2>1. CASE disk' = policy'
    BY <1>0, <1>1, <2>1 DEF StoredIsInForce, Loaded
  <2>2. CASE UNCHANGED <<policy, disk, stored>>
    BY <2>2 DEF RulesStand, StoredIsInForce, Loaded
  <2> QED
    BY <1>2, <2>1, <2>2 DEF StoredIsInForce
<1> QED
  BY <1>3, <1>4, <1>5, <1>6, <1>7 DEF RulesStand

\* A bypass is on in the daemon only when the chain says so.
LEMMA BypassKeeps ==
  ASSUME GuardInv, NEW on \in BOOLEAN, NEW recorded \in BOOLEAN, SetBypass(on, recorded)
  PROVE  GuardInv'
<1> USE GuardAssumption DEF GuardInv, SetBypass
<1>1. /\ chain' = [policy |-> chain'.policy, bypass |-> chain'.bypass, asked |-> chain'.asked,
                   approved |-> chain'.approved, ended |-> chain'.ended, minted |-> chain'.minted]
      /\ chain'.policy = chain.policy
      /\ chain'.asked = chain.asked /\ chain'.approved = chain.approved
      /\ chain'.ended = chain.ended
      /\ chain'.bypass = IF recorded THEN on ELSE chain.bypass
  BY DEF Books
<1>2. Holdings' /\ Books'
  BY <1>1 DEF Holdings, TreeShape, Nodes, Books
<1>3. PermitsAccounted' /\ Traced'
  BY <1>1 DEF PermitsAccounted, Traced
<1>4. RulesStand'
  BY <1>1 DEF RulesStand, NothingLooserThanChain, StoredIsInForce, Loaded
<1> QED
  BY <1>2, <1>3, <1>4

-----------------------------------------------------------------------------
(* Asking and deciding.                                                    *)

\* A request adds itself and its line, or neither.
LEMMA AskKeeps ==
  ASSUME GuardInv, NEW n \in Nodes, NEW subset \in Subset, NEW recorded \in BOOLEAN,
         Ask(n, subset, recorded)
  PROVE  GuardInv'
<1> USE GuardAssumption DEF GuardInv
<1> DEFINE new == [id |-> nextRequest, node |-> n, subset |-> subset, created |-> now,
                   status |-> "pending"]
<1>1. permits' \subseteq permits /\ UNCHANGED <<tree, policy, poisoned, bypass, nextPermit,
                                                disk, now, stored>>
  BY SweptIsLess DEF Ask
<1>2. CASE requests' = CurrentRequests /\ UNCHANGED <<nextRequest, chain>>
  BY <1>1, <1>2, SweptIsLess, ShrinkKeeps DEF Holdings, TreeShape, Nodes
<1>3. CASE /\ nextRequest < MaxId /\ nextRequest' = nextRequest + 1
           /\ requests' = CurrentRequests \cup (IF recorded THEN {new} ELSE {})
           /\ chain' = IF recorded THEN [chain EXCEPT !.asked = @ \cup {new}] ELSE chain
  <2>1. new \in Asked
    BY DEF Holdings, TreeShape, Asked
  <2> HIDE DEF new
  <2>2. requests' \subseteq requests \cup {new} /\ nextRequest' \in 0 .. MaxId
    BY <1>3, SweptIsLess DEF Holdings
  <2>3. /\ chain' = [policy |-> chain'.policy, bypass |-> chain'.bypass, asked |-> chain'.asked,
                     approved |-> chain'.approved, ended |-> chain'.ended,
                     minted |-> chain'.minted]
        /\ chain'.policy = chain.policy /\ chain'.bypass = chain.bypass
        /\ chain'.approved = chain.approved /\ chain'.ended = chain.ended
        /\ chain'.asked = IF recorded THEN chain.asked \cup {new} ELSE chain.asked
    BY <1>3 DEF Books
  <2>4. Holdings'
    BY <1>1, <2>1, <2>2 DEF Holdings, TreeShape, Nodes
  <2>5. Books'
    BY <1>1, <2>1, <2>3 DEF Books
  <2>6. PermitsAccounted'
    BY <1>1, <2>3 DEF PermitsAccounted
  <2>7. Traced'
    <3>1. \A r \in requests' : r.status = "pending" => r \in chain'.asked
      BY <1>3, <2>3, SweptIsLess DEF Traced
    <3> QED
      BY <1>1, <2>3, <3>1 DEF Traced
  <2>8. RulesStand'
    BY <1>1, <2>3 DEF RulesStand, NothingLooserThanChain, StoredIsInForce, Loaded
  <2> QED
    BY <2>4, <2>5, <2>6, <2>7, <2>8
<1> QED
  BY <1>2, <1>3 DEF Ask

\* An approval adds its permit and the chain's line, or neither.
LEMMA ApproveKeeps ==
  ASSUME GuardInv, NEW id \in 0 .. MaxId, NEW uses \in Count \cup {NoLimit},
         NEW recorded \in BOOLEAN, Approve(id, uses, recorded)
  PROVE  GuardInv'
<1> USE GuardAssumption DEF GuardInv
<1>1. UNCHANGED <<tree, policy, poisoned, bypass, nextRequest, disk, now, stored>>
  BY DEF Approve
<1>2. PICK r \in PendingRequest(id) :
        \/ /\ recorded
           /\ permits' = CurrentPermits
                \cup {[id |-> nextPermit, node |-> r.node, subset |-> r.subset,
                       until |-> now + PermitTtl, left |-> uses]}
           /\ requests' = (CurrentRequests \ {r}) \cup {[r EXCEPT !.status = "approved"]}
           /\ chain' = AddApproval(Approval(r, now + PermitTtl, uses))
        \/ /\ permits' = CurrentPermits /\ requests' = CurrentRequests /\ UNCHANGED chain
  BY DEF Approve
<1>3. /\ nextPermit' = nextPermit + 1 /\ nextPermit' \in 0 .. MaxId
      /\ nextPermit \in 0 .. MaxId /\ nextPermit \notin 0 .. nextPermit - 1
      /\ 0 .. nextPermit - 1 \subseteq 0 .. nextPermit' - 1 /\ nextPermit \in 0 .. nextPermit' - 1
  BY DEF Approve, Holdings
<1>4. /\ r \in requests /\ r \in Asked /\ r.status = "pending" /\ r.id = id
      /\ now < r.created + RequestTtl /\ r \in chain.asked
  BY SweptIsLess DEF PendingRequest, CurrentRequests, Holdings, Traced
<1>5. CASE permits' = CurrentPermits /\ requests' = CurrentRequests /\ UNCHANGED chain
  BY <1>1, <1>3, <1>5, SweptIsLess, ShrinkKeeps DEF Holdings, TreeShape, Nodes
<1>6. CASE /\ permits' = CurrentPermits
                \cup {[id |-> nextPermit, node |-> r.node, subset |-> r.subset,
                       until |-> now + PermitTtl, left |-> uses]}
           /\ requests' = (CurrentRequests \ {r}) \cup {[r EXCEPT !.status = "approved"]}
           /\ chain' = AddApproval(Approval(r, now + PermitTtl, uses))
  <2> DEFINE p == [id |-> nextPermit, node |-> r.node, subset |-> r.subset,
                   until |-> now + PermitTtl, left |-> uses]
             a == Approval(r, now + PermitTtl, uses)
             done == [r EXCEPT !.status = "approved"]
  <2>1. /\ p \in Permits /\ p.id = nextPermit /\ p.left = uses /\ p.node = r.node
        /\ p.subset = r.subset /\ p.until = now + PermitTtl
    <3>1. /\ r.node \in Node /\ r.subset \in Subset /\ now + PermitTtl \in Nat
          /\ uses \in Nat \cup {NoLimit} /\ nextPermit \in 0 .. MaxId
      BY <1>3, <1>4 DEF Holdings, Asked
    <3> QED
      BY <3>1 DEF Permits
  <2>2. /\ a \in Approvals /\ a.node = r.node /\ a.subset = r.subset
        /\ a.until = now + PermitTtl /\ a.uses = uses /\ a.spent = 0 /\ a.at = now
        /\ a.request = r.id
    BY <1>4 DEF Approval, Approvals, Holdings, Asked
  <2>3. done \in Asked /\ done.status = "approved"
    BY <1>4 DEF Asked
  <2> HIDE DEF p, a, done
  <2>4. permits' = CurrentPermits \cup {p} /\ requests' = (CurrentRequests \ {r}) \cup {done}
        /\ chain' = AddApproval(a)
    BY <1>6 DEF p, a, done
  <2>5. /\ chain' = [policy |-> chain'.policy, bypass |-> chain'.bypass, asked |-> chain'.asked,
                     approved |-> chain'.approved, ended |-> chain'.ended,
                     minted |-> chain'.minted]
        /\ chain'.policy = chain.policy /\ chain'.bypass = chain.bypass
        /\ chain'.asked = chain.asked /\ chain'.ended = chain.ended
        /\ chain'.approved = [i \in DOMAIN chain.approved \cup {nextPermit} |->
                                IF i = nextPermit THEN a ELSE chain.approved[i]]
    BY <2>4 DEF AddApproval, Books
  <2>6. /\ nextPermit \notin DOMAIN chain.approved
        /\ DOMAIN chain'.approved = DOMAIN chain.approved \cup {nextPermit}
        /\ chain'.approved[nextPermit] = a
        /\ \A i \in DOMAIN chain.approved : chain'.approved[i] = chain.approved[i]
    BY <1>3, <2>5 DEF Books
  <2>7. Holdings'
    BY <1>1, <1>3, <2>1, <2>3, <2>4, SweptIsLess DEF Holdings, TreeShape, Nodes
  <2>8. Books'
    <3>1. chain'.approved \in [DOMAIN chain'.approved -> Approvals]
      BY <2>2, <2>5, <2>6 DEF Books
    <3> QED
      BY <1>3, <2>5, <2>6, <3>1 DEF Books
  <2>9. PermitsAccounted'
    <3>1. ASSUME NEW q \in permits, q \in permits'
          PROVE  /\ q.id \in DOMAIN chain'.approved \ chain'.ended
                 /\ chain'.approved[q.id] = chain.approved[q.id]
      BY <2>5, <2>6 DEF PermitsAccounted
    <3>2. /\ p.id \in DOMAIN chain'.approved \ chain'.ended
          /\ chain'.approved[p.id] = a
      BY <2>1, <2>5, <2>6 DEF Books
    <3>3. uses # NoLimit => (uses >= 1 \/ uses = 0) /\ uses + 0 <= uses
      OBVIOUS
    <3> QED
      BY <2>1, <2>2, <2>4, <3>1, <3>2, <3>3, SweptIsLess DEF PermitsAccounted
  <2>10. Traced'
    <3>1. \A q \in permits : q.id # nextPermit
      BY <2>6 DEF PermitsAccounted
    <3>2. \A q1, q2 \in permits' : q1.id = q2.id => q1 = q2
      BY <2>1, <2>4, <3>1, SweptIsLess DEF Traced
    <3>3. \A q \in requests' : q.status = "pending" => q \in chain'.asked
      BY <2>3, <2>4, <2>5, SweptIsLess DEF Traced
    <3>4. \A i \in DOMAIN chain'.approved :
            \E q \in chain'.asked : /\ q.id = chain'.approved[i].request
                                    /\ q.node = chain'.approved[i].node
                                    /\ q.subset = chain'.approved[i].subset
                                    /\ chain'.approved[i].at < q.created + RequestTtl
      BY <1>4, <2>2, <2>5, <2>6 DEF Traced
    <3> QED
      BY <3>2, <3>3, <3>4 DEF Traced
  <2>11. RulesStand'
    BY <1>1, <2>5 DEF RulesStand, NothingLooserThanChain, StoredIsInForce, Loaded
  <2> QED
    BY <2>7, <2>8, <2>9, <2>10, <2>11
<1> QED
  BY <1>2, <1>5, <1>6

\* A denial decides one request.
LEMMA DenyKeeps ==
  ASSUME GuardInv, NEW id \in 0 .. MaxId, Deny(id)
  PROVE  GuardInv'
<1> USE GuardAssumption DEF GuardInv
<1>1. PICK r \in PendingRequest(id) :
        requests' = (CurrentRequests \ {r}) \cup {[r EXCEPT !.status = "denied"]}
  BY DEF Deny
<1>2. r \in Asked
  BY SweptIsLess DEF PendingRequest, Holdings
<1>3. [r EXCEPT !.status = "denied"] \in Asked /\ [r EXCEPT !.status = "denied"].status = "denied"
  BY <1>2 DEF Asked
<1>4. requests' \subseteq Asked /\ \A q \in requests' : q.status = "pending" => q \in requests
  BY <1>1, <1>3, SweptIsLess DEF Holdings
<1> QED
  BY <1>4, SweptIsLess, ShrinkKeeps DEF Deny, Holdings, TreeShape, Nodes

\* A withdrawn permit is off the books at once; the chain may say so later or not.
LEMMA WithdrawKeeps ==
  ASSUME GuardInv, NEW id \in 0 .. MaxId, NEW recorded \in BOOLEAN, RevokePermit(id, recorded)
  PROVE  GuardInv'
<1> USE GuardAssumption DEF GuardInv
<1>1. UNCHANGED <<tree, policy, poisoned, bypass, requests, nextPermit, nextRequest, disk, now,
                  stored>>
  BY DEF RevokePermit
<1>2. PICK p \in permits : p.id = id /\ permits' = permits \ {p}
  BY DEF RevokePermit
<1>3. id \in DOMAIN chain.approved /\ \A q \in permits' : q.id # id
  BY <1>2 DEF PermitsAccounted, Traced
<1>4. /\ chain' = [policy |-> chain'.policy, bypass |-> chain'.bypass, asked |-> chain'.asked,
                   approved |-> chain'.approved, ended |-> chain'.ended, minted |-> chain'.minted]
      /\ chain'.policy = chain.policy /\ chain'.bypass = chain.bypass
      /\ chain'.asked = chain.asked /\ chain'.approved = chain.approved
      /\ chain'.ended = IF recorded THEN chain.ended \cup {id} ELSE chain.ended
  BY DEF RevokePermit, Books
<1>5. Holdings'
  BY <1>1, <1>2 DEF Holdings, TreeShape, Nodes
<1>6. Books'
  BY <1>1, <1>3, <1>4 DEF Books
<1>7. PermitsAccounted'
  BY <1>2, <1>3, <1>4 DEF PermitsAccounted
<1>8. Traced'
  BY <1>1, <1>2, <1>4 DEF Traced
<1>9. RulesStand'
  BY <1>1, <1>4 DEF RulesStand, NothingLooserThanChain, StoredIsInForce, Loaded
<1> QED
  BY <1>5, <1>6, <1>7, <1>8, <1>9

-----------------------------------------------------------------------------
(* Uses.                                                                   *)

\* A use is charged to its permit before its line is written, so the books may
\* be short of what the chain says and never long.
LEMMA PermitUseKeeps ==
  ASSUME GuardInv, NEW n \in Nodes, NEW u \in Use, NEW recorded \in BOOLEAN,
         UseByPermit(n, u, recorded)
  PROVE  GuardInv'
<1> USE GuardAssumption DEF GuardInv
<1>1. UNCHANGED <<tree, policy, poisoned, bypass, nextPermit, nextRequest, disk, now, stored>>
      /\ requests' = CurrentRequests
  BY DEF UseByPermit, Keeps
<1>2. PICK p \in Honoring(n, u) :
        /\ permits' = Charged(p)
        /\ chain' = IF recorded /\ p.left # NoLimit
                    THEN [chain EXCEPT !.approved[p.id].spent = @ + 1] ELSE chain
  BY DEF UseByPermit
<1>3. p \in permits /\ p \in Permits /\ p.id \in DOMAIN chain.approved
  BY SweptIsLess DEF Honoring, Holdings, PermitsAccounted
<1>4. CASE ~(recorded /\ p.left # NoLimit) /\ permits' \subseteq permits
  BY <1>1, <1>2, <1>4, SweptIsLess, ShrinkKeeps DEF Holdings, TreeShape, Nodes
<1> DEFINE a == chain.approved[p.id]
           charged == [p EXCEPT !.left = @ - 1]
<1>5. a \in Approvals /\ a.node = p.node /\ a.subset = p.subset /\ a.until = p.until
      /\ (p.left = NoLimit <=> a.uses = NoLimit)
      /\ (p.left # NoLimit => (p.left >= 1 \/ a.uses = 0) /\ p.left + a.spent <= a.uses)
  BY <1>3 DEF PermitsAccounted, Books
<1>6. CASE p.left # NoLimit
  <2>1. /\ chain' = [policy |-> chain'.policy, bypass |-> chain'.bypass, asked |-> chain'.asked,
                     approved |-> chain'.approved, ended |-> chain'.ended,
                     minted |-> chain'.minted]
        /\ chain'.policy = chain.policy /\ chain'.bypass = chain.bypass
        /\ chain'.asked = chain.asked /\ chain'.ended = chain.ended
        /\ chain'.approved = IF recorded THEN [chain.approved EXCEPT ![p.id] = [a EXCEPT !.spent = @ + 1]]
                             ELSE chain.approved
    BY <1>2, <1>6 DEF Books
  <2>2. /\ DOMAIN chain'.approved = DOMAIN chain.approved
        /\ \A i \in DOMAIN chain.approved : i # p.id => chain'.approved[i] = chain.approved[i]
        /\ chain'.approved[p.id] = IF recorded THEN [a EXCEPT !.spent = @ + 1] ELSE a
    BY <1>3, <2>1 DEF Books
  <2>3. /\ [a EXCEPT !.spent = @ + 1] \in Approvals
        /\ [a EXCEPT !.spent = @ + 1].node = a.node
        /\ [a EXCEPT !.spent = @ + 1].subset = a.subset
        /\ [a EXCEPT !.spent = @ + 1].until = a.until
        /\ [a EXCEPT !.spent = @ + 1].uses = a.uses
        /\ [a EXCEPT !.spent = @ + 1].request = a.request
        /\ [a EXCEPT !.spent = @ + 1].at = a.at
        /\ [a EXCEPT !.spent = @ + 1].spent = a.spent + 1
    BY <1>5 DEF Approvals
  <2>4. /\ permits' \subseteq (permits \ {p}) \cup (IF p.left <= 1 THEN {} ELSE {charged})
    BY <1>2, <1>6, SweptIsLess DEF Charged
  <2>5. p.left > 1 => /\ charged \in Permits /\ charged.id = p.id /\ charged.node = p.node
                      /\ charged.subset = p.subset /\ charged.until = p.until
                      /\ charged.left = p.left - 1 /\ charged.left # NoLimit
    BY <1>3, <1>6 DEF Permits
  <2>6. p.left \in Nat
    BY <1>3, <1>6 DEF Permits
  <2> HIDE DEF charged, a
  <2>7. \A q \in permits' : (q \in permits /\ q.id # p.id) \/ (q = charged /\ p.left > 1)
    BY <1>3, <2>4, <2>6 DEF Traced
  <2>8. Holdings'
    BY <1>1, <2>4, <2>5, <2>6, SweptIsLess DEF Holdings, TreeShape, Nodes
  <2>9. Books'
    BY <1>1, <1>3, <1>5, <2>1, <2>2, <2>3 DEF Books
  <2>10. PermitsAccounted'
    <3>1. ASSUME NEW q \in permits
          PROVE  q.id # p.id => /\ q.id \in DOMAIN chain'.approved \ chain'.ended
                                /\ chain'.approved[q.id] = chain.approved[q.id]
      BY <2>1, <2>2 DEF PermitsAccounted
    <3>2. ASSUME p.left > 1
          PROVE  /\ charged.id \in DOMAIN chain'.approved \ chain'.ended
                 /\ LET b == chain'.approved[charged.id] IN
                      /\ b.node = charged.node /\ b.subset = charged.subset
                      /\ b.until = charged.until
                      /\ b.uses # NoLimit
                      /\ charged.left >= 1 /\ charged.left + b.spent <= b.uses
      <4>1. a.spent \in Nat /\ a.uses \in Nat
        BY <1>5, <1>6 DEF Approvals
      <4>2. p.id \in DOMAIN chain.approved \ chain.ended
        BY <1>3 DEF PermitsAccounted
      <4> QED
        BY <1>5, <1>6, <2>1, <2>2, <2>3, <2>5, <2>6, <3>2, <4>1, <4>2
    <3> QED
      BY <2>5, <2>7, <3>1, <3>2 DEF PermitsAccounted
  <2>11. Traced'
    <3>1. \A q1, q2 \in permits' : q1.id = q2.id => q1 = q2
      BY <2>5, <2>7 DEF Traced
    <3>2. \A q \in requests' : q.status = "pending" => q \in chain'.asked
      BY <1>1, <2>1, SweptIsLess DEF Traced
    <3>3. \A i \in DOMAIN chain'.approved :
            /\ i \in DOMAIN chain.approved
            /\ chain'.approved[i].request = chain.approved[i].request
            /\ chain'.approved[i].node = chain.approved[i].node
            /\ chain'.approved[i].subset = chain.approved[i].subset
            /\ chain'.approved[i].at = chain.approved[i].at
      BY <2>2, <2>3 DEF a
    <3> QED
      BY <2>1, <3>1, <3>2, <3>3 DEF Traced
  <2>12. RulesStand'
    BY <1>1, <2>1 DEF RulesStand, NothingLooserThanChain, StoredIsInForce, Loaded
  <2> QED
    BY <2>8, <2>9, <2>10, <2>11, <2>12
<1>7. CASE p.left = NoLimit
  BY <1>2, <1>4, <1>7, SweptIsLess DEF Charged
<1> QED
  BY <1>6, <1>7

\* A use charges the permit it was let through by, and nothing else.
LEMMA UsesKeep ==
  ASSUME GuardInv, NEW n \in Nodes, NEW u \in Use, NEW recorded \in BOOLEAN,
         UsePlainly(n, u, recorded) \/ UseByPermit(n, u, recorded) \/ UseBlocked(n, u)
  PROVE  GuardInv'
<1>1. CASE UsePlainly(n, u, recorded)
  BY <1>1, ShrinkKeeps DEF UsePlainly, PassUse, Keeps, GuardInv, Holdings, TreeShape, Nodes
<1>2. CASE UseBlocked(n, u)
  BY <1>2, SweptIsLess, ShrinkKeeps DEF UseBlocked, Keeps, GuardInv, Holdings, TreeShape, Nodes
<1> QED
  BY <1>1, <1>2, PermitUseKeeps

-----------------------------------------------------------------------------
(* Minting, revocation, time and a restart.                                *)

\* A node more, or none.
LEMMA InsertKeepsShape ==
  ASSUME Holdings, NEW n \in Node \ Nodes, NEW p \in Nodes \cup {NoNode}, NEW grant,
         tree' = Insert(n, p, grant)
  PROVE  /\ TreeShape' /\ Nodes' = Nodes \cup {n}
         /\ \A m \in Nodes : tree'[m] = tree[m]
         /\ tree'[n].parent = p /\ tree'[n].auth = grant
BY DEF Holdings, TreeShape, Nodes, Insert

\* A mint adds a node, or none, and may sweep.
LEMMA MintKeeps ==
  ASSUME GuardInv, NEW p \in Nodes, NEW n \in Node, NEW grant, NEW owner \in BOOLEAN,
         NEW recorded \in BOOLEAN, Mint(p, n, grant, owner, recorded)
  PROVE  GuardInv'
<1> USE DEF GuardInv
<1>1. permits' \subseteq permits /\ requests' \subseteq requests
  BY SweptIsLess DEF Mint, SweptByMint
<1>2. /\ UNCHANGED <<policy, poisoned, bypass, nextPermit, nextRequest, disk, now, stored>>
      /\ chain' = chain \/ \E minted : chain' = [chain EXCEPT !.minted = minted]
  BY DEF Mint
<1>3. tree' = tree \/ (n \in Node \ Nodes /\ tree' = Insert(n, p, grant))
  BY DEF Mint
<1>4. TreeShape'
  <2>1. CASE tree' = tree
    BY <2>1 DEF Holdings, TreeShape, Nodes
  <2>2. CASE n \in Node \ Nodes /\ tree' = Insert(n, p, grant)
    BY <2>2, InsertKeepsShape DEF Holdings
  <2> QED
    BY <1>3, <2>1, <2>2
<1> QED
  BY <1>1, <1>2, <1>4, ShrinkKeeps DEF Holdings

\* A refused one only sweeps.
LEMMA MintRefusedKeeps ==
  ASSUME GuardInv, NEW p, NEW grant, NEW owner, MintRefused(p, grant, owner)
  PROVE  GuardInv'
BY SweptIsLess, ShrinkKeeps
   DEF MintRefused, SweptByMint, GuardInv, Holdings, TreeShape, Nodes

\* So does the issue of a root.
LEMMA IssueKeeps ==
  ASSUME GuardInv, NEW n \in Node, NEW grant, Issue(n, grant)
  PROVE  GuardInv'
<1> USE DEF GuardInv
<1>1. TreeShape'
  BY InsertKeepsShape DEF Issue, Holdings
<1> QED
  BY <1>1, ShrinkKeeps DEF Issue, memory, Holdings

\* A revocation marks nodes and moves none.
LEMMA KillKeeps ==
  ASSUME GuardInv, NEW n \in Nodes, Kill(n)
  PROVE  GuardInv'
<1> USE DEF GuardInv
<1>1. TreeShape'
  <2>1. tree' = [m \in Nodes |-> IF n \in Path(m) THEN [tree[m] EXCEPT !.revoked = TRUE]
                                 ELSE tree[m]]
    BY DEF Kill
  <2>2. /\ Nodes' = Nodes
        /\ \A m \in Nodes : tree'[m] = tree[m] \/ tree'[m] = [tree[m] EXCEPT !.revoked = TRUE]
    BY <2>1 DEF Nodes
  <2>3. ASSUME NEW m \in Nodes
        PROVE  /\ tree'[m] = [parent |-> tree'[m].parent, auth |-> tree'[m].auth,
                              revoked |-> tree'[m].revoked]
               /\ tree'[m].parent \in Nodes \cup {NoNode} /\ tree'[m].revoked \in BOOLEAN
    BY <2>2 DEF Holdings, TreeShape
  <2> QED
    BY <2>2, <2>3 DEF Holdings, TreeShape
<1> QED
  BY <1>1, ShrinkKeeps DEF Kill, memory, Holdings

\* Time alone takes no permit off the books.
LEMMA TickKeeps ==
  ASSUME GuardInv, Tick
  PROVE  GuardInv'
BY GuardAssumption, ShrinkKeeps DEF Tick, memory, GuardInv, Holdings, TreeShape, Nodes

\* A fresh start, with the books empty and the policy as read.
LEMMA FreshKeeps ==
  ASSUME NEW P \in [Rule -> Tier], NEW on \in BOOLEAN, NEW bad \in BOOLEAN,
         tree = [n \in {} |-> NoNode], policy = P, poisoned = bad, bypass = on,
         permits = {}, requests = {}, nextPermit = 0, nextRequest = 0,
         chain = EmptyChain(P, on), stored = [held |-> TRUE, lost |-> {}],
         disk \in [Rule -> Tier] \cup {Absent, Corrupt}, Loaded = P,
         now \in 0 .. MaxTime
  PROVE  GuardInv
<1> USE GuardAssumption
<1>1. chain = [policy |-> P, bypass |-> on, asked |-> {}, approved |-> [i \in {} |-> NoNode],
               ended |-> {}, minted |-> {}]
  BY DEF EmptyChain
<1>2. Holdings
  BY DEF Holdings, TreeShape, Nodes
<1>3. Books
  BY <1>1 DEF Books
<1>4. PermitsAccounted /\ Traced
  BY <1>1 DEF PermitsAccounted, Traced
<1>5. \A r \in Rule : P[r] >= P[r]
  BY DEF Tier, Free, Sealed
<1>6. RulesStand
  BY <1>1, <1>5 DEF RulesStand, NothingLooserThanChain, StoredIsInForce
<1> QED
  BY <1>2, <1>3, <1>4, <1>6 DEF GuardInv

\* The first daemon starts with the defaults and empty books.
LEMMA GuardStarts == GuardInit => GuardInv
<1> SUFFICES ASSUME GuardInit PROVE GuardInv
  OBVIOUS
<1>1. 0 \in 0 .. MaxTime
  BY GuardAssumption
<1>2. Loaded = DefaultPolicy
  BY DEF GuardInit, Loaded
<1> QED
  BY <1>1, <1>2, DefaultsAreTiers, FreshKeeps DEF GuardInit

\* A restart empties the books but for the rules, and reads the policy back:
\* what it brings back looser is what no write had stored.
LEMMA RestartKeeps ==
  ASSUME GuardInv, NEW on \in BOOLEAN, Restart(on)
  PROVE  GuardInv'
<1> USE GuardAssumption DEF GuardInv
<1>1. Loaded \in [Rule -> Tier] /\ Loaded' = Loaded
  BY DefaultsAreTiers DEF Loaded, Holdings, Restart
<1>2. chain' = [policy |-> chain.policy, bypass |-> on, asked |-> {},
                approved |-> [i \in {} |-> NoNode], ended |-> {}, minted |-> {}]
  BY DEF Restart, EmptyChain
<1>3. Holdings'
  BY <1>1 DEF Restart, Holdings, TreeShape, Nodes
<1>4. Books'
  BY <1>1, <1>2 DEF Restart, Books
<1>5. PermitsAccounted' /\ Traced'
  BY <1>2 DEF Restart, PermitsAccounted, Traced
<1>6. ASSUME NEW r \in Rule \ stored'.lost
      PROVE  policy'[r] >= chain'.policy[r]
  <2>1. policy'[r] = Loaded[r] /\ chain'.policy[r] = chain.policy[r]
    BY <1>2 DEF Restart
  <2>2. r \notin stored.lost /\ (~stored.held => ~(Loaded[r] < policy[r]))
    BY <1>6 DEF Restart
  <2>3. policy[r] >= chain.policy[r] /\ (stored.held => Loaded[r] = policy[r])
    BY <2>2 DEF RulesStand, NothingLooserThanChain, StoredIsInForce
  <2>4. /\ policy[r] \in Int /\ Loaded[r] \in Int /\ chain.policy[r] \in Int
        /\ stored.held \in BOOLEAN
    BY <1>1 DEF Holdings, Books, Tier, Free, Sealed
  <2> QED
    BY <2>1, <2>2, <2>3, <2>4
<1>7. RulesStand'
  BY <1>1, <1>2, <1>6 DEF Restart, RulesStand, NothingLooserThanChain, StoredIsInForce
<1> QED
  BY <1>3, <1>4, <1>5, <1>7

-----------------------------------------------------------------------------
(* The guard keeps its invariant.                                          *)

\* Every step of the guard keeps the invariant.
LEMMA GuardStep ==
  ASSUME GuardInv, [GuardNext]_guardVars
  PROVE  GuardInv'
<1>1. CASE UNCHANGED guardVars
  BY <1>1, ShrinkKeeps DEF guardVars, memory, GuardInv, Holdings, TreeShape, Nodes
<1>2. CASE Editing
  <2>1. PICK e \in Edit, recorded \in BOOLEAN :
          \/ e.tier # Free /\ SetRule(e.rule, e.tier, recorded)
          \/ e.tier = Free /\ UnsetRule(e.rule, recorded)
    BY <1>2 DEF Editing
  <2>2. e.rule \in Rule /\ e.tier \in Tier
    BY GuardAssumption
  <2>3. PICK tier \in Tier :
          /\ PolicyEdited(e.rule, tier, recorded)
          /\ UNCHANGED <<tree, poisoned, bypass, permits, requests, nextPermit, nextRequest, now>>
    BY <2>1, <2>2 DEF SetRule, UnsetRule, Tier, Free, Sealed
  <2> QED
    BY <2>2, <2>3, EditKeeps
<1>3. ASSUME NEW on \in BOOLEAN, NEW recorded \in BOOLEAN, SetBypass(on, recorded)
      PROVE  GuardInv'
  BY <1>3, BypassKeeps
<1>4. ASSUME NEW n \in Nodes, NEW subset \in Subset, NEW recorded \in BOOLEAN,
             Ask(n, subset, recorded)
      PROVE  GuardInv'
  BY <1>4, AskKeeps
<1>5. CASE Deciding
  BY <1>5, ApproveKeeps, DenyKeeps, WithdrawKeeps DEF Deciding
<1>6. CASE List
  BY <1>6, SweptIsLess, ShrinkKeeps DEF List, GuardInv, Holdings, TreeShape, Nodes
<1>7. CASE Using
  BY <1>7, UsesKeep DEF Using
<1>8. CASE Minting
  BY <1>8, MintKeeps, MintRefusedKeeps, IssueKeeps DEF Minting
<1>9. ASSUME NEW n \in Nodes, Kill(n)
      PROVE  GuardInv'
  BY <1>9, KillKeeps
<1>10. ASSUME NEW on \in BOOLEAN, Restart(on)
       PROVE  GuardInv'
  BY <1>10, RestartKeeps
<1> QED
  BY <1>1, <1>2, <1>3, <1>4, <1>5, <1>6, <1>7, <1>8, <1>9, <1>10, TickKeeps DEF GuardNext

\* The inductive invariant of the guard: the books agree with the chain, with
\* each other and with the rules in force, for approvals of any number of uses,
\* none among them, and with writes of the policy that fail before any start.
THEOREM GuardInvHolds == GuardSpec => []GuardInv
BY GuardStarts, GuardStep, PTL DEF GuardSpec

\* Every node of the guard's own runs holds what some caller minted.
LEMMA GrantedStep ==
  ASSUME GuardInv, Granted, [GuardNext]_guardVars
  PROVE  Granted'
<1> USE DEF GuardInv, Holdings
<1>1. CASE UNCHANGED tree
  BY <1>1 DEF Granted, Nodes
<1>2. CASE Minting
  <2>1. ASSUME NEW grant \in Grant, NEW n \in Node \ Nodes, NEW p \in Nodes \cup {NoNode},
               tree' = Insert(n, p, grant)
        PROVE  Granted'
    BY <2>1, InsertKeepsShape DEF Granted
  <2> QED
    BY <1>1, <1>2, <2>1 DEF Minting, Issue, Mint, MintRefused
<1>3. ASSUME NEW n \in Nodes, Kill(n)
      PROVE  Granted'
  <2>1. tree' = [m \in Nodes |-> IF n \in Path(m) THEN [tree[m] EXCEPT !.revoked = TRUE]
                                 ELSE tree[m]]
    BY <1>3 DEF Kill
  <2>2. /\ Nodes' = Nodes
        /\ \A m \in Nodes : tree'[m] = tree[m] \/ tree'[m] = [tree[m] EXCEPT !.revoked = TRUE]
    BY <2>1 DEF Nodes
  <2> QED
    BY <2>2 DEF TreeShape, Granted
<1>4. ASSUME NEW on \in BOOLEAN, Restart(on)
      PROVE  Granted'
  BY <1>4 DEF Restart, Granted, Nodes
<1>5. CASE Editing
  BY <1>1, <1>5 DEF Editing, SetRule, UnsetRule
<1>6. CASE Deciding
  BY <1>1, <1>6 DEF Deciding, Approve, Deny, RevokePermit
<1>7. CASE Using
  BY <1>1, <1>7 DEF Using, UsePlainly, UseByPermit, UseBlocked, Keeps
<1> QED
  BY <1>1, <1>2, <1>3, <1>4, <1>5, <1>6, <1>7
     DEF GuardNext, guardVars, SetBypass, Ask, List, Tick

-----------------------------------------------------------------------------
(* What the guard promises.                                                *)

\* Every part of the guard's state and of what the chain says of it has the
\* shape the daemon gives it.
THEOREM GuardTypeCorrect == GuardSpec => []GuardTypeOK
<1>1. GuardInit => Granted
  BY DEF GuardInit, Granted, Nodes
<1>2. GuardInv /\ Granted => GuardTypeOK
  BY DEF GuardInv, Holdings, TreeShape, Books, Granted, GuardTypeOK, Permits
<1> QED
  BY <1>1, <1>2, GuardStarts, GuardStep, GrantedStep, PTL DEF GuardSpec

\* What a use let through by a permit answers to.
LEMMA PermitUseIsApproved ==
  ASSUME GuardInv, NEW n \in Nodes, NEW u \in Use, NEW recorded \in BOOLEAN,
         UseByPermit(n, u, recorded), answer'.by = "permit"
  PROVE  /\ answer'.permit \in DOMAIN chain.approved \ chain.ended
         /\ LET a == chain.approved[answer'.permit] IN
              /\ a.node = answer'.node /\ Covers(a.subset, answer'.use)
              /\ now < a.until
              /\ a.uses # NoLimit => a.spent < Allowed(a)
              /\ \E r \in chain.asked :
                   /\ r.id = a.request /\ r.node = a.node /\ r.subset = a.subset
                   /\ a.at < r.created + RequestTtl
<1> USE GuardAssumption DEF GuardInv
<1>1. PICK p \in Honoring(n, u) : Answer(n, u, "permit", p.id)
  BY DEF UseByPermit, Answered, Silent, NoAnswer
<1>2. answer'.permit = p.id /\ answer'.node = n /\ answer'.use = u
  BY <1>1 DEF Answer
<1>3. p \in permits /\ p \in Permits /\ now < p.until /\ p.node = n /\ Covers(p.subset, u)
  BY DEF Honoring, CurrentPermits, Holdings
<1> DEFINE a == chain.approved[p.id]
<1>4. /\ p.id \in DOMAIN chain.approved \ chain.ended
      /\ a.node = p.node /\ a.subset = p.subset /\ a.until = p.until
      /\ p.left = NoLimit <=> a.uses = NoLimit
      /\ p.left # NoLimit => (p.left >= 1 \/ a.uses = 0) /\ p.left + a.spent <= a.uses
  BY <1>3 DEF PermitsAccounted
<1>5. a \in Approvals
  BY <1>4 DEF Books
<1>6. a.uses # NoLimit => a.spent < Allowed(a)
  BY <1>3, <1>4, <1>5 DEF Approvals, Permits, Allowed
<1>7. \E r \in chain.asked : /\ r.id = a.request /\ r.node = a.node /\ r.subset = a.subset
                             /\ a.at < r.created + RequestTtl
  BY <1>4 DEF Traced
<1> QED
  BY <1>2, <1>3, <1>4, <1>6, <1>7

\* A permit is on the books from its approval to its last use, and never
\* honoured beyond what was approved, or more than once when it was approved for
\* no use at all (`guard_approve`, `guard_verdict_use`).
THEOREM PermitsAreKeptThroughout == GuardSpec => PermitsAreKept
<1>1. GuardInv => PermitsAccounted
  BY DEF GuardInv
<1>2. ASSUME GuardInv, GuardNext, answer'.by = "permit"
      PROVE  \E n \in Nodes, u \in Use, recorded \in BOOLEAN : UseByPermit(n, u, recorded)
  <2>1. ~Silent /\ answer' # NoAnswer
    BY <1>2 DEF Silent, NoAnswer
  <2>2. ASSUME NEW n \in Nodes, NEW u \in Use, NEW recorded \in BOOLEAN
        PROVE  ~UsePlainly(n, u, recorded) /\ ~UseBlocked(n, u)
    BY <1>2, <2>1 DEF UsePlainly, UseBlocked, PassUse, Answer, Answered
  <2>3. ~Editing /\ ~Deciding /\ ~Minting
    BY <2>1 DEF Editing, SetRule, UnsetRule, Deciding, Approve, Deny, RevokePermit, Minting,
       Issue, Mint, MintRefused
  <2>4. Using
    BY <1>2, <2>1, <2>3 DEF GuardNext, SetBypass, Ask, List, Kill, Tick, Restart
  <2> QED
    BY <2>2, <2>4 DEF Using
<1>3. GuardInv /\ [GuardNext]_guardVars =>
        [answer'.by = "permit" =>
           /\ answer'.permit \in DOMAIN chain.approved \ chain.ended
           /\ LET a == chain.approved[answer'.permit] IN
                /\ a.node = answer'.node /\ Covers(a.subset, answer'.use)
                /\ now < a.until
                /\ a.uses # NoLimit => a.spent < Allowed(a)
                /\ \E r \in chain.asked :
                     /\ r.id = a.request /\ r.node = a.node /\ r.subset = a.subset
                     /\ a.at < r.created + RequestTtl]_guardVars
  BY <1>2, PermitUseIsApproved
<1> QED
  BY <1>1, <1>3, GuardInvHolds, PTL DEF PermitsAreKept, HonoredAsApproved, GuardSpec

\* The rules in force are what the chain says or tighter, over any number of
\* starts, but for the rules a start lost because a write of them had failed; and
\* while no write has failed they are what the next start reads back
\* (`guard_policy_edited`, `withdraw_unrecorded_guard_bypass`,
\* `load_guard_policy`).
THEOREM RulesStandThroughout == GuardSpec => []RulesStand
<1>1. GuardInv => RulesStand
  BY DEF GuardInv
<1> QED
  BY <1>1, GuardInvHolds, PTL

-----------------------------------------------------------------------------
(* Seals.                                                                  *)

\* The strongest tier of some rules is one of theirs and none is above it.
LEMMA StrongestIsTheirs ==
  ASSUME policy \in [Rule -> Tier], NEW rules \in SUBSET Rule
  PROVE  /\ Strongest(rules) \in Tier
         /\ \A r \in rules : policy[r] <= Strongest(rules)
         /\ Strongest(rules) = Free \/ \E r \in rules : policy[r] = Strongest(rules)
<1> DEFINE Fits(t) == /\ \A r \in rules : policy[r] <= t
                      /\ t = Free \/ \E r \in rules : policy[r] = t
<1>1. Tier = {0, 1, 2, 3} /\ \A r \in rules : policy[r] \in {0, 1, 2, 3}
  BY DEF Tier, Free, Sealed
<1>2. \E t \in Tier : Fits(t)
  <2>1. CASE \E r \in rules : policy[r] = 3
    <3>1. Fits(3)
      BY <1>1, <2>1
    <3> QED
      BY <1>1, <3>1
  <2>2. CASE (\E r \in rules : policy[r] = 2) /\ ~\E r \in rules : policy[r] = 3
    <3>1. Fits(2)
      BY <1>1, <2>2
    <3> QED
      BY <1>1, <3>1
  <2>3. CASE (\E r \in rules : policy[r] = 1) /\ \A r \in rules : policy[r] \in {0, 1}
    <3>1. Fits(1)
      BY <1>1, <2>3
    <3> QED
      BY <1>1, <3>1
  <2>4. CASE \A r \in rules : policy[r] = 0
    <3>1. Fits(0)
      BY <1>1, <2>4 DEF Free
    <3> QED
      BY <1>1, <3>1
  <2> QED
    BY <1>1, <2>1, <2>2, <2>3, <2>4
<1>3. Strongest(rules) = CHOOSE t \in Tier : Fits(t)
  BY DEF Strongest
<1> QED
  BY <1>2, <1>3

\* No rule and no permit is about one recipient of a secret, whose other uses a
\* rule on the secret would cover too.
SendsByName ==
  \A x, y \in Rule \cup UNION Subset :
    x.class = "declassify" /\ y.class = "declassify" /\ NameWithin(x.name, y.name)
      => x.name = y.name

\* What an item covers of a sealed use, some rule that seals it applies to: the
\* two gates of a use, its class and its effect, are crossed with the two ways
\* to cover one (`tier_for_use`, `covers_use`, `tier_for_subset`).
LEMMA SealReachesSubset ==
  ASSUME SendsByName, policy \in [Rule -> Tier], NEW subset \in Subset, NEW u \in Use,
         Covers(subset, u), UseTier(u) = Sealed
  PROVE  SubsetTier(subset) = Sealed
<1> USE NamesAreSane
<1>1. PICK r \in UseRules(u) : policy[r] = Sealed
  <2>1. UseRules(u) \in SUBSET Rule /\ Sealed # Free
    BY DEF UseRules, Sealed, Free
  <2> QED
    BY <2>1, StrongestIsTheirs DEF UseTier
<1>2. /\ r \in Rule /\ r.class \in GuardClass /\ u.class \in UseClass
      /\ \/ r.class = u.class /\ Matches(r.class, r.name, u.name)
         \/ r.class = "effect" /\ Matches(r.class, r.name, EffectOf[u.class])
  BY DEF UseRules
<1>3. PICK e \in subset : \/ e.class = u.class /\ Matches(e.class, e.name, u.name)
                          \/ e.class = "effect" /\ Matches(e.class, e.name, EffectOf[u.class])
  BY DEF Covers
<1>4. e \in UNION Subset /\ e.class \in GuardClass
  OBVIOUS
<1>5. \A c \in UseClass : EffectOf[c] \in Effect /\ c # "effect"
  BY DEF UseClass, AxisClass, EffectOf, Effect
<1>6. \A c \in UseClass \cap GuardClass : c \in AxisClass
  BY DEF UseClass, GuardClass, AxisClass
<1>7. \A p \in {r.name, e.name} : Matches("effect", p, EffectOf[u.class]) =>
                                  Alike(p, EffectOf[u.class]) /\ Denotes(p)
  BY <1>2, <1>5 DEF Matches, Alike, Denotes, PathClass
<1>8. r \in SubsetRules(subset)
  <2>1. CASE r.class = u.class /\ e.class = u.class
    <3>1. Matches(u.class, r.name, u.name) /\ Matches(u.class, e.name, u.name)
      BY <1>2, <1>3, <1>5, <2>1
    <3>2. Alike(r.name, e.name) \/ PathsOverlap(r.class, r.name, e.name)
      BY <1>2, <1>4, <2>1, <3>1 DEF Matches, Alike, PathsOverlap, SendsByName
    <3> QED
      BY <1>2, <1>3, <1>5, <2>1, <3>2 DEF SubsetRules
  <2>2. CASE r.class = u.class /\ e.class = "effect"
    BY <1>2, <1>3, <1>5, <1>6, <1>7, <2>2 DEF SubsetRules
  <2>3. CASE r.class = "effect" /\ e.class = u.class
    BY <1>2, <1>3, <1>4, <1>5, <1>6, <1>7, <2>3 DEF SubsetRules
  <2>4. CASE r.class = "effect" /\ e.class = "effect"
    <3>1. Matches("effect", r.name, EffectOf[u.class]) /\ Matches("effect", e.name, EffectOf[u.class])
      BY <1>2, <1>3, <1>5, <2>4
    <3>2. Alike(r.name, e.name) /\ Denotes(r.name) /\ Denotes(e.name)
      BY <1>7, <3>1 DEF Matches, Alike, PathClass
    <3> QED
      BY <1>2, <2>4, <3>2 DEF SubsetRules
  <2> QED
    BY <1>2, <1>3, <2>1, <2>2, <2>3, <2>4
<1>9. SubsetRules(subset) \in SUBSET Rule
  BY DEF SubsetRules
<1>10. SubsetTier(subset) \in Tier /\ Sealed <= SubsetTier(subset)
  BY <1>1, <1>8, <1>9, StrongestIsTheirs DEF SubsetTier
<1> QED
  BY <1>10 DEF Tier, Free, Sealed

\* An approval's line stays as it was written, but for the uses spent, and is
\* written of a subset no seal reaches.
LEMMA ApprovalsAreWritten ==
  ASSUME GuardInv, [GuardNext]_guardVars, NEW i \in DOMAIN chain'.approved
  PROVE  \/ /\ i \in DOMAIN chain.approved
            /\ chain'.approved[i].subset = chain.approved[i].subset
            /\ chain'.approved[i].sealed = chain.approved[i].sealed
         \/ /\ chain'.approved[i].subset \in Subset
            /\ SubsetTier(chain'.approved[i].subset) # Sealed
            /\ chain'.approved[i].sealed = {u \in Use : UseTier(u) = Sealed}
<1> USE DEF GuardInv
<1>1. CASE chain'.approved = chain.approved
  BY <1>1
<1>2. \A p : /\ [chain EXCEPT !.policy = p].approved = chain.approved
             /\ [chain EXCEPT !.bypass = p].approved = chain.approved
             /\ [chain EXCEPT !.asked = p].approved = chain.approved
             /\ [chain EXCEPT !.ended = p].approved = chain.approved
             /\ [chain EXCEPT !.minted = p].approved = chain.approved
  BY DEF Books
<1>3. CASE Editing
  BY <1>1, <1>2, <1>3 DEF Editing, SetRule, UnsetRule, PolicyEdited
<1>4. CASE Minting
  <2>1. chain' = chain \/ \E minted : chain' = [chain EXCEPT !.minted = minted]
    BY <1>4 DEF Minting, Issue, Mint, MintRefused
  <2> QED
    BY <1>1, <1>2, <2>1
<1>5. ASSUME NEW id \in 0 .. MaxId, NEW uses \in Count \cup {NoLimit},
             NEW recorded \in BOOLEAN, Approve(id, uses, recorded), chain' # chain
      PROVE  /\ i # nextPermit => /\ i \in DOMAIN chain.approved
                                  /\ chain'.approved[i] = chain.approved[i]
             /\ i = nextPermit => /\ chain'.approved[i].subset \in Subset
                                  /\ SubsetTier(chain'.approved[i].subset) # Sealed
                                  /\ chain'.approved[i].sealed = {u \in Use : UseTier(u) = Sealed}
  <2>1. PICK r \in PendingRequest(id) :
          SubsetTier(r.subset) # Sealed /\ chain' = AddApproval(Approval(r, now + PermitTtl, uses))
    BY <1>5 DEF Approve
  <2>2. r.subset \in Subset
    BY SweptIsLess DEF PendingRequest, Holdings, Asked
  <2> DEFINE a == Approval(r, now + PermitTtl, uses)
  <2>3. a.subset = r.subset /\ a.sealed = {u \in Use : UseTier(u) = Sealed}
    BY DEF Approval
  <2> HIDE DEF a
  <2>4. chain'.approved = [j \in DOMAIN chain.approved \cup {nextPermit} |->
                             IF j = nextPermit THEN a ELSE chain.approved[j]]
    BY <2>1 DEF AddApproval, Books, a
  <2> QED
    BY <2>1, <2>2, <2>3, <2>4
<1>6. CASE Deciding
  BY <1>1, <1>2, <1>5, <1>6 DEF Deciding, Deny, RevokePermit
<1>7. CASE Using
  <2>1. CASE chain' = chain
    BY <1>1, <2>1
  <2>2. ASSUME NEW n \in Nodes, NEW u \in Use, NEW p \in Honoring(n, u),
               chain' = [chain EXCEPT !.approved[p.id].spent = @ + 1]
        PROVE  /\ i \in DOMAIN chain.approved
               /\ chain'.approved[i].subset = chain.approved[i].subset
               /\ chain'.approved[i].sealed = chain.approved[i].sealed
    <3>1. p.id \in DOMAIN chain.approved
      BY SweptIsLess DEF Honoring, PermitsAccounted
    <3>2. chain'.approved =
            [chain.approved EXCEPT ![p.id] = [chain.approved[p.id] EXCEPT !.spent = @ + 1]]
      BY <2>2 DEF Books
    <3>3. chain.approved[p.id] \in Approvals
      BY <3>1 DEF Books
    <3> QED
      BY <3>1, <3>2, <3>3 DEF Approvals
  <2> QED
    <3>1. PICK n \in Nodes, u \in Use, recorded \in BOOLEAN :
            UsePlainly(n, u, recorded) \/ UseByPermit(n, u, recorded) \/ UseBlocked(n, u)
      BY <1>7 DEF Using
    <3>2. CASE UsePlainly(n, u, recorded) \/ UseBlocked(n, u)
      BY <2>1, <3>2 DEF UsePlainly, PassUse, UseBlocked
    <3>3. CASE UseByPermit(n, u, recorded)
      <4>1. PICK p \in Honoring(n, u) :
              chain' = IF recorded /\ p.left # NoLimit
                       THEN [chain EXCEPT !.approved[p.id].spent = @ + 1] ELSE chain
        BY <3>3 DEF UseByPermit
      <4> QED
        BY <2>1, <2>2, <4>1
    <3> QED
      BY <3>1, <3>2, <3>3
<1>8. ASSUME NEW on \in BOOLEAN, Restart(on)
      PROVE  FALSE
  BY <1>8 DEF Restart, EmptyChain
<1> QED
  BY <1>1, <1>2, <1>3, <1>4, <1>6, <1>7, <1>8
     DEF GuardNext, guardVars, SetBypass, Ask, List, Kill, Tick

\* Where rules and permits are about secrets and not about single recipients of
\* one, no approval covers a use that was sealed when it was given.
THEOREM SealsHold == SendsByName => (GuardSpec => []SealsHoldOverApprovals)
<1> SUFFICES ASSUME SendsByName
             PROVE  GuardSpec => []SealsHoldOverApprovals
  OBVIOUS
<1>1. GuardInit => SealsHoldOverApprovals
  BY DEF GuardInit, EmptyChain, SealsHoldOverApprovals
<1>2. ASSUME GuardInv, SealsHoldOverApprovals, [GuardNext]_guardVars
      PROVE  SealsHoldOverApprovals'
  <2>1. policy \in [Rule -> Tier]
    BY <1>2 DEF GuardInv, Holdings
  <2>2. ASSUME NEW i \in DOMAIN chain'.approved, NEW u \in chain'.approved[i].sealed
        PROVE  ~Covers(chain'.approved[i].subset, u)
    BY <1>2, <2>1, ApprovalsAreWritten, SealReachesSubset DEF SealsHoldOverApprovals
  <2> QED
    BY <2>2 DEF SealsHoldOverApprovals, Covers, Matches
<1> QED
  BY <1>1, <1>2, GuardInvHolds, PTL DEF GuardSpec

-----------------------------------------------------------------------------
(* Proposals: the invariant.                                               *)

\* The tree narrows downward, by items whose names are ordered.
Ordered ==
  \A n \in Nodes :
    /\ tree[n].auth \subseteq Item
    /\ tree[n].parent # NoNode => Within(tree[n].auth, tree[tree[n].parent].auth)

\* The list and the chain agree, one proposal to an id; and nobody asks for what
\* its node holds already, which is why no approver is below the proposer.
Listed ==
  /\ ProposalsTypeOK /\ ProposalsAccounted
  /\ filed = [i \in DOMAIN filed |-> filed[i]]
  /\ \A p, q \in proposals : p.id = q.id => p = q
  /\ \A p \in proposals : ~Within(p.asks, tree[p.node].auth)

ProposalsInv == GuardInv /\ Ordered /\ Listed /\ NoSelfRelaxing

\* What is in the tree stays there, under the same node with the same authority.
Grows ==
  /\ Nodes \subseteq Nodes'
  /\ \A m \in Nodes : tree'[m].parent = tree[m].parent /\ tree'[m].auth = tree[m].auth

-----------------------------------------------------------------------------
(* The order, along paths.                                                 *)

\* Holding within is an order.
LEMMA WithinComposes ==
  ASSUME NEW a \in SUBSET Item, NEW b \in SUBSET Item, NEW c \in SUBSET Item
  PROVE  /\ Within(a, a)
         /\ Within(a, b) /\ Within(b, c) => Within(a, c)
BY ProposalAssumption DEF Within

\* Whoever is on the path of a node holds all that the node holds.
LEMMA PathHolds ==
  ASSUME TreeShape, Ordered, NEW n \in Nodes, NEW a \in Path(n)
  PROVE  a \in Nodes /\ Within(tree[n].auth, tree[a].auth)
<1> DEFINE S == {m \in Nodes : Within(tree[n].auth, tree[m].auth)}
<1>1. n \in S
  BY WithinComposes DEF Ordered
<1>2. UpClosed(S)
  <2> SUFFICES ASSUME NEW m \in S, tree[m].parent # NoNode
               PROVE  tree[m].parent \in S
    BY DEF UpClosed
  <2>1. tree[m].parent \in Nodes /\ Within(tree[m].auth, tree[tree[m].parent].auth)
    BY DEF TreeShape, Ordered
  <2>2. /\ tree[n].auth \in SUBSET Item /\ tree[m].auth \in SUBSET Item
        /\ tree[tree[m].parent].auth \in SUBSET Item /\ Within(tree[n].auth, tree[m].auth)
    BY <2>1 DEF Ordered
  <2>3. Within(tree[n].auth, tree[tree[m].parent].auth)
    BY <2>1, <2>2, WithinComposes
  <2> QED
    BY <2>1, <2>3
<1> QED
  BY <1>1, <1>2 DEF Path

\* Growth does not lengthen the path of a node that is there.
LEMMA PathStays ==
  ASSUME TreeShape, Grows, NEW n \in Nodes, NEW a, a \in Path(n)'
  PROVE  a \in Path(n)
<1>1. ASSUME NEW S \in SUBSET Nodes, n \in S, UpClosed(S)
      PROVE  a \in S
  <2>1. UpClosed(S)' /\ S \in SUBSET Nodes'
    BY <1>1 DEF UpClosed, Grows
  <2> QED
    BY <1>1, <2>1 DEF Path
<1>2. UpClosed(Nodes)
  BY DEF UpClosed, TreeShape
<1> QED
  BY <1>1, <1>2 DEF Path

\* Steps of the tree.
LEMMA InsertGrows ==
  ASSUME Holdings, Ordered, NEW n \in Node \ Nodes, NEW p \in Nodes \cup {NoNode},
         NEW grant \in SUBSET Item, p # NoNode => Within(grant, tree[p].auth),
         tree' = Insert(n, p, grant)
  PROVE  Grows /\ Ordered'
<1>1. /\ Nodes' = Nodes \cup {n} /\ \A m \in Nodes : tree'[m] = tree[m]
      /\ tree'[n].parent = p /\ tree'[n].auth = grant
  BY InsertKeepsShape
<1>2. Grows
  BY <1>1 DEF Grows
<1>3. ASSUME NEW m \in Nodes'
      PROVE  /\ tree'[m].auth \subseteq Item
             /\ tree'[m].parent # NoNode => Within(tree'[m].auth, tree'[tree'[m].parent].auth)
  <2>1. CASE m = n
    BY <1>1, <2>1
  <2>2. CASE m \in Nodes
    <3>1. tree'[m] = tree[m] /\ tree[m].parent \in Nodes \cup {NoNode}
      BY <1>1, <2>2 DEF Holdings, TreeShape
    <3>2. tree[m].parent # NoNode => tree'[tree[m].parent] = tree[tree[m].parent]
      BY <1>1, <3>1
    <3> QED
      BY <2>2, <3>1, <3>2 DEF Ordered
  <2> QED
    BY <1>1, <2>1, <2>2
<1>4. Ordered'
  BY <1>3 DEF Ordered, Within
<1> QED
  BY <1>2, <1>4

\* A step that leaves the tree alone.
LEMMA SameTreeGrows ==
  ASSUME Ordered, UNCHANGED tree
  PROVE  Grows /\ Ordered'
BY DEF Ordered, Grows, Nodes, Within

\* A revocation moves nothing and takes no authority.
LEMMA KillGrows ==
  ASSUME Holdings, Ordered, NEW n \in Nodes, Kill(n)
  PROVE  Grows /\ Ordered'
<1>1. tree' = [m \in Nodes |-> IF n \in Path(m) THEN [tree[m] EXCEPT !.revoked = TRUE]
                               ELSE tree[m]]
  BY DEF Kill
<1>2. /\ Nodes' = Nodes
      /\ \A m \in Nodes : tree'[m] = tree[m] \/ tree'[m] = [tree[m] EXCEPT !.revoked = TRUE]
  BY <1>1 DEF Nodes
<1>3. \A m \in Nodes : tree'[m].parent = tree[m].parent /\ tree'[m].auth = tree[m].auth
  BY <1>2 DEF Holdings, TreeShape
<1>4. \A m \in Nodes : tree[m].parent \in Nodes \cup {NoNode}
  BY DEF Holdings, TreeShape
<1> QED
  BY <1>2, <1>3, <1>4 DEF Grows, Ordered, Within

-----------------------------------------------------------------------------
(* Proposals: the steps.                                                   *)

\* What an entry of the list names is there, and stays as it is while the tree grows.
LEMMA EntriesStay ==
  ASSUME Listed, Grows, NEW p \in proposals
  PROVE  /\ p.node \in Nodes /\ p.node \in Nodes' /\ tree'[p.node].auth = tree[p.node].auth
         /\ p.status = "approved" => /\ p.child \in Nodes /\ p.under \in Nodes
                                     /\ p.child \in Nodes' /\ p.under \in Nodes'
                                     /\ tree'[p.child].parent = tree[p.child].parent
                                     /\ tree'[p.child].auth = tree[p.child].auth
<1>1. p.node \in Nodes
  BY DEF Listed, ProposalsTypeOK
<1>2. p.status = "approved" =>
        [id |-> p.id, child |-> p.child, under |-> p.under] \in granted
  BY DEF Listed, ProposalsAccounted
<1>3. p.status = "approved" => p.child \in Nodes /\ p.under \in Nodes
  BY <1>2 DEF Listed, ProposalsTypeOK
<1> QED
  BY <1>1, <1>3 DEF Grows

\* What the list says of the tree survives its growth.
LEMMA GrowthKeepsList ==
  ASSUME Holdings, Listed, NoSelfRelaxing, Grows, UNCHANGED proposalVars
  PROVE  Listed' /\ NoSelfRelaxing'
<1> USE DEF proposalVars
<1>1. ASSUME NEW p \in proposals
      PROVE  /\ p.node \in Nodes /\ p.node \in Nodes' /\ tree'[p.node].auth = tree[p.node].auth
             /\ p.status = "approved" => /\ p.child \in Nodes /\ p.under \in Nodes
                                         /\ tree'[p.child].parent = tree[p.child].parent
                                         /\ tree'[p.child].auth = tree[p.child].auth
  BY EntriesStay
<1>2. ProposalsTypeOK'
  <2>1. Nodes \subseteq Nodes'
    BY DEF Grows
  <2> QED
    BY <2>1 DEF Listed, ProposalsTypeOK
<1>3. ProposalsAccounted'
  BY <1>1 DEF Listed, ProposalsAccounted, Join
<1>4. \A p \in proposals' : ~Within(p.asks, tree'[p.node].auth)
  BY <1>1 DEF Listed
<1>5. Listed'
  BY <1>2, <1>3, <1>4 DEF Listed, Within
<1>6. NoSelfRelaxing'
  <2> SUFFICES ASSUME NEW p \in proposals, p.status = "approved", p.node \in Path(p.under)'
               PROVE  FALSE
    BY DEF NoSelfRelaxing
  <2> QED
    BY <1>1, PathStays DEF NoSelfRelaxing, Holdings
<1> QED
  BY <1>5, <1>6

\* A step of the guard leaves the list to agree with the grown tree.
LEMMA GuardStepsKeepProposals ==
  ASSUME ProposalsInv, GuardSteps
  PROVE  ProposalsInv'
<1> USE DEF ProposalsInv, GuardInv, GuardSteps
<1>1. GuardInv'
  BY AskKeeps, ApproveKeeps, DenyKeeps, WithdrawKeeps, MintKeeps, MintRefusedKeeps, IssueKeeps,
     KillKeeps
     DEF Deciding, Minting
<1>2. Grows /\ Ordered'
  <2>1. CASE UNCHANGED tree
    BY <2>1, SameTreeGrows
  <2>2. ASSUME NEW grant \in Grant, NEW n \in Node \ Nodes, NEW p \in Nodes \cup {NoNode},
               p # NoNode => Within(grant, tree[p].auth), tree' = Insert(n, p, grant)
        PROVE  Grows /\ Ordered'
    <3>1. grant \in SUBSET Item
      BY DEF Item
    <3> QED
      BY <2>2, <3>1, InsertGrows
  <2>3. CASE Minting
    BY <2>1, <2>2, <2>3 DEF Minting, Issue, Mint, MintRefused
  <2>4. CASE Deciding
    BY <2>1, <2>4 DEF Deciding, Approve, Deny, RevokePermit
  <2> QED
    BY <2>1, <2>3, <2>4, KillGrows DEF Ask
<1> QED
  BY <1>1, <1>2, GrowthKeepsList

\* A proposal adds itself to the list and the chain, or its id is skipped.
LEMMA ProposeKeeps ==
  ASSUME ProposalsInv, NEW n \in Nodes, NEW asks \in Wanted, NEW recorded \in BOOLEAN,
         Propose(n, asks, recorded)
  PROVE  ProposalsInv'
<1> USE ProposalAssumption DEF ProposalsInv
<1>1. UNCHANGED <<tree, policy, poisoned, bypass, permits, requests, nextPermit, nextRequest,
                  disk, now, chain, stored>>
  BY DEF Propose, guardVars, memory
<1>2. GuardInv'
  BY <1>1, ShrinkKeeps DEF GuardInv, Holdings, TreeShape, Nodes
<1>3. Grows /\ Ordered'
  BY <1>1, SameTreeGrows
<1>4. CASE UNCHANGED proposalVars
  BY <1>2, <1>3, <1>4, GrowthKeepsList DEF GuardInv
<1> DEFINE new == [id |-> nextProposal, node |-> n, asks |-> asks, status |-> "pending",
                   child |-> NoNode, under |-> NoNode]
<1>5. CASE /\ nextProposal < MaxProposal
           /\ nextProposal' = nextProposal + 1
           /\ proposals' = proposals \cup (IF recorded THEN {new} ELSE {})
           /\ filed' = IF recorded THEN [i \in DOMAIN filed \cup {new.id} |->
                                           IF i = new.id THEN [node |-> n, asks |-> asks]
                                           ELSE filed[i]]
                       ELSE filed
           /\ UNCHANGED granted
  <2>1. /\ new.id = nextProposal /\ new.node = n /\ new.asks = asks /\ new.status = "pending"
        /\ new \in [id : 0 .. MaxProposal, node : Nodes, asks : Wanted,
                    status : {"pending", "approved", "rejected"},
                    child : Nodes \cup {NoNode}, under : Nodes \cup {NoNode}]
    BY DEF Listed, ProposalsTypeOK
  <2>2. ~Within(asks, tree[n].auth)
    BY DEF Propose, Unproposable
  <2> HIDE DEF new
  <2>3. /\ nextProposal \in 0 .. MaxProposal /\ nextProposal' \in 0 .. MaxProposal
        /\ nextProposal \notin DOMAIN filed /\ DOMAIN filed \subseteq 0 .. nextProposal' - 1
        /\ nextProposal \in 0 .. nextProposal' - 1
    BY <1>5 DEF Listed, ProposalsTypeOK
  <2>4. CASE ~recorded
    <3>1. UNCHANGED <<proposals, filed, granted>>
      BY <1>5, <2>4
    <3>2. ProposalsTypeOK'
      BY <1>1, <2>3, <3>1 DEF Listed, ProposalsTypeOK, Nodes
    <3> QED
      BY <1>1, <1>2, <1>3, <3>1, <3>2
         DEF Listed, ProposalsAccounted, NoSelfRelaxing, Path, UpClosed, Nodes, Within
  <2>5. CASE recorded
    <3>1. /\ proposals' = proposals \cup {new}
          /\ filed' = [i \in DOMAIN filed \cup {nextProposal} |->
                         IF i = nextProposal THEN [node |-> n, asks |-> asks] ELSE filed[i]]
      BY <1>5, <2>1, <2>5
    <3>2. /\ DOMAIN filed' = DOMAIN filed \cup {nextProposal}
          /\ filed' = [i \in DOMAIN filed' |-> filed'[i]]
          /\ filed'[nextProposal] = [node |-> n, asks |-> asks]
          /\ \A i \in DOMAIN filed : filed'[i] = filed[i]
      BY <2>3, <3>1
    <3>3. \A p \in proposals : p.id \in DOMAIN filed /\ p.id # nextProposal
      BY <2>3 DEF Listed, ProposalsAccounted
    <3>4. {g \in granted : g.id = nextProposal} = {}
      BY <2>3 DEF Listed, ProposalsTypeOK
    <3>5. ProposalsTypeOK'
      <4>1. granted' \subseteq [id : DOMAIN filed', child : Nodes', under : Nodes']
        BY <1>1, <1>5, <3>2 DEF Listed, ProposalsTypeOK, Nodes
      <4>2. DOMAIN filed' \subseteq 0 .. nextProposal' - 1
        BY <2>3, <3>2
      <4>3. proposals' \subseteq [id : 0 .. MaxProposal, node : Nodes', asks : Wanted,
                                  status : {"pending", "approved", "rejected"},
                                  child : Nodes' \cup {NoNode}, under : Nodes' \cup {NoNode}]
        BY <1>1, <2>1, <3>1 DEF Listed, ProposalsTypeOK, Nodes
      <4> QED
        BY <2>3, <4>1, <4>2, <4>3 DEF ProposalsTypeOK
    <3>6. ProposalsAccounted'
      <4>1. {p.id : p \in proposals'} = DOMAIN filed'
        BY <2>1, <3>1, <3>2 DEF Listed, ProposalsAccounted
      <4>2. ASSUME NEW p \in proposals
            PROVE  /\ filed'[p.id] = [node |-> p.node, asks |-> p.asks]
                   /\ {g \in granted' : g.id = p.id} =
                        IF p.status = "approved"
                        THEN {[id |-> p.id, child |-> p.child, under |-> p.under]} ELSE {}
                   /\ p.status = "approved" =>
                        /\ tree'[p.child].parent = p.under
                        /\ tree'[p.child].auth = Join(tree'[p.node].auth, p.asks)
        BY <1>1, <1>5, <3>2, <3>3 DEF Listed, ProposalsAccounted
      <4>3. /\ filed'[new.id] = [node |-> new.node, asks |-> new.asks]
            /\ {g \in granted' : g.id = new.id} = {}
            /\ new.status # "approved"
        BY <1>5, <2>1, <3>2, <3>4
      <4>4. ASSUME NEW p \in proposals'
            PROVE  /\ filed'[p.id] = [node |-> p.node, asks |-> p.asks]
                   /\ {g \in granted' : g.id = p.id} =
                        IF p.status = "approved"
                        THEN {[id |-> p.id, child |-> p.child, under |-> p.under]} ELSE {}
                   /\ p.status = "approved" =>
                        /\ tree'[p.child].parent = p.under
                        /\ tree'[p.child].auth = Join(tree'[p.node].auth, p.asks)
        <5>1. CASE p \in proposals
          BY <4>2, <5>1
        <5>2. CASE p = new
          BY <4>3, <5>2
        <5> QED
          BY <3>1, <5>1, <5>2
      <4> QED
        BY <4>1, <4>4 DEF ProposalsAccounted, Join
    <3>7. /\ \A p, q \in proposals' : p.id = q.id => p = q
          /\ \A p \in proposals' : ~Within(p.asks, tree'[p.node].auth)
      BY <1>1, <2>1, <2>2, <3>1, <3>3 DEF Listed
    <3>8. Listed'
      BY <3>2, <3>5, <3>6, <3>7 DEF Listed, Within
    <3>9. NoSelfRelaxing'
      BY <1>1, <2>1, <3>1 DEF NoSelfRelaxing, Path, UpClosed, Nodes
    <3> QED
      BY <1>2, <1>3, <3>8, <3>9
  <2> QED
    BY <2>4, <2>5
<1> QED
  BY <1>4, <1>5 DEF Propose

\* An entry decided is the same entry, with its outcome.
LEMMA DecideKeepsTheRest ==
  ASSUME Listed, NEW p \in proposals, p.status = "pending",
         NEW status \in {"approved", "rejected"}, NEW child, NEW under,
         proposals' = Decide(p, status, child, under)
  PROVE  \E done \in proposals' :
           /\ done = [id |-> p.id, node |-> p.node, asks |-> p.asks, status |-> status,
                      child |-> child, under |-> under]
           /\ proposals' = (proposals \ {p}) \cup {done}
           /\ done.id = p.id /\ done.node = p.node /\ done.asks = p.asks
           /\ done.status = status /\ done.child = child /\ done.under = under
<1> DEFINE done == [p EXCEPT !.status = status, !.child = child, !.under = under]
<1>1. done = [id |-> p.id, node |-> p.node, asks |-> p.asks, status |-> status,
              child |-> child, under |-> under]
  <2>1. p \in [id : 0 .. MaxProposal, node : Nodes, asks : Wanted,
               status : {"pending", "approved", "rejected"},
               child : Nodes \cup {NoNode}, under : Nodes \cup {NoNode}]
    BY DEF Listed, ProposalsTypeOK
  <2>2. done \in [id : {p.id}, node : {p.node}, asks : {p.asks}, status : {status},
                  child : {child}, under : {under}]
    BY <2>1
  <2> HIDE DEF done
  <2> QED
    BY <2>2
<1>2. proposals' = (proposals \ {p}) \cup {done}
  BY DEF Decide
<1> QED
  BY <1>1, <1>2

\* An approval that was recorded adds one node, one line and one decision.
LEMMA GrantKeeps ==
  ASSUME ProposalsInv, NEW id \in 0 .. MaxProposal, NEW under \in Nodes, NEW n \in Node,
         NEW owner \in BOOLEAN, NEW p \in Pending(id), Grants(p, under, n, owner), GuardInv',
         tree' = Insert(n, under, Join(tree[p.node].auth, p.asks)),
         proposals' = Decide(p, "approved", n, under),
         granted' = granted \cup {[id |-> id, child |-> n, under |-> under]},
         UNCHANGED <<nextProposal, filed>>
  PROVE  ProposalsInv'
<1> USE ProposalAssumption DEF ProposalsInv
<1> DEFINE grant == Join(tree[p.node].auth, p.asks)
           line == [id |-> id, child |-> n, under |-> under]
<1>1. /\ p \in proposals /\ p.id = id /\ p.status = "pending" /\ p.asks \in Wanted
      /\ p.node \in Nodes
  BY DEF Pending, Listed, ProposalsTypeOK
<1>2. n \in Node \ Nodes /\ Within(grant, tree[under].auth)
  BY DEF Grants
<1>3. Holdings
  BY DEF GuardInv
<1>4. grant \in SUBSET Item
  BY <1>1 DEF Join, Ordered, Item
<1>5. /\ Grows /\ Ordered'
      /\ Nodes' = Nodes \cup {n} /\ tree'[n].parent = under /\ tree'[n].auth = grant
  <2> HIDE DEF grant
  <2>1. tree' = Insert(n, under, grant) /\ under \in Nodes \cup {NoNode}
    BY DEF grant
  <2> QED
    BY <1>2, <1>3, <1>4, <2>1, InsertGrows, InsertKeepsShape
<1>6. PICK done \in proposals' :
        /\ done = [id |-> p.id, node |-> p.node, asks |-> p.asks, status |-> "approved",
                   child |-> n, under |-> under]
        /\ proposals' = (proposals \ {p}) \cup {done}
        /\ done.id = p.id /\ done.node = p.node /\ done.asks = p.asks
        /\ done.status = "approved" /\ done.child = n /\ done.under = under
  BY <1>1, DecideKeepsTheRest
<1>7. ASSUME NEW q \in proposals
      PROVE  /\ q.node \in Nodes' /\ tree'[q.node].auth = tree[q.node].auth
             /\ q.status = "approved" => /\ q.under \in Nodes
                                         /\ tree'[q.child].parent = tree[q.child].parent
                                         /\ tree'[q.child].auth = tree[q.child].auth
  BY <1>5, EntriesStay
<1>8. ProposalsTypeOK'
  <2>1. Nodes \subseteq Nodes' /\ n \in Nodes' /\ under \in Nodes'
    BY <1>5
  <2>2. proposals' \subseteq [id : 0 .. MaxProposal, node : Nodes', asks : Wanted,
                              status : {"pending", "approved", "rejected"},
                              child : Nodes' \cup {NoNode}, under : Nodes' \cup {NoNode}]
    <3>1. done \in [id : 0 .. MaxProposal, node : Nodes', asks : Wanted,
                    status : {"pending", "approved", "rejected"},
                    child : Nodes' \cup {NoNode}, under : Nodes' \cup {NoNode}]
      BY <1>1, <1>6, <2>1
    <3>2. proposals \subseteq [id : 0 .. MaxProposal, node : Nodes', asks : Wanted,
                               status : {"pending", "approved", "rejected"},
                               child : Nodes' \cup {NoNode}, under : Nodes' \cup {NoNode}]
      BY <2>1 DEF Listed, ProposalsTypeOK
    <3> QED
      BY <1>6, <3>1, <3>2
  <2>3. id \in DOMAIN filed
    BY <1>1 DEF Listed, ProposalsAccounted
  <2>4. granted' \subseteq [id : DOMAIN filed', child : Nodes', under : Nodes']
    BY <2>1, <2>3 DEF Listed, ProposalsTypeOK
  <2> QED
    BY <2>2, <2>4 DEF Listed, ProposalsTypeOK
<1>9. ProposalsAccounted'
  <2>1. {q.id : q \in proposals'} = DOMAIN filed'
    <3>1. {q.id : q \in proposals'} = {q.id : q \in proposals}
      BY <1>1, <1>6
    <3> QED
      BY <3>1 DEF Listed, ProposalsAccounted
  <2>2. ASSUME NEW q \in proposals'
        PROVE  /\ filed'[q.id] = [node |-> q.node, asks |-> q.asks]
               /\ {g \in granted' : g.id = q.id} =
                    IF q.status = "approved"
                    THEN {[id |-> q.id, child |-> q.child, under |-> q.under]} ELSE {}
               /\ q.status = "approved" =>
                    /\ tree'[q.child].parent = q.under
                    /\ tree'[q.child].auth = Join(tree'[q.node].auth, q.asks)
    <3>1. CASE q = done
      <4>1. {g \in granted : g.id = id} = {}
        <5>1. {g \in granted : g.id = p.id} =
                IF p.status = "approved"
                THEN {[id |-> p.id, child |-> p.child, under |-> p.under]} ELSE {}
          BY <1>1 DEF Listed, ProposalsAccounted
        <5> QED
          BY <1>1, <5>1
      <4>2. {g \in granted' : g.id = q.id} = {line}
        BY <1>1, <1>6, <3>1, <4>1
      <4>3. line = [id |-> q.id, child |-> q.child, under |-> q.under]
        BY <1>1, <1>6, <3>1
      <4>4. filed'[q.id] = [node |-> q.node, asks |-> q.asks]
        BY <1>1, <1>6, <3>1 DEF Listed, ProposalsAccounted
      <4>5. tree'[q.child].auth = Join(tree'[q.node].auth, q.asks)
        BY <1>1, <1>5, <1>6, <1>7, <3>1
      <4> QED
        BY <1>5, <1>6, <3>1, <4>2, <4>3, <4>4, <4>5
    <3>2. CASE q \in proposals /\ q # p
      <4>1. q.id # id
        BY <1>1, <3>2 DEF Listed
      <4>2. {g \in granted' : g.id = q.id} = {g \in granted : g.id = q.id}
        BY <4>1
      <4> QED
        BY <1>7, <3>2, <4>2 DEF Listed, ProposalsAccounted
    <3> QED
      BY <1>6, <3>1, <3>2
  <2> QED
    BY <2>1, <2>2 DEF ProposalsAccounted, Join
<1>10. /\ \A q, r \in proposals' : q.id = r.id => q = r
       /\ \A q \in proposals' : ~Within(q.asks, tree'[q.node].auth)
  BY <1>1, <1>6, <1>7 DEF Listed
<1>11. Listed'
  BY <1>8, <1>9, <1>10 DEF Listed, Within
\* The approver holds what is asked for, and who holds nothing of it is not above it.
<1>12. p.node \notin Path(under)
  <2> SUFFICES ASSUME p.node \in Path(under)
               PROVE  FALSE
    OBVIOUS
  <2>1. Within(tree[under].auth, tree[p.node].auth)
    BY <1>3, PathHolds DEF Holdings
  <2>2. tree[under].auth \in SUBSET Item /\ tree[p.node].auth \in SUBSET Item
    BY <1>1 DEF Ordered
  <2>3. Within(grant, tree[p.node].auth)
    BY <1>2, <1>4, <2>1, <2>2, WithinComposes
  <2>4. Within(p.asks, tree[p.node].auth)
    BY <2>3 DEF Within, Join
  <2> QED
    BY <1>1, <2>4 DEF Listed
<1>13. NoSelfRelaxing'
  <2> SUFFICES ASSUME NEW q \in proposals', q.status = "approved", q.node \in Path(q.under)'
               PROVE  FALSE
    BY DEF NoSelfRelaxing
  <2>1. CASE q = done
    BY <1>3, <1>5, <1>6, <1>12, <2>1, PathStays DEF Holdings
  <2>2. CASE q \in proposals
    BY <1>3, <1>5, <1>7, <2>2, PathStays DEF Holdings, NoSelfRelaxing
  <2> QED
    BY <1>6, <2>1, <2>2
<1> QED
  BY <1>5, <1>11, <1>13

\* An approval, recorded or not, and a refused one.
LEMMA DecisionsKeep ==
  ASSUME ProposalsInv, NEW id \in 0 .. MaxProposal, NEW under \in Nodes, NEW n \in Node,
         NEW owner \in BOOLEAN, NEW recorded \in BOOLEAN,
         \/ ApproveProposal(id, under, n, owner, recorded)
         \/ ApprovalRefused(id, under, n, owner)
  PROVE  ProposalsInv'
<1> USE DEF ProposalsInv
<1>1. /\ permits' \subseteq permits /\ requests' \subseteq requests
      /\ UNCHANGED <<policy, poisoned, bypass, nextPermit, nextRequest, disk, now, chain,
                     stored, nextProposal, filed>>
  BY SweptIsLess DEF ApproveProposal, ApprovalRefused, SweptByMint, proposalVars
<1>2. TreeShape' => GuardInv'
  BY <1>1, ShrinkKeeps DEF GuardInv, Holdings
<1>3. CASE UNCHANGED <<tree, proposals, granted>>
  <2>1. GuardInv'
    BY <1>2, <1>3 DEF GuardInv, Holdings, TreeShape, Nodes
  <2> QED
    BY <1>1, <1>3, <2>1, SameTreeGrows, GrowthKeepsList DEF proposalVars, GuardInv
<1>4. ASSUME NEW p \in Pending(id), Grants(p, under, n, owner),
             tree' = Insert(n, under, Join(tree[p.node].auth, p.asks)),
             proposals' = Decide(p, "approved", n, under),
             granted' = granted \cup {[id |-> id, child |-> n, under |-> under]}
      PROVE  ProposalsInv'
  <2>1. GuardInv'
    BY <1>2, <1>4, InsertKeepsShape DEF Grants, GuardInv
  <2> QED
    BY <1>1, <1>4, <2>1, GrantKeeps
<1> QED
  BY <1>3, <1>4 DEF ApproveProposal, ApprovalRefused, proposalVars

\* A rejection decides one proposal and touches nothing else.
LEMMA RejectKeeps ==
  ASSUME ProposalsInv, NEW id \in 0 .. MaxProposal, Reject(id)
  PROVE  ProposalsInv'
<1> USE DEF ProposalsInv
<1>1. UNCHANGED <<tree, policy, poisoned, bypass, permits, requests, nextPermit, nextRequest,
                  disk, now, chain, stored, nextProposal, filed, granted>>
  BY DEF Reject, guardVars, memory
<1>2. GuardInv'
  BY <1>1, ShrinkKeeps DEF GuardInv, Holdings, TreeShape, Nodes
<1>3. Ordered'
  BY <1>1, SameTreeGrows
<1>4. PICK p \in Pending(id) : proposals' = Decide(p, "rejected", NoNode, NoNode)
  BY DEF Reject
<1>5. p \in proposals /\ p.id = id /\ p.status = "pending"
  BY DEF Pending
<1>6. PICK done \in proposals' :
        /\ done = [id |-> p.id, node |-> p.node, asks |-> p.asks, status |-> "rejected",
                   child |-> NoNode, under |-> NoNode]
        /\ proposals' = (proposals \ {p}) \cup {done}
        /\ done.id = p.id /\ done.node = p.node /\ done.asks = p.asks
        /\ done.status = "rejected" /\ done.child = NoNode /\ done.under = NoNode
  BY <1>4, <1>5, DecideKeepsTheRest
<1>7. ProposalsTypeOK'
  <2>1. done \in [id : 0 .. MaxProposal, node : Nodes', asks : Wanted,
                  status : {"pending", "approved", "rejected"},
                  child : Nodes' \cup {NoNode}, under : Nodes' \cup {NoNode}]
    BY <1>1, <1>5, <1>6 DEF Listed, ProposalsTypeOK, Nodes
  <2> QED
    BY <1>1, <1>6, <2>1 DEF Listed, ProposalsTypeOK, Nodes
<1>8. ProposalsAccounted'
  <2>1. {q.id : q \in proposals'} = DOMAIN filed'
    <3>1. {q.id : q \in proposals'} = {q.id : q \in proposals}
      BY <1>5, <1>6
    <3> QED
      BY <1>1, <3>1 DEF Listed, ProposalsAccounted
  <2>2. ASSUME NEW q \in proposals'
        PROVE  /\ filed'[q.id] = [node |-> q.node, asks |-> q.asks]
               /\ {g \in granted' : g.id = q.id} =
                    IF q.status = "approved"
                    THEN {[id |-> q.id, child |-> q.child, under |-> q.under]} ELSE {}
               /\ q.status = "approved" =>
                    /\ tree'[q.child].parent = q.under
                    /\ tree'[q.child].auth = Join(tree'[q.node].auth, q.asks)
    <3>1. CASE q = done
      BY <1>1, <1>5, <1>6, <3>1 DEF Listed, ProposalsAccounted
    <3>2. CASE q \in proposals
      BY <1>1, <3>2 DEF Listed, ProposalsAccounted
    <3> QED
      BY <1>6, <3>1, <3>2
  <2> QED
    BY <2>1, <2>2 DEF ProposalsAccounted, Join
<1>9. Listed'
  <2>1. /\ \A q, r \in proposals' : q.id = r.id => q = r
        /\ \A q \in proposals' : ~Within(q.asks, tree'[q.node].auth)
    BY <1>1, <1>5, <1>6 DEF Listed
  <2> QED
    BY <1>1, <1>7, <1>8, <2>1 DEF Listed, Within
<1>10. NoSelfRelaxing'
  BY <1>1, <1>6 DEF NoSelfRelaxing, Path, UpClosed, Nodes
<1> QED
  BY <1>2, <1>3, <1>9, <1>10

\* Nothing proposed and no node: a daemon that starts.
LEMMA NothingProposed ==
  ASSUME GuardInv, tree = [n \in {} |-> NoNode], proposals = {}, nextProposal = 0,
         filed = [i \in {} |-> NoNode], granted = {}
  PROVE  ProposalsInv
<1>1. Nodes = {} /\ DOMAIN filed = {}
  BY DEF Nodes
<1> QED
  BY <1>1, ProposalAssumption
     DEF ProposalsInv, Ordered, Listed, ProposalsTypeOK, ProposalsAccounted, NoSelfRelaxing

\* A restart forgets proposals with the nodes they are about.
LEMMA RestartForgetsProposals ==
  ASSUME ProposalsInv, RestartWithProposals(FALSE)
  PROVE  ProposalsInv'
<1>1. GuardInv'
  BY RestartKeeps DEF RestartWithProposals, ProposalsInv
<1>2. /\ Nodes' = {} /\ DOMAIN filed' = {} /\ proposals' = {} /\ nextProposal' = 0
      /\ granted' = {} /\ filed' = [i \in DOMAIN filed' |-> filed'[i]]
  BY DEF RestartWithProposals, Restart, Nodes
<1> QED
  BY <1>1, <1>2, ProposalAssumption
     DEF ProposalsInv, Ordered, Listed, ProposalsTypeOK, ProposalsAccounted, NoSelfRelaxing

\* Every step of the daemon keeps the tree, the list and the chain in agreement.
LEMMA ProposalsStep ==
  ASSUME ProposalsInv, [ProposalsNext]_<<guardVars, proposalVars>>
  PROVE  ProposalsInv'
<1>1. CASE UNCHANGED <<guardVars, proposalVars>>
  <2>1. GuardInv'
    BY <1>1, ShrinkKeeps DEF guardVars, memory, ProposalsInv, GuardInv, Holdings, TreeShape, Nodes
  <2> QED
    BY <1>1, <2>1, SameTreeGrows, GrowthKeepsList DEF guardVars, ProposalsInv, GuardInv
<1>2. CASE Proposing
  BY <1>2, ProposeKeeps DEF Proposing
<1>3. CASE DecidingProposals
  BY <1>3, DecisionsKeep, RejectKeeps DEF DecidingProposals
<1> QED
  BY <1>1, <1>2, <1>3, GuardStepsKeepProposals, RestartForgetsProposals DEF ProposalsNext

\* The inductive invariant of the composition of guard and proposals.
THEOREM ProposalsInvHolds == ProposalsSpec => []ProposalsInv
<1>1. ProposalsInit => ProposalsInv
  BY GuardStarts, NothingProposed DEF ProposalsInit, GuardInit
<1> QED
  BY <1>1, ProposalsStep, PTL DEF ProposalsSpec
-----------------------------------------------------------------------------
(* What proposals promise.                                                 *)

\* Every part of the proposals' state has the shape the daemon gives it.
THEOREM ProposalsTypeCorrect == ProposalsSpec => []ProposalsTypeOK
<1>1. ProposalsInv => ProposalsTypeOK
  BY DEF ProposalsInv, Listed
<1> QED
  BY <1>1, ProposalsInvHolds, PTL

\* The list, the tree and the chain agree on what was proposed and approved
\* (`approve_proposal`, `withdraw_unrecorded_proposal_approval`).
THEOREM ProposalsAccountedThroughout == ProposalsSpec => []ProposalsAccounted
<1>1. ProposalsInv => ProposalsAccounted
  BY DEF ProposalsInv, Listed
<1> QED
  BY <1>1, ProposalsInvHolds, PTL

\* The guard's books and rules stand under proposals as they do without: the
\* same permits, of no use too, and the same starts and failed writes.
THEOREM GuardStandsUnderProposals == ProposalsSpec => [](PermitsAccounted /\ RulesStand)
<1>1. ProposalsInv => PermitsAccounted /\ RulesStand
  BY DEF ProposalsInv, GuardInv
<1> QED
  BY <1>1, ProposalsInvHolds, PTL

\* A decision, once taken, is the same after any step that keeps the list.
LEMMA DecisionsAreFinal ==
  ASSUME ProposalsInv, ProposalsNext, proposals' # {}, NEW p \in proposals
  PROVE  \E q \in proposals' :
           /\ q.id = p.id
           /\ p.status # "pending" => q = p
           /\ p.status = "pending" /\ q.status = "approved" => Live(p.node)
<1>1. CASE p \in proposals'
  BY <1>1
<1>2. CASE GuardSteps \/ Proposing
  <2>1. proposals \subseteq proposals'
    BY <1>2 DEF GuardSteps, Proposing, Propose, proposalVars
  <2> QED
    BY <1>1, <2>1
<1>3. ASSUME NEW id \in 0 .. MaxProposal, NEW d \in Pending(id),
             NEW status \in {"approved", "rejected"}, NEW child, NEW under,
             proposals' = Decide(d, status, child, under), status = "approved" => Live(d.node)
      PROVE  \E q \in proposals' :
               /\ q.id = p.id
               /\ p.status # "pending" => q = p
               /\ p.status = "pending" /\ q.status = "approved" => Live(p.node)
  <2>1. d \in proposals /\ d.status = "pending"
    BY DEF Pending
  <2>2. PICK done \in proposals' : done.id = d.id /\ done.status = status
                                   /\ proposals' = (proposals \ {d}) \cup {done}
    BY <1>3, <2>1, DecideKeepsTheRest DEF ProposalsInv
  <2> QED
    BY <1>1, <1>3, <2>1, <2>2
<1>4. CASE DecidingProposals
  <2>1. ASSUME NEW id \in 0 .. MaxProposal, Reject(id)
        PROVE  \E d \in Pending(id) : proposals' = Decide(d, "rejected", NoNode, NoNode)
    BY <2>1 DEF Reject
  <2>2. ASSUME NEW id \in 0 .. MaxProposal, NEW under \in Nodes, NEW n \in Node,
               NEW owner \in BOOLEAN, NEW recorded \in BOOLEAN,
               ApproveProposal(id, under, n, owner, recorded)
        PROVE  \/ UNCHANGED proposals
               \/ \E d \in Pending(id) : /\ proposals' = Decide(d, "approved", n, under)
                                         /\ Live(d.node)
    BY <2>2 DEF ApproveProposal, Grants
  <2>3. ASSUME NEW id \in 0 .. MaxProposal, NEW under \in Nodes, NEW n \in Node,
               NEW owner \in BOOLEAN, ApprovalRefused(id, under, n, owner)
        PROVE  UNCHANGED proposals
    BY <2>3 DEF ApprovalRefused, proposalVars
  <2>4. PICK id \in 0 .. MaxProposal, under \in Nodes, n \in Node, owner \in BOOLEAN,
             recorded \in BOOLEAN :
               \/ ApproveProposal(id, under, n, owner, recorded)
               \/ ApprovalRefused(id, under, n, owner)
               \/ Reject(id)
    BY <1>4 DEF DecidingProposals
  <2>5. CASE UNCHANGED proposals
    BY <1>1, <2>5
  <2>6. CASE Reject(id)
    <3>1. PICK d \in Pending(id) : proposals' = Decide(d, "rejected", NoNode, NoNode)
      BY <2>1, <2>6
    <3> QED
      BY <1>3, <3>1
  <2>7. CASE ApproveProposal(id, under, n, owner, recorded)
    <3> SUFFICES ASSUME ~UNCHANGED proposals
                 PROVE  \E q \in proposals' :
                          /\ q.id = p.id
                          /\ p.status # "pending" => q = p
                          /\ p.status = "pending" /\ q.status = "approved" => Live(p.node)
      BY <2>5
    <3>1. PICK d \in Pending(id) : proposals' = Decide(d, "approved", n, under) /\ Live(d.node)
      BY <2>2, <2>7
    <3> QED
      BY <1>3, <3>1
  <2> QED
    BY <2>3, <2>4, <2>5, <2>6, <2>7
<1> QED
  BY <1>2, <1>4 DEF ProposalsNext, RestartWithProposals

\* No holder relaxes its own rules, and no decision is taken twice or back.
THEOREM ApprovalIsFromAboveThroughout == ProposalsSpec => ApprovalIsFromAbove
<1>1. ProposalsInv => NoSelfRelaxing
  BY DEF ProposalsInv
<1>2. ProposalsInv /\ [ProposalsNext]_<<guardVars, proposalVars>> =>
        [proposals' # {} =>
           \A p \in proposals :
             \E q \in proposals' :
               /\ q.id = p.id
               /\ p.status # "pending" => q = p
               /\ p.status = "pending" /\ q.status = "approved" => Live(p.node)]_proposalVars
  BY DecisionsAreFinal
<1> QED
  BY <1>1, <1>2, ProposalsInvHolds, PTL
     DEF ApprovalIsFromAbove, DecisionsStand, ProposalsSpec
=============================================================================
