--------------------------- MODULE Adoption_proofs ---------------------------
(***************************************************************************)
(* Proofs about federation, for any certificates, chains and receipts, any *)
(* ids and clock, and stops of the daemon anywhere: what is adopted stays  *)
(* within its ground, what is retired stays out, and under a root policy   *)
(* no other root gets in.                                                  *)
(***************************************************************************)
EXTENDS Adoption, GrantTree_proofs, WellFoundedInduction

-----------------------------------------------------------------------------
(* Numbers and chains.                                                     *)

\* A nonempty set of numbers has a least one.
LEMMA Least ==
  ASSUME NEW T, T \subseteq Nat, T # {}
  PROVE  \E x \in T : \A y \in T : x <= y
<1> DEFINE R == OpToRel(<, Nat)
<1>1. PICK x \in T : \A y \in T : ~(<<y, x>> \in R)
  <2>1. IsWellFoundedOn(R, Nat)
    BY NatLessThanWellFounded
  <2> HIDE DEF R
  <2> QED
    BY <2>1, WFMin
<1>2. \A y \in T : ~(y < x)
  BY <1>1 DEF OpToRel
<1> QED
  BY <1>2

\* Induction over numbers: of those a set lacks none is the least.
LEMMA Induct ==
  ASSUME NEW S, 0 \in S, \A n \in Nat : n \in S => n + 1 \in S
  PROVE  \A n \in Nat : n \in S
<1> SUFFICES ASSUME Nat \ S # {}
             PROVE  FALSE
  OBVIOUS
<1>1. PICK x \in Nat \ S : \A y \in Nat \ S : x <= y
  <2>1. Nat \ S \subseteq Nat
    OBVIOUS
  <2> QED
    BY <2>1, Least
<1>2. x # 0 /\ x - 1 \in Nat
  BY <1>1
<1>3. x - 1 \in S
  BY <1>1, <1>2
<1> QED
  BY <1>1, <1>2, <1>3

\* Of the values at 1 .. n one is least.
LEMMA LeastValue ==
  ASSUME NEW n \in Nat \ {0}, NEW f, \A i \in 1 .. n : f[i] \in Int
  PROVE  \E k \in 1 .. n : \A i \in 1 .. n : f[k] <= f[i]
<1> DEFINE S == {m \in Nat : m + 1 <= n =>
                   \E k \in 1 .. m + 1 : \A i \in 1 .. m + 1 : f[k] <= f[i]}
<1>1. 0 \in S
  <2>1. \A i \in 1 .. 0 + 1 : i = 1
    OBVIOUS
  <2> QED
    BY <2>1
<1>2. ASSUME NEW m \in Nat, m \in S PROVE m + 1 \in S
  <2> SUFFICES ASSUME m + 2 <= n
               PROVE  \E k \in 1 .. m + 2 : \A i \in 1 .. m + 2 : f[k] <= f[i]
    OBVIOUS
  <2>1. PICK k \in 1 .. m + 1 : \A i \in 1 .. m + 1 : f[k] <= f[i]
    BY <1>2
  <2>2. \A i \in 1 .. m + 2 : i \in 1 .. m + 1 \/ i = m + 2
    OBVIOUS
  <2>3. f[k] \in Int /\ f[m + 2] \in Int /\ \A i \in 1 .. m + 1 : f[i] \in Int
    BY <2>1
  <2>4. CASE f[k] <= f[m + 2]
    <3>1. \A i \in 1 .. m + 2 : f[k] <= f[i]
      BY <2>1, <2>2, <2>4
    <3> QED
      BY <3>1
  <2>5. CASE ~(f[k] <= f[m + 2])
    <3>1. \A i \in 1 .. m + 1 : f[m + 2] <= f[i]
      BY <2>1, <2>3, <2>5
    <3>2. \A i \in 1 .. m + 2 : f[m + 2] <= f[i]
      BY <2>2, <2>3, <3>1
    <3> QED
      BY <3>2
  <2> QED
    BY <2>4, <2>5
<1>3. n - 1 \in S
  <2> HIDE DEF S
  <2> QED
    BY <1>1, <1>2, Induct
<1> QED
  BY <1>3

\* Where a least member exists Min is one.
LEMMA MinLeast ==
  ASSUME NEW S, S \subseteq Int, NEW m \in S, \A x \in S : m <= x
  PROVE  Min(S) \in S /\ \A x \in S : Min(S) <= x
BY DEF Min

\* The lesser of two.
LEMMA MinTwo ==
  ASSUME NEW a \in Int, NEW b \in Int
  PROVE  Min({a, b}) \in {a, b} /\ Min({a, b}) <= a /\ Min({a, b}) <= b
<1>1. CASE a <= b
  BY <1>1, MinLeast
<1>2. CASE ~(a <= b)
  <2>1. b <= a
    BY <1>2
  <2> QED
    BY <2>1, MinLeast
<1> QED
  BY <1>1, <1>2

\* A chain's certificates say what certificates say.
LEMMA ChainParts ==
  ASSUME NEW chain \in Chain, chain # <<>>
  PROVE  /\ Len(chain) \in Nat \ {0}
         /\ DOMAIN chain = 1 .. Len(chain)
         /\ \A i \in 1 .. Len(chain) : chain[i] \in Cert /\ Body[chain[i]] \in CertBody
         /\ Certs(chain) \subseteq Cert
         /\ Leaf(chain) \in Certs(chain) /\ chain[1] \in Certs(chain)
<1>1. chain \in Seq(Cert)
  BY AdoptionConstants
<1>2. Len(chain) \in Nat /\ DOMAIN chain = 1 .. Len(chain) /\ Len(chain) # 0
  BY <1>1
<1>3. \A i \in 1 .. Len(chain) : chain[i] \in Cert
  BY <1>1
<1> QED
  BY <1>2, <1>3, AdoptionConstants DEF Certs, Leaf

\* The window of a chain ends with that of its first certificate to run out.
LEMMA WindowIsLeast ==
  ASSUME NEW chain \in Chain, chain # <<>>
  PROVE  /\ Window(chain) \in Int
         /\ \A c \in Certs(chain) : Window(chain) <= Body[c].notAfter
<1> DEFINE f == [i \in 1 .. Len(chain) |-> Body[chain[i]].notAfter]
           S == {Body[c].notAfter : c \in Certs(chain)}
<1>1. \A i \in 1 .. Len(chain) : f[i] \in Int
  BY ChainParts DEF CertBody
<1>2. PICK k \in 1 .. Len(chain) : \A i \in 1 .. Len(chain) : f[k] <= f[i]
  <2> HIDE DEF f
  <2> QED
    BY <1>1, LeastValue, ChainParts
<1>3. S = {f[i] : i \in 1 .. Len(chain)}
  BY ChainParts DEF Certs
<1>4. S \subseteq Int /\ f[k] \in S /\ \A x \in S : f[k] <= x
  <2> HIDE DEF f, S
  <2> QED
    BY <1>1, <1>2, <1>3
<1>5. Min(S) \in S /\ \A x \in S : Min(S) <= x
  <2> HIDE DEF f, S
  <2> QED
    BY <1>4, MinLeast
<1> QED
  BY <1>4, <1>5 DEF Window

\* An adopted node's deadline is a time no later than its window.
LEMMA TtlInWindow ==
  ASSUME NEW chain \in Chain, chain # <<>>, NEW now \in Int
  PROVE  AdoptedTtl(chain, now) \in Int /\ AdoptedTtl(chain, now) <= Window(chain)
<1> DEFINE terms == {Body[c].uplink : c \in Certs(chain)} \ {NoTtl}
<1>1. Window(chain) \in Int
  BY WindowIsLeast
<1>2. CASE terms = {}
  BY <1>1, <1>2 DEF AdoptedTtl
<1>3. CASE terms # {}
  <2>1. terms \subseteq Nat
    BY ChainParts, AdoptionConstants DEF CertBody
  <2>2. PICK m \in terms : \A x \in terms : m <= x
    <3> HIDE DEF terms
    <3> QED
      BY <1>3, <2>1, Least
  <2>3. Min(terms) \in Int
    <3> HIDE DEF terms
    <3>1. terms \subseteq Int
      BY <2>1
    <3> QED
      BY <2>2, <3>1, MinLeast
  <2>4. AdoptedTtl(chain, now) = Min({Window(chain), now + Min(terms)})
    BY <1>3 DEF AdoptedTtl
  <2> HIDE DEF terms
  <2>5. now + Min(terms) \in Int
    BY <2>3
  <2> QED
    BY <1>1, <2>4, <2>5, MinTwo
<1> QED
  BY <1>2, <1>3

\* A chain that verifies narrows from end to end, though only neighbours are
\* compared (verify_chain).
LEMMA ChainNarrows ==
  ASSUME NEW chain \in Chain, NEW anchors, NEW now, VerifyChain(chain, anchors, now),
         NEW c \in Certs(chain)
  PROVE  Within(Body[Leaf(chain)].auth, Body[c].auth)
<1> DEFINE L == Len(chain)
           A(i) == Body[chain[i]].auth
<1>1. /\ L \in Nat \ {0}
      /\ DOMAIN chain = 1 .. L
      /\ \A i \in 1 .. L : A(i) \in Grant
  BY ChainParts DEF VerifyChain, CertBody
<1>2. \A i \in 1 .. L : i # 1 => Within(A(i), A(i - 1))
  BY <1>1 DEF VerifyChain, Links
<1> HIDE DEF L, A
<1> DEFINE S == {k \in Nat : k < L => Within(A(L), A(L - k))}
<1>3. 0 \in S
  <2>1. A(L) \in Grant /\ L - 0 = L
    BY <1>1
  <2> QED
    BY <2>1, WithinReflexive
<1>4. ASSUME NEW k \in Nat, k \in S PROVE k + 1 \in S
  <2> SUFFICES ASSUME k + 1 < L PROVE Within(A(L), A(L - (k + 1)))
    OBVIOUS
  <2>1. Within(A(L), A(L - k))
    BY <1>1, <1>4
  <2>2. L - k \in 1 .. L /\ L - k # 1 /\ L - k - 1 = L - (k + 1) /\ L - (k + 1) \in 1 .. L
    BY <1>1
  <2>3. Within(A(L - k), A(L - (k + 1)))
    BY <1>2, <2>2
  <2>4. A(L) \in Grant /\ A(L - k) \in Grant /\ A(L - (k + 1)) \in Grant
    BY <1>1, <2>2
  <2> QED
    BY <2>1, <2>3, <2>4, WithinTransitive
<1>5. \A k \in Nat : k \in S
  <2> HIDE DEF S
  <2> QED
    BY <1>3, <1>4, Induct
<1>6. PICK i \in 1 .. L : c = chain[i]
  BY <1>1 DEF Certs, L
<1>7. L - i \in Nat /\ L - i < L /\ L - (L - i) = i
  BY <1>1
<1>8. Within(A(L), A(L - (L - i)))
  BY <1>5, <1>7
<1> QED
  BY <1>6, <1>7, <1>8 DEF Leaf, L, A

-----------------------------------------------------------------------------
(* What one step may do.                                                   *)

\* What a step of neither adoption, renewal, revocation nor restart leaves as it is.
remembered == <<up, pin, poisoned, adopted, chainOf, denied, records, gone>>

\* Nothing happens but that an id is drawn, or the list is damaged.
Idles ==
  /\ tree' = tree
  /\ drawn \subseteq drawn' /\ drawn' \subseteq drawn \cup Node
  /\ saved' = saved \/ saved' \in Damage
  /\ UNCHANGED remembered

\* A node is handed out; under a root policy it is no root.
Hands ==
  \E n \in Node \ drawn, node \in NodeRec :
    /\ up
    /\ Mints(n, node)
    /\ node.parent = NoNode => pin = NoPin
    /\ drawn' = drawn \cup {n}
    /\ UNCHANGED saved
    /\ UNCHANGED remembered

\* What becomes of the tree and the lists when a chain is adopted as n.
Adopts ==
  \E n \in Node \ drawn, node \in NodeRec, chain \in Chain, anchors \in Anchors, now \in Int :
    /\ up
    /\ MayAdopt(chain, anchors, now)
    /\ Mints(n, node)
    /\ node.parent = NoNode /\ node.auth = Body[Leaf(chain)].auth
    /\ node.ttl \in Int /\ node.ttl <= Window(chain)
    /\ drawn' = drawn \cup {n}
    /\ adopted' = Put(adopted, Leaf(chain), [node |-> n, window |-> Window(chain)])
    /\ chainOf' = Put(chainOf, n, Certs(chain))
    /\ records' = records \cup {[leaf |-> Leaf(chain), node |-> n]}
    /\ UNCHANGED <<up, pin, poisoned, denied, saved, gone>>

\* An adopted node is renewed, within the window of its chain.
Renews ==
  \E c \in DOMAIN adopted, d \in Int :
    /\ d <= adopted[c].window
    /\ Child(adopted[c].node, NoNode)
    /\ Stays /\ Unmarked
    /\ tree' \in [Nodes -> NodeRec]
    /\ \A n \in Nodes : \/ tree'[n].ttl = tree[n].ttl
                        \/ n = adopted[c].node /\ tree'[n].ttl = d
    /\ UNCHANGED <<drawn, saved>>
    /\ UNCHANGED remembered

\* A revocation retires certificates, and the list is written or not.
Withdraws ==
  /\ Stays /\ Untimed
  /\ tree' \in [Nodes -> NodeRec]
  /\ up
  /\ denied' = denied \cup CertsRevoked(tree')
  /\ Persist(denied') \/ UNCHANGED <<saved, gone>>
  /\ UNCHANGED <<up, pin, poisoned, adopted, chainOf, drawn, records>>

\* Types of what tree and clock are made of; the records of revocations outlive the
\* tree they are about, so this is not all of TypeOK.
TreeTypes == TreeOK /\ seq \in Nat \ {0} /\ hiWater \in Int

Types ==
  /\ AdoptionTypeOK
  /\ TreeTypes
  /\ \A n \in DOMAIN chainOf : chainOf[n] \subseteq Cert

\* The ratcheted clock is a time.
LEMMA RatchetIsTime ==
  ASSUME TreeTypes, NEW reading \in Reading
  PROVE  Ratchet(reading) \in Int
BY ConstantsAreSane DEF TreeTypes, Ratchet

\* The counter after a call that took a seq, or two.
LEMMA SeqStays ==
  ASSUME TreeTypes, NEW floor \in Floor
  PROVE  /\ SeqFrom(floor) \in Nat \ {0}
         /\ TakeSeq(floor) \/ TakeTwoSeqs(floor) => seq' \in Nat \ {0}
BY ConstantsAreSane DEF TreeTypes, SeqFrom, TakeSeq, TakeTwoSeqs

\* Presenting a chain adopts it, or does nothing (adopt, withdraw_unrecorded).
LEMMA AdoptingShape ==
  ASSUME Types, Adopting
  PROVE  (Adopts \/ Idles) /\ seq' \in Nat \ {0} /\ hiWater' \in Int
<1> PICK chain \in Chain, anchors \in Anchors, reading \in Reading, floor \in Floor :
       \/ AdoptRefused(chain, anchors, reading, floor)
       \/ \E n \in Node : \/ Adopt(chain, anchors, n, reading, floor)
                          \/ AdoptUnrecorded(chain, anchors, n, reading, floor)
  BY DEF Adopting
<1>1. Ratchet(reading) \in Int /\ (TakeSeq(floor) \/ TakeTwoSeqs(floor) => seq' \in Nat \ {0})
  BY RatchetIsTime, SeqStays DEF Types
<1>2. CASE AdoptRefused(chain, anchors, reading, floor)
  BY <1>1, <1>2 DEF AdoptRefused, Idles, adoption, remembered
<1>3. ASSUME NEW n \in Node, AdoptUnrecorded(chain, anchors, n, reading, floor)
      PROVE  Idles /\ seq' \in Nat \ {0} /\ hiWater' \in Int
  BY <1>1, <1>3 DEF AdoptUnrecorded, Idles, remembered
<1>4. ASSUME NEW n \in Node, Adopt(chain, anchors, n, reading, floor)
      PROVE  Adopts /\ seq' \in Nat \ {0} /\ hiWater' \in Int
  <2> DEFINE now == Ratchet(reading)
             ttl == AdoptedTtl(chain, now)
             node == [parent |-> NoNode, auth |-> Body[Leaf(chain)].auth,
                      ttl |-> ttl, revokedBy |-> 0]
  <2>1. chain # <<>> /\ MayAdopt(chain, anchors, now)
    BY <1>4 DEF Adopt, MayAdopt, VerifyChain
  <2>2. ttl \in Int /\ ttl <= Window(chain)
    BY <1>1, <2>1, TtlInWindow
  <2>3. Body[Leaf(chain)].auth \in Grant
    BY <2>1, ChainParts, AdoptionConstants DEF CertBody
  <2>4. /\ up /\ n \in Node \ drawn
        /\ tree' = Insert(n, node)
        /\ drawn' = drawn \cup {n}
        /\ adopted' = Put(adopted, Leaf(chain), [node |-> n, window |-> Window(chain)])
        /\ chainOf' = Put(chainOf, n, Certs(chain))
        /\ records' = records \cup {[leaf |-> Leaf(chain), node |-> n]}
        /\ UNCHANGED <<up, pin, poisoned, denied, saved, gone>>
    BY <1>4 DEF Adopt
  <2> HIDE DEF ttl, now
  <2>5. node \in NodeRec /\ node.parent = NoNode /\ node.revokedBy = 0 /\ node.ttl = ttl
        /\ node.auth = Body[Leaf(chain)].auth
    BY <2>2, <2>3 DEF NodeRec
  <2> HIDE DEF node
  <2>6. Mints(n, node)
    BY <2>4, <2>5 DEF Mints, Types, AdoptionTypeOK
  <2>7. now \in Int /\ node.ttl \in Int /\ node.ttl <= Window(chain)
    BY <1>1, <2>2, <2>5 DEF now
  <2>8. Adopts
    BY <2>1, <2>4, <2>5, <2>6, <2>7 DEF Adopts
  <2> QED
    BY <1>1, <1>4, <2>8 DEF Adopt
<1> QED
  BY <1>2, <1>3, <1>4

\* A receipt renews within the window, or does nothing (renew_undoable).
LEMMA RenewingShape ==
  ASSUME Types, Renewing
  PROVE  (Renews \/ Idles) /\ seq' \in Nat \ {0} /\ hiWater' \in Int
<1> PICK receipt \in Receipt, anchors \in Anchors, reading \in Reading, floor \in Floor :
       \/ Renew(receipt, anchors, reading, floor)
       \/ RenewUnrecorded(receipt, anchors, reading, floor)
  BY DEF Renewing
<1>1. Ratchet(reading) \in Int /\ (TakeSeq(floor) => seq' \in Nat \ {0})
  BY RatchetIsTime, SeqStays DEF Types
<1>2. CASE RenewUnrecorded(receipt, anchors, reading, floor)
  BY <1>1, <1>2 DEF RenewUnrecorded, Idles, adoption, remembered, Types, AdoptionTypeOK
<1>3. CASE Renew(receipt, anchors, reading, floor)
  <2> DEFINE c == receipt.certificate
             n == adopted[c].node
             d == RenewedTo(receipt)
  <2>1. c \in DOMAIN adopted /\ adopted[c] \in [node : Nodes, window : Int]
    BY <1>3 DEF Renew, MayRenew, Types, AdoptionTypeOK
  <2>2. receipt.notAfter \in Int
    BY AdoptionConstants
  <2>3. d \in Int /\ d <= adopted[c].window
    BY <2>1, <2>2, MinTwo DEF RenewedTo
  <2>4. /\ n \in Nodes /\ Child(n, NoNode)
        /\ tree' = IF tree[n].ttl >= d THEN tree ELSE [tree EXCEPT ![n].ttl = d]
        /\ hiWater' = Ratchet(reading) /\ TakeSeq(floor)
    BY <1>3 DEF Renew, ExtendTtl
  <2>5. tree \in [Nodes -> NodeRec]
    BY DEF Types, TreeTypes, TreeOK
  <2> HIDE DEF n, d
  <2>6. ASSUME NEW m \in Nodes
        PROVE  /\ tree'[m] \in NodeRec
               /\ tree'[m].parent = tree[m].parent
               /\ tree'[m].auth = tree[m].auth
               /\ tree'[m].revokedBy = tree[m].revokedBy
               /\ tree'[m].ttl = tree[m].ttl \/ (m = n /\ tree'[m].ttl = d)
    <3>1. tree[m] \in NodeRec
      BY <2>5
    <3>2. tree'[m] = tree[m] \/ (m = n /\ tree'[m] = [tree[m] EXCEPT !.ttl = d])
      BY <2>4, <2>5
    <3> QED
      BY <2>3, <3>1, <3>2 DEF NodeRec
  <2>7. Nodes' = Nodes /\ tree' \in [Nodes -> NodeRec]
    BY <2>4, <2>5, <2>6 DEF Nodes
  <2>8. Stays /\ Unmarked
    BY <2>6, <2>7 DEF Stays, Unmarked
  <2>9. UNCHANGED <<drawn, saved>> /\ UNCHANGED remembered
    BY <1>3 DEF Renew, remembered
  <2>10. Renews
    BY <2>1, <2>3, <2>4, <2>6, <2>7, <2>8, <2>9 DEF Renews, n
  <2> QED
    BY <1>1, <2>4, <2>10
<1> QED
  BY <1>2, <1>3

\* Roots and hand-outs (issue_root, attenuate).
LEMMA HandingShape ==
  ASSUME Types, Handing
  PROVE  Hands /\ seq' \in Nat \ {0} /\ hiWater' \in Int
<1> PICK n \in Node, request \in Request, ttl \in Deadline \cup {NoTtl},
         reading \in Reading, floor \in Floor :
       \/ IssueRoot(n, request, ttl, reading, floor)
       \/ \E p \in Nodes : HandDown(p, n, request, ttl, reading, floor)
  BY DEF Handing
<1>1. Ratchet(reading) \in Int /\ (TakeSeq(floor) => seq' \in Nat \ {0})
  BY RatchetIsTime, SeqStays DEF Types
<1>2. ttl \in Int \cup {NoTtl} /\ request \in Grant
  BY ConstantsAreSane
<1>3. CASE IssueRoot(n, request, ttl, reading, floor)
  <2> DEFINE node == [parent |-> NoNode, auth |-> request, ttl |-> ttl, revokedBy |-> 0]
  <2>1. node \in NodeRec
    BY <1>2 DEF NodeRec
  <2>2. Mints(n, node)
    BY <1>3, <2>1 DEF Mints, IssueRoot, Issue
  <2>3. Hands
    <3>1. up /\ pin = NoPin /\ n \notin drawn /\ drawn' = drawn \cup {n}
          /\ UNCHANGED saved /\ UNCHANGED remembered
      BY <1>3 DEF IssueRoot, remembered
    <3> HIDE DEF node
    <3> QED
      BY <2>1, <2>2, <3>1 DEF Hands
  <2> QED
    BY <1>1, <1>3, <2>3 DEF IssueRoot, Issue
<1>4. ASSUME NEW p \in Nodes, HandDown(p, n, request, ttl, reading, floor)
      PROVE  Hands /\ seq' \in Nat \ {0} /\ hiWater' \in Int
  <2> DEFINE auth == InheritBudget(request, tree[p].auth)
             node == [parent |-> p, auth |-> auth, ttl |-> ttl, revokedBy |-> 0]
  <2>1. tree[p].auth \in Grant /\ p \in Node
    BY DEF Types, TreeTypes, TreeOK, NodeRec
  <2>2. auth \in Grant
    BY <1>2, <2>1, InheritType
  <2>3. /\ n \in Node \ Nodes
        /\ tree' = Insert(n, node)
        /\ Within(auth, tree[p].auth)
        /\ LiveAt(p, hiWater')
        /\ hiWater' = Ratchet(reading) /\ TakeSeq(floor)
    BY <1>4 DEF HandDown, Attenuate, MayAttenuate
  <2> HIDE DEF auth
  <2>4. node \in NodeRec
    BY <1>2, <2>1, <2>2 DEF NodeRec
  <2>5. Mints(n, node) /\ node.parent = p
    BY <2>3, <2>4 DEF Mints
  <2>6. p # NoNode
    BY <2>1, ConstantsAreSane
  <2>7. up /\ n \notin drawn /\ drawn' = drawn \cup {n} /\ UNCHANGED saved /\ UNCHANGED remembered
    BY <1>4 DEF HandDown, remembered
  <2> HIDE DEF node
  <2>8. Hands
    BY <2>4, <2>5, <2>6, <2>7 DEF Hands
  <2> QED
    BY <1>1, <2>3, <2>8
<1> QED
  BY <1>3, <1>4

\* A revocation on the tree, answered whether or not the list was written
\* (revoke_core, persist_adoption_revocations); or the daemon stops within one.
LEMMA WithdrawingShape ==
  ASSUME Types, Withdrawing
  PROVE  (Withdraws \/ Forget) /\ seq' \in Nat \ {0} /\ hiWater' \in Int
<1> PICK caller \in Nodes, target \in Nodes, floor \in Floor :
       \/ StopRevoking(caller, target, floor)
       \/ \E reading \in Reading : RevokeAdopted(caller, target, reading, floor)
  BY DEF Withdrawing
<1>1. SeqFrom(floor) \in Nat /\ (TakeSeq(floor) => seq' \in Nat \ {0})
  BY SeqStays DEF Types
<1>2. CASE StopRevoking(caller, target, floor)
  BY <1>1, <1>2, ConstantsAreSane DEF StopRevoking, Forget
<1>3. ASSUME NEW reading \in Reading, RevokeAdopted(caller, target, reading, floor)
      PROVE  Withdraws /\ seq' \in Nat \ {0} /\ hiWater' \in Int
  <2>1. /\ tree' = [n \in Nodes |->
                      IF n \in Subtree(target) /\ ~Revoked(n)
                      THEN [tree[n] EXCEPT !.revokedBy = SeqFrom(floor)]
                      ELSE tree[n]]
        /\ hiWater' = Ratchet(reading)
        /\ TakeSeq(floor)
    BY <1>3 DEF RevokeAdopted, Revoke
  <2>2. ASSUME NEW n \in Nodes
        PROVE  /\ tree'[n] \in NodeRec
               /\ tree'[n].parent = tree[n].parent
               /\ tree'[n].auth = tree[n].auth
               /\ tree'[n].ttl = tree[n].ttl
    <3>1. tree[n] \in NodeRec
      BY DEF Types, TreeTypes, TreeOK
    <3>2. tree'[n] = tree[n] \/ tree'[n] = [tree[n] EXCEPT !.revokedBy = SeqFrom(floor)]
      BY <2>1
    <3> QED
      BY <1>1, <3>1, <3>2 DEF NodeRec
  <2>3. Nodes' = Nodes /\ tree' \in [Nodes -> NodeRec]
    BY <2>1, <2>2 DEF Nodes
  <2>4. Stays /\ Untimed
    BY <2>2, <2>3 DEF Stays, Untimed
  <2>5. Withdraws
    BY <1>3, <2>3, <2>4 DEF Withdraws, RevokeAdopted
  <2> QED
    BY <1>1, <2>1, <2>5, RatchetIsTime DEF Types
<1> QED
  BY <1>2, <1>3

\* Every step is of one of these shapes.
LEMMA AdoptionStepShape ==
  ASSUME Types, [AdoptionNext]_<<vars, adoption>>
  PROVE  /\ \/ Idles \/ Hands \/ Adopts \/ Renews \/ Withdraws
            \/ Forget
            \/ \E policy \in Policy : Start(policy)
         /\ seq' \in Nat \ {0} /\ hiWater' \in Int
<1>1. CASE Adopting
  BY <1>1, AdoptingShape
<1>2. CASE Renewing
  BY <1>2, RenewingShape
<1>3. CASE Handing
  BY <1>3, HandingShape
<1>4. CASE Withdrawing
  BY <1>4, WithdrawingShape
<1>5. CASE Stop
  BY <1>5, ConstantsAreSane DEF Stop, Forget, Types, TreeTypes
<1>6. CASE \E policy \in Policy : Start(policy)
  BY <1>6 DEF Start, vars, Types, TreeTypes
<1>7. CASE \E damage \in Damage : Spoil(damage)
  BY <1>7 DEF Spoil, Idles, vars, remembered, Types, TreeTypes
<1>8. CASE UNCHANGED <<vars, adoption>>
  BY <1>8 DEF Idles, vars, adoption, remembered, Types, TreeTypes
<1> QED
  BY <1>1, <1>2, <1>3, <1>4, <1>5, <1>6, <1>7, <1>8 DEF AdoptionNext

-----------------------------------------------------------------------------
(* Types.                                                                  *)

\* What a mint does to the types of the tree.
LEMMA MintType ==
  ASSUME Types, NEW n \in Node, NEW node \in NodeRec, Mints(n, node)
  PROVE  TreeOK' /\ Nodes' = Nodes \cup {n} /\ n \notin Nodes
         /\ tree'[n] = node /\ \A m \in Nodes : tree'[m] = tree[m]
<1>1. /\ Nodes' = Nodes \cup {n} /\ n \notin Nodes
      /\ tree'[n] = node /\ \A m \in Nodes : tree'[m] = tree[m]
  BY MintKeeps
<1>2. tree' \in [Nodes' -> NodeRec]
  BY <1>1 DEF Mints, Insert, Types, TreeTypes, TreeOK
<1>3. \A m \in Nodes' : tree'[m].parent \in Nodes' \cup {NoNode}
  BY <1>1 DEF Mints, Types, TreeTypes, TreeOK
<1> QED
  BY <1>1, <1>2, <1>3 DEF Types, TreeTypes, TreeOK

\* What a step that keeps the nodes does.
LEMMA StaysType ==
  ASSUME Types, Stays, tree' \in [Nodes -> NodeRec]
  PROVE  TreeOK' /\ Nodes' = Nodes
         /\ \A n \in Nodes : /\ tree'[n].parent = tree[n].parent
                             /\ tree'[n].auth = tree[n].auth
BY DEF Stays, Types, TreeTypes, TreeOK

\* What a revocation retires is certificates.
LEMMA RetiredType ==
  ASSUME Types, NEW t
  PROVE  CertsRevoked(t) \subseteq Cert
BY DEF CertsRevoked, Types

\* Every step keeps the types.
LEMMA TypesStep ==
  ASSUME Types, [AdoptionNext]_<<vars, adoption>>
  PROVE  Types'
<1>1. seq' \in Nat \ {0} /\ hiWater' \in Int
  BY AdoptionStepShape
<1>2. CASE Idles
  <2>1. Nodes' = Nodes /\ TreeOK'
    BY <1>2 DEF Idles, Nodes, Types, TreeTypes, TreeOK
  <2> QED
    BY <1>1, <1>2, <2>1 DEF Idles, remembered, Types, AdoptionTypeOK, TreeTypes, Child
<1>3. CASE Hands
  <2>1. PICK n \in Node \ drawn, node \in NodeRec :
          /\ up
          /\ Mints(n, node)
          /\ drawn' = drawn \cup {n}
          /\ UNCHANGED saved
          /\ UNCHANGED remembered
    BY <1>3 DEF Hands
  <2>2. TreeOK' /\ Nodes' = Nodes \cup {n} /\ \A m \in Nodes : tree'[m] = tree[m]
    BY <2>1, MintType
  <2> QED
    BY <1>1, <2>1, <2>2 DEF remembered, Types, AdoptionTypeOK, TreeTypes, Child
<1>4. CASE Adopts
  <2>1. PICK n \in Node \ drawn, node \in NodeRec, chain \in Chain, anchors \in Anchors,
             now \in Int :
          /\ up
          /\ MayAdopt(chain, anchors, now)
          /\ Mints(n, node)
          /\ node.parent = NoNode /\ node.ttl \in Int
          /\ drawn' = drawn \cup {n}
          /\ adopted' = Put(adopted, Leaf(chain), [node |-> n, window |-> Window(chain)])
          /\ chainOf' = Put(chainOf, n, Certs(chain))
          /\ UNCHANGED <<up, pin, poisoned, denied, saved>>
    BY <1>4 DEF Adopts
  <2>2. TreeOK' /\ Nodes' = Nodes \cup {n} /\ n \notin Nodes
        /\ tree'[n] = node /\ \A m \in Nodes : tree'[m] = tree[m]
    BY <2>1, MintType
  <2>3. chain # <<>> /\ Certs(chain) \subseteq Cert /\ Window(chain) \in Int
    BY <2>1, ChainParts, WindowIsLeast DEF MayAdopt, VerifyChain
  <2>4. \A c \in DOMAIN adopted' : adopted'[c] \in [node : Nodes', window : Int]
    <3> SUFFICES ASSUME NEW c \in DOMAIN adopted'
                 PROVE  adopted'[c] \in [node : Nodes', window : Int]
      OBVIOUS
    <3>1. CASE c = Leaf(chain)
      BY <2>1, <2>2, <2>3, <3>1 DEF Put
    <3>2. CASE c # Leaf(chain)
      <4>1. c \in DOMAIN adopted /\ adopted'[c] = adopted[c]
        BY <2>1, <3>2 DEF Put
      <4> QED
        BY <2>2, <4>1 DEF Types, AdoptionTypeOK
    <3> QED
      BY <3>1, <3>2
  <2>5. DOMAIN chainOf' \subseteq {m \in Nodes' : Child(m, NoNode)' /\ tree'[m].ttl # NoTtl}
    <3>1. DOMAIN chainOf' = DOMAIN chainOf \cup {n}
      BY <2>1 DEF Put
    <3>2. tree'[n].parent = NoNode /\ tree'[n].ttl # NoTtl
      BY <2>1, <2>2, ConstantsAreSane
    <3> QED
      BY <2>2, <3>1, <3>2 DEF Types, AdoptionTypeOK, Child
  <2>6. \A m \in DOMAIN chainOf' : chainOf'[m] \subseteq Cert
    <3> SUFFICES ASSUME NEW m \in DOMAIN chainOf' PROVE chainOf'[m] \subseteq Cert
      OBVIOUS
    <3>1. CASE m = n
      BY <2>1, <2>3, <3>1 DEF Put
    <3>2. CASE m # n
      <4>1. m \in DOMAIN chainOf /\ chainOf'[m] = chainOf[m]
        BY <2>1, <3>2 DEF Put
      <4> QED
        BY <4>1 DEF Types
    <3> QED
      BY <3>1, <3>2
  <2>7. AdoptionTypeOK'
    BY <2>1, <2>2, <2>4, <2>5 DEF Types, AdoptionTypeOK
  <2> QED
    BY <1>1, <2>2, <2>6, <2>7 DEF Types, TreeTypes
<1>5. CASE Renews
  <2>1. /\ Stays /\ tree' \in [Nodes -> NodeRec]
        /\ \A n \in Nodes : tree'[n].ttl = tree[n].ttl \/ tree'[n].ttl \in Int
        /\ UNCHANGED <<drawn, saved>>
        /\ UNCHANGED remembered
    BY <1>5 DEF Renews
  <2>2. TreeOK' /\ Nodes' = Nodes /\ \A n \in Nodes : tree'[n].parent = tree[n].parent
    BY <2>1, StaysType
  <2>3. \A n \in Nodes : tree[n].ttl # NoTtl => tree'[n].ttl # NoTtl
    BY <2>1, ConstantsAreSane
  <2> QED
    BY <1>1, <2>1, <2>2, <2>3 DEF remembered, Types, AdoptionTypeOK, TreeTypes, Child
<1>6. CASE Withdraws
  <2>1. /\ Stays /\ Untimed /\ tree' \in [Nodes -> NodeRec]
        /\ up /\ denied' = denied \cup CertsRevoked(tree')
        /\ saved' = saved \/ saved' = denied'
        /\ UNCHANGED <<up, pin, poisoned, adopted, chainOf, drawn, records>>
    BY <1>6 DEF Withdraws, Persist
  <2>2. TreeOK' /\ Nodes' = Nodes /\ \A n \in Nodes : tree'[n].parent = tree[n].parent
    BY <2>1, StaysType
  <2>3. denied' \subseteq Cert
    BY <2>1, RetiredType DEF Types, AdoptionTypeOK
  <2> QED
    BY <1>1, <2>1, <2>2, <2>3 DEF Untimed, Types, AdoptionTypeOK, TreeTypes, Child
<1>7. CASE Forget
  <2>1. Nodes' = {} /\ TreeOK' /\ chainOf' = [n \in {} |-> {}]
    BY <1>7 DEF Forget, TreeOK, Nodes
  <2> QED
    BY <1>1, <1>7, <2>1 DEF Forget, Types, AdoptionTypeOK, TreeTypes
<1>8. ASSUME NEW policy \in Policy, Start(policy)
      PROVE  Types'
  <2>1. /\ tree' = tree /\ ~up /\ up' = TRUE /\ pin' = policy
        /\ denied' = IF saved \in {Unparsed, Unread} THEN {} ELSE saved
        /\ poisoned' \in BOOLEAN
        /\ UNCHANGED <<adopted, chainOf, saved, drawn>>
    BY <1>8 DEF Start, vars
  <2>2. Nodes' = Nodes /\ TreeOK'
    BY <2>1 DEF Nodes, Types, TreeTypes, TreeOK
  <2>3. denied' \subseteq Cert
    BY <2>1, AdoptionConstants DEF Types, AdoptionTypeOK
  <2> QED
    BY <1>1, <2>1, <2>2, <2>3 DEF Types, AdoptionTypeOK, TreeTypes, Child
<1> QED
  BY <1>2, <1>3, <1>4, <1>5, <1>6, <1>7, <1>8, AdoptionStepShape

\* A daemon that was never started holds nothing.
LEMMA TypesInit ==
  ASSUME AdoptionInit
  PROVE  Types
<1>1. Nodes = {} /\ TreeOK
  BY DEF AdoptionInit, Init, Nodes, TreeOK
<1>2. TreeTypes
  BY <1>1, ConstantsAreSane DEF AdoptionInit, Init, TreeTypes
<1>3. DOMAIN adopted = {} /\ DOMAIN chainOf = {}
  BY DEF AdoptionInit
<1>4. AdoptionTypeOK
  BY <1>1, <1>3 DEF AdoptionInit, AdoptionTypeOK
<1> QED
  BY <1>2, <1>3, <1>4 DEF Types

\* Types for every life of the daemon: what is adopted is a root with a deadline,
\* and a daemon that is down holds none.
THEOREM AdoptionTypeCorrect == AdoptionSpec => []AdoptionTypeOK
<1>1. Types => AdoptionTypeOK
  BY DEF Types
<1>2. Types /\ [AdoptionNext]_<<vars, adoption>> => Types'
  BY TypesStep
<1> QED
  BY <1>1, <1>2, TypesInit, PTL DEF AdoptionSpec

-----------------------------------------------------------------------------
(* Adoptions and their records.                                            *)

\* A step other than an adoption, a stop or a start leaves both alone.
LEMMA RemembersAdoptions ==
  ASSUME Idles \/ Hands \/ Renews \/ Withdraws \/ \E policy \in Policy : Start(policy)
  PROVE  UNCHANGED <<adopted, chainOf, records>>
BY DEF Idles, Hands, Renews, Withdraws, Start, remembered

\* Every step keeps them in agreement: an adoption enters both, an undone one
\* neither, and a stop empties both.
LEMMA AdoptionsAccountedStep ==
  ASSUME Types, AdoptionsAccounted, [AdoptionNext]_<<vars, adoption>>
  PROVE  AdoptionsAccounted'
<1>1. CASE UNCHANGED <<adopted, chainOf, records>>
  BY <1>1 DEF AdoptionsAccounted
<1>2. CASE Forget
  BY <1>2 DEF Forget, AdoptionsAccounted
<1>3. CASE Adopts
  <2>1. PICK n \in Node \ drawn, chain \in Chain :
          /\ Leaf(chain) \notin DOMAIN adopted
          /\ adopted' = Put(adopted, Leaf(chain), [node |-> n, window |-> Window(chain)])
          /\ chainOf' = Put(chainOf, n, Certs(chain))
          /\ records' = records \cup {[leaf |-> Leaf(chain), node |-> n]}
    BY <1>3 DEF Adopts, MayAdopt
  <2>2. /\ DOMAIN adopted' = DOMAIN adopted \cup {Leaf(chain)}
        /\ adopted'[Leaf(chain)].node = n
        /\ \A c \in DOMAIN adopted : adopted'[c] = adopted[c]
        /\ DOMAIN chainOf' = DOMAIN chainOf \cup {n}
    BY <2>1 DEF Put
  <2>3. {[leaf |-> c, node |-> adopted'[c].node] : c \in DOMAIN adopted'}
          = {[leaf |-> c, node |-> adopted[c].node] : c \in DOMAIN adopted}
            \cup {[leaf |-> Leaf(chain), node |-> n]}
    BY <2>2
  <2>4. {r.node : r \in records'} = {r.node : r \in records} \cup {n}
    <3> DEFINE new == [leaf |-> Leaf(chain), node |-> n]
    <3>1. new.node = n /\ records' = records \cup {new}
      BY <2>1
    <3> HIDE DEF new
    <3> QED
      BY <3>1
  <2> QED
    BY <2>1, <2>2, <2>3, <2>4 DEF AdoptionsAccounted
<1> QED
  BY <1>1, <1>2, <1>3, AdoptionStepShape, RemembersAdoptions

\* What the daemon remembers of adoptions is what the chain says of them, for any
\* number of them, undone ones and stops in between.
THEOREM AdoptionsStayAccounted == AdoptionSpec => []AdoptionsAccounted
<1>1. AdoptionInit => AdoptionsAccounted
  BY DEF AdoptionInit, AdoptionsAccounted
<1>2. Types /\ AdoptionsAccounted /\ [AdoptionNext]_<<vars, adoption>>
        => (Types /\ AdoptionsAccounted)'
  BY TypesStep, AdoptionsAccountedStep
<1> QED
  BY <1>1, <1>2, TypesInit, PTL DEF AdoptionSpec

-----------------------------------------------------------------------------
(* Bounded by the ground.                                                  *)

\* An adopted node is within each certificate of its chain, in what it may do and
\* in how long.
Grounded ==
  \A n \in DOMAIN chainOf : \A c \in chainOf[n] :
    /\ Within(tree[n].auth, Body[c].auth)
    /\ tree[n].ttl <= Body[c].notAfter

\* The window that receipts are held to is none but its chain's.
WindowsHold ==
  \A c \in DOMAIN adopted :
    /\ adopted[c].node \in DOMAIN chainOf
    /\ \A b \in chainOf[adopted[c].node] : adopted[c].window <= Body[b].notAfter

\* The inductive form: neighbours in the tree, the chain at the root, and what a
\* renewal may make of that.
GroundInv == WithinParent /\ Grounded /\ WindowsHold

\* Every step keeps hand-outs within their parents.
LEMMA ParentsBound ==
  ASSUME Types, WithinParent, [AdoptionNext]_<<vars, adoption>>
  PROVE  WithinParent'
<1>1. TreeOK
  BY DEF Types, TreeTypes
<1>2. CASE Hands \/ Adopts
  BY <1>1, <1>2, WithinParentKept DEF Hands, Adopts
<1>3. CASE tree' = tree
  BY <1>3 DEF WithinParent, Nodes
<1>4. CASE Renews \/ Withdraws
  BY <1>1, <1>4, WithinParentKept DEF Renews, Withdraws
<1>5. CASE Forget
  BY <1>5 DEF Forget, WithinParent, Nodes
<1> QED
  BY <1>2, <1>3, <1>4, <1>5, AdoptionStepShape DEF Idles, Start, vars

\* Every step keeps adopted nodes within their chains: an adoption takes the leaf's
\* authority and the chain's window, a renewal stays in that window, and nothing
\* else touches authority or deadline of a root.
LEMMA ChainsBound ==
  ASSUME Types, Grounded, WindowsHold, [AdoptionNext]_<<vars, adoption>>
  PROVE  Grounded' /\ WindowsHold'
<1>1. \A n \in DOMAIN chainOf : n \in Nodes /\ chainOf[n] \subseteq Cert
  BY DEF Types, AdoptionTypeOK
<1>2. ASSUME UNCHANGED <<adopted, chainOf>>,
             \A n \in Nodes : tree'[n].auth = tree[n].auth /\ tree'[n].ttl = tree[n].ttl
      PROVE  Grounded' /\ WindowsHold'
  BY <1>1, <1>2 DEF Grounded, WindowsHold
<1>3. CASE Idles \/ \E policy \in Policy : Start(policy)
  BY <1>2, <1>3, RemembersAdoptions DEF Idles, Start, vars
<1>4. CASE Hands
  <2>1. PICK n \in Node \ drawn, node \in NodeRec : Mints(n, node)
    BY <1>4 DEF Hands
  <2> QED
    BY <1>2, <1>4, <2>1, MintKeeps, RemembersAdoptions
<1>5. CASE Withdraws
  BY <1>2, <1>5, RemembersAdoptions DEF Withdraws, Stays, Untimed
<1>6. CASE Forget
  BY <1>6 DEF Forget, Grounded, WindowsHold
<1>7. CASE Renews
  <2>1. PICK c \in DOMAIN adopted, d \in Int :
          /\ d <= adopted[c].window
          /\ Stays
          /\ \A n \in Nodes : \/ tree'[n].ttl = tree[n].ttl
                              \/ n = adopted[c].node /\ tree'[n].ttl = d
    BY <1>7 DEF Renews
  <2>2. UNCHANGED <<adopted, chainOf>>
    BY <1>7, RemembersAdoptions
  <2>3. adopted[c] \in [node : Nodes, window : Int]
    BY DEF Types, AdoptionTypeOK
  <2>4. ASSUME NEW n \in DOMAIN chainOf, NEW b \in chainOf[n]
        PROVE  /\ Within(tree'[n].auth, Body[b].auth)
               /\ tree'[n].ttl <= Body[b].notAfter
    <3>1. n \in Nodes /\ b \in Cert /\ tree'[n].auth = tree[n].auth
      BY <1>1, <2>1, <2>4 DEF Stays
    <3>2. Body[b].notAfter \in Int
      BY <3>1, AdoptionConstants DEF CertBody
    <3>3. CASE tree'[n].ttl = tree[n].ttl
      BY <2>4, <3>1, <3>3 DEF Grounded
    <3>4. CASE n = adopted[c].node /\ tree'[n].ttl = d
      <4>1. adopted[c].window <= Body[b].notAfter
        BY <2>4, <3>4 DEF WindowsHold
      <4>2. d <= Body[b].notAfter
        BY <2>1, <2>3, <3>2, <4>1
      <4> QED
        BY <2>4, <3>1, <3>4, <4>2 DEF Grounded
    <3> QED
      BY <2>1, <3>1, <3>3, <3>4
  <2> QED
    BY <2>2, <2>4 DEF Grounded, WindowsHold
<1>8. CASE Adopts
  <2>1. PICK n \in Node \ drawn, node \in NodeRec, chain \in Chain, anchors \in Anchors,
             now \in Int :
          /\ MayAdopt(chain, anchors, now)
          /\ Mints(n, node)
          /\ node.auth = Body[Leaf(chain)].auth
          /\ node.ttl \in Int /\ node.ttl <= Window(chain)
          /\ adopted' = Put(adopted, Leaf(chain), [node |-> n, window |-> Window(chain)])
          /\ chainOf' = Put(chainOf, n, Certs(chain))
    BY <1>8 DEF Adopts
  <2>2. n \notin Nodes /\ tree'[n] = node /\ \A m \in Nodes : tree'[m] = tree[m]
    BY <2>1, MintKeeps
  <2>3. chain # <<>> /\ VerifyChain(chain, Trusted(anchors), now)
    BY <2>1 DEF MayAdopt, VerifyChain
  <2>4. ASSUME NEW c \in Certs(chain)
        PROVE  /\ Within(node.auth, Body[c].auth)
               /\ Window(chain) <= Body[c].notAfter
               /\ node.ttl <= Body[c].notAfter
    <3>1. Body[c].notAfter \in Int
      BY <2>3, ChainParts, AdoptionConstants DEF CertBody
    <3>2. Window(chain) \in Int /\ Window(chain) <= Body[c].notAfter
      BY <2>3, WindowIsLeast
    <3>3. Within(node.auth, Body[c].auth)
      BY <2>1, <2>3, ChainNarrows
    <3> QED
      BY <2>1, <3>1, <3>2, <3>3
  <2>5. /\ DOMAIN chainOf' = DOMAIN chainOf \cup {n}
        /\ chainOf'[n] = Certs(chain)
        /\ \A m \in DOMAIN chainOf : m # n /\ chainOf'[m] = chainOf[m]
    BY <1>1, <2>1, <2>2 DEF Put
  <2>6. Grounded'
    BY <1>1, <2>2, <2>4, <2>5 DEF Grounded
  <2>7. /\ DOMAIN adopted' = DOMAIN adopted \cup {Leaf(chain)}
        /\ adopted'[Leaf(chain)] = [node |-> n, window |-> Window(chain)]
        /\ \A c \in DOMAIN adopted : c # Leaf(chain) => adopted'[c] = adopted[c]
    BY <2>1 DEF Put
  <2>8. WindowsHold'
    <3> SUFFICES ASSUME NEW c \in DOMAIN adopted'
                 PROVE  /\ adopted'[c].node \in DOMAIN chainOf'
                        /\ \A b \in chainOf'[adopted'[c].node] :
                             adopted'[c].window <= Body[b].notAfter
      BY DEF WindowsHold
    <3>1. CASE c = Leaf(chain)
      BY <2>4, <2>5, <2>7, <3>1
    <3>2. CASE c # Leaf(chain)
      BY <2>5, <2>7, <3>2 DEF WindowsHold
    <3> QED
      BY <3>1, <3>2
  <2> QED
    BY <2>6, <2>8
<1> QED
  BY <1>3, <1>4, <1>5, <1>6, <1>7, <1>8, AdoptionStepShape

\* What holds of neighbours and of roots holds all the way down.
LEMMA GroundReaches ==
  ASSUME Types, GroundInv
  PROVE  BoundedByGround
<1> SUFFICES ASSUME NEW n \in Nodes, NEW a \in Path(n) \cap DOMAIN chainOf, NEW c \in chainOf[a]
             PROVE  /\ Within(tree[n].auth, Body[c].auth)
                    /\ Live(n) => hiWater < Body[c].notAfter
  BY DEF BoundedByGround
<1>1. a \in Nodes /\ c \in Cert /\ tree[a].ttl # NoTtl
  BY DEF Types, AdoptionTypeOK
<1>2. tree[a] \in NodeRec /\ tree[n] \in NodeRec /\ Body[c] \in CertBody /\ hiWater \in Int
  BY <1>1, AdoptionConstants DEF Types, TreeTypes, TreeOK
<1>3. tree[a].auth \in Grant /\ tree[n].auth \in Grant /\ Body[c].auth \in Grant
      /\ tree[a].ttl \in Int /\ Body[c].notAfter \in Int
  BY <1>1, <1>2 DEF NodeRec, CertBody
<1>4. Within(tree[n].auth, tree[a].auth)
  BY WithinChain DEF NothingWidens, Types, TreeTypes, GroundInv
<1>5. Within(tree[a].auth, Body[c].auth) /\ tree[a].ttl <= Body[c].notAfter
  BY DEF GroundInv, Grounded
<1>6. Within(tree[n].auth, Body[c].auth)
  BY <1>3, <1>4, <1>5, WithinTransitive
<1>7. ASSUME Live(n) PROVE hiWater < Body[c].notAfter
  <2>1. ~(hiWater >= tree[a].ttl)
    BY <1>1, <1>7 DEF Live, LiveAt, Expired
  <2> QED
    BY <1>2, <1>3, <1>5, <2>1
<1> QED
  BY <1>6, <1>7

\* Whatever is held under an adopted root, however far down and however often it was
\* renewed, is within every certificate of the chain, and dead with the first to
\* run out.
THEOREM GroundBounds == AdoptionSpec => []BoundedByGround
<1>1. AdoptionInit => GroundInv
  BY DEF AdoptionInit, Init, GroundInv, WithinParent, Grounded, WindowsHold, Nodes
<1>2. Types /\ GroundInv /\ [AdoptionNext]_<<vars, adoption>> => (Types /\ GroundInv)'
  BY TypesStep, ParentsBound, ChainsBound DEF GroundInv
<1>3. Types /\ GroundInv => BoundedByGround
  BY GroundReaches
<1> QED
  BY <1>1, <1>2, <1>3, TypesInit, PTL DEF AdoptionSpec

-----------------------------------------------------------------------------
(* Roots under a policy.                                                   *)

\* Every step keeps it: a pinned anchor replaces the caller's, no root is issued
\* under one, and a policy is read when there is no tree.
LEMMA AnchoredStep ==
  ASSUME Types, StrictRootsAnchored, [AdoptionNext]_<<vars, adoption>>
  PROVE  StrictRootsAnchored'
<1>1. CASE Forget
  BY <1>1 DEF Forget, StrictRootsAnchored, Nodes
<1>2. ASSUME NEW policy \in Policy, Start(policy)
      PROVE  StrictRootsAnchored'
  BY <1>2 DEF Start, vars, Types, AdoptionTypeOK, StrictRootsAnchored, Nodes
<1>3. ASSUME Nodes' = Nodes, \A n \in Nodes : tree'[n].parent = tree[n].parent,
             UNCHANGED <<pin, chainOf>>
      PROVE  StrictRootsAnchored'
  BY <1>3 DEF StrictRootsAnchored, Child
<1>4. CASE Idles \/ Renews \/ Withdraws
  <2>1. UNCHANGED <<pin, chainOf>>
    BY <1>4 DEF Idles, Renews, Withdraws, remembered
  <2>2. Nodes' = Nodes /\ \A n \in Nodes : tree'[n].parent = tree[n].parent
    BY <1>4 DEF Idles, Renews, Withdraws, Stays, Nodes
  <2> QED
    BY <1>3, <2>1, <2>2
<1>5. CASE Hands
  <2>1. PICK n \in Node \ drawn, node \in NodeRec :
          /\ Mints(n, node)
          /\ node.parent = NoNode => pin = NoPin
          /\ UNCHANGED <<pin, chainOf>>
    BY <1>5 DEF Hands, remembered
  <2>2. Nodes' = Nodes \cup {n} /\ tree'[n] = node /\ \A m \in Nodes : tree'[m] = tree[m]
    BY <2>1, MintKeeps
  <2> QED
    BY <2>1, <2>2 DEF StrictRootsAnchored, Child
<1>6. CASE Adopts
  <2>1. PICK n \in Node \ drawn, node \in NodeRec, chain \in Chain, anchors \in Anchors,
             now \in Int :
          /\ VerifyChain(chain, Trusted(anchors), now)
          /\ Mints(n, node)
          /\ chainOf' = Put(chainOf, n, Certs(chain))
          /\ UNCHANGED pin
    BY <1>6 DEF Adopts, MayAdopt
  <2>2. /\ Nodes' = Nodes \cup {n} /\ n \notin Nodes
        /\ \A m \in Nodes : tree'[m] = tree[m]
    BY <2>1, MintKeeps
  <2>3. ASSUME pin # NoPin
        PROVE  \E c \in Certs(chain) : Body[c].parent = Anchored /\ Body[c].signer = pin
    <3>1. chain # <<>> /\ chain[1] \in Certs(chain)
      BY <2>1, ChainParts DEF VerifyChain
    <3>2. Body[chain[1]].parent = Anchored /\ Body[chain[1]].issuer = pin /\ Signed(chain[1])
      BY <2>1, <2>3, <3>1 DEF VerifyChain, Trusted
    <3> QED
      BY <3>1, <3>2 DEF Signed
  <2>4. /\ DOMAIN chainOf' = DOMAIN chainOf \cup {n}
        /\ chainOf'[n] = Certs(chain)
        /\ \A m \in DOMAIN chainOf : m # n => chainOf'[m] = chainOf[m]
    BY <2>1 DEF Put
  <2> SUFFICES ASSUME pin # NoPin, NEW m \in Nodes', tree'[m].parent = NoNode
               PROVE  /\ m \in DOMAIN chainOf'
                      /\ \E c \in chainOf'[m] : Body[c].parent = Anchored /\ Body[c].signer = pin
    BY <2>1 DEF StrictRootsAnchored, Child
  <2>5. CASE m = n
    BY <2>3, <2>4, <2>5
  <2>6. CASE m # n
    <3>1. m \in Nodes /\ Child(m, NoNode)
      BY <2>2, <2>6 DEF Child
    <3>2. m \in DOMAIN chainOf
          /\ \E c \in chainOf[m] : Body[c].parent = Anchored /\ Body[c].signer = pin
      BY <3>1 DEF StrictRootsAnchored
    <3> QED
      BY <2>4, <2>6, <3>2
  <2> QED
    BY <2>5, <2>6
<1> QED
  BY <1>1, <1>2, <1>4, <1>5, <1>6, AdoptionStepShape

\* Under a root policy every root was signed by its anchor, whoever asked and with
\* whatever anchors; under an unreadable policy there is none.
THEOREM StrictRootsStayAnchored == AdoptionSpec => []StrictRootsAnchored
<1>1. AdoptionInit => StrictRootsAnchored
  BY DEF AdoptionInit, StrictRootsAnchored
<1>2. Types /\ StrictRootsAnchored /\ [AdoptionNext]_<<vars, adoption>>
        => (Types /\ StrictRootsAnchored)'
  BY TypesStep, AnchoredStep
<1> QED
  BY <1>1, <1>2, TypesInit, PTL DEF AdoptionSpec

-----------------------------------------------------------------------------
(* Retirement.                                                             *)

\* A running daemon has retired what it saw revoked.
Retires == up => CertsRevoked(tree) \subseteq denied

\* It also knows all that ever reached the disk; or, started on a list it could not
\* parse, nothing, and then it adopts nothing and has nothing to revoke.
Remembers ==
  up => \/ gone \subseteq denied
        \/ poisoned /\ denied = {} /\ DOMAIN chainOf = {}

\* The inductive form: disk and memory each hold what a start or a write needs.
RetireInv == RevocationsOnDisk /\ Retires /\ Remembers

\* Every step keeps the list on disk whole, unless it was damaged.
LEMMA RetireStep ==
  ASSUME Types, RetireInv, Unread \notin Damage, [AdoptionNext]_<<vars, adoption>>
  PROVE  RetireInv'
<1>1. \A n \in DOMAIN chainOf : n \in Nodes
  BY DEF Types, AdoptionTypeOK
<1>2. Damage \subseteq {Unparsed, Unread}
  BY AdoptionConstants
<1>3. ASSUME UNCHANGED <<up, poisoned, chainOf, denied, gone>>,
             saved' = saved \/ saved' \in Damage,
             \A n \in Nodes : tree'[n].revokedBy = tree[n].revokedBy
      PROVE  RetireInv'
  <2>1. CertsRevoked(tree)' = CertsRevoked(tree)
    BY <1>1, <1>3 DEF CertsRevoked
  <2>2. Retires'
    BY <1>3, <2>1 DEF RetireInv, Retires
  <2>3. RevocationsOnDisk'
    BY <1>2, <1>3 DEF RetireInv, RevocationsOnDisk
  <2> QED
    BY <1>3, <2>2, <2>3 DEF RetireInv, Remembers
<1>4. CASE Idles
  BY <1>3, <1>4 DEF Idles, remembered
<1>5. CASE Hands
  <2>1. PICK n \in Node \ drawn, node \in NodeRec :
          Mints(n, node) /\ UNCHANGED saved /\ UNCHANGED remembered
    BY <1>5 DEF Hands
  <2> QED
    BY <1>3, <2>1, MintKeeps DEF remembered
<1>6. CASE Renews
  BY <1>3, <1>6 DEF Renews, Unmarked, remembered
<1>7. CASE Adopts
  <2>1. PICK n \in Node \ drawn, node \in NodeRec, chain \in Chain :
          /\ ~poisoned
          /\ Mints(n, node)
          /\ chainOf' = Put(chainOf, n, Certs(chain))
          /\ UNCHANGED <<up, pin, poisoned, denied, saved, gone>>
    BY <1>7 DEF Adopts, MayAdopt
  <2>2. n \notin Nodes /\ tree'[n] = node /\ \A m \in Nodes : tree'[m] = tree[m]
    BY <2>1, MintKeeps
  <2>3. /\ DOMAIN chainOf' = DOMAIN chainOf \cup {n}
        /\ \A m \in DOMAIN chainOf : m # n /\ chainOf'[m] = chainOf[m]
    BY <1>1, <2>1, <2>2 DEF Put
  <2>4. tree'[n].revokedBy = 0
    BY <2>1, <2>2 DEF Mints
  <2>5. CertsRevoked(tree)' \subseteq CertsRevoked(tree)
    BY <1>1, <2>2, <2>3, <2>4 DEF CertsRevoked
  <2> QED
    BY <2>1, <2>5 DEF RetireInv, RevocationsOnDisk, Retires, Remembers
<1>8. CASE Withdraws
  <2>1. /\ up /\ UNCHANGED <<up, poisoned, chainOf>>
        /\ denied' = denied \cup CertsRevoked(tree')
        /\ Persist(denied') \/ UNCHANGED <<saved, gone>>
    BY <1>8 DEF Withdraws
  <2>2. CertsRevoked(tree') = CertsRevoked(tree)'
    BY <2>1 DEF CertsRevoked
  <2>3. Retires'
    BY <2>1, <2>2 DEF Retires
  <2>4. CASE gone \subseteq denied
    BY <2>1, <2>3, <2>4 DEF Persist, RetireInv, RevocationsOnDisk, Remembers
  <2>5. CASE poisoned /\ denied = {} /\ DOMAIN chainOf = {}
    <3>1. CertsRevoked(tree') = {}
      BY <2>5 DEF CertsRevoked
    <3> QED
      BY <2>1, <2>3, <2>5, <3>1 DEF Persist, RetireInv, RevocationsOnDisk, Remembers
  <2> QED
    BY <2>1, <2>4, <2>5 DEF RetireInv, Remembers
<1>9. CASE Forget
  BY <1>9 DEF Forget, RetireInv, RevocationsOnDisk, Retires, Remembers
<1>10. ASSUME NEW policy \in Policy, Start(policy)
       PROVE  RetireInv'
  <2>1. /\ ~up /\ UNCHANGED <<tree, chainOf, saved, gone>>
        /\ denied' = IF saved \in {Unparsed, Unread} THEN {} ELSE saved
        /\ poisoned' = (saved = Unparsed \/ policy = BadPolicy)
    BY <1>10 DEF Start, vars
  <2>2. DOMAIN chainOf = {}
    BY <1>1, <2>1 DEF Types, AdoptionTypeOK
  <2>3. saved # Unread
    BY AdoptionConstants DEF Types, AdoptionTypeOK
  <2>4. CertsRevoked(tree)' = {}
    BY <2>1, <2>2 DEF CertsRevoked
  <2>5. RevocationsOnDisk'
    BY <2>1 DEF RetireInv, RevocationsOnDisk
  <2>6. Remembers'
    <3>1. CASE saved = Unparsed
      BY <2>1, <2>2, <3>1 DEF Remembers
    <3>2. CASE saved # Unparsed
      BY <2>1, <2>3, <3>2 DEF RetireInv, RevocationsOnDisk, Remembers
    <3> QED
      BY <3>1, <3>2
  <2> QED
    BY <2>4, <2>5, <2>6 DEF RetireInv, Retires
<1> QED
  BY <1>4, <1>5, <1>6, <1>7, <1>8, <1>9, <1>10, AdoptionStepShape

\* An adoption is of a chain with no certificate retired, and what was revoked is.
LEMMA NoneComesBack ==
  ASSUME Types, AdoptionsAccounted, RetireInv, [AdoptionNext]_<<vars, adoption>>,
         NEW r \in records' \ records
  PROVE  chainOf'[r.node] \cap (gone \cup CertsRevoked(tree)) = {}
<1>1. Adopts
  BY AdoptionStepShape, RemembersAdoptions DEF Forget
<1>2. PICK n \in Node \ drawn, chain \in Chain :
        /\ up /\ ~poisoned
        /\ Certs(chain) \cap denied = {}
        /\ chainOf' = Put(chainOf, n, Certs(chain))
        /\ records' = records \cup {[leaf |-> Leaf(chain), node |-> n]}
  BY <1>1 DEF Adopts, MayAdopt
<1>3. r.node = n
  BY <1>2
<1>4. chainOf'[n] = Certs(chain)
  BY <1>2 DEF Put
<1>5. gone \subseteq denied /\ CertsRevoked(tree) \subseteq denied
  BY <1>2 DEF RetireInv, Retires, Remembers
<1> QED
  BY <1>2, <1>3, <1>4, <1>5

\* What is revoked stays revoked, on disk and at every later adoption, over stops,
\* starts, failed writes and a list damaged so that it does not parse.  A list that
\* cannot be read is the one damage this does not hold for.
THEOREM RetirementStands ==
  ASSUME Unread \notin Damage
  PROVE  AdoptionSpec => RetirementLasts
<1> DEFINE Inv == Types /\ AdoptionsAccounted /\ RetireInv
<1>1. AdoptionInit => Inv
  <2>1. AdoptionInit => AdoptionsAccounted /\ RetireInv
    BY DEF AdoptionInit, AdoptionsAccounted, RetireInv, RevocationsOnDisk, Retires, Remembers
  <2> QED
    BY <2>1, TypesInit
<1>2. Inv /\ [AdoptionNext]_<<vars, adoption>> => Inv'
  BY TypesStep, AdoptionsAccountedStep, RetireStep
<1>3. Inv /\ [AdoptionNext]_<<vars, adoption>> =>
        [\A r \in records' \ records :
            chainOf'[r.node] \cap (gone \cup CertsRevoked(tree)) = {}]_<<vars, adoption>>
  BY NoneComesBack
<1>4. Inv => RevocationsOnDisk
  BY DEF RetireInv
<1> QED
  BY <1>1, <1>2, <1>3, <1>4, PTL DEF AdoptionSpec, RetirementLasts, RetiredStaysOut
=============================================================================
