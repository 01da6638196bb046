---------------------------- MODULE Lease_proofs ----------------------------
(***************************************************************************)
(* Proofs about lease tokens, for any ids, keys and peers, any number of   *)
(* calls, and stops of the daemon anywhere.                                *)
(***************************************************************************)
EXTENDS Lease, SequenceTheorems, TLAPS

(***************************************************************************)
(* What one step may do to nodes, bindings and records.  All steps but a   *)
(* redemption and a stop are of the first shape.                           *)
(***************************************************************************)

\* Nodes are only added, under ids never drawn before and bound to nobody.
Grows ==
  /\ Nodes \subseteq Nodes'
  /\ (Nodes' \ Nodes) \cap drawn = {}
  /\ Nodes' \ Nodes \subseteq Node
  /\ Nodes' \subseteq drawn \cup drawn'
  /\ drawn \subseteq drawn' /\ drawn' \subseteq drawn \cup Node
  /\ DOMAIN holder' = Nodes'
  /\ holder' = [n \in Nodes' |-> IF n \in Nodes THEN holder[n] ELSE NoPeer]
  /\ spent' = spent
  /\ redeemed' = redeemed

\* One token of a node unspent, if it is for single use, is redeemed and
\* recorded.
Redeems ==
  \E t \in tokens, peer \in Peer :
    /\ t.key = key
    /\ t.node \in Nodes
    /\ ~t.multi => t.node \notin spent
    /\ spent' = IF t.multi THEN spent ELSE spent \cup {t.node}
    /\ holder' = [holder EXCEPT ![t.node] = peer]
    /\ redeemed' = Append(redeemed, [token |-> t, peer |-> peer])
    /\ UNCHANGED <<tree, up, key, disk, tokens, drawn, retired>>

\* The daemon stops: what it had in memory is gone, the chain is not.
Forgets ==
  /\ up' = FALSE
  /\ Nodes' = {}
  /\ spent' = {}
  /\ holder' = [n \in {} |-> NoPeer]
  /\ UNCHANGED <<tokens, drawn, redeemed>>

\* Tokens and keys are left as they are.
KeysStand == UNCHANGED <<up, key, disk, tokens, retired>>

\* The calls on the tree mint at most, under any id that is not in it.
LEMMA TreeOnlyGrows ==
  ASSUME \/ Minting
         \/ Refusing
         \/ Revoking
         \/ \E reading \in Reading : Observe(reading)
  PROVE  Nodes \subseteq Nodes' /\ Nodes' \ Nodes \subseteq Node
<1>1. ASSUME NEW n \in Node, NEW node, tree' = Insert(n, node)
      PROVE  Nodes \subseteq Nodes' /\ Nodes' \ Nodes \subseteq Node
  BY <1>1 DEF Insert, Nodes
<1>2. CASE Minting
  BY <1>1, <1>2 DEF Minting, Issue, Attenuate
<1>3. CASE Refusing
  BY <1>3 DEF Refusing, AttenuateRefused, RevokeRefused, Nodes
<1>4. CASE Revoking
  BY <1>4 DEF Revoking, Revoke, Nodes
<1>5. CASE \E reading \in Reading : Observe(reading)
  BY <1>5 DEF Observe, Nodes
<1> QED
  BY <1>2, <1>3, <1>4, <1>5

\* A call that leaves tree, nonces, bindings and records alone is of the first
\* shape, whatever it does to keys.
LEMMA StandingGrows ==
  ASSUME LeaseTypeOK, tree' = tree, drawn \subseteq drawn', drawn' \subseteq drawn \cup Node,
         UNCHANGED <<spent, holder, redeemed>>
  PROVE  Grows
<1>1. Nodes' = Nodes
  BY DEF Nodes
<1>2. holder = [n \in Nodes |-> holder[n]] /\ DOMAIN holder = Nodes
  BY DEF LeaseTypeOK
<1> QED
  BY <1>1, <1>2 DEF Grows, LeaseTypeOK

\* Every call on the tree, served with the leases, is of the first shape.
LEMMA OnTreeShape ==
  ASSUME LeaseTypeOK, OnTree
  PROVE  Grows /\ KeysStand
<1>1. Nodes \subseteq Nodes' /\ Nodes' \ Nodes \subseteq Node
  BY TreeOnlyGrows DEF OnTree
<1> QED
  BY <1>1 DEF OnTree, Grows, KeysStand, LeaseTypeOK

\* A delegation adds its node and one token for it under the key held now.
LEMMA DelegateShape ==
  ASSUME LeaseTypeOK, NEW p \in Nodes, NEW n \in Node, NEW request \in Request,
         NEW ttl \in Deadline \cup {NoTtl}, NEW multi \in BOOLEAN,
         NEW reading \in Reading, NEW floor \in Floor,
         Delegate(p, n, request, ttl, multi, reading, floor)
  PROVE  /\ Grows
         /\ tokens' = tokens \cup {[node |-> n, exp |-> ttl, multi |-> multi, key |-> key]}
         /\ n \in drawn'
         /\ UNCHANGED <<up, key, disk, retired>>
<1>1. Nodes' = Nodes \cup {n}
  BY DEF Delegate, Attenuate, Insert, Nodes
<1> QED
  BY <1>1 DEF Delegate, Grows, LeaseTypeOK

\* Any step of the daemon (OnTree and Delegate, RedeemRefused and the rest,
\* Redeem, Stop and StopRotating): of one of the three shapes.
LEMMA LeaseStepShape ==
  ASSUME LeaseTypeOK, [LeaseNext]_<<vars, lease>>
  PROVE  Grows \/ Redeems \/ Forgets
<1>1. CASE OnTree
  BY <1>1, OnTreeShape
<1>2. CASE Delegating
  <2>1. ASSUME NEW p, NEW n \in Node, NEW request, NEW reading, NEW floor,
               DelegateUnrecorded(p, n, request, reading, floor)
        PROVE  Grows
    BY <2>1, StandingGrows DEF DelegateUnrecorded, Spends
  <2> QED
    BY <1>2, <2>1, DelegateShape DEF Delegating
<1>3. CASE Redeeming
  <2>1. ASSUME NEW t \in tokens, NEW peer \in Peer, NEW reading, NEW floor,
               Redeem(t, peer, reading, floor)
        PROVE  Redeems
    BY <2>1 DEF Redeem, Redeems, MayRedeem, Spends
  <2>2. ASSUME NEW t, NEW reading, NEW floor,
               RedeemUnrecorded(t, reading, floor) \/ RedeemRefused(t, reading, floor)
        PROVE  Grows
    BY <2>2, StandingGrows DEF RedeemUnrecorded, RedeemRefused, Spends, lease
  <2> QED
    BY <1>3, <2>1, <2>2 DEF Redeeming
<1>4. CASE Rotating
  BY <1>4, StandingGrows DEF Rotating, RotateKey, RotateAborted, vars
<1>5. CASE Stop \/ \E k \in Key : StopRotating(k)
  BY <1>5 DEF Stop, StopRotating, Forget, Forgets, Nodes
<1>6. CASE Start
  BY <1>6, StandingGrows DEF Start, vars
<1>7. CASE UNCHANGED <<vars, lease>>
  BY <1>7, StandingGrows DEF vars, lease
<1> QED
  BY <1>1, <1>2, <1>3, <1>4, <1>5, <1>6, <1>7 DEF LeaseNext

-----------------------------------------------------------------------------
(* Types.                                                                  *)

\* Keys and tokens stay of their types, no token is taken back, and a daemon that
\* is down holds no node (Delegate for the tokens; RotateKey, StopRotating and
\* Start for the keys).
LEMMA KeyTypeStep ==
  ASSUME LeaseTypeOK, [LeaseNext]_<<vars, lease>>
  PROVE  /\ up' \in BOOLEAN /\ key' \in Key
         /\ disk' \in Key \cup {Torn} /\ retired' \subseteq Key
         /\ tokens \subseteq tokens' /\ tokens' \subseteq Token
         /\ \A t \in tokens' : t.node \in drawn'
         /\ ~up' => Nodes' = {}
<1> DEFINE Goal == /\ up' \in BOOLEAN /\ key' \in Key
                   /\ disk' \in Key \cup {Torn} /\ retired' \subseteq Key
                   /\ tokens \subseteq tokens' /\ tokens' \subseteq Token
                   /\ \A t \in tokens' : t.node \in drawn'
                   /\ ~up' => Nodes' = {}
<1>1. CASE OnTree
  BY <1>1, OnTreeShape DEF OnTree, Grows, KeysStand, LeaseTypeOK
<1>2. CASE Delegating
  <2>1. ASSUME NEW p \in Nodes, NEW n \in Node, NEW request \in Request,
               NEW ttl \in Deadline \cup {NoTtl}, NEW multi \in BOOLEAN,
               NEW reading \in Reading, NEW floor \in Floor,
               Delegate(p, n, request, ttl, multi, reading, floor)
        PROVE  Goal
    <3>1. /\ tokens' = tokens \cup {[node |-> n, exp |-> ttl, multi |-> multi, key |-> key]}
          /\ drawn \subseteq drawn' /\ n \in drawn'
          /\ UNCHANGED <<up, key, disk, retired>> /\ up
      BY <2>1, DelegateShape DEF Grows, Delegate
    <3>2. [node |-> n, exp |-> ttl, multi |-> multi, key |-> key] \in Token
      BY ConstantsAreSane DEF Token, LeaseTypeOK
    <3> QED
      BY <3>1, <3>2 DEF LeaseTypeOK
  <2>2. ASSUME NEW p, NEW n, NEW request, NEW reading, NEW floor,
               DelegateUnrecorded(p, n, request, reading, floor)
        PROVE  Goal
    BY <2>2 DEF DelegateUnrecorded, LeaseTypeOK
  <2> QED
    BY <1>2, <2>1, <2>2 DEF Delegating
<1>3. CASE Redeeming
  <2>1. UNCHANGED <<up, key, disk, tokens, drawn, retired>> /\ Nodes' = Nodes
    BY <1>3 DEF Redeeming, Redeem, RedeemUnrecorded, RedeemRefused, Spends, lease, Nodes
  <2> QED
    BY <2>1 DEF LeaseTypeOK
<1>4. CASE Rotating
  BY <1>4 DEF Rotating, RotateKey, RotateAborted, FreshKey, LeaseTypeOK
<1>5. CASE Stop \/ \E k \in Key : StopRotating(k)
  BY <1>5 DEF Stop, StopRotating, Forget, Nodes, LeaseTypeOK
<1>6. CASE Start
  BY <1>6 DEF Start, LeaseTypeOK
<1>7. CASE UNCHANGED <<vars, lease>>
  BY <1>7 DEF vars, lease, LeaseTypeOK, Nodes
<1> QED
  BY <1>1, <1>2, <1>3, <1>4, <1>5, <1>6, <1>7 DEF LeaseNext

\* Every step keeps the types.
LEMMA LeaseTypeStep ==
  ASSUME LeaseTypeOK, [LeaseNext]_<<vars, lease>>
  PROVE  LeaseTypeOK'
<1> DEFINE Record(T) == [token : T, peer : Peer]
<1>1. tokens \subseteq tokens'
  BY KeyTypeStep
<1>2. redeemed \in Seq(Record(tokens'))
  <2>1. redeemed \in Seq(Record(tokens)) /\ Record(tokens) \subseteq Record(tokens')
    BY <1>1 DEF LeaseTypeOK
  <2> QED
    BY <2>1, SeqMonotonic
<1>3. CASE Grows
  <2>1. Nodes' \subseteq drawn' /\ drawn' \subseteq Node /\ spent' \subseteq Nodes'
    BY <1>3 DEF Grows, LeaseTypeOK
  <2>2. holder' \in [Nodes' -> Peer \cup {NoPeer}]
    BY <1>3 DEF Grows, LeaseTypeOK
  <2>3. redeemed' \in Seq(Record(tokens'))
    BY <1>2, <1>3 DEF Grows
  <2> QED
    BY <2>1, <2>2, <2>3, KeyTypeStep DEF LeaseTypeOK
<1>4. CASE Redeems
  <2>1. Nodes' = Nodes /\ tokens' = tokens
    BY <1>4 DEF Redeems, Nodes
  <2>2. spent' \subseteq Nodes' /\ holder' \in [Nodes' -> Peer \cup {NoPeer}]
    BY <1>4, <2>1 DEF Redeems, LeaseTypeOK
  <2>3. redeemed' \in Seq(Record(tokens'))
    BY <1>2, <1>4, <2>1 DEF Redeems
  <2>4. Nodes' \subseteq drawn' /\ drawn' \subseteq Node
    BY <1>4, <2>1 DEF Redeems, LeaseTypeOK
  <2> QED
    BY <2>2, <2>3, <2>4, KeyTypeStep DEF LeaseTypeOK
<1>5. CASE Forgets
  <2>1. Nodes' \subseteq drawn' /\ drawn' \subseteq Node /\ spent' \subseteq Nodes'
    BY <1>5 DEF Forgets, LeaseTypeOK
  <2>2. holder' \in [Nodes' -> Peer \cup {NoPeer}]
    BY <1>5 DEF Forgets
  <2>3. redeemed' \in Seq(Record(tokens'))
    BY <1>2, <1>5 DEF Forgets
  <2> QED
    BY <2>1, <2>2, <2>3, KeyTypeStep DEF LeaseTypeOK
<1> QED
  BY <1>3, <1>4, <1>5, LeaseStepShape

\* A daemon that starts for the first time has its key on disk and nothing else.
LEMMA LeaseTypeInit ==
  ASSUME LeaseInit
  PROVE  LeaseTypeOK
BY DEF LeaseInit, Init, LeaseTypeOK, Nodes

\* Types for every run of the daemon, restarts included.
THEOREM LeaseTypeCorrect == LeaseSpec => []LeaseTypeOK
<1>1. LeaseInit => LeaseTypeOK
  BY LeaseTypeInit
<1>2. LeaseTypeOK /\ [LeaseNext]_<<vars, lease>> => LeaseTypeOK'
  BY LeaseTypeStep
<1> QED
  BY <1>1, <1>2, PTL DEF LeaseSpec

-----------------------------------------------------------------------------
(* Redemptions.                                                            *)

\* The records of redemptions of a node, as RedemptionsAccounted names them.
RecordsOf(n) == {i \in DOMAIN redeemed : redeemed[i].token.node = n}

\* A record is of a token of an id drawn, so an id drawn later has none: what a
\* restarted daemon mints anew is nobody's yet.
LEMMA RecordsAreOfDrawn ==
  ASSUME LeaseTypeOK, NEW i \in DOMAIN redeemed
  PROVE  /\ redeemed[i] \in [token : tokens, peer : Peer]
         /\ redeemed[i].token.node \in drawn
<1>1. redeemed[i] \in [token : tokens, peer : Peer]
  <2> DEFINE R == [token : tokens, peer : Peer]
  <2>1. redeemed \in Seq(R)
    BY DEF LeaseTypeOK
  <2> HIDE DEF R
  <2>2. i \in 1 .. Len(redeemed)
    BY <2>1, LenProperties
  <2>3. redeemed[i] \in R
    BY <2>1, <2>2, ElementOfSeq
  <2> QED
    BY <2>3 DEF R
<1> QED
  BY <1>1 DEF LeaseTypeOK

\* What a redemption adds to the records: one, at the end.
LEMMA AppendedRecord ==
  ASSUME LeaseTypeOK, NEW r \in [token : tokens, peer : Peer], redeemed' = Append(redeemed, r)
  PROVE  /\ redeemed' \in Seq([token : tokens, peer : Peer])
         /\ Len(redeemed) \in Nat
         /\ DOMAIN redeemed = 1 .. Len(redeemed)
         /\ DOMAIN redeemed' = 1 .. Len(redeemed) + 1
         /\ redeemed'[Len(redeemed) + 1] = r
         /\ \A i \in DOMAIN redeemed : redeemed'[i] = redeemed[i]
<1>1. redeemed \in Seq([token : tokens, peer : Peer])
  BY DEF LeaseTypeOK
<1>2. /\ redeemed' \in Seq([token : tokens, peer : Peer])
      /\ Len(redeemed') = Len(redeemed) + 1
      /\ \A i \in 1 .. Len(redeemed) : redeemed'[i] = redeemed[i]
      /\ redeemed'[Len(redeemed) + 1] = r
  BY <1>1, AppendProperties
<1> QED
  BY <1>1, <1>2, LenProperties

\* Every step keeps memory and records in agreement.
LEMMA AccountedStep ==
  ASSUME LeaseTypeOK, RedemptionsAccounted, [LeaseNext]_<<vars, lease>>
  PROVE  RedemptionsAccounted'
<1>1. CASE Grows
  <2> SUFFICES ASSUME NEW n \in Nodes'
               PROVE  /\ n \in spent <=> \E i \in RecordsOf(n) : ~redeemed[i].token.multi
                      /\ RecordsOf(n) = {} => holder'[n] = NoPeer
                      /\ \A i \in RecordsOf(n) :
                           (\A j \in RecordsOf(n) : j <= i) => holder'[n] = redeemed[i].peer
    BY <1>1 DEF Grows, RedemptionsAccounted, RecordsOf
  <2>1. CASE n \in Nodes
    BY <1>1, <2>1 DEF Grows, RedemptionsAccounted, RecordsOf
  <2>2. CASE n \notin Nodes
    <3>1. n \notin drawn /\ n \notin spent /\ holder'[n] = NoPeer
      BY <1>1, <2>2 DEF Grows, LeaseTypeOK
    <3>2. RecordsOf(n) = {}
      BY <3>1, RecordsAreOfDrawn DEF RecordsOf
    <3> QED
      BY <3>1, <3>2
  <2> QED
    BY <2>1, <2>2
<1>2. CASE Redeems
  <2>1. PICK t \in tokens, peer \in Peer :
          /\ t.key = key
          /\ t.node \in Nodes
          /\ ~t.multi => t.node \notin spent
          /\ spent' = IF t.multi THEN spent ELSE spent \cup {t.node}
          /\ holder' = [holder EXCEPT ![t.node] = peer]
          /\ redeemed' = Append(redeemed, [token |-> t, peer |-> peer])
          /\ UNCHANGED <<tree, up, key, disk, tokens, drawn, retired>>
    BY <1>2 DEF Redeems
  <2> DEFINE k == Len(redeemed) + 1
  <2>2. /\ Len(redeemed) \in Nat
        /\ DOMAIN redeemed = 1 .. Len(redeemed)
        /\ DOMAIN redeemed' = 1 .. k
        /\ redeemed'[k] = [token |-> t, peer |-> peer]
        /\ \A i \in DOMAIN redeemed : redeemed'[i] = redeemed[i]
    <3>1. [token |-> t, peer |-> peer] \in [token : tokens, peer : Peer]
      OBVIOUS
    <3> QED
      BY <2>1, <3>1, AppendedRecord
  <2>3. Nodes' = Nodes /\ DOMAIN holder = Nodes
    BY <2>1 DEF Nodes, LeaseTypeOK
  <2>4. \A n \in Nodes : RecordsOf(n)' = RecordsOf(n) \cup (IF n = t.node THEN {k} ELSE {})
    BY <2>2 DEF RecordsOf
  <2> SUFFICES ASSUME NEW n \in Nodes
               PROVE  /\ n \in spent' <=> \E i \in RecordsOf(n)' : ~redeemed'[i].token.multi
                      /\ RecordsOf(n)' = {} => holder'[n] = NoPeer
                      /\ \A i \in RecordsOf(n)' :
                           (\A j \in RecordsOf(n)' : j <= i) => holder'[n] = redeemed'[i].peer
    BY <2>3 DEF RedemptionsAccounted, RecordsOf
  <2>5. RecordsOf(n) \subseteq DOMAIN redeemed
    BY DEF RecordsOf
  <2>6. /\ n \in spent <=> \E i \in RecordsOf(n) : ~redeemed[i].token.multi
        /\ RecordsOf(n) = {} => holder[n] = NoPeer
        /\ \A i \in RecordsOf(n) :
             (\A j \in RecordsOf(n) : j <= i) => holder[n] = redeemed[i].peer
    BY DEF RedemptionsAccounted, RecordsOf
  <2>7. CASE n = t.node
    <3>1. RecordsOf(n)' = RecordsOf(n) \cup {k} /\ holder'[n] = peer
      BY <2>1, <2>3, <2>4, <2>7
    <3>2. n \in spent' <=> \E i \in RecordsOf(n)' : ~redeemed'[i].token.multi
      BY <2>1, <2>2, <2>5, <2>6, <2>7, <3>1
    <3>3. ASSUME NEW i \in RecordsOf(n)', \A j \in RecordsOf(n)' : j <= i
          PROVE  holder'[n] = redeemed'[i].peer
      <4>1. i = k
        BY <2>2, <2>5, <3>1, <3>3
      <4> QED
        BY <2>2, <3>1, <4>1
    <3> QED
      BY <3>1, <3>2, <3>3
  <2>8. CASE n # t.node
    <3>1. RecordsOf(n)' = RecordsOf(n) /\ holder'[n] = holder[n]
      BY <2>1, <2>3, <2>4, <2>8
    <3> QED
      BY <2>1, <2>2, <2>5, <2>6, <2>8, <3>1
  <2> QED
    BY <2>7, <2>8
<1>3. CASE Forgets
  BY <1>3 DEF Forgets, RedemptionsAccounted
<1> QED
  BY <1>1, <1>2, <1>3, LeaseStepShape

\* A second redemption of a single-use token finds its nonce spent, since memory
\* agrees with the records; and after a stop it finds no node.
LEMMA OnceStep ==
  ASSUME LeaseTypeOK, RedemptionsAccounted, SingleUseOnce, [LeaseNext]_<<vars, lease>>
  PROVE  SingleUseOnce'
<1>1. CASE redeemed' = redeemed
  BY <1>1 DEF SingleUseOnce
<1>2. CASE Redeems
  <2>1. PICK t \in tokens, peer \in Peer :
          /\ t.node \in Nodes
          /\ ~t.multi => t.node \notin spent
          /\ redeemed' = Append(redeemed, [token |-> t, peer |-> peer])
    BY <1>2 DEF Redeems
  <2> DEFINE k == Len(redeemed) + 1
  <2>2. /\ Len(redeemed) \in Nat
        /\ DOMAIN redeemed = 1 .. Len(redeemed)
        /\ DOMAIN redeemed' = 1 .. k
        /\ redeemed'[k] = [token |-> t, peer |-> peer]
        /\ \A i \in DOMAIN redeemed : redeemed'[i] = redeemed[i]
    <3>1. [token |-> t, peer |-> peer] \in [token : tokens, peer : Peer]
      OBVIOUS
    <3> QED
      BY <2>1, <3>1, AppendedRecord
  <2>3. ASSUME ~t.multi, NEW i \in DOMAIN redeemed
        PROVE  redeemed[i].token # t
    <3>1. \A j \in RecordsOf(t.node) : redeemed[j].token.multi
      BY <2>1, <2>3 DEF RedemptionsAccounted, RecordsOf
    <3> QED
      BY <2>3, <3>1 DEF RecordsOf
  <2> SUFFICES ASSUME NEW i \in 1 .. k, NEW j \in 1 .. k,
                      redeemed'[i].token = redeemed'[j].token,
                      ~redeemed'[i].token.multi
               PROVE  i = j
    BY <2>2 DEF SingleUseOnce
  <2>4. CASE i = k
    BY <2>2, <2>3, <2>4
  <2>5. CASE j = k
    BY <2>2, <2>3, <2>5
  <2>6. CASE i # k /\ j # k
    <3>1. i \in DOMAIN redeemed /\ j \in DOMAIN redeemed
      BY <2>2, <2>6
    <3> QED
      BY <2>2, <3>1 DEF SingleUseOnce
  <2> QED
    BY <2>4, <2>5, <2>6
<1> QED
  BY <1>1, <1>2, LeaseStepShape DEF Grows, Forgets

\* A single-use token is redeemed once in the life of the chain, whatever stops,
\* rotations and lost records came between (RedeemedOnce).
THEOREM RedeemedOnceOnly == LeaseSpec => []RedeemedOnce
<1>1. LeaseInit => LeaseTypeOK /\ RedeemedOnce
  BY LeaseTypeInit
  DEF LeaseInit, Init, RedeemedOnce, SingleUseOnce, RedemptionsAccounted, Nodes
<1>2. LeaseTypeOK /\ RedeemedOnce /\ [LeaseNext]_<<vars, lease>>
        => (LeaseTypeOK /\ RedeemedOnce)'
  BY LeaseTypeStep, AccountedStep, OnceStep DEF RedeemedOnce
<1> QED
  BY <1>1, <1>2, PTL DEF LeaseSpec

-----------------------------------------------------------------------------
(* Rotation.                                                               *)

\* The inductive form: neither the file nor the memory of a daemon that is up
\* holds a retired key, so no start brings one back.
KeysAreGone == disk \notin retired /\ KeyNeverReturns

\* Every step keeps it: a rotation writes a fresh key first, a torn file is no
\* key, and a start takes what the file has.
LEMMA KeysAreGoneStep ==
  ASSUME LeaseTypeOK, KeysAreGone, [LeaseNext]_<<vars, lease>>
  PROVE  KeysAreGone'
<1>1. Torn \notin retired
  BY LeaseConstants DEF LeaseTypeOK
<1>2. CASE KeysStand
  BY <1>2 DEF KeysStand, KeysAreGone, KeyNeverReturns
<1>3. CASE Delegating
  BY <1>3 DEF Delegating, Delegate, DelegateUnrecorded, KeysAreGone, KeyNeverReturns
<1>4. CASE Redeeming
  BY <1>4 DEF Redeeming, Redeem, RedeemUnrecorded, RedeemRefused, lease,
              KeysAreGone, KeyNeverReturns
<1>5. CASE Rotating
  BY <1>1, <1>5 DEF Rotating, RotateKey, RotateAborted, FreshKey, KeysAreGone, KeyNeverReturns
<1>6. CASE Stop \/ \E k \in Key : StopRotating(k)
  BY <1>1, <1>6 DEF Stop, StopRotating, Forget, FreshKey, KeysAreGone, KeyNeverReturns
<1>7. CASE Start
  BY <1>7 DEF Start, KeysAreGone, KeyNeverReturns
<1>8. OnTree \/ UNCHANGED <<vars, lease>> => KeysStand
  BY DEF OnTree, lease, KeysStand
<1> QED
  BY <1>2, <1>3, <1>4, <1>5, <1>6, <1>7, <1>8 DEF LeaseNext

\* A token is redeemed under the key held, and that is not a retired one.
LEMMA RotatedKeyRedeemsNothing ==
  ASSUME LeaseTypeOK, KeysAreGone, [LeaseNext]_<<vars, lease>>, redeemed' # redeemed
  PROVE  redeemed'[Len(redeemed')].token.key \notin retired
<1>1. PICK t \in tokens, peer \in Peer :
        /\ t.key = key
        /\ t.node \in Nodes
        /\ redeemed' = Append(redeemed, [token |-> t, peer |-> peer])
  BY LeaseStepShape DEF Grows, Redeems, Forgets
<1>2. up
  BY <1>1 DEF LeaseTypeOK
<1>3. redeemed'[Len(redeemed')] = [token |-> t, peer |-> peer]
  <2>1. redeemed \in Seq([token : tokens, peer : Peer])
    BY DEF LeaseTypeOK
  <2>2. [token |-> t, peer |-> peer] \in [token : tokens, peer : Peer]
    OBVIOUS
  <2> QED
    BY <1>1, <2>1, <2>2
<1> QED
  BY <1>1, <1>2, <1>3 DEF KeysAreGone, KeyNeverReturns

\* A rotated key is never held again nor redeemed under, over any number of
\* rotations, aborted or cut short, and of starts (RotationIsFinal).
THEOREM RotationStands == LeaseSpec => RotationIsFinal
<1>1. LeaseInit => LeaseTypeOK /\ KeysAreGone
  BY LeaseTypeInit DEF LeaseInit, KeysAreGone, KeyNeverReturns
<1>2. LeaseTypeOK /\ KeysAreGone /\ [LeaseNext]_<<vars, lease>>
        => (LeaseTypeOK /\ KeysAreGone)'
  BY LeaseTypeStep, KeysAreGoneStep
<1>3. KeysAreGone => KeyNeverReturns
  BY DEF KeysAreGone
<1>4. LeaseTypeOK /\ KeysAreGone /\ [LeaseNext]_<<vars, lease>>
        => [redeemed' # redeemed => redeemed'[Len(redeemed')].token.key \notin retired]_<<vars, lease>>
  BY RotatedKeyRedeemsNothing
<1> QED
  BY <1>1, <1>2, <1>3, <1>4, PTL DEF LeaseSpec, RotationIsFinal, RotationKills
=============================================================================
