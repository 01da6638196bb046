------------------------------- MODULE Lease -------------------------------
(***************************************************************************)
(* Portable lease tokens (delulu-broker/src/lease.rs) as the daemon serves *)
(* them (delulu/src/brokerd.rs): delegation mints a node and a token for   *)
(* it, redemption binds the node to whoever presents the token, rotation   *)
(* of the broker key kills every token, and a record the chain did not     *)
(* take undoes the delegation or the redemption it was for.                *)
(*                                                                         *)
(* The daemon may stop at any point, a key rotation included, and start    *)
(* again from what is on disk: the key.  Tree, spent nonces and bindings   *)
(* live in memory only.                                                    *)
(*                                                                         *)
(* One nonce is drawn per token and one token minted per delegated node,   *)
(* so the node stands for the nonce.                                       *)
(***************************************************************************)
EXTENDS GrantTree, Sequences

CONSTANTS
  Peer,       \* what a redeemer says of itself
  NoPeer,     \* the holder's peer before any redemption
  Key,        \* broker keys; none is drawn twice
  Torn        \* a key file cut short by a write that failed

ASSUME LeaseConstants ==
  /\ NoPeer \notin Peer
  /\ Torn \notin Key

VARIABLES
  up,         \* is the daemon running
  key,        \* the key it holds
  disk,       \* broker.key
  tokens,     \* tokens handed out, in this life of the daemon or an earlier
  spent,      \* nonces of single-use tokens redeemed, in this life
  holder,     \* node -> the peer bound to it
  drawn,      \* ids drawn so far, in any life
  redeemed,   \* redemption records on the chain, oldest first
  retired     \* keys a rotation replaced in memory

lease == <<up, key, disk, tokens, spent, holder, drawn, redeemed, retired>>

Token == [node : Node, exp : Int \cup {NoTtl}, multi : BOOLEAN, key : Key]

-----------------------------------------------------------------------------
\* The rest of the daemon's calls on the tree, as GrantTree has them.
OnTree ==
  /\ up
  /\ \/ Minting
     \/ Refusing
     \/ Revoking
     \/ \E reading \in Reading : Observe(reading)
  /\ (Nodes' \ Nodes) \cap drawn = {}
  /\ drawn' = drawn \cup Nodes'
  /\ holder' = [n \in Nodes' |-> IF n \in Nodes THEN holder[n] ELSE NoPeer]
  /\ UNCHANGED <<up, key, disk, tokens, spent, redeemed, retired>>

\* A call whose record the chain took, or did not: it costs a seq and moves
\* the clock, and leaves the tree as it was.
Spends(reading, floor) ==
  /\ hiWater' = Ratchet(reading)
  /\ TakeSeq(floor)
  /\ UNCHANGED <<tree, epoch, revokes>>

Delegate(p, n, request, ttl, multi, reading, floor) ==
  /\ up
  /\ n \notin drawn
  /\ Attenuate(p, n, request, ttl, reading, floor)
  /\ tokens' = tokens \cup {[node |-> n, exp |-> ttl, multi |-> multi, key |-> key]}
  /\ holder' = [m \in Nodes' |-> IF m \in Nodes THEN holder[m] ELSE NoPeer]
  /\ drawn' = drawn \cup {n}
  /\ UNCHANGED <<up, key, disk, spent, redeemed, retired>>

\* `unrecorded_mint`: the node is withdrawn and the token never handed out.
DelegateUnrecorded(p, n, request, reading, floor) ==
  /\ up
  /\ n \notin drawn
  /\ MayAttenuate(p, request, Ratchet(reading))
  /\ Spends(reading, floor)
  /\ drawn' = drawn \cup {n}
  /\ UNCHANGED <<up, key, disk, tokens, spent, holder, redeemed, retired>>

\* (mutant) the MAC judged under any key ever held.
MayRedeemOldKey(t, now) ==
  /\ t.node \in Nodes
  /\ LiveAt(t.node, now)
  /\ ~(t.exp # NoTtl /\ now >= t.exp)
  /\ ~t.multi => t.node \notin spent

\* `redeem_inner`: the MAC under the key held now, the node, its liveness with
\* its ancestors', the token's own deadline, the nonce.
MayRedeem(t, now) ==
  /\ t.key = key
  /\ t.node \in Nodes
  /\ LiveAt(t.node, now)
  /\ ~(t.exp # NoTtl /\ now >= t.exp)
  /\ ~t.multi => t.node \notin spent

Redeem(t, peer, reading, floor) ==
  /\ up
  /\ MayRedeem(t, Ratchet(reading))
  /\ spent' = IF t.multi THEN spent ELSE spent \cup {t.node}
  /\ holder' = [holder EXCEPT ![t.node] = peer]
  /\ redeemed' = Append(redeemed, [token |-> t, peer |-> peer])
  /\ Spends(reading, floor)
  /\ UNCHANGED <<up, key, disk, tokens, drawn, retired>>

\* (mutant) the nonce given back, the binding left.
RedeemUnrecordedBound(t, reading, floor) ==
  /\ up
  /\ MayRedeem(t, Ratchet(reading))
  /\ holder' = [holder EXCEPT ![t.node] = CHOOSE peer \in Peer : TRUE]
  /\ Spends(reading, floor)
  /\ UNCHANGED <<up, key, disk, tokens, spent, drawn, redeemed, retired>>

\* `withdraw_unrecorded_redemption`: nonce and binding put back as they were.
RedeemUnrecorded(t, reading, floor) ==
  /\ up
  /\ MayRedeem(t, Ratchet(reading))
  /\ Spends(reading, floor)
  /\ UNCHANGED lease

RedeemRefused(t, reading, floor) ==
  /\ up
  /\ ~MayRedeem(t, Ratchet(reading))
  /\ Spends(reading, floor)
  /\ UNCHANGED lease

-----------------------------------------------------------------------------
(* Rotation: the file is cut to nothing, then written, then the key in     *)
(* memory follows.  Nothing else is served in between; the daemon may stop *)
(* in between, and either write may fail.                                  *)

FreshKey == Key \ ({key, disk} \cup retired \cup {t.key : t \in tokens})

\* (mutant) a rotation in memory only.
RotateKeyInMemory(k, floor) ==
  /\ up
  /\ k \in FreshKey
  /\ key' = k
  /\ retired' = retired \cup {key}
  /\ TakeSeq(floor)
  /\ UNCHANGED <<tree, epoch, hiWater, revokes>>
  /\ UNCHANGED <<up, disk, tokens, spent, holder, drawn, redeemed>>

\* `write_broker_key` and `rotate_key_to`, recorded or not: a rotation whose
\* record is lost stays in force.
RotateKey(k, floor) ==
  /\ up
  /\ k \in FreshKey
  /\ disk' = k
  /\ key' = k
  /\ retired' = retired \cup {key}
  /\ TakeSeq(floor)
  /\ UNCHANGED <<tree, epoch, hiWater, revokes>>
  /\ UNCHANGED <<up, tokens, spent, holder, drawn, redeemed>>

\* The write fails once the file is open: the call is refused.
RotateAborted ==
  /\ up
  /\ disk' \in {disk, Torn}
  /\ UNCHANGED vars
  /\ UNCHANGED <<up, key, tokens, spent, holder, drawn, redeemed, retired>>

\* (mutant) nonces forgotten, the tree kept.
ForgetNonces ==
  /\ up' = FALSE
  /\ spent' = {}
  /\ UNCHANGED <<tree, epoch, hiWater, holder>>
  /\ UNCHANGED <<seq, revokes, tokens, drawn, redeemed>>

\* The chain outlives the daemon, so its count goes on where it was.
Forget ==
  /\ up' = FALSE
  /\ tree' = [n \in {} |-> NoNode]
  /\ epoch' = 0
  /\ hiWater' = MinTime
  /\ spent' = {}
  /\ holder' = [n \in {} |-> NoPeer]
  /\ UNCHANGED <<seq, revokes, tokens, drawn, redeemed>>

\* The daemon stops between two calls.
Stop ==
  /\ up
  /\ Forget
  /\ UNCHANGED <<key, disk, retired>>

\* It stops within a rotation: before the new key is whole, or before the
\* memory follows.
StopRotating(k) ==
  /\ up
  /\ k \in FreshKey
  /\ disk' \in {Torn, k}
  /\ Forget
  /\ UNCHANGED <<key, retired>>

\* (mutant) the length of the key file not checked.
StartTorn ==
  /\ ~up
  /\ up' = TRUE
  /\ key' = disk
  /\ UNCHANGED vars
  /\ UNCHANGED <<disk, tokens, spent, holder, drawn, redeemed, retired>>

\* `serve`: a key file that is not 32 bytes long stops the start.
Start ==
  /\ ~up
  /\ disk # Torn
  /\ up' = TRUE
  /\ key' = disk
  /\ UNCHANGED vars
  /\ UNCHANGED <<disk, tokens, spent, holder, drawn, redeemed, retired>>

-----------------------------------------------------------------------------
LeaseInit ==
  /\ Init
  /\ up = TRUE
  /\ key \in Key
  /\ disk = key
  /\ tokens = {}
  /\ spent = {}
  /\ holder = [n \in {} |-> NoPeer]
  /\ drawn = {}
  /\ redeemed = <<>>
  /\ retired = {}

Delegating ==
  \E p \in Nodes, n \in Node, request \in Request, reading \in Reading,
     floor \in Floor :
        \/ \E ttl \in Deadline \cup {NoTtl}, multi \in BOOLEAN :
             Delegate(p, n, request, ttl, multi, reading, floor)
        \/ DelegateUnrecorded(p, n, request, reading, floor)

Redeeming ==
  \E t \in tokens, reading \in Reading, floor \in Floor :
        \/ \E peer \in Peer : Redeem(t, peer, reading, floor)
        \/ RedeemUnrecorded(t, reading, floor)
        \/ RedeemRefused(t, reading, floor)

Rotating ==
  \/ \E k \in Key, floor \in Floor : RotateKey(k, floor)
  \/ RotateAborted

LeaseNext ==
  \/ OnTree
  \/ Delegating
  \/ Redeeming
  \/ Rotating
  \/ Stop
  \/ \E k \in Key : StopRotating(k)
  \/ Start

LeaseSpec == LeaseInit /\ [][LeaseNext]_<<vars, lease>>

-----------------------------------------------------------------------------
(* Properties.                                                             *)

\* Types: tokens name nodes drawn, and while the daemon is down it holds
\* nothing.
LeaseTypeOK ==
  /\ up \in BOOLEAN
  /\ key \in Key
  /\ disk \in Key \cup {Torn}
  /\ tokens \subseteq Token
  /\ \A t \in tokens : t.node \in drawn
  /\ Nodes \subseteq drawn /\ drawn \subseteq Node
  /\ spent \subseteq Nodes
  /\ holder \in [Nodes -> Peer \cup {NoPeer}]
  /\ redeemed \in Seq([token : tokens, peer : Peer])
  /\ retired \subseteq Key
  /\ ~up => Nodes = {}

\* A single-use token is redeemed once in the life of the chain, although a
\* stopped daemon forgets which nonces were spent (redeem_inner's nonce check,
\* and the tree that is forgotten with the nonces).
SingleUseOnce ==
  \A i, j \in DOMAIN redeemed :
    redeemed[i].token = redeemed[j].token /\ ~redeemed[i].token.multi => i = j

\* What the daemon holds about redemptions is what the chain says of them: a
\* nonce is spent, and a node bound, by a recorded redemption, to the peer of
\* the last one (redeem_undoable, withdraw_unrecorded_redemption).
RedemptionsAccounted ==
  LET Records(n) == {i \in DOMAIN redeemed : redeemed[i].token.node = n}
  IN \A n \in Nodes :
       /\ n \in spent <=> \E i \in Records(n) : ~redeemed[i].token.multi
       /\ Records(n) = {} => holder[n] = NoPeer
       /\ \A i \in Records(n) :
            (\A j \in Records(n) : j <= i) => holder[n] = redeemed[i].peer

\* A key a rotation replaced is never held again, through any stop and start
\* (the key is on disk before it is in memory).
KeyNeverReturns == up => key \notin retired

\* A rotation kills every token minted before it, on nodes still live and
\* unspent too (rotate_key: "invalidates ALL outstanding tokens").
RotationKills ==
  [][redeemed' # redeemed => redeemed'[Len(redeemed')].token.key \notin retired]_<<vars, lease>>

\* What the chain holds of redemptions is all there is to them, over stops and
\* lost records: a single-use token on it once, each nonce and binding by it.
RedeemedOnce == SingleUseOnce /\ RedemptionsAccounted

\* A rotated key is gone for good: not held again after any stop, and no token
\* minted under it is redeemed again.
RotationIsFinal == []KeyNeverReturns /\ RotationKills

\* What the refusal of a rotation says: "the rotation was NOT applied and the
\* current key is unchanged" (brokerd.rs, RotateKey).  The file is cut to
\* nothing before it is written.
AbortKeepsKey == [][up' /\ key' = key => disk' = disk]_disk
=============================================================================
