------------------------------ MODULE Adoption ------------------------------
(***************************************************************************)
(* Federation (delulu-broker/src/cert.rs): a broker adopts a chain of      *)
(* signed certificates as a local root, and contact receipts extend it, as *)
(* the daemon serves both (delulu/src/brokerd.rs).  Revoking an adopted    *)
(* node retires its certificates, and the list of retired certificates is  *)
(* the one part of the tree that the daemon carries over a restart.        *)
(*                                                                         *)
(* A certificate is named by its fingerprint, a hash of all it says; its   *)
(* parent field names a certificate, so chains are sequences of names.     *)
(***************************************************************************)
EXTENDS GrantTree, Sequences, FiniteSetsExt

CONSTANTS
  Party,      \* the parties that hold keys
  Nobody,     \* signs nothing: who signed what does not verify
  Cert,       \* certificates, by fingerprint
  Anchored,   \* the parent of the first certificate of a chain
  Body,       \* what each certificate says
  Chain,      \* the chains presented for adoption
  Receipt,    \* the contact receipts presented
  Anchors,    \* the sets of anchor keys callers name
  NoPin,      \* no root policy: any caller's anchors are honoured
  BadPolicy,  \* a root policy file that exists and cannot be read
  Policy,     \* what the root policy file may hold at a start
  Unparsed,   \* a list of retired certificates that does not parse
  Unread,     \* one that cannot be read, or is not text
  Damage      \* the damage the list may take

CertBody == [issuer : Party, signer : Party \cup {Nobody}, subject : Party,
             parent : Cert \cup {Anchored}, notBefore : Int, notAfter : Int,
             uplink : Nat \cup {NoTtl}, auth : Grant]

ASSUME AdoptionConstants ==
  /\ Nobody \notin Party
  /\ Anchored \notin Cert
  /\ Body \in [Cert -> CertBody]
  /\ Chain \subseteq Seq(Cert)
  /\ Receipt \subseteq [issuer : Party, signer : Party \cup {Nobody},
                        certificate : Cert, notAfter : Int]
  /\ Anchors \subseteq SUBSET Party
  /\ Policy \subseteq Party \cup {NoPin, BadPolicy}
  /\ {NoPin, BadPolicy} \cap Party = {}
  /\ Damage \subseteq {Unparsed, Unread}
  /\ \A list \in SUBSET Cert : list # Unparsed /\ list # Unread

VARIABLES
  up,         \* is the daemon running
  pin,        \* the root policy it started under
  poisoned,   \* does it refuse every adoption
  adopted,    \* leaf certificate -> its node and the window of its chain
  chainOf,    \* adopted node -> the certificates of its chain
  denied,     \* certificates retired
  saved,      \* revoked_certs.json
  drawn,      \* ids drawn so far, in any life of the daemon
  found,      \* what the last start found in revoked_certs.json
  records,    \* the adoptions on the chain, in this life
  gone,       \* certificates whose revocation reached the disk
  heard       \* leaf certificate -> the deadline contact has given it

adoption == <<up, pin, poisoned, adopted, chainOf, denied, saved, drawn,
              found, records, gone, heard>>

Leaf(chain) == chain[Len(chain)]
Certs(chain) == {chain[i] : i \in DOMAIN chain}
Put(f, x, y) == [z \in DOMAIN f \cup {x} |-> IF z = x THEN y ELSE f[z]]

-----------------------------------------------------------------------------
(* What adoption asks of a chain, and what it grants.                      *)

Signed(c) == Body[c].signer = Body[c].issuer

InWindow(c, now) == Body[c].notBefore <= now /\ now < Body[c].notAfter

\* Only the holder of a certificate hands it on, and no wider.
Links(c, prev) ==
  /\ Body[c].parent = prev
  /\ Body[c].issuer = Body[prev].subject
  /\ Within(Body[c].auth, Body[prev].auth)

VerifyChain(chain, anchors, now) ==
  /\ chain # <<>>
  /\ \A c \in Certs(chain) : Signed(c) /\ InWindow(c, now)
  /\ Body[chain[1]].parent = Anchored
  /\ Body[chain[1]].issuer \in anchors
  /\ \A i \in DOMAIN chain \ {1} : Links(chain[i], chain[i - 1])

\* (mutant) the caller's anchors honoured next to the pinned one.
TrustedBoth(anchors) == anchors \cup {pin}

\* A pinned anchor replaces the caller's; an unreadable policy trusts nobody.
Trusted(anchors) == IF pin = NoPin THEN anchors ELSE {pin}

Window(chain) == Min({Body[c].notAfter : c \in Certs(chain)})

\* (mutant) the window of the leaf alone.
AdoptedTtlOfLeaf(chain, now) == Body[Leaf(chain)].notAfter

\* The shortest window, and the tightest uplink term counted from now.
AdoptedTtl(chain, now) ==
  LET terms == {Body[c].uplink : c \in Certs(chain)} \ {NoTtl}
  IN IF terms = {} THEN Window(chain)
     ELSE Min({Window(chain), now + Min(terms)})

\* (mutant) judged by the leaf alone, as before P20-R4.
MayAdoptByLeaf(chain, anchors, now) ==
  /\ ~poisoned
  /\ VerifyChain(chain, Trusted(anchors), now)
  /\ Leaf(chain) \notin DOMAIN adopted
  /\ Leaf(chain) \notin denied

MayAdopt(chain, anchors, now) ==
  /\ ~poisoned
  /\ VerifyChain(chain, Trusted(anchors), now)
  /\ Leaf(chain) \notin DOMAIN adopted
  /\ Certs(chain) \cap denied = {}

-----------------------------------------------------------------------------
(* Adoption and renewal.  An adoption takes two seqs, one for the node and *)
(* one for the adoption.  A chain or receipt that does not verify takes    *)
(* none, and leaves no trace.                                              *)

TakeTwoSeqs(floor) ==
  /\ SeqFrom(floor) < MaxSeq
  /\ seq' = SeqFrom(floor) + 2

Adopt(chain, anchors, n, reading, floor) ==
  LET now == Ratchet(reading)
      ttl == AdoptedTtl(chain, now)
  IN
  /\ up
  /\ MayAdopt(chain, anchors, now)
  /\ n \in Node \ drawn
  /\ tree' = Insert(n, [parent |-> NoNode, auth |-> Body[Leaf(chain)].auth,
                        ttl |-> ttl, revokedBy |-> 0])
  /\ adopted' = Put(adopted, Leaf(chain), [node |-> n, window |-> Window(chain)])
  /\ chainOf' = Put(chainOf, n, Certs(chain))
  /\ drawn' = drawn \cup {n}
  /\ records' = records \cup {[leaf |-> Leaf(chain), node |-> n]}
  /\ heard' = IF Leaf(chain) \in DOMAIN heard THEN heard
              ELSE Put(heard, Leaf(chain), ttl)
  /\ hiWater' = now
  /\ TakeTwoSeqs(floor)
  /\ UNCHANGED <<epoch, revokes>>
  /\ UNCHANGED <<up, pin, poisoned, denied, saved, found, gone>>

\* (mutant) the node withdrawn, its adoption left behind.
AdoptUnrecordedKept(chain, anchors, n, reading, floor) ==
  /\ up
  /\ MayAdopt(chain, anchors, Ratchet(reading))
  /\ n \in Node \ drawn
  /\ adopted' = Put(adopted, Leaf(chain), [node |-> n, window |-> Window(chain)])
  /\ drawn' = drawn \cup {n}
  /\ hiWater' = Ratchet(reading)
  /\ TakeTwoSeqs(floor)
  /\ UNCHANGED <<tree, epoch, revokes>>
  /\ UNCHANGED <<up, pin, poisoned, chainOf, denied, saved, found, records, gone, heard>>

\* `withdraw_unrecorded`: the node goes, and its adoption with it.
AdoptUnrecorded(chain, anchors, n, reading, floor) ==
  /\ up
  /\ MayAdopt(chain, anchors, Ratchet(reading))
  /\ n \in Node \ drawn
  /\ drawn' = drawn \cup {n}
  /\ hiWater' = Ratchet(reading)
  /\ TakeTwoSeqs(floor)
  /\ UNCHANGED <<tree, epoch, revokes>>
  /\ UNCHANGED <<up, pin, poisoned, adopted, chainOf, denied, saved, found, records, gone, heard>>

\* Poisoned, adopted before, or retired: the refusal is recorded.
AdoptRefused(chain, anchors, reading, floor) ==
  /\ up
  /\ poisoned \/ VerifyChain(chain, Trusted(anchors), Ratchet(reading))
  /\ ~MayAdopt(chain, anchors, Ratchet(reading))
  /\ hiWater' = Ratchet(reading)
  /\ TakeSeq(floor)
  /\ UNCHANGED <<tree, epoch, revokes>>
  /\ UNCHANGED adoption

MayRenew(receipt, anchors) ==
  /\ receipt.signer = receipt.issuer
  /\ receipt.issuer \in Trusted(anchors)
  /\ receipt.certificate \in DOMAIN adopted

\* (mutant) the window of the certificates not consulted.
RenewedToAsked(receipt) == receipt.notAfter

RenewedTo(receipt) == Min({receipt.notAfter, adopted[receipt.certificate].window})

Renew(receipt, anchors, reading, floor) ==
  LET c == receipt.certificate
      n == adopted[c].node
  IN
  /\ up
  /\ MayRenew(receipt, anchors)
  /\ ExtendTtl(n, RenewedTo(receipt), reading, floor)
  /\ heard' = [heard EXCEPT ![c] = Max({heard[c], RenewedTo(receipt)})]
  /\ UNCHANGED <<up, pin, poisoned, adopted, chainOf, denied, saved, drawn,
                 found, records, gone>>

\* `withdraw_unrecorded_renewal`: the deadline put back.
RenewUnrecorded(receipt, anchors, reading, floor) ==
  /\ up
  /\ MayRenew(receipt, anchors)
  /\ hiWater' = Ratchet(reading)
  /\ TakeSeq(floor)
  /\ UNCHANGED <<tree, epoch, revokes>>
  /\ UNCHANGED adoption

-----------------------------------------------------------------------------
(* The rest of the daemon's calls on the tree.                             *)

\* (mutant) the root policy not asked.
IssueRootUngated(n, request, ttl, reading, floor) ==
  /\ up
  /\ n \notin drawn
  /\ Issue(n, request, ttl, reading, floor)
  /\ drawn' = drawn \cup {n}
  /\ UNCHANGED <<up, pin, poisoned, adopted, chainOf, denied, saved, found,
                 records, gone, heard>>

IssueRoot(n, request, ttl, reading, floor) ==
  /\ up
  /\ pin = NoPin
  /\ n \notin drawn
  /\ Issue(n, request, ttl, reading, floor)
  /\ drawn' = drawn \cup {n}
  /\ UNCHANGED <<up, pin, poisoned, adopted, chainOf, denied, saved, found,
                 records, gone, heard>>

HandDown(p, n, request, ttl, reading, floor) ==
  /\ up
  /\ n \notin drawn
  /\ Attenuate(p, n, request, ttl, reading, floor)
  /\ drawn' = drawn \cup {n}
  /\ UNCHANGED <<up, pin, poisoned, adopted, chainOf, denied, saved, found,
                 records, gone, heard>>

\* The certificates of every adopted node that this revocation, or one
\* before it, has reached.
CertsRevoked(t) == UNION {chainOf[n] : n \in {m \in DOMAIN chainOf : t[m].revokedBy # 0}}

\* (mutant) the file holds what this revocation retired, and no more.
PersistNewOnly(list) ==
  /\ list # {} => saved' = list \ denied
  /\ list = {} => UNCHANGED saved
  /\ gone' = IF list = {} THEN gone ELSE gone \cup CertsRevoked(tree')

\* `persist_adoption_revocations`: the whole list, unless there is none.
Persist(list) ==
  /\ saved' = IF list = {} THEN saved ELSE list
  /\ gone' = IF list = {} THEN gone ELSE gone \cup CertsRevoked(tree')

\* The revocation stands, and is answered, whether or not the list reached
\* the disk.
RevokeAdopted(caller, target, reading, floor) ==
  /\ up
  /\ Revoke(caller, target, reading, floor)
  /\ denied' = denied \cup CertsRevoked(tree')
  /\ \/ Persist(denied')
     \/ UNCHANGED <<saved, gone>>
  /\ UNCHANGED <<up, pin, poisoned, adopted, chainOf, drawn, found, records, heard>>

-----------------------------------------------------------------------------
(* The daemon's life.                                                      *)

\* (mutant) the tree forgotten, the adoptions not.
ForgetTree ==
  /\ up' = FALSE
  /\ tree' = [n \in {} |-> NoNode]
  /\ epoch' = 0
  /\ hiWater' = MinTime
  /\ denied' = {}
  /\ poisoned' = FALSE
  /\ UNCHANGED <<pin, adopted, chainOf, saved, drawn, found, records, gone, heard>>

\* Tree and adoptions are in memory only.
Forget ==
  /\ up' = FALSE
  /\ tree' = [n \in {} |-> NoNode]
  /\ epoch' = 0
  /\ hiWater' = MinTime
  /\ adopted' = [c \in {} |-> NoNode]
  /\ chainOf' = [n \in {} |-> {}]
  /\ denied' = {}
  /\ poisoned' = FALSE
  /\ records' = {}
  /\ UNCHANGED <<pin, saved, drawn, found, gone, heard>>

Stop ==
  /\ up
  /\ Forget
  /\ UNCHANGED <<seq, revokes>>

\* It stops between the record of a revocation and the write of the list.
StopRevoking(caller, target, floor) ==
  /\ up
  /\ MayRevoke(caller, target)
  /\ revokes' = revokes \cup
        {[seq |-> SeqFrom(floor), caller |-> caller, target |-> target]}
  /\ TakeSeq(floor)
  /\ Forget

\* Something else damages the list, at any time.
Spoil(damage) ==
  /\ saved' = damage
  /\ UNCHANGED vars
  /\ UNCHANGED <<up, pin, poisoned, adopted, chainOf, denied, drawn, found,
                 records, gone, heard>>

\* (mutant) damage taken for a first run.
StartTrusting(policy) ==
  /\ ~up
  /\ up' = TRUE
  /\ pin' = policy
  /\ denied' = IF saved \in {Unparsed, Unread} THEN {} ELSE saved
  /\ poisoned' = (policy = BadPolicy)
  /\ found' = saved
  /\ UNCHANGED vars
  /\ UNCHANGED <<adopted, chainOf, saved, drawn, records, gone, heard>>

\* `serve_inner`, with `load_root_policy` and `load_revoked_certs`: a list that
\* does not parse poisons adoptions, one that cannot be read is a first run.
Start(policy) ==
  /\ ~up
  /\ up' = TRUE
  /\ pin' = policy
  /\ denied' = IF saved \in {Unparsed, Unread} THEN {} ELSE saved
  /\ poisoned' = (saved = Unparsed \/ policy = BadPolicy)
  /\ found' = saved
  /\ UNCHANGED vars
  /\ UNCHANGED <<adopted, chainOf, saved, drawn, records, gone, heard>>

-----------------------------------------------------------------------------
AdoptionInit ==
  /\ Init
  /\ up = FALSE
  /\ pin = NoPin
  /\ poisoned = FALSE
  /\ adopted = [c \in {} |-> NoNode]
  /\ chainOf = [n \in {} |-> {}]
  /\ denied = {}
  /\ saved = {}
  /\ drawn = {}
  /\ found = {}
  /\ records = {}
  /\ gone = {}
  /\ heard = [c \in {} |-> MinTime]

Adopting ==
  \E chain \in Chain, anchors \in Anchors, reading \in Reading, floor \in Floor :
     \/ AdoptRefused(chain, anchors, reading, floor)
     \/ \E n \in Node : \/ Adopt(chain, anchors, n, reading, floor)
                        \/ AdoptUnrecorded(chain, anchors, n, reading, floor)

Renewing ==
  \E receipt \in Receipt, anchors \in Anchors, reading \in Reading, floor \in Floor :
     \/ Renew(receipt, anchors, reading, floor)
     \/ RenewUnrecorded(receipt, anchors, reading, floor)

Handing ==
  \E n \in Node, request \in Request, ttl \in Deadline \cup {NoTtl},
     reading \in Reading, floor \in Floor :
     \/ IssueRoot(n, request, ttl, reading, floor)
     \/ \E p \in Nodes : HandDown(p, n, request, ttl, reading, floor)

Withdrawing ==
  \E caller, target \in Nodes, floor \in Floor :
     \/ StopRevoking(caller, target, floor)
     \/ \E reading \in Reading : RevokeAdopted(caller, target, reading, floor)

AdoptionNext ==
  \/ Adopting
  \/ Renewing
  \/ Handing
  \/ Withdrawing
  \/ Stop
  \/ \E policy \in Policy : Start(policy)
  \/ \E damage \in Damage : Spoil(damage)

AdoptionSpec == AdoptionInit /\ [][AdoptionNext]_<<vars, adoption>>

-----------------------------------------------------------------------------
(* Properties.                                                             *)

\* Types: what is remembered of adoptions names roots of the tree, and a
\* daemon that is down remembers nothing.
AdoptionTypeOK ==
  /\ up \in BOOLEAN
  /\ poisoned \in BOOLEAN
  /\ pin \in Policy \cup {NoPin}
  /\ \A c \in DOMAIN adopted : adopted[c] \in [node : Nodes, window : Int]
  /\ DOMAIN chainOf \subseteq {n \in Nodes : Child(n, NoNode) /\ tree[n].ttl # NoTtl}
  /\ denied \subseteq Cert
  /\ saved \in (SUBSET Cert) \cup Damage
  /\ Nodes \subseteq drawn /\ drawn \subseteq Node
  /\ ~up => Nodes = {} /\ adopted = [c \in {} |-> NoNode] /\ ~poisoned

\* What the daemon remembers of adoptions is what the chain says of them: an
\* adoption that was undone leaves neither node nor certificate behind, so the
\* certificate can be adopted again (withdraw_unrecorded, adopt).
AdoptionsAccounted ==
  /\ records = {[leaf |-> c, node |-> adopted[c].node] : c \in DOMAIN adopted}
  /\ DOMAIN chainOf = {r.node : r \in records}

\* Every certificate whose revocation reached the disk is still there, through
\* failed writes, stops, starts and later revocations, unless the file was
\* damaged (persist_revoked_certs writes the whole list; a daemon that could
\* not read it retires nothing, because it adopts nothing).
RevocationsOnDisk == saved \notin {Unparsed, Unread} => gone \subseteq saved

\* No adoption brings back a revoked credential, not with a fresh leaf, not
\* after a restart, not over a list that no longer parses (ADOPT-REPLAY-1 and
\* P20-R4: revoke_core, load_revoked_certs, adopt).
RetiredStaysOut ==
  [][\A r \in records' \ records :
        chainOf'[r.node] \cap (gone \cup CertsRevoked(tree)) = {}]_<<vars, adoption>>

\* A revoked certificate stays revoked, on disk and at every later adoption.
RetirementLasts == []RevocationsOnDisk /\ RetiredStaysOut

\* Whatever is held under an adopted root is within every certificate of its
\* chain, and is dead once any of them has run out, receipts notwithstanding
\* (verify_chain compares neighbours only; adopt and renew_undoable clamp).
BoundedByGround ==
  \A n \in Nodes : \A a \in Path(n) \cap DOMAIN chainOf : \A c \in chainOf[a] :
    /\ Within(tree[n].auth, Body[c].auth)
    /\ Live(n) => hiWater < Body[c].notAfter

\* Under a root policy every root in the tree was signed by the pinned anchor,
\* and there is none under a policy that could not be read (DISC-1,
\* ROOTPOLICY-1: issue_root, adopt, serve_inner).
StrictRootsAnchored ==
  pin # NoPin =>
    \A n \in Nodes : Child(n, NoNode) =>
      /\ n \in DOMAIN chainOf
      /\ \E c \in chainOf[n] : Body[c].parent = Anchored /\ Body[c].signer = pin

\* What cert.rs says of the list: a daemon that could not read it at its start
\* refuses every adoption.
UnreadRefusesAdoption ==
  [][(found \in {Unparsed, Unread}) => (records' \subseteq records)]_<<vars, adoption>>

\* What the federation notes say of the uplink term: the holder runs only that
\* long without a signed contact receipt, and cannot renew its own lease.
UplinkBoundsSilence ==
  \A r \in records : tree[r.node].ttl <= heard[r.leaf]
=============================================================================
