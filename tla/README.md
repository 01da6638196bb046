# DeluluLang custody: TLA+ models, checks and proofs

DeluluLang is a language whose programs hold no ambient authority: every effect
goes through a capability, and every capability through a *custody broker* that
keeps a tree of grants, revokes subtrees of it, and records everything it does
on a hash-linked audit chain. The broker is a library (`crates/delulu-broker`)
and, in daemon mode, a process (`crates/delulu/src/brokerd.rs`) that other
processes call. This directory holds models of that core, the TLC runs that
check them on small instances and the TLAPS proofs that hold for every size.

All paths below are relative to the repository root (`crates/...`), and all line
numbers are those of the modelled commit. `PROJECT.json` is the machine-readable
side of this document: components, runs, the map from definitions to source
lines, mutants, findings, hazards and theorems.

## 1. Inventory

### 1.1 The parts that carry state

| Part | Source | State | Operations | Talks to |
|---|---|---|---|---|
| Grant tree | `delulu-broker/src/tree.rs` | nodes (parent, authority, deadline, stamp), epoch, audit seq, clock high water | issue, attenuate, revoke, extend, inspect | audit sink, clock |
| Authority order | `authority.rs`, `budget_scope.rs`, `path.rs`, `netscope.rs`, `device_scope.rs` | none | containment, meet, canonical form, inheritance of an absent budget | tree, certificates, guard, use check |
| Leases | `lease.rs`; rotation in `brokerd.rs` | broker key (memory and disk), spent nonces, holder of a node | delegate, redeem, rotate, undo | tree, disk |
| Federation | `cert.rs`; persistence in `brokerd.rs` | adopted leaves, chains of adopted nodes, retired certificates (memory and disk), root policy | verify, adopt, renew, revoke, undo | tree, disk |
| Audit chain | `audit.rs`; `TrackingSink` in `brokerd.rs` | day files, anchor, append lock, one handle per process | open, take the lock, number, append, verify | every process that records |
| Dead-men | `deadman.rs` | armed nodes with key, period and deadline | arm, beat, note, disarm, fire | tree, serve loop |
| Hearing clock | `brokerd.rs` | time left out, last look, listening or not | now, look, listen | dead-men, its own thread |
| Serve loop | `brokerd.rs` | two lines of requests, the requests taken, the beats noted | read, hand over, wake, drain, judge, handle | all of the above |
| Guard | `guard.rs` | rules, requests, permits, owner code, bypass, poison | edit, ask, approve, judge a use or a mint | tree, disk |
| Proposals | `proposal.rs` | proposals and their status | file, approve, reject, undo | leases, guard |
| Use check, a run's client | `validate.rs`, `broker_client.rs` | each thread's snapshot and when it was stamped; the run's nodes and the keys it beats | check a use, refresh, mint, arm, beat, end | tree, guard, dead-men |
| Actors | `delulu-runtime/src/actors.rs` | a job queue per worker, mailbox depths, the count of unfinished jobs | spawn, send, wait for room, take, fault, finish | worker threads and main |
| Rest of the runtime | `delulu-runtime` | interpreter, sandbox channel, devices, egress | run a program | custody |

The rest of the repository (lexer, parser, checker, WASM backend, command line,
platform confinement, language server, registry, reports and test harnesses) is
listed in `PROJECT.json` with the reason each is left out: pure functions over
large data, calls into the operating system, or generated output.

### 1.2 How they interact

Requests come from other processes. Up to 64 reader threads take them whole off
their connections, stamp them with the hearing clock, note the beats, and hand
them to one handler thread by two bounded lines, revocations in a line of their
own with a wake on the other. The handler alone touches custody: it judges the
dead-men, takes one request, calls the tree, the leases or the certificates, and
each of these numbers and writes its records through a sink that takes the
chain's append lock for as long as the request lasts. Other processes, the hosts
of sandboxed runs, append to the same chain under the same lock. An operation
whose record was not written is undone, except a revocation and a rotation,
which stand. The tree, the nonces, the adoptions and the dead-men live in memory
only; over a restart the daemon carries its key, the retired certificates, the
guard policy and the chain.

### 1.3 What is hard here

* **Interleaving**: readers against the handler; appenders against each other
  and against a verifier; the hearing thread against everybody who reads the
  clock; actors' workers against each other over mailboxes and the count.
* **Crashes and cut writes**: within a rotation, between a record and its
  anchor, between a revocation and its list, within a line.
* **Lost records**: half-done operations that must be undone completely, or stand
  and say so.
* **Time**: a wall clock that steps back, a daemon that was stopped, a lock wait
  that runs out, a beat that is late, early, noted and handled, a snapshot that
  was true when it was taken, a permit that runs out before it is used.
* **Long sequences of legal calls**: hand-outs that could widen, revocations
  that could miss a node minted later, chains presented again.
* **Two readings of one scope**: a hand-out is contained by one piece of code, a
  use allowed by others (the broker's check, the secret store, the egress client,
  the device broker), and a scope has eleven dimensions, each with an order of its
  own: prefixes, patterns, whitelists of ranges, bounds where absent is the top.

The hazards in `PROJECT.json` name each of these at the line where it bites.

### 1.4 What makes each part correct

* Tree: nothing widens; revocation covers the subtree, is final and is accounted
  for on the chain; expiry is inherited and final whatever the clock does.
* Order: containment is a preorder, on stored scopes an order; what is contained
  allows nothing more, and neither repair nor storing widens.
* Leases: a single-use token is redeemed once, memory and chain agree about
  redemptions, a rotated key never returns and kills what it signed.
* Federation: adopted authority stays within every certificate of its chain and
  of its window, a revoked credential stays out over restarts and damage, and a
  root policy admits no other roots.
* Chain: one linked chain, rising seqs, promised seqs kept, acknowledged records
  stay, evidence of a cut is not written over, alarms are real.
* Clock and dead-men: only silence fires, silence does fire within one period,
  and nobody's dead-man lapses unsaid.
* Serve loop: a revocation waits for no other request, a beat or disarming in
  time is not beaten by the judgment before it, and an idle daemon fires too.
* Guard: a permit is what its approval made of it until it is spent, no approval
  reaches under a seal, and the rules in force are never looser than the chain
  says, over every start, but for what a failed write did not store.
* Proposals: list, tree and chain agree about each, and none relaxes its author.
* A run's client: no allow outlives its node or the rule over it by more than the
  bound, and no node the run was told of outlives it by more than a period.
* Actors: a mailbox counts what it holds, messages of a pair keep their order,
  main ends when nothing is left and not before, and nobody waits for ever but in
  the cycle the repository documents.

## 2. Modules

| Module | Models | State and actions against the code |
|---|---|---|
| `Authority` | `authority.rs`, `budget_scope.rs` | `Within` is `attenuation_check`; `BudgetWithin` the budget order with its absent top; the other dimensions are one preorder `ScopeWithin`, a constant |
| `PathScope`, `PathSpelling` | `path.rs` | resolved paths are sequences of segments: `DescendsFrom`, sets and their meet; `PathSpelling` has the texts, `Resolve` and `Render` |
| `NetScope` | `netscope.rs`, `host_matches` | `EntryAllows` is `judge`; `EntryWithin` and `EntryMeet` the order and the meet, down to segments of patterns |
| `DeviceScope` | `device_scope.rs`, the checks of `device.rs` | `EnvelopeWithin`, `EnvelopeMeet`; `InEnvelope`, `InRate` and `Holds` are what the runtime makes of an envelope |
| `ScopeOrder` | `authority.rs`, `validate.rs`, `secrets.rs` | the three above as one scope: `ScopesWithin`, `ScopesMeet`, `ScopesCanonical` over all dimensions but the budget, and `Allows`, what a scope lets its holder do |
| `Custody` | the promise of the broker, abstract | grants, where each came from, which are in force, which are withdrawn |
| `GrantTree` | `tree.rs` | one action per broker call: `Issue`, `Attenuate`, `Revoke`, `ExtendTtl`, `Observe` and the refusals, each with the clock reading and the seq it takes |
| `GrantScopes` | `validate.rs` on a node of the tree | extends `GrantTree` and `ScopeOrder`: the names of scopes are opened (`Content`), and `MayDo` is what a node may do now |
| `Lease` | `lease.rs`, rotation and undoing in `brokerd.rs` | extends `GrantTree`; `Delegate`, `Redeem`, `RotateKey`, their unrecorded and refused forms, `RotateAborted`, `Stop`, `StopRotating`, `Start` |
| `Adoption` | `cert.rs`, lists and policy in `brokerd.rs` | extends `GrantTree`; `Adopt`, `Renew`, `RevokeAdopted`, `IssueRoot` under a policy, undoing, `StopRevoking`, `Spoil`, `Start` |
| `AuditChain` | `audit.rs`, `TrackingSink` | one process per writer with a program counter: `Take`, `Promise`, `Settle`, `OpenDay`, `WriteLine`, `WriteBreak`, `EmptyAnchor`, `WriteAnchor`, `Release`; `Fail`, `Tear`, `Die`; the reader's `ReadDay`, `ReadAnchor`, `ReadAgain` |
| `HearingClock` | `Hearing`, `HearingClock` in `brokerd.rs` | `Pass`, `LookAt`, `StartListening`, `StopListening`; `HeardNow` is `heard_at` |
| `Deadman` | `deadman.rs` | `Arm`, `Beat`, `CountNote`, `Disarm`, `FireExpired`, `End`; the record of an arming or a disarming may be lost |
| `DaemonClock` | how `handle` and the loop tie the two together | `HearingClock` and `Deadman` composed: the instant dead-men are judged by is the clock's reading |
| `ServeLoop` | `serve_inner` | extends `Deadman`; readers (`Read`, `HandOver`, `HandOverRevocation`, `SendWake`) and the handler (`TakeUrgent`, `Drain`, `WaitRequest`, `WaitOver`, `JudgeDeadmen`, `Handle`) |
| `Guard` | `guard.rs`, its arms and its file in `brokerd.rs` | one action per request: `SetRule`, `UnsetRule`, `SetBypass`, `Ask`, `Approve`, `Deny`, `RevokePermit`, `List`, the uses (`UsePlainly`, `UseByPermit`, `UseBlocked`), `Mint`, `MintRefused`; `Issue`, `Kill` and `Restart` of the daemon around it |
| `Proposals` | `proposal.rs` and its arms in `brokerd.rs` | extends `Guard`; `Propose`, `ApproveProposal`, `ApprovalRefused`, `Reject` |
| `RunClient` | `broker_client.rs` | the run (`IssueRoot`, `Hold`, `Mint`, `ArmMinted`, `Beat`, `EndRun`, `KillRun`), its threads' uses (`SyncUse`, `Refresh`, `EpochUse` and their answers, `GaveUp`), the daemon as far as the run can see it, and what it handles when nobody waits any more (`MintLate`, `ArmLate`) |
| `Actors` | `actors.rs` | a step per access to shared state: `Spawn`, `Send`, `Reserve`, `Park`, `Push` of any thread; `Take`, `EndTurn`, `Fault`, `Done`, `Release`, `Freed` and the two wakes of an abort of a worker; `MainReturns`, `Finish`, `Join` of main |
| `MC...` | small instances | constants only; `AuditChain` and `RunClient` need none |
| `..._proofs` | theorems | see section 5 |

### Decisions worth knowing

**One action is one broker call** in `GrantTree`, `Lease` and `Adoption`, because
the handler thread owns the broker and answers one request at a time (the borrow
`&mut Broker` in `handle`). What can happen inside a call and be seen outside is
an action of its own: a stop within a rotation, or between the record of a
revocation and the list on disk. `AuditChain` and `ServeLoop` are where calls
really interleave, so there each write and each step of a thread is an action.

**Time.** Wall-clock readings are chosen anew at each call and may step back;
the code's ratchet (`now`, `tree.rs:292`) is the variable `hiWater`. The hearing
clock is modelled from wall time up in `HearingClock`. `ServeLoop` runs on a
clock that only ticks; `DaemonClock` shows that the hearing clock is such a
clock, ticking at most as fast as the wall.

**The audit counter** takes the chain's next seq as a floor, and other writers
move that: the floor is an input. Seqs start at 1, so a stamp of 0 stands for
the stored state `Live`.

**Subtrees.** `Path(n)` is the least set that holds `n` and the parent of each
of its members, which is what the code's walk over parent pointers visits, and
`Subtree(t)` the nodes with `t` on their path, which is what its breadth-first
search finds. No recursion is needed, and the same definitions are proved about.
A walk that meets 1024 nodes (`MaxHops`) gives up and answers "expired".

**Names for hashes.** A record's name stands for its hash, a certificate's for
its fingerprint, a token's key for its MAC, a signature for the party that made
it: collisions and forgeries are outside the models.

**Scopes are opened late.** `GrantTree` and everything on it know a scope by its
name and the order by its laws, which keeps their state small. `GrantScopes` says
what the names stand for, and its theorem `OrderIsAsAssumed` shows that the laws
hold. The parsers are abstracted to what they accept: a path is the segments
`resolve` leaves, an entry what `read` and `parse_pattern` make of it, an
envelope what `parse` does. Bounds of envelopes are whole numbers, of which only
the order is used (the code has finite doubles). A use is an operation and what
it is asked with; it joins what the code asks in several places, so a network
request is judged as the client judges it and a command as the device broker
does.

**Undone operations.** Where the daemon undoes what it could not record, the
model's action is the net effect of doing and undoing: a seq spent, an id drawn
and the clock moved.

**Renewal reaches `ExtendTtl`** only for adopted nodes, so in `GrantTree` it is
guarded by what those are: roots with a deadline. `Adoption` then has the call
itself, with the receipt.

**The guard's tree.** `Guard` keeps of a node its parent, its authority and
whether it was revoked; expiry and seqs are `GrantTree`'s. Items are pairs of a
class and a name, names are ordered by the constant `NameWithin`, and of the
classes the model keeps which of them bear an effect and which dimensions
`mint_within_subset` looks at. `chain` holds what the records say of the rules,
over all starts, and of approvals and mints since the last one, which is what the
properties compare memory with. A request whose record is lost is the same action
with `recorded` false; what loosens is undone, what tightens stands. Every write
of the policy file may fail (`Store`): the file is then as it was, gone - which is
also what one cut within a character is taken for (`brokerd.rs:85`) - or corrupt.
`stored` keeps whether the last write held and, from the start after one that did
not, the rules it should have stored and that came back looser; an edit that is
recorded clears its rule. A permit may be approved for no use (`Count` may hold
0), as the command line and the broker allow.

**A reply takes time.** In `RunClient` the daemon answers at one moment and the
client stamps the snapshot when it has the answer; both moments are kept. Every
request that ends a node may be lost. The answer to an issue, a mint or an arming
may be lost or come too late: the run goes on without it (`rpc` returns an error
after `REQUEST_DEADLINE`), and the request is kept in `late`, from which the
daemon may handle it at any later moment, or never. A kill falls anywhere too,
with a request on its way or not. A
dead-man that is due fires before time goes on: `DeadlineIsKept` of `ServeLoop`
is what entitles the model to it.

**Threads of the runtime.** `Actors` has one step between two accesses to what
threads share, with both condition variables: a waiter parks under the lock, a
notifier wakes whoever is parked at that moment, and a notification nobody waits
for is lost. A turn is what it sends and spawns; it ends or faults at any point.
The slot in a mailbox and the count of a message are two accesses in `send` and
one step in the model: between them the sender's own turn is counted, so main
cannot see the difference. `policy` is chosen once, at the start of the program.

**Faults of the chain.** `Faults` says what may go wrong between two writes
("cut"), between a record and its anchor while another writer's handle stands on
another day file and so will not look where the record is ("other day"), and
within a line ("tear"; "last tear" where nobody
writes afterwards). The general run takes every cut except the two whose
consequences are findings, and each of these has a run that shows them.

## 3. Runs

| Run | Instance and bounds | Distinct states | What it shows |
|---|---|---|---|
| `tree` | 3 ids, 3 requests (a wide scope, one narrower in every dimension, one that adds a dimension to a device) with 2 budgets or none, 13 uses, deadlines {2,3} or none, readings {1,2}, floors {0,3}, seq to 4 | 21,893 | every order of recorded calls: nothing widens, uses only shrink, revocation transitive, final, accounted, expiry final, and every call a step of `Custody`; as assumptions, the laws of paths and patterns |
| `lease` | 3 ids, 2 keys, 2 peers, 5 recorded calls | 123,075 | single use over restarts, memory equal to chain, rotated keys dead and gone |
| `adoption` | 3 ids, 6 certificates in 5 chains, receipts of the ground and of the holder, 3 policies, list damaged or not, seq to 5 | 28,010 | adopted authority stays within the ground's, the revoked stays out, strict roots only |
| `audit` | 2 writers, 2 days, 2 records, 1 reader, every fault but the two with findings | 1,917,045 | one chain, seqs, promises, acknowledgements, evidence, alarms |
| `serve` | 1 dead-man, 5 kinds of request, 3 requests, 2 readers, lines of 2, 2 notes, time to 3 | 835,880 | silence is real, a waiting disarming stands, revocations first, deadlines kept (under fairness) |
| `clock` | 2 nodes, one below the other, periods {1,2}, slack 1, wall time to 6, 2 armings | 49,579 | clock and dead-men together: stops left out, nothing lapses unsaid, at most a period |
| `guard` | 2 nodes, 1 rule with 4 tiers, 2 subsets (by name, by effect), 1 guarded grant, approvals for no use, one and any number, every write of the file held or failed, time to 1, 1 request and permit id | 952,238 | permits answer to approvals and time, no approval under a seal, nothing looser than the chain over any starts, but for rules a failed write had not stored |
| `proposals` | 3 nodes, a plain and a guarded item, 2 asks, 2 proposals, 1 permit | 42,523 | list, tree and chain agree, approval only from above, decisions stand |
| `client` | 1 thread, own root or lease, a plugin's and a device's node, snapshots of 2, replies of up to 1, period 1, requests and answers lost or late, time to 4 | 4,306,948 | allows are fresh to the stated bound, no node the run was told of outlives it |
| `actors` | 2 workers, an actor on each, bound 1 or none, drop-new, or block with and without abort, from nothing or from two idle actors, 4 jobs | 1,455,737 | exact mailboxes and count, order, end when quiet, end unless in a cycle (under fairness) |

Two more runs, `serve_wake` and `guard_mint`, each end in a counterexample and
are findings of section 6. Properties that belong to one question are one
definition (`RevocationReaches`, `RulesStand` and the like): its conjuncts are
named definitions of their own just above it, and the theorems of section 5 are
stated about either.

### Why the bounds are enough for the cases that matter

* Three ids give a root, a child and a grandchild, or two children of one root,
  or an adopted root with a hand-out of a hand-out: the shortest shapes in which
  transitivity and a node minted after a revocation differ from their shallow
  versions. The proofs do away with the bound for the tree.
* The laws of paths are checked over all texts of up to four parts, which hold
  every way a name, a step up, an anchor and a drive can follow each other; those
  of patterns over all of up to three segments against requests with one segment
  more and a name no pattern has, so that `*` and `**` differ from every list of
  literals. The proofs do away with the bound for everything else of a scope.
* Four seqs in `tree` are three calls beyond the first mint, with a floor that
  can overtake the counter in between; the mutants below each fall within them.
* Five seqs in `adoption` cover adopt (two), revoke, a stop and start, and adopt
  again (two), and five in `lease` delegate, redeem, rotate, restart, present
  again.
* Two records in `audit` are the fewest with a link; two days the fewest in
  which a handle can be behind; two writers the fewest that can disagree. What
  needs a third record is in `AuditNewDay.cfg`, which has one.
* Three requests in `serve` are an arming, a beat or disarming, and whatever
  stands before or behind it. Lines of two are full in many of its states.
* One id of requests and of permits in `guard` is enough for a permit to be asked
  for, given, used, to run out or be revoked, and for the id to be drawn again
  after a restart; the one tick is the end of every permit and of every request
  made before it. Counts of none and one are the two at which a permit is spent by
  its first use. Two proposals are the fewest where one node proposes under what the other granted.
* Time to 4 in `client` is past start, a whole snapshot, a reply and a period;
  one thread is enough because threads share nothing but the run's node.
* Four jobs in `actors` close a cycle of two full mailboxes, and are the fewest
  that do: each mailbox's one slot, and one more message to each.
* Each passing property has a mutant in `PROJECT.json`: a plausible bug in the
  code the property is about, which TLC finds within the same bounds.

`CHECK_DEADLOCK FALSE` is set where the system may stop for good: a daemon that
is down over a key file no start accepts (`lease`), every record of the bound
made and its writers done (`audit`), time at its bound and no request left
(`serve`, `clock`), ids or time used up (`guard`, `proposals`, `client`), and a
program that has ended (`actors`, where a thread left waiting is what
`EndsUnlessCycle` is about). `tree` and `adoption` check for deadlock.

## 4. Fairness

`ServeLoop` and `Actors` state some. In `ServeLoop`, `FairLoopSpec` assumes weak fairness of the handler's
steps together and of the readers' hand-overs together: the operating system
runs every thread that can run. No fairness is assumed of clients, who may never
send anything, of time, which may stop at its bound, or of any single reader.
The liveness property `DeadlineIsKept` needs nothing more: a deadline that has
passed either wakes the handler or is found by it on its way through the loop.
In `Actors` each thread is weakly fair as a whole: the operating system runs
every thread that can run, and a turn is finite (a behaviour that loops for ever
is a program that never ends, and no property of the runtime). Nothing is
assumed of which step a thread takes. `EndsUnlessCycle` then says that the
program ends, or that workers wait on each other's full mailboxes in a cycle
(each parked, and the mailbox full), which the comment of `send` (`actors.rs:358`) documents as a non-guarantee.

The other modules state safety only, and their specifications have no fairness.

## 5. Proofs

12,207 obligations in eight modules, all proved with Z3, Zenon and LS4. They
assume the `ASSUME`s of the modules and nothing else: `ScopeWithinIsPreorder` and
`NoBudgetIsNoBudget` (`Authority`), `ConstantsAreSane` (`GrantTree`),
`ScopesAreOpened` (`GrantScopes`), `LeaseConstants`, `AdoptionConstants`,
`AuditConstants`, `ClockConstants`, `DeadmanConstants`, `WallWithinTime`,
`ServeConstants`, `GuardAssumption` and `NamesAreSane` (`Guard`),
`ProposalAssumption`, `RunAssumption` and `ActorsAssumption`. TLC evaluates each of them in the runs.
The first is proved of the code's own order (`OrderIsAsAssumed`), from
`ScopesAreOpened`.

Three results have a hypothesis of their own, because without it the code does
otherwise and section 6 has the counterexample: `OnlyCuts` for the chain,
`SendsByName` for seals, `Unread \notin Damage` for retirement.

The induction theorems of the library cannot be used, so induction is done with
sets in the place of operators: `Least` (a nonempty set of numbers has a least
member) from the well-foundedness of `<`, and `Induct` from it. Where the model
has a function defined by recursion over numbers, `Recursion` shows that there is
one, and what it computes is then proved by `Induct`.

### The grant tree (`GrantTree_proofs`)

Everything about ancestors is proved by one induction without an induction
theorem: `PathInduction` says that a set that holds a node and the parent of each
of its members holds its whole path. A property of all ancestors is therefore
reduced to a property of a node and its parent, which is what is inductive:

* `NothingEverWidens`: the inductive form is `WithinParent`, since the code
  compares neighbours; `WithinTransitive` carries it up the path, the absent
  budget at the top included.
* `RevocationIsTransitive`: the inductive form is that the child of a revoked
  node is revoked; a revocation preserves it because the subtree of its target
  is closed under children, a mint because it asks for a live parent.
* `TypeCorrect` needs that parents are nodes of the tree and that stamps are
  behind the counter; both are in `TypeOK`, which is inductive.

`StepShape` proves once that every call mints one node, or marks one subtree and
records it, or at most moves the deadline of roots; every later proof has these
three cases rather than seven actions. `RevocationsAccounted` rests on records
being kept and paths never changing (`RecordsKept`, `PathStays`), `ExpiryStands`
on the ratchet (`ClockStep`), and `PromiseKept` shows the refinement to `Custody`: `Covered` after
each step, then one of `Enter`, `HandOut`, `Withdraw`, `Renew`, `Lapse`.
`PathMint` and `PathStays` say how paths change under a step.

### Scopes (`GrantScopes_proofs`)

* `ScopesAreOrdered` and `StoredScopesAreOrdered`: each dimension is a preorder,
  and on canonical sets an order. Paths need that a prefix of a prefix is one and
  that no step up is gained on the way; patterns that `PatternWithin` says how
  long the child is, and the segments then compare one by one.
* `ContainmentIsSound` is the theorem the order exists for: what a contained scope
  allows its container allows. It goes use by use. For paths it is transitivity,
  since a use is a path under a granted one; for requests it is
  `PathMatches` growing along `PatternWithin`; for special addresses it needs that
  meeting an entry carries over too, because a program may ask for less than its
  entry and the client judges by host; for commands the whitelist of dimensions
  and the rate. `~Unpaced` is the one hypothesis the code does not guarantee
  (section 6).
* `RepairNeverWidens` and `StoringNeverWidens`: the meet is contained in both
  sides, the canonical form in what it is the form of.
* `UsesShrink`: `NothingEverWidens` puts a node's scope within its ancestor's,
  `NoneOutlives` says the ancestor is live when the node is, and
  `ContainmentIsSound` does the rest.

That a path's segments mean what its text says, that pattern order and meet are
exact and not just sound, is checked by TLC over bounded texts: the `ASSUME`s of
`MCGrantTree`.

### Leases (`Lease_proofs`)

A step of the daemon has one of three shapes (`LeaseStepShape`): nodes are only
added, under ids never drawn, bound to nobody (`Grows`); one token is redeemed
and recorded (`Redeems`); or the daemon stops and forgets its tree, nonces and
bindings, but not the chain (`Forgets`).

* `RedeemedOnceOnly`: neither of its two parts is inductive alone. While the
  daemon lives, a nonce is spent exactly when a record says so
  (`RedemptionsAccounted`), hence a second redemption finds it spent. After a
  stop the nonces are gone, but so are the nodes: a record is of an id drawn
  (`RecordsAreOfDrawn`), and a node minted later has another id, so no old token
  names it.
* `RotationStands`: the inductive form is `KeysAreGone`, which adds that the key
  on disk is not retired either; the next start reads that one.

### Federation (`Adoption_proofs`)

A step has one of five shapes (`AdoptionStepShape`: `Idles`, `Hands`, `Adopts`,
`Renews`, `Withdraws`), or the daemon stops or starts. `AdoptionTypeCorrect` is
not `TypeOK` of the tree with more added: records of revocations outlive the tree
they are about, so what `TypeOK` says of them is dropped and the rest kept
(`TreeTypes`).

* `GroundBounds`: that each certificate of a chain is within the one before it is
  what verification compares; `ChainNarrows` carries it to all before it, by
  `Induct`. `GroundInv` then joins three parts that need each other: the tree
  narrows from parent to child (`WithinParent`), an adopted root is within every
  certificate of its chain in authority and in time (`Grounded`), and the window
  that receipts are held to is none but its chain's (`WindowsHold`), which is what
  keeps a renewal from undoing the second.
* `RetirementStands`: `RetireInv` says of the disk that it holds what reached it,
  of a running daemon that it has retired what it saw revoked (`Retires`), and
  that it knows what ever reached the disk, or knows nothing and then has adopted
  nothing (`Remembers`: a list that does not parse refuses adoptions, yet a
  revocation must not write an empty list over it). The hypothesis is that the
  list is not damaged so that it cannot be read.
* `StrictRootsStayAnchored`: under a policy no step but an adoption makes a root,
  and that one asks for the pinned anchor.

### The audit chain (`AuditChain_proofs`)

The properties are about the chain, and the chain is what two recursive functions
make of the files: the records of a file's lines, and the files one after the
other. `RecordsFunction` and `FlatFunction` show that they exist, and the lemmas
after them what a line more does to them (`RecordsOfAppend`, `ChainAppend`), to
the last seq (`TopWhenClimbing`) and to the head; after that no proof opens them.

`ChainInv` has nine parts. `Types` and `Alone` (whoever is at work has the lock)
stand by themselves, whatever goes wrong: `AuditTypeCorrect` has no hypothesis.
The others stand together:

* `OneLog`: links, seqs, promises and acknowledged records, which is what
  `ChainStandsAsOne` and `NothingIsLost` say;
* `Knowing`: a handle that counts as many records as the chain has its head and
  its top, and no file after its own holds one. This is what catching up relies
  on: it looks at its own day file and nowhere else;
* `InHand`: what a writer at each point of its append has prepared or written;
* `Fresh`: no record has an id that is still to come;
* `Anchored`: the anchor is missing, right, or short by exactly one record;
* `Blocked`: while it is short, nobody can take the chain for whole: every handle
  that is one record behind stands on the file of that record with a tail that
  lacks it, or has no file, or belongs to a moment whose cut is ruled out;
* `Honest`: as long as no write was cut short there is nothing wrong to see.

`Blocked` is the heart: without it a handle could catch up with part of the chain
and find the short anchor equal to what it knows, so that it would append a record
with the number of one that is there. It is also where the hypothesis is needed.
`OnlyCuts` leaves every stop between two writes but one: no record is cut within
a line that somebody may follow ("tear"), and none between its line and its
anchor while another handle stands on another day file ("other day"). Either gives
a counterexample (`AuditTorn.cfg`, `AuditNewDay.cfg`).

### Guard and proposals (`Proposals_proofs`)

`GuardInv` joins the shape of what the daemon holds and of what the chain says
(`Holdings`, `Books`) with `PermitsAccounted`, `RulesStand` and `Traced`: one
permit to an approval, an undecided request is on the chain, and so is the one an
approval answered. Without the last the charge of a use could meet the wrong
approval. Over a start the rules are compared with what all the records say:
whatever file the last write left, the rules that are looser in it than in memory
are the ones `stored.lost` names. It holds for any authorities, ordered or not, so it carries over to the
steps of `Proposals` (`GuardStandsUnderProposals`).

* `SealsHold`: what an item of an approval covers of a sealed use, some rule that
  seals it applies to (`SealReachesSubset`): the class and the effect of the use
  are crossed with the class and the effect of the item. `SendsByName` says that
  no rule or permit is about a single recipient of a secret.
* `ProposalsAccountedThroughout`, `ApprovalIsFromAboveThroughout`:
  `ProposalsInv` adds that the tree narrows by items whose names are ordered
  (`Ordered`), and that nobody has asked for what its node holds already
  (`Listed`). The latter is why no approver is below the proposer: whoever holds
  what is asked for and stands below would hold no more than the proposer does.
  The tree grows by leaves only (`Grows`), so paths of what was there stay.

### A run: its client and its actors (`Run_proofs`)

`ClientInv` has the daemon's side (`TreeInv`), where the run is (`PhaseInv`), and
two parts that carry the properties. `WatchInv`: a node that stands for the run is
live only with a dead-man, unless it is being armed or is lost, and no dead-man of
a node that is not lost is due later than a period after the run's last moment;
`PhaseInv` has that what is handled late is handled for lost nodes only, and
`RunsLeaveNothing` follows. `AnswerInv`: an answer on its way
or kept was true when it was taken, and a kept one was received at most a reply
after that; `NothingStaleAllowed` adds the interval. `Erodes` is the shape of every
step that only ends nodes.

`ActorsInv` proves `ActorsTypeOK` (with it the exact count of unfinished jobs),
`MailboxesHold` and `EndsWhenQuiet`, none of which is inductive. All three speak of
cardinalities of sets of jobs, so what has to be known is that a step moves one
job and that this job is in no second place. The invariant gets there in layers,
each kept with the help of those before it:

* `Shapes` and `Places`: the label of a thread says which job it has and whether
  one is in its hand; a job lies at the worker its actor lives on, and its `from`
  names the one thread that can have made it.
* `Ordered`: the numbers of one sender climb, from the worker's job along the
  queue to the sender's hand. Messages of a pair keep their order by this
  (`NoneIsEarlier`), and no job is in two places (`Distinct`).
* `CreatedFirst`: before what is sent to an actor stands the job that makes it,
  or the actor is made.
* `Tally`, `Boxes`: every step is one of `Moves`: at most one job comes to or goes
  from what is outstanding, what is yet to be accounted for and what holds slots,
  and the counters move with it (one lemma per action, `MakingMoves` to
  `MainMoves`). From that `TallyMoves` and `BoxKept` have the counts and bounds.
* `AllDone`: main is told to go at a count of zero, so with nothing outstanding;
  then no worker is in a turn, so none sends, and it stays so.

### Clock, dead-men and serve loop (`DaemonClock_proofs`)

* `HearingClock`: `ClockInv` adds to the types, which have no look ahead of the
  time and no more left out than had passed, where the mark is. `SteadyStep` is
  the arithmetic of saturating subtraction, case by case.
* `Deadman`: `DeadmanInv` joins types, `WithinOnePeriod` and
  `NeverLapsesSilently`, because none is inductive alone: a deadline is only
  pushed on because none is more than a period ahead, and a firing answers to
  whom it was promised because every armed key was told. `NothingArmed` is the
  shape of every call but an arming.
* `DaemonClock`: `OnClock` ties `now` to the reading of the clock.
  `DaemonImplements` shows that the composition implements both parts, a tick of
  the dead-men's clock whenever the reading moves and a stutter when it stands;
  the corollary `DaemonKeeps` carries the theorems of the parts over, and
  `LoopKeepsDeadmen` those of `Deadman` to the serve loop.
* `ServeLoop`: `LoopInv` adds three things to `DeadmanInv`. `HeardInTime`: once the
  notes are counted, the last proof of a sender and a period never pass the
  deadline, so a judgment made after counting them finds real silence
  (`FairJudgments`). `LateIsSilent`: a request in the handler's hands that came
  after a deadline came when the silence was already over, and no reader can note
  a beat in between that undoes it. `NextInLine`: a revocation that stood at the
  top of the loop is the next one taken (`RevocationsFirst`). Counting the notes
  is a recursive function; `NotesFunction` shows it to exist, and `OneMoreNote`,
  `NoNotes` and `NotesPush` what it does.

### Only model-checked

Every invariant and action property of the passing runs is stated by a theorem.
Liveness (`DeadlineIsKept`, `EndsUnlessCycle`, `RevocationIsHandled`) is beyond
the prover, which handles neither fairness nor `ENABLED`, and stays with TLC.

## 6. Findings

Two runs end in a counterexample to something the repository says.

* `serve_wake`: the wake of a revocation can be drained after the look at the
  revocations' line and before the wait (`brokerd.rs:2168`): in an idle daemon
  with no dead-man armed the revocation is then never handled.
* `guard_mint`: `mint_within_subset` (`guard.rs:1242`) looks at seven scope
  dimensions, and `tier_for_mint` gates on effects and device names as well: a
  permit for something else lets its holder mint a guarded device or effect
  without the owner code, where the comment says every guarded item is covered.
  What the child then does is still judged use by use.

Further disagreements have a configuration beside the runs, or a property that
can be put in one, and TLC ends each with a counterexample just as well (where a
configuration has two properties, `-continue` shows both):

* `GrantRate.cfg`, `RateIsNeverShed`: a device rate of zero is accepted by the
  parsers (`device_scope.rs:152`, `value.rs:731`) and is the tightest there is to
  `within` (`device_scope.rs:222`), but the device broker enforces a rate only
  `if hz > 0` (`device.rs:341`): a child handed `rate_hz=0` under a bounded parent
  is contained in it and commands as fast as it likes, where the table says "an
  unbounded child under a bounded parent is a widening" (`device_scope.rs:30`).
  `UsesOnlyShrink` is the same property with that one case apart.
* `MCGrantTree`, `UnderIsBelow`, without its exception: the path "." resolves to
  no segments, so `is_descendant_or_equal` (`path.rs:161`) finds "/x" and "C:/x"
  under it, where the test says "absolute vs relative differ" (`path.rs:266`).
  The command line makes the paths of grants absolute before they get here.
* `LeaseAbort.cfg`, `AbortKeepsKey`: a rotation whose write fails is refused with
  "the current key is unchanged", but `broker.key` was opened with
  `truncate(true)`: the daemon runs on over an empty key file, and the next start
  fails (`brokerd.rs:58`).
* `GuardSend.cfg`, `SealsHoldOverApprovals`: an approval is refused when it would
  reach a use that is sealed, "Anything `tier_for_use` refuses at use time is
  therefore refused here at request time" (`guard.rs:568`). But `overlaps`
  (`guard.rs:572`) compares the names of secrets exactly, while a rule on a secret
  also covers its every recipient (`guard.rs:302`, D-V2-137): with
  `declassify:key` sealed, a permit for `declassify:key@host` is approved. The
  theorem `SealsHold` has `SendsByName` to keep this case apart.
* `GuardUses.cfg`, `SpentAsApproved`: `--uses` is "a positive integer" in the words
  of its own refusal (`cli.rs:9326`), and "unlimited uses within scope unless
  `--uses N`" to the design (`docs/design/STAGE5_GUARD_ADDENDUM.md:160`). But 0 is
  parsed (`cli.rs:9321`) and stored as a count (`guard.rs:1183`), and a use is
  charged before the permit is looked at (`guard.rs:920`): an approval for no use
  is honoured once. `PermitsAreKept` allows exactly that once.
* `GuardStart.cfg`, `CorruptNeverOpens`: "guard policy store unreadable/corrupt ⇒
  guarded classes refuse (never fail open)" (`STAGE5_GUARD_ADDENDUM.md:143`). A
  policy file that does not parse gives the default rules and the poison
  (`brokerd.rs:90`), and poison refuses what these guard: a class that an edit had
  guarded or sealed is open. One that cannot be read as text is taken for absent
  and does not even poison (`brokerd.rs:85`). A file kept from before a failed
  write brings back older rules likewise; that the write is best-effort is said in
  the comment of `persist_guard_policy` (`brokerd.rs:96`). `RulesStand` sets apart
  the rules lost in these ways, one by one, and no others.
* `AdoptionRestart.cfg`, `UnreadRefusesAdoption`: a `revoked_certs.json` that
  exists but cannot be read is taken for absent (`brokerd.rs:122`);
  `load_root_policy` tells the two apart.
* `AdoptionRestart.cfg`, `UplinkBoundsSilence`: a restarted daemon adopts the same
  chain again, and counts its uplink term anew with no receipt (`cert.rs:613`).
* `AuditNewDay.cfg`, `NeverBuiltOn`: a writer that stops between a line and its
  anchor goes unnoticed by a handle on another day file, which looks only at its
  own (`audit.rs:587`), builds on its cached head and renews the anchor. Either
  the record is the first of a new day and the handle is still on an earlier one,
  or the handle opened a later day's file, which has a header and no record yet.
* `AuditTorn.cfg`, `AckedStays`: a record appended after an unfinished line runs
  on in it and is acknowledged although no line holds it (`audit.rs:1363`).
* `AuditAnswers.cfg`, `LostNamesNoRecord`: the answer to a revocation that could
  not be recorded says its seq "names no record" (`brokerd.rs:1244`); another
  writer may give that seq to its own record afterwards.
* `AuditAnswers.cfg`, `NoFalseAlarm`: a verification that fails is read again under
  the lock "before it is believed" (`audit.rs:840`); when the lock stays taken
  the first pass is reported as it is (`audit.rs:849`).
* `ServeLoopDisarm.cfg`, `DisarmJudgedByArrival`: a disarming is judged by its
  arrival (D-V2-127); one that arrived in time and is still on its way from its
  reader loses to a judgment made meanwhile, since only beats are noted.
* `RunClient`, `KilledLeavesNone`, with the constants of `RunClient.cfg`: a killed
  run is to leave no node it minted live (`broker_client.rs:324`), but one killed
  between the request that mints and the request that arms leaves that one. Nor
  does it take a kill: when the answer to an issue, or under a lease to a mint, is
  lost or later than `REQUEST_DEADLINE`, `issue_root` and `attenuate` return at
  once (`broker_client.rs:99`, `broker_client.rs:500`), and the node the daemon
  made or is still to make has no dead-man and nobody to revoke it. So with an
  arming whose request and whose revocation after it both fail, or that is handled
  after its run gave up. `NothingOutlivesItsRun` sets apart these nodes, and what
  is below such a root, and no others.
* `RunClient`, `WithinOneInterval`, likewise: "revocation reaches epoch-class ops
  within one interval" (`broker_client.rs:394`). The interval is counted from
  when the reply was received and the daemon answered before: the bound is one
  interval and the time of a reply, which is `AllowsAreFresh`.

Behaviour that a reader should know of and that is recorded by the repository
itself: a guard policy whose write failed is kept in memory only, with a warning
on stderr; a stream of revocations holds up every other request and the judgment
with it (D-V2-198); a failed write of the retired certificates leaves the
revocation in force and lost over a restart, with a warning on stderr.

Two remarks on the order that no property is about. A special-use entry that no
`net` entry holds is dropped because it "reaches nothing" (`authority.rs:99`); the
runtime would open special addresses to a program's narrower entry within both
(`prim.rs:620`), so an entry that merely meets one reaches something, and dropping
it narrows. And the meet of two envelopes with no dimension in common bounds
none, which `parse` refuses: a repair that names it cannot be asked for as it is.

## 7. What is not modelled

* The wire, framing, connection timeouts and the request that stops the daemon.
* The store of secrets, and the order of their record and release. `Guard` orders
  names by a constant, of which the orders of `ScopeOrder` are instances.
* A guard policy given at the start (`broker start --guard-policy`, `brokerd.rs:2444`),
  which replaces the stored one without a record.
* An ask for a budget by proposal, which is refused outright.
* In `RunClient`: the in-process custody of an embedded run, the monitor command,
  and two devices or two plugins at once, which share nothing but their parent.
* In `Actors`: the cycle collector, a pass over the heap of one worker that sends
  nothing; panics of a thread, which end the process; and which numbers the
  telemetry shows.
* The texts of net entries and envelopes, a drive letter joined to a name
  ("C:x"), bounds on lengths of patterns, and URLs before they are split. That
  meets are the greatest lower bounds is claimed by comments and not stated.
  Foreign Python modules are compared but no use of the broker asks for one.
* In the chain: the Follower, bundles, the OCSF export; the shortcuts
  `recover_fast` and `read_appended`, which skip only what has not changed.
  Tampering with the files is left out: the chain claims to detect it, but only
  a model with an adversary could say how far.
* Tree and chain meet only through seqs and records: an operation that is undone
  although its record reached the chain (a failed anchor) is a step of
  `AuditChain` with no tree beside it.
* Two adopted chains with a root certificate in common: revoking one leaves the
  other in force. The documents do not say what is meant, so nothing is stated.
* The rest of the repository, with the reasons in `PROJECT.json`.

## 8. Plan

In order, each as module, instance, properties with mutants, then proofs:

1. `Authority`, `Custody`, `GrantTree`: done, proved.
2. `Lease`: done, proved.
3. `Adoption`: done, proved.
4. `AuditChain`: done, proved.
5. `HearingClock`, `Deadman`, `DaemonClock`, `ServeLoop`: done, proved but for
   liveness.
6. `Guard`, `Proposals`: done, proved.
7. `RunClient`: done, proved. `Actors`: done, proved but for liveness.
8. `PathScope`, `NetScope`, `DeviceScope`, `ScopeOrder`, `GrantScopes`: done,
   proved. To prove: that meets are greatest.
9. Tree and chain in one module (the undoing of what was recorded), the
   Follower and bundles, then the sandbox channel and the leases of devices.
