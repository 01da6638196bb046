----------------------------- MODULE ScopeOrder -----------------------------
(***************************************************************************)
(* Scopes as the broker holds them: an effect set and one scope for each   *)
(* dimension (delulu-broker/src/authority.rs), the order and the meet on   *)
(* them dimension by dimension, their canonical form, and what each lets   *)
(* its holder do (validate.rs, secrets.rs, the runtime's envelope check    *)
(* and egress client).                                                     *)
(*                                                                         *)
(* Authority, which the grant tree is written over, knows the order as a   *)
(* preorder and adds the budget; here is the preorder.                     *)
(***************************************************************************)
EXTENDS PathScope, NetScope, DeviceScope

\* The effects a use may ask for; a program's other effects are not asked for here.
Effects == {"Read", "Write", "Net", "Clock", "Rand", "Declassify",
            "ForeignCall", "Actuate"}

\* An audience is a set of secrets, each with an origin it may be sent to.
IsScope(s) ==
  /\ s = [effects |-> s.effects, fsRead |-> s.fsRead, fsWrite |-> s.fsWrite,
          net |-> s.net, netSpecial |-> s.netSpecial,
          secrets |-> s.secrets, secretTo |-> s.secretTo,
          declassify |-> s.declassify, foreignC |-> s.foreignC,
          foreignPython |-> s.foreignPython, device |-> s.device]
  /\ s.effects \subseteq Effects
  /\ s.fsRead \subseteq ResolvedPath
  /\ s.fsWrite \subseteq ResolvedPath
  /\ s.net \subseteq Entry
  /\ s.netSpecial \subseteq Entry
  /\ s.secrets \subseteq STRING
  /\ s.secretTo \subseteq STRING \X STRING
  /\ s.declassify \subseteq STRING
  /\ s.foreignC \subseteq STRING
  /\ s.foreignPython \subseteq STRING
  /\ AreDevices(s.device)

-----------------------------------------------------------------------------
(* The order, the meet and the canonical form, dimension by dimension.     *)

\* `attenuation_check`, but for the budget.
ScopesWithin(child, parent) ==
  /\ child.effects \subseteq parent.effects
  /\ PathsWithin(child.fsRead, parent.fsRead)
  /\ PathsWithin(child.fsWrite, parent.fsWrite)
  /\ NetWithin(child.net, parent.net)
  /\ NetWithin(child.netSpecial, parent.netSpecial)
  /\ child.secrets \subseteq parent.secrets
  /\ child.secretTo \subseteq parent.secretTo
  /\ child.declassify \subseteq parent.declassify
  /\ child.foreignC \subseteq parent.foreignC
  /\ child.foreignPython \subseteq parent.foreignPython
  /\ DevicesWithin(child.device, parent.device)

\* `intersect`: the repair a refused hand-out is answered with.
ScopesMeet(s, t) ==
  [effects       |-> s.effects \cap t.effects,
   fsRead        |-> PathsMeet(s.fsRead, t.fsRead),
   fsWrite       |-> PathsMeet(s.fsWrite, t.fsWrite),
   net           |-> NetMeet(s.net, t.net),
   netSpecial    |-> NetMeet(s.netSpecial, t.netSpecial),
   secrets       |-> s.secrets \cap t.secrets,
   secretTo      |-> s.secretTo \cap t.secretTo,
   declassify    |-> s.declassify \cap t.declassify,
   foreignC      |-> s.foreignC \cap t.foreignC,
   foreignPython |-> s.foreignPython \cap t.foreignPython,
   device        |-> DevicesMeet(s.device, t.device)]

\* `canonicalized`: the form a scope is stored in.  An audience without its
\* secret and a special-use entry outside `net` are dropped.
ScopesCanonical(s) ==
  [s EXCEPT
     !.fsRead     = CanonicalPaths(s.fsRead),
     !.fsWrite    = CanonicalPaths(s.fsWrite),
     !.net        = CanonicalNet(s.net),
     !.netSpecial = {e \in CanonicalNet(s.netSpecial) :
                       NetWithin({e}, CanonicalNet(s.net))},
     !.secretTo   = {to \in s.secretTo : to[1] \in s.secrets}]

-----------------------------------------------------------------------------
(* What a holder may do.                                                   *)

\* The uses a scope is asked about.  A network use names its host only, or its
\* whole request; `Special` is a request to an address of special use, `Hold`
\* the keeping of a device after so long a silence and so long a loan.
Use ==
  [op : {"FsRead", "FsWrite"}, path : ResolvedPath]
  \cup [op : {"Dial"}, host : Host]
  \cup [op : {"Fetch", "Special"}, request : NetRequest]
  \cup [op : {"Declassify", "Expose", "Foreign"}, name : STRING]
  \cup [op : {"Send"}, name : STRING, origin : STRING]
  \cup [op : {"Command"}, device : STRING, fields : SUBSET (STRING \X Int), gap : Nat]
  \cup [op : {"Hold"}, device : STRING, silent : Nat, held : Nat]
  \cup [op : {"Clock", "Rand", "Console"}]

\* `Op::required_effect`; a secret is sent for its audience, without one.
RequiredEffect(op) ==
  CASE op = "FsRead"                         -> {"Read"}
    [] op \in {"FsWrite", "Console"}         -> {"Write"}
    [] op \in {"Dial", "Fetch", "Special"}   -> {"Net"}
    [] op \in {"Declassify", "Expose"}       -> {"Declassify"}
    [] op = "Foreign"                        -> {"ForeignCall"}
    [] op \in {"Command", "Hold"}            -> {"Actuate"}
    [] op \in {"Clock", "Rand"}              -> {op}
    [] op = "Send"                           -> {}

Fetches(s, r) == \E e \in s.net : EntryAllows(e, r)

\* A program may ask for any entry within a granted one, and the client opens the
\* special addresses of the hosts whose entry is within a special one too.
ReachesSpecial(s, r) ==
  /\ Fetches(s, r)
  /\ \E e \in s.net, x \in s.netSpecial : EntriesMeet(e, x) /\ HostMatches(r.host, e.host)

\* `validate` for an argument, `expose`, `send_secret` and the device broker.
InScope(s, u) ==
  CASE u.op = "FsRead"     -> PathsWithin({u.path}, s.fsRead)
    [] u.op = "FsWrite"    -> PathsWithin({u.path}, s.fsWrite)
    [] u.op = "Dial"       -> \E e \in s.net : HostMatches(u.host, e.host)
    [] u.op = "Fetch"      -> Fetches(s, u.request)
    [] u.op = "Special"    -> ReachesSpecial(s, u.request)
    [] u.op = "Declassify" -> u.name \in s.declassify
    [] u.op = "Expose"     -> u.name \in s.secrets
    [] u.op = "Send"       -> u.name \in s.secrets /\ <<u.name, u.origin>> \in s.secretTo
    [] u.op = "Foreign"    -> u.name \in s.foreignC
    [] u.op = "Command"    -> /\ u.device \in DOMAIN s.device
                              /\ InEnvelope(s.device[u.device], u.fields)
                              /\ InRate(s.device[u.device], u.gap)
    [] u.op = "Hold"       -> /\ u.device \in DOMAIN s.device
                              /\ Holds(s.device[u.device], u.silent, u.held)
    [] OTHER               -> TRUE

Allows(s, u) == RequiredEffect(u.op) \subseteq s.effects /\ InScope(s, u)

\* A command to a device whose rate is zero: the runtime takes a zero for no bound
\* at all, where the order has it as the tightest.
Unpaced(s, u) == u.op = "Command" /\ s.device[u.device].rate = 0
=============================================================================
