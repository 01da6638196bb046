---------------------------- MODULE MCGrantTree ----------------------------
(***************************************************************************)
(* A small instance of the grant tree with real scopes: three requests a   *)
(* caller can make, a clock that can step back, and uses that tell the     *)
(* scopes apart in every dimension.  The laws of the order that rest on    *)
(* how paths and patterns are read are checked over bounded texts first.   *)
(***************************************************************************)
EXTENDS GrantScopes, PathSpelling

-----------------------------------------------------------------------------
(* Scopes, requests and uses.                                              *)

Lit(text) == [kind |-> "literal", text |-> text]

Web == <<"web">>
At(labels) == [below |-> FALSE, labels |-> labels]

Driven(rate) == [dims |-> [speed |-> <<0, 4>>], rate |-> rate,
                heartbeat |-> 50, ttl |-> 500, fail |-> "hold"]

WideScope ==
  [effects       |-> {"Read", "Net", "Declassify", "ForeignCall", "Actuate"},
   fsRead        |-> {<<Root, Named("data")>>, <<Named("work")>>},
   fsWrite       |-> {},
   net           |-> {[host |-> At(Web), methods |-> {"GET", "POST"}, path |-> <<Lit("a"), Rest>>]},
   netSpecial    |-> {[host |-> At(Web), methods |-> {"GET"}, path |-> <<Lit("a"), Rest>>]},
   secrets       |-> {"key"},
   secretTo      |-> {<<"key", "web">>},
   declassify    |-> {"audit"},
   foreignC      |-> {"z"},
   foreignPython |-> {},
   device        |-> [arm  |-> [dims |-> [speed |-> <<0, 9>>, torque |-> <<0, 1>>],
                                rate |-> 10, heartbeat |-> 200, ttl |-> 1000, fail |-> "hold"],
                      cart |-> Driven(5)]]

\* Narrower in every dimension, one of its rates a zero.
NarrowScope ==
  [WideScope EXCEPT
     !.effects    = {"Read", "Net", "Actuate"},
     !.fsRead     = {<<Root, Named("data"), Named("in")>>},
     !.net        = {[host |-> At(Web), methods |-> {"GET"}, path |-> <<Lit("a"), One>>]},
     !.netSpecial = {},
     !.device     = [arm  |-> [dims |-> [speed |-> <<2, 4>>], rate |-> 10,
                               heartbeat |-> 100, ttl |-> 1000, fail |-> "hold"],
                     cart |-> Driven(0)]]

\* The narrow one, and a further dimension of its device.
ReachingScope ==
  [NarrowScope EXCEPT
     !.device.arm.dims = [speed |-> <<2, 4>>, torque |-> <<0, 1>>]]

MCScope == {"wide", "narrow", "reaching"}

MCContent(s) == CASE s = "wide"     -> WideScope
                  [] s = "narrow"   -> NarrowScope
                  [] s = "reaching" -> ReachingScope

Order == {st \in MCScope \X MCScope : ScopesWithin(MCContent(st[1]), MCContent(st[2]))}

MCScopeWithin(s, t) == <<s, t>> \in Order

Small == [mem |-> 1, cpu |-> 1]
Large == [mem |-> 2, cpu |-> 1]

\* A budgeted wide grant, an unbudgeted narrow one (it inherits), and one that
\* reaches past the narrow one's scope and past the wide one's budget.
MCRequest == {[scope |-> "wide",     budget |-> Small],
              [scope |-> "narrow",   budget |-> NoBudget],
              [scope |-> "reaching", budget |-> Large]}

Get(method, path) == [host |-> Web, path |-> path, plain |-> TRUE, method |-> method]

MCUses ==
  {[op |-> "FsRead", path |-> <<Root, Named("data")>>],
   [op |-> "FsRead", path |-> <<Root, Named("data"), Named("in")>>],
   [op |-> "FsRead", path |-> <<Named("work"), Up>>],
   [op |-> "Dial", host |-> Web],
   [op |-> "Fetch", request |-> Get("POST", <<"a", "b", "c">>)],
   [op |-> "Fetch", request |-> Get("GET", <<"a", "b">>)],
   [op |-> "Special", request |-> Get("GET", <<"a", "b">>)],
   [op |-> "Send", name |-> "key", origin |-> "web"],
   [op |-> "Declassify", name |-> "audit"],
   [op |-> "Command", device |-> "arm", fields |-> {<<"speed", 3>>}, gap |-> 100000],
   [op |-> "Command", device |-> "arm", fields |-> {<<"torque", 1>>}, gap |-> 100000],
   [op |-> "Command", device |-> "cart", fields |-> {<<"speed", 3>>}, gap |-> 1],
   [op |-> "Hold", device |-> "arm", silent |-> 150, held |-> 900]}

\* Another writer may have taken the chain to seq 3 meanwhile.
MCFloor == {0, 3}

Symmetry == Permutations(Node)

-----------------------------------------------------------------------------
(* Laws of paths, over all texts of four parts and fewer.                  *)

Parts == {"", ".", "..", "C:", "x"}
SomeTexts == UNION {[1..n -> Parts] : n \in 1..4}
SomePaths == {Resolve(text) : text \in SomeTexts}
Places == {<< >>, <<"x">>, <<"x", "x">>}

\* A path means where its text leads, from wherever it is read, and reads back as
\* it was written.
ASSUME ResolvedMeansTheSame ==
  \A text \in SomeTexts :
    /\ \A from \in Places : Leads(from, Resolve(text)) = LeadsText(from, text)
    /\ Resolve(Canonicalize(text)) = Resolve(text)

Anchored(path) == path # << >> /\ path[1].kind \in {"root", "drive"}

\* A path under another leads below where the other leads.  But for "." itself: it
\* leaves no segment, so anchored paths too are found under it.
ASSUME UnderIsBelow ==
  \A c, p \in SomePaths : DescendsFrom(c, p) /\ (Anchored(c) => p # << >>) =>
    \A from \in Places : IsPrefix(Leads(from, p), Leads(from, c))

-----------------------------------------------------------------------------
(* Laws of patterns, over all of three segments and fewer; the paths have  *)
(* one segment more, and a name no pattern has.                            *)

SomePatterns ==
  {p \in UNION {[1..n -> {Lit("a"), Lit("b"), One, Rest}] : n \in 1..3} :
     \A i \in 1..Len(p) : p[i] = Rest => i = Len(p)}

SomeRequests == UNION {[1..n -> {"", "a", "b", "c"}] : n \in 0..4}

Matched == [p \in SomePatterns |-> {path \in SomeRequests : PathMatches(p, path)}]

\* The order is exactly the inclusion of what patterns match, and the meet exactly
\* the intersection.
ASSUME PatternsAreExact ==
  \A p, q \in SomePatterns :
    /\ PatternWithin(p, q) <=> Matched[p] \subseteq Matched[q]
    /\ PatternsMeet(p, q) <=> Matched[p] \cap Matched[q] # {}
    /\ PatternsMeet(p, q) => Matched[PatternMeet(p, q)] = Matched[p] \cap Matched[q]
=============================================================================
