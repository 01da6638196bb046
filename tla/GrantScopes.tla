----------------------------- MODULE GrantScopes -----------------------------
(***************************************************************************)
(* The grant tree with its scopes opened: the order it judges hand-outs by *)
(* is that of ScopeOrder, dimension by dimension, and a node is asked for  *)
(* uses (delulu-broker/src/validate.rs).  What a hand-out may be is one    *)
(* piece of code, what a use may be another; nothing but the properties    *)
(* below ties the two together.                                            *)
(***************************************************************************)
EXTENDS GrantTree, ScopeOrder

CONSTANTS
  Content(_),     \* the scope each name of one stands for
  Uses            \* the uses nodes are asked for

\* Scopes are stored in canonical form: `canonicalized` is the first thing `issue`
\* and `attenuate` do to a request.
ASSUME ScopesAreOpened ==
  /\ \A s \in Scope : IsScope(Content(s)) /\ ScopesCanonical(Content(s)) = Content(s)
  /\ \A s, t \in Scope : ScopeWithin(s, t) <=> ScopesWithin(Content(s), Content(t))
  /\ Uses \subseteq Use

Permitted == [s \in Scope |-> {u \in Uses : Allows(Content(s), u)}]

\* `validate`: the node is live, its effects hold the operation's, and its scope
\* the argument.
MayDo(n) == IF Live(n) THEN Permitted[tree[n].auth.scope] ELSE {}

\* But for commands under a zero rate, which the order and the runtime read
\* differently.
Paced(n) == {u \in MayDo(n) : ~Unpaced(Content(tree[n].auth.scope), u)}

-----------------------------------------------------------------------------
(* Properties.                                                             *)

\* What a node may do every node above it may do: a hand-out that passes the
\* containment check, through any chain of them and whatever ended meanwhile,
\* lets its holder do nothing new (`attenuation_check` against `validate`).
UsesOnlyShrink ==
  \A n \in Nodes : \A a \in Path(n) : Paced(n) \subseteq MayDo(a)

\* The same with no exception, as the table over `within` has it: an unbounded
\* child under a bounded parent is a widening (device_scope.rs:30).
RateIsNeverShed ==
  \A n \in Nodes : \A a \in Path(n) : MayDo(n) \subseteq MayDo(a)
=============================================================================
