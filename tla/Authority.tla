------------------------------ MODULE Authority ------------------------------
(***************************************************************************)
(* The order on authority that every grant is judged by                    *)
(* (delulu-broker/src/authority.rs, budget_scope.rs).                      *)
(*                                                                         *)
(* An authority is an effect set with one scope per dimension, plus a      *)
(* resource budget.  The dimensions whose bottom is "nothing" (effects,    *)
(* paths, hosts, devices, names) enter here only through the preorder      *)
(* ScopeWithin; the budget is concrete, because it alone has its TOP where *)
(* the others have their bottom: a grant that names no budget is unbounded *)
(***************************************************************************)
EXTENDS Integers

CONSTANTS
  Scope,               \* effect set and per-dimension scopes, as one value
  ScopeWithin(_, _),   \* containment on them, dimension by dimension
  NoBudget             \* the absent budget: the top of its dimension

Budget == [mem : Nat, cpu : Nat]

ASSUME ScopeWithinIsPreorder ==
  /\ \A s \in Scope : ScopeWithin(s, s)
  /\ \A s, t, u \in Scope :
        ScopeWithin(s, t) /\ ScopeWithin(t, u) => ScopeWithin(s, u)

ASSUME NoBudgetIsNoBudget == NoBudget \notin Budget

Grant == [scope : Scope, budget : Budget \cup {NoBudget}]

-----------------------------------------------------------------------------
BudgetWithin(child, parent) ==
  parent # NoBudget =>
    /\ child # NoBudget
    /\ child.mem <= parent.mem
    /\ child.cpu <= parent.cpu

\* `attenuation_check`: may a holder of `parent` hand out `child`?
Within(child, parent) ==
  /\ ScopeWithin(child.scope, parent.scope)
  /\ BudgetWithin(child.budget, parent.budget)

\* A request that names no budget asks for as much as its parent may hold.
InheritBudget(request, parent) ==
  IF request.budget = NoBudget
  THEN [request EXCEPT !.budget = parent.budget]
  ELSE request
=============================================================================
