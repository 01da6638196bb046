------------------------------ MODULE MCActors ------------------------------
(***************************************************************************)
(* A small instance of Actors: an actor on each of two workers, under      *)
(* backpressure with abort on death and without, as the runtime has it by  *)
(* default, and under drop-new (the second mailbox unbounded); from        *)
(* nothing, and from two idle actors that know each other, whose messages  *)
(* can close a cycle.                                                      *)
(***************************************************************************)
EXTENDS Actors, TLC

CONSTANTS w1, w2, a, b

MCHome == a :> w1 @@ b :> w2
MCStarts == {{}, {a, b}}
MCPolicies ==
  {[dropNew |-> FALSE, abort |-> TRUE, bound |-> [x \in Actor |-> 1]],
   [dropNew |-> FALSE, abort |-> FALSE, bound |-> [x \in Actor |-> 1]],
   [dropNew |-> TRUE, abort |-> FALSE, bound |-> a :> 1 @@ b :> Unbounded]}
=============================================================================
