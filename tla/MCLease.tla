------------------------------ MODULE MCLease ------------------------------
(***************************************************************************)
(* Small instances of Lease: one kind of request, so that the calls spent  *)
(* are spent on tokens, keys and restarts.                                 *)
(***************************************************************************)
EXTENDS Lease, TLC

CONSTANTS x

MCScope == SUBSET {x}
MCScopeWithin(s, t) == s \subseteq t
MCRequest == {[scope |-> {x}, budget |-> NoBudget]}

Symmetry == Permutations(Node) \cup Permutations(Key) \cup Permutations(Peer)
=============================================================================
