---------------------------- MODULE MCProposals ----------------------------
(***************************************************************************)
(* A small instance of Proposals: one plain and one guarded item, so that  *)
(* an approval meets the order, the gate and a permit that covers it.      *)
(***************************************************************************)
EXTENDS Proposals, TLC

MCNameWithin(a, b) == a = b

Plain == [class |-> "fs_read", name |-> "data"]
Secret == [class |-> "declassify", name |-> "key"]

MCRule == {[class |-> "declassify", name |-> AnyName]}
MCSubset == {{Plain, Secret}}
MCGrant == {{Plain}, {Plain, Secret}}
MCWanted == {{Secret}, {Plain}}

Symmetry == Permutations(Node)
=============================================================================
