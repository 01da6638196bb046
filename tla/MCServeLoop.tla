---------------------------- MODULE MCServeLoop ----------------------------
(***************************************************************************)
(* Small instances of ServeLoop: one monitor's node.                       *)
(***************************************************************************)
EXTENDS ServeLoop, TLC

CONSTANT monitor

MCNode == {monitor}
MCUnder == monitor :> {monitor}
=============================================================================
