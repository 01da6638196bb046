--------------------------- MODULE MCDaemonClock ---------------------------
(***************************************************************************)
(* A small instance of DaemonClock: a monitor's node, and a run's below it *)
(* that has a monitor of its own.                                          *)
(***************************************************************************)
EXTENDS DaemonClock, TLC

CONSTANTS monitor, run

MCNode == {monitor, run}
MCUnder == (monitor :> {monitor, run}) @@ (run :> {run})
=============================================================================
