------------------------------- MODULE Custody -------------------------------
(***************************************************************************)
(* What a broker promises about authority, with the clock, the deadlines   *)
(* and the counters left out: which grants exist, what each holds and whom *)
(* it came from, which are in force and which are withdrawn for good.      *)
(*                                                                         *)
(* Authority in force only shrinks, with three exceptions: a root enters,  *)
(* a grant in force hands out no more than it holds, and a contact renews  *)
(* a root, bringing back what lapsed with it.  No grant is in force when   *)
(* the one it came from is not, and what was withdrawn never comes back.   *)
(***************************************************************************)
EXTENDS Authority

CONSTANTS
  Node,
  NoNode       \* the origin of a root

VARIABLES
  holds,       \* grant -> the authority it holds, for every grant ever made
  from,        \* grant -> the grant it came from
  inForce,     \* the grants a use is allowed under now
  withdrawn    \* the grants revoked

custody == <<holds, from, inForce, withdrawn>>

Known == DOMAIN holds

Init ==
  /\ holds = [n \in {} |-> NoBudget]
  /\ from = [n \in {} |-> NoNode]
  /\ inForce = {}
  /\ withdrawn = {}

-----------------------------------------------------------------------------
\* Time may end grants during any step; it brings none back.
OnlyLapses == inForce' \cap Known \subseteq inForce

\* After every step, a grant in force came from a grant in force.
Covered ==
  \A n \in inForce' : /\ n \in DOMAIN holds' \ withdrawn'
                      /\ from'[n] # NoNode => from'[n] \in inForce'

Record(n, grant, source) ==
  /\ n \in Node \ Known
  /\ holds' = [m \in Known \cup {n} |-> IF m = n THEN grant ELSE holds[m]]
  /\ from' = [m \in Known \cup {n} |-> IF m = n THEN source ELSE from[m]]
  /\ OnlyLapses
  /\ UNCHANGED withdrawn

Enter(n, grant) == Record(n, grant, NoNode)

HandOut(p, n, grant) ==
  /\ p \in inForce \cap inForce'
  /\ Within(grant, holds[p])
  /\ Record(n, grant, p)

Lapse ==
  /\ OnlyLapses
  /\ UNCHANGED <<holds, from, withdrawn>>

Withdraw ==
  /\ withdrawn \subseteq withdrawn'
  /\ withdrawn' \subseteq Known
  /\ OnlyLapses
  /\ UNCHANGED <<holds, from>>

\* What comes back is a root, or came from something that comes back with it.
Renew ==
  /\ \A n \in inForce' \ inForce :
        from[n] = NoNode \/ from[n] \in inForce' \ inForce
  /\ UNCHANGED <<holds, from, withdrawn>>

Next ==
  /\ Covered
  /\ \/ \E n \in Known' \ Known :
          \/ Enter(n, holds'[n])
          \/ \E p \in inForce : HandOut(p, n, holds'[n])
     \/ Lapse
     \/ Withdraw
     \/ Renew

Spec == Init /\ [][Next]_custody
=============================================================================
