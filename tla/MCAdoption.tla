----------------------------- MODULE MCAdoption -----------------------------
(***************************************************************************)
(* Small instances of Adoption.  The ground g grants the vehicle v name x  *)
(* until 4, with an uplink term of 1; v hands it to w until 3; w extends   *)
(* its own grant by one more certificate.  Next to them: a certificate     *)
(* that asks for y as well, one that w signed in v's name, and a root of   *)
(* w's own.                                                                *)
(***************************************************************************)
EXTENDS Adoption, TLC

CONSTANTS x, y, g, v, w, ground, hand, extend, widen, forge, own

MCScope == SUBSET {x, y}
MCScopeWithin(s, t) == s \subseteq t
Name(s) == [scope |-> s, budget |-> NoBudget]
MCRequest == {Name({x})}

Says(issuer, signer, subject, parent, notAfter, uplink, auth) ==
  [issuer |-> issuer, signer |-> signer, subject |-> subject, parent |-> parent,
   notBefore |-> 1, notAfter |-> notAfter, uplink |-> uplink, auth |-> Name(auth)]

MCBody == [c \in Cert |->
  CASE c = ground -> Says(g, g, v, Anchored, 4, 1, {x})
    [] c = hand   -> Says(v, v, w, ground, 3, NoTtl, {x})
    [] c = extend -> Says(w, w, w, hand, 4, NoTtl, {x})
    [] c = widen  -> Says(v, v, w, ground, 4, NoTtl, {x, y})
    [] c = forge  -> Says(v, w, w, ground, 4, NoTtl, {x})
    [] c = own    -> Says(w, w, w, Anchored, 4, NoTtl, {x, y})]

MCChain == {<<ground, hand>>, <<ground, hand, extend>>, <<ground, widen>>,
            <<ground, forge>>, <<own>>}
MCPlain == {<<ground, hand>>}

MCReceipt == {[issuer |-> p, signer |-> p, certificate |-> hand, notAfter |-> 4]
                : p \in {g, w}}

MCAnchors == {{g}, {w}}
MCGround == {{g}}

Symmetry == Permutations(Node)
=============================================================================
