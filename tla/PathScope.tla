----------------------------- MODULE PathScope -----------------------------
(***************************************************************************)
(* Filesystem scopes (delulu-broker/src/path.rs): resolved paths, the      *)
(* order "lies beneath" on them, and sets of them.                         *)
(*                                                                         *)
(* A resolved path is the run of segments `resolve` leaves of a text: what *)
(* anchors it, then names.  A path that rises above the place it is read   *)
(* from keeps an `up` for each level.  PathSpelling has the texts.         *)
(***************************************************************************)
EXTENDS Integers, Sequences

Seg == [kind : {"root", "drive", "up", "name"}, text : STRING]

ResolvedPath == Seq(Seg)

Up == [kind |-> "up", text |-> ".."]

Named(text) == [kind |-> "name", text |-> text]

-----------------------------------------------------------------------------
\* `is_descendant_or_equal`: p is a prefix of c and the rest never climbs.
DescendsFrom(c, p) ==
  /\ Len(p) <= Len(c)
  /\ \A i \in 1..Len(p) : c[i] = p[i]
  /\ \A i \in (Len(p) + 1)..Len(c) : c[i].kind # "up"

PathsWithin(child, parent) ==
  \A c \in child : \E p \in parent : DescendsFrom(c, p)

\* No path of the set lies beneath another.
CanonicalPaths(S) == {x \in S : \A y \in S : DescendsFrom(x, y) => y = x}

\* Of each pair of which one lies beneath the other, the deeper.
PathsMeet(A, B) ==
  CanonicalPaths({x \in A : PathsWithin({x}, B)} \cup {y \in B : PathsWithin({y}, A)})
=============================================================================
