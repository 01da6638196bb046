------------------------------ MODULE NetScope ------------------------------
(***************************************************************************)
(* Network scopes (delulu-broker/src/netscope.rs): an entry names a host,  *)
(* the methods it may be asked by, and which paths.                        *)
(*                                                                         *)
(* Entries are what `read` and `parse_pattern` make of their texts; an     *)
(* entry whose text does not parse is refused by every parser of grants    *)
(* (`check_entry`) and left out here.                                      *)
(***************************************************************************)
EXTENDS Integers, Sequences

Methods == {"GET", "HEAD", "POST", "PUT", "PATCH", "DELETE"}

\* A host is its labels; an entry may name every host below one (`*.`).
Host == Seq(STRING)
HostPattern == [below : BOOLEAN, labels : Host]

One == [kind |-> "one", text |-> ""]
Rest == [kind |-> "rest", text |-> ""]

\* A literal is never empty.
Segment == [kind : {"literal"}, text : STRING \ {""}] \cup {One, Rest}

\* `**` stands only as the last segment.
Pattern == {p \in Seq(Segment) : \A i \in 1..Len(p) : p[i].kind = "rest" => i = Len(p)}

\* A pattern has a segment at least: none at all stands for no pattern.
AnyPath == << >>

Entry == [host : HostPattern, methods : SUBSET Methods, path : Pattern]

\* A request, as its URL and method have it.  `plain` says that `ambiguity`
\* finds no second reading of its path.
NetRequest == [host : Host, path : Seq(STRING), plain : BOOLEAN, method : Methods]

-----------------------------------------------------------------------------
(* Which requests an entry allows.                                         *)

\* `host_matches`: the host itself, or a longer one that ends in it.
HostMatches(host, pattern) ==
  LET more == Len(host) - Len(pattern.labels)
  IN  /\ IF pattern.below THEN more > 0 ELSE more = 0
      /\ \A i \in 1..Len(pattern.labels) : host[more + i] = pattern.labels[i]

EndsInRest(p) == Len(p) > 0 /\ p[Len(p)].kind = "rest"

\* The segments of a pattern that stand for one segment each.
Fixed(p) == IF EndsInRest(p) THEN Len(p) - 1 ELSE Len(p)

\* A `*` takes one segment, never an empty one.
Takes(segment, text) ==
  IF segment.kind = "one" THEN text # "" ELSE text = segment.text

PathMatches(p, path) ==
  /\ IF EndsInRest(p) THEN Fixed(p) <= Len(path) ELSE Len(p) = Len(path)
  /\ \A i \in 1..Fixed(p) : Takes(p[i], path[i])

\* `judge`: the host, then the path where the entry names one, then the method.
EntryAllows(e, r) ==
  /\ HostMatches(r.host, e.host)
  /\ e.path # AnyPath => r.plain /\ PathMatches(e.path, r.path)
  /\ r.method \in e.methods

-----------------------------------------------------------------------------
(* The order.                                                              *)

\* A literal is under itself and under `*`, a `*` under `*`.
SegmentWithin(c, p) == c.kind # "rest" /\ (p.kind = "one" \/ c = p)

PatternWithin(child, parent) ==
  /\ IF EndsInRest(parent) THEN Fixed(parent) <= Len(child) ELSE Len(parent) = Len(child)
  /\ \A i \in 1..Fixed(parent) : SegmentWithin(child[i], parent[i])

\* `entry_within`: the same host pattern, no more methods, no more paths.
EntryWithin(child, parent) ==
  /\ child.host = parent.host
  /\ child.methods \subseteq parent.methods
  /\ parent.path # AnyPath =>
        child.path # AnyPath /\ PatternWithin(child.path, parent.path)

NetWithin(child, parent) == \A c \in child : \E p \in parent : EntryWithin(c, p)

\* No entry of the set within another.  (The code breaks ties between entries each
\* within the other; of entries that parse there are none.)
CanonicalNet(S) == {x \in S : \A y \in S : EntryWithin(x, y) => y = x}

-----------------------------------------------------------------------------
(* The meet.                                                               *)

NarrowerOf(x, y) == IF x.kind = "one" THEN y ELSE x

SegmentsMeet(x, y) == x.kind = "one" \/ y.kind = "one" \/ x = y

\* Some path matches both: they agree as far as both are fixed, and the one
\* that is fixed for longer has the other's `**` to stand under.
PatternsMeet(a, b) ==
  /\ Fixed(a) < Fixed(b) => EndsInRest(a)
  /\ Fixed(b) < Fixed(a) => EndsInRest(b)
  /\ \A i \in 1..Fixed(a) : i <= Fixed(b) => SegmentsMeet(a[i], b[i])

\* Where one side's `**` begins, the other side's rest.
PatternMeet(a, b) ==
  LET longer == IF Fixed(a) < Fixed(b) \/ (Fixed(a) = Fixed(b) /\ EndsInRest(a))
                THEN b ELSE a
  IN  [i \in 1..Len(longer) |->
         IF i <= Fixed(a) /\ i <= Fixed(b) THEN NarrowerOf(a[i], b[i]) ELSE longer[i]]

\* `entry_meet`: some request is allowed by both.
EntriesMeet(a, b) ==
  /\ a.host = b.host
  /\ a.methods \cap b.methods # {}
  /\ a.path # AnyPath /\ b.path # AnyPath => PatternsMeet(a.path, b.path)

EntryMeet(a, b) ==
  [host    |-> a.host,
   methods |-> a.methods \cap b.methods,
   path    |-> IF a.path = AnyPath THEN b.path
               ELSE IF b.path = AnyPath THEN a.path
               ELSE PatternMeet(a.path, b.path)]

NetMeet(A, B) ==
  {EntryMeet(ab[1], ab[2]) : ab \in {ab \in A \X B : EntriesMeet(ab[1], ab[2])}}
=============================================================================
