------------------------- MODULE GrantScopes_proofs -------------------------
(***************************************************************************)
(* Scopes are ordered, for every dimension and any depth of paths and      *)
(* patterns; what a contained scope allows its container allows; and with  *)
(* the proofs of the tree: what a node may do shrinks along every chain of *)
(* hand-outs, of any length.                                               *)
(***************************************************************************)
EXTENDS GrantScopes, GrantTree_proofs


-----------------------------------------------------------------------------
(* Paths.                                                                  *)

\* A path lies beneath itself.
LEMMA DescendsReflexive ==
  ASSUME NEW p \in ResolvedPath
  PROVE  DescendsFrom(p, p)
BY DEF DescendsFrom, ResolvedPath

\* What lies beneath a path beneath a third lies beneath the third: the climbs the
\* two remainders lack together are those of the whole remainder.
LEMMA DescendsTransitive ==
  ASSUME NEW p \in ResolvedPath, NEW q \in ResolvedPath, NEW r \in ResolvedPath,
         DescendsFrom(p, q), DescendsFrom(q, r)
  PROVE  DescendsFrom(p, r)
<1>1. Len(p) \in Nat /\ Len(q) \in Nat /\ Len(r) \in Nat
  BY DEF ResolvedPath
<1>2. Len(r) <= Len(q) /\ Len(q) <= Len(p)
  BY DEF DescendsFrom
<1>3. \A i \in 1..Len(r) : p[i] = r[i]
  BY <1>1, <1>2 DEF DescendsFrom
<1>4. ASSUME NEW i \in (Len(r) + 1)..Len(p)
      PROVE  p[i].kind # "up"
  <2>1. CASE i <= Len(q)
    BY <1>1, <1>2, <2>1 DEF DescendsFrom
  <2>2. CASE ~(i <= Len(q))
    BY <1>1, <1>2, <2>2 DEF DescendsFrom
  <2> QED
    BY <2>1, <2>2
<1> QED
  BY <1>1, <1>2, <1>3, <1>4 DEF DescendsFrom

\* Two paths that lie beneath each other are the same path.
LEMMA DescendsAntisymmetric ==
  ASSUME NEW p \in ResolvedPath, NEW q \in ResolvedPath,
         DescendsFrom(p, q), DescendsFrom(q, p)
  PROVE  p = q
<1>1. Len(p) \in Nat /\ Len(q) \in Nat /\ p \in Seq(Seg) /\ q \in Seq(Seg)
  BY DEF ResolvedPath
<1>2. Len(p) = Len(q)
  BY <1>1 DEF DescendsFrom
<1>3. \A i \in 1..Len(p) : p[i] = q[i]
  BY <1>1, <1>2 DEF DescendsFrom
<1> QED
  BY <1>1, <1>2, <1>3

\* Sets of paths: each within itself, and within what a set within it is within.
LEMMA PathsPreorder ==
  ASSUME NEW A \in SUBSET ResolvedPath, NEW B \in SUBSET ResolvedPath,
         NEW C \in SUBSET ResolvedPath
  PROVE  /\ PathsWithin(A, A)
         /\ PathsWithin(A, B) /\ PathsWithin(B, C) => PathsWithin(A, C)
<1>1. PathsWithin(A, A)
  BY DescendsReflexive DEF PathsWithin
<1>2. ASSUME PathsWithin(A, B), PathsWithin(B, C) PROVE PathsWithin(A, C)
  <2> SUFFICES ASSUME NEW x \in A PROVE \E z \in C : DescendsFrom(x, z)
    BY DEF PathsWithin
  <2>1. PICK y \in B : DescendsFrom(x, y)
    BY <1>2 DEF PathsWithin
  <2>2. PICK z \in C : DescendsFrom(y, z)
    BY <1>2 DEF PathsWithin
  <2>3. x \in ResolvedPath /\ y \in ResolvedPath /\ z \in ResolvedPath
    OBVIOUS
  <2> QED
    BY <2>1, <2>2, <2>3, DescendsTransitive
<1> QED
  BY <1>1, <1>2

\* Canonical sets that are within each other are one set (P17-F3).
LEMMA PathsAntisymmetric ==
  ASSUME NEW A \in SUBSET ResolvedPath, NEW B \in SUBSET ResolvedPath,
         CanonicalPaths(A) = A, CanonicalPaths(B) = B,
         PathsWithin(A, B), PathsWithin(B, A)
  PROVE  A = B
<1>1. ASSUME NEW S \in SUBSET ResolvedPath, NEW T \in SUBSET ResolvedPath,
             CanonicalPaths(S) = S, PathsWithin(S, T), PathsWithin(T, S)
      PROVE  S \subseteq T
  <2> SUFFICES ASSUME NEW x \in S PROVE x \in T
    OBVIOUS
  <2>1. PICK y \in T : DescendsFrom(x, y)
    BY <1>1 DEF PathsWithin
  <2>2. PICK z \in S : DescendsFrom(y, z)
    BY <1>1 DEF PathsWithin
  <2>3. x \in ResolvedPath /\ y \in ResolvedPath /\ z \in ResolvedPath
    OBVIOUS
  <2>4. DescendsFrom(x, z)
    BY <2>1, <2>2, <2>3, DescendsTransitive
  <2>5. z = x
    BY <1>1, <2>4 DEF CanonicalPaths
  <2>6. x = y
    BY <2>1, <2>2, <2>3, <2>5, DescendsAntisymmetric
  <2> QED
    BY <2>6
<1> QED
  BY <1>1

\* The meet of path sets is within both, whatever the canonical form drops from it.
LEMMA PathsMeetNarrows ==
  ASSUME NEW A \in SUBSET ResolvedPath, NEW B \in SUBSET ResolvedPath
  PROVE  PathsWithin(PathsMeet(A, B), A) /\ PathsWithin(PathsMeet(A, B), B)
BY DescendsReflexive DEF PathsWithin, PathsMeet, CanonicalPaths

-----------------------------------------------------------------------------
(* Patterns and entries.                                                   *)

\* A segment is `*`, `**` or a literal, which is not empty.
LEMMA SegmentKinds ==
  /\ One.kind = "one" /\ Rest.kind = "rest"
  /\ \A x \in Segment : \/ x = One
                        \/ x = Rest
                        \/ x.kind = "literal" /\ x.text # ""
BY DEF Segment, One, Rest

\* `**` is the last segment or none: what stands before it stands for a segment.
LEMMA PatternShape ==
  ASSUME NEW p \in Pattern
  PROVE  /\ Len(p) \in Nat
         /\ Fixed(p) \in Nat
         /\ Fixed(p) <= Len(p)
         /\ EndsInRest(p) => Len(p) = Fixed(p) + 1
         /\ ~EndsInRest(p) => Len(p) = Fixed(p)
         /\ \A i \in 1..Fixed(p) : p[i] \in Segment /\ p[i].kind # "rest"
         /\ \A i \in 1..Len(p) : p[i].kind = "rest" => EndsInRest(p) /\ i = Len(p)
<1>1. p \in Seq(Segment) /\ Len(p) \in Nat
  BY DEF Pattern
<1>2. \A i \in 1..Len(p) : p[i].kind = "rest" => i = Len(p)
  BY DEF Pattern
<1>3. \A i \in 1..Len(p) : p[i] \in Segment
  BY <1>1
<1>4. CASE EndsInRest(p)
  BY <1>1, <1>2, <1>3, <1>4 DEF EndsInRest, Fixed
<1>5. CASE ~EndsInRest(p)
  BY <1>1, <1>2, <1>3, <1>5 DEF EndsInRest, Fixed
<1> QED
  BY <1>4, <1>5

\* Segments are ordered: literals under `*`.
LEMMA SegmentOrder ==
  ASSUME NEW x \in Segment, NEW y \in Segment, NEW z \in Segment
  PROVE  /\ x.kind # "rest" => SegmentWithin(x, x)
         /\ SegmentWithin(x, y) /\ SegmentWithin(y, z) => SegmentWithin(x, z)
         /\ SegmentWithin(x, y) /\ SegmentWithin(y, x) => x = y
         /\ SegmentWithin(x, y) => x.kind # "rest" /\ y.kind # "rest"
BY SegmentKinds DEF SegmentWithin

\* A narrower pattern is fixed for at least as long.
LEMMA FixedGrows ==
  ASSUME NEW c \in Pattern, NEW p \in Pattern, PatternWithin(c, p)
  PROVE  /\ Fixed(p) <= Fixed(c)
         /\ ~EndsInRest(p) => ~EndsInRest(c) /\ Len(c) = Len(p) /\ Fixed(c) = Fixed(p)
<1>1. \A i \in 1..Fixed(p) : c[i].kind # "rest"
  BY DEF PatternWithin, SegmentWithin
<1>2. CASE EndsInRest(p)
  <2>1. Fixed(p) <= Len(c)
    BY <1>2 DEF PatternWithin
  <2>2. CASE EndsInRest(c)
    <3>1. c[Len(c)].kind = "rest"
      BY <2>2 DEF EndsInRest
    <3>2. Fixed(p) # Len(c)
      BY <1>1, <2>2, <3>1, PatternShape DEF EndsInRest
    <3> QED
      BY <1>2, <2>1, <2>2, <3>2, PatternShape
  <2>3. CASE ~EndsInRest(c)
    BY <1>2, <2>1, <2>3, PatternShape
  <2> QED
    BY <2>2, <2>3
<1>3. CASE ~EndsInRest(p)
  <2>1. Len(c) = Len(p) /\ Fixed(p) = Len(p)
    BY <1>3, PatternShape DEF PatternWithin
  <2>2. ~EndsInRest(c)
    BY <1>1, <2>1, PatternShape DEF EndsInRest
  <2> QED
    BY <1>3, <2>1, <2>2, PatternShape
<1> QED
  BY <1>2, <1>3

\* A pattern is within itself.
LEMMA PatternReflexive ==
  ASSUME NEW p \in Pattern
  PROVE  PatternWithin(p, p)
<1>1. \A i \in 1..Fixed(p) : SegmentWithin(p[i], p[i])
  BY PatternShape, SegmentOrder
<1> QED
  BY <1>1, PatternShape DEF PatternWithin

\* What is within a pattern is within what that one is within.
LEMMA PatternTransitive ==
  ASSUME NEW a \in Pattern, NEW b \in Pattern, NEW c \in Pattern,
         PatternWithin(a, b), PatternWithin(b, c)
  PROVE  PatternWithin(a, c)
<1>1. Fixed(c) <= Fixed(b) /\ Fixed(b) <= Fixed(a)
  BY FixedGrows
<1>2. IF EndsInRest(c) THEN Fixed(c) <= Len(a) ELSE Len(c) = Len(a)
  BY <1>1, FixedGrows, PatternShape
<1>3. ASSUME NEW i \in 1..Fixed(c)
      PROVE  SegmentWithin(a[i], c[i])
  <2>1. i \in 1..Fixed(b) /\ i \in 1..Fixed(a)
    BY <1>1, PatternShape
  <2>2. SegmentWithin(a[i], b[i]) /\ SegmentWithin(b[i], c[i])
    BY <2>1 DEF PatternWithin
  <2>3. a[i] \in Segment /\ b[i] \in Segment /\ c[i] \in Segment
    BY <2>1, PatternShape
  <2> QED
    BY <2>2, <2>3, SegmentOrder
<1> QED
  BY <1>2, <1>3 DEF PatternWithin

\* Patterns within each other are one pattern.
LEMMA PatternAntisymmetric ==
  ASSUME NEW a \in Pattern, NEW b \in Pattern, PatternWithin(a, b), PatternWithin(b, a)
  PROVE  a = b
<1>1. Fixed(a) = Fixed(b) /\ (EndsInRest(a) <=> EndsInRest(b)) /\ Len(a) = Len(b)
  BY FixedGrows, PatternShape
<1>2. \A i \in 1..Fixed(a) : a[i] = b[i]
  BY <1>1, PatternShape, SegmentOrder DEF PatternWithin
<1>3. EndsInRest(a) => a[Len(a)] = b[Len(b)]
  <2>1. EndsInRest(a) => /\ a[Len(a)].kind = "rest" /\ b[Len(b)].kind = "rest"
                         /\ Len(a) \in 1..Len(a) /\ Len(b) \in 1..Len(b)
    BY <1>1, PatternShape DEF EndsInRest
  <2>2. EndsInRest(a) => a[Len(a)] \in Segment /\ b[Len(b)] \in Segment
    BY <2>1 DEF Pattern
  <2> QED
    BY <2>1, <2>2, SegmentKinds
<1>4. \A i \in 1..Len(a) : a[i] = b[i]
  <2>1. ASSUME NEW i \in 1..Len(a) PROVE i \in 1..Fixed(a) \/ (EndsInRest(a) /\ i = Len(a))
    BY PatternShape
  <2> QED
    BY <1>1, <1>2, <1>3, <2>1
<1>5. a \in Seq(Segment) /\ b \in Seq(Segment)
  BY DEF Pattern
<1> QED
  BY <1>1, <1>4, <1>5

\* A path that matches a pattern matches every wider one.
LEMMA PatternIsSound ==
  ASSUME NEW c \in Pattern, NEW p \in Pattern, PatternWithin(c, p),
         NEW path \in Seq(STRING), PathMatches(c, path)
  PROVE  PathMatches(p, path)
<1>1. Fixed(p) <= Fixed(c) /\ Len(path) \in Nat
  BY FixedGrows
<1>2. IF EndsInRest(p) THEN Fixed(p) <= Len(path) ELSE Len(p) = Len(path)
  BY <1>1, FixedGrows, PatternShape DEF PathMatches
<1>3. ASSUME NEW i \in 1..Fixed(p)
      PROVE  Takes(p[i], path[i])
  <2>1. i \in 1..Fixed(c)
    BY <1>1, PatternShape
  <2>2. Takes(c[i], path[i]) /\ SegmentWithin(c[i], p[i])
    BY <2>1 DEF PathMatches, PatternWithin
  <2>3. c[i] \in Segment /\ p[i] \in Segment
    BY <2>1, PatternShape
  <2> QED
    BY <2>2, <2>3, SegmentKinds DEF Takes, SegmentWithin
<1> QED
  BY <1>2, <1>3 DEF PathMatches

\* Patterns that meet meet when one of them is widened.
LEMMA MeetingWidens ==
  ASSUME NEW a \in Pattern, NEW b \in Pattern, NEW w \in Pattern,
         PatternsMeet(a, b), PatternWithin(a, w)
  PROVE  PatternsMeet(w, b) /\ PatternsMeet(b, w)
<1>1. Fixed(w) <= Fixed(a)
  BY FixedGrows
<1>2. Fixed(w) < Fixed(b) => EndsInRest(w)
  BY <1>1, FixedGrows, PatternShape DEF PatternsMeet
<1>3. Fixed(b) < Fixed(w) => EndsInRest(b)
  BY <1>1, PatternShape DEF PatternsMeet
<1>4. ASSUME NEW i \in 1..Fixed(w), i <= Fixed(b)
      PROVE  SegmentsMeet(w[i], b[i]) /\ SegmentsMeet(b[i], w[i])
  <2>1. i \in 1..Fixed(a)
    BY <1>1, PatternShape
  <2>2. SegmentsMeet(a[i], b[i]) /\ SegmentWithin(a[i], w[i])
    BY <1>4, <2>1 DEF PatternsMeet, PatternWithin
  <2> QED
    BY <2>2 DEF SegmentsMeet, SegmentWithin
<1>5. \A i \in 1..Fixed(b) : i <= Fixed(w) => SegmentsMeet(b[i], w[i])
  BY <1>4, PatternShape
<1> QED
  BY <1>2, <1>3, <1>4, <1>5 DEF PatternsMeet

\* The meet of patterns that meet is within both.
LEMMA PatternMeetNarrows ==
  ASSUME NEW a \in Pattern, NEW b \in Pattern, PatternsMeet(a, b)
  PROVE  PatternWithin(PatternMeet(a, b), a) /\ PatternWithin(PatternMeet(a, b), b)
<1> DEFINE takesB == Fixed(a) < Fixed(b) \/ (Fixed(a) = Fixed(b) /\ EndsInRest(a))
           longer == IF takesB THEN b ELSE a
           m == PatternMeet(a, b)
<1>1. m = [i \in 1..Len(longer) |->
             IF i <= Fixed(a) /\ i <= Fixed(b) THEN NarrowerOf(a[i], b[i]) ELSE longer[i]]
  BY DEF PatternMeet
<1>2. /\ Len(longer) \in Nat /\ Len(m) = Len(longer)
      /\ Fixed(a) <= Len(longer) /\ Fixed(b) <= Len(longer)
  <2>1. Len(longer) \in Nat /\ Len(m) = Len(longer)
    BY <1>1, PatternShape
  <2> QED
    BY <2>1, PatternShape
<1>3. ASSUME NEW i \in 1..Fixed(a)
      PROVE  SegmentWithin(m[i], a[i])
  <2>1. i \in 1..Len(longer) /\ a[i] \in Segment /\ a[i].kind # "rest"
    BY <1>2, PatternShape
  <2>2. CASE i <= Fixed(b)
    <3>1. m[i] = NarrowerOf(a[i], b[i]) /\ i \in 1..Fixed(b)
      BY <1>1, <2>1, <2>2, PatternShape
    <3>2. b[i] \in Segment /\ b[i].kind # "rest"
      BY <3>1, PatternShape
    <3> QED
      BY <2>1, <3>1, <3>2 DEF NarrowerOf, SegmentWithin
  <2>3. CASE ~(i <= Fixed(b))
    <3>1. ~takesB
      BY <2>3, PatternShape
    <3>2. m[i] = a[i]
      BY <1>1, <2>1, <2>3, <3>1
    <3> QED
      BY <2>1, <3>2 DEF SegmentWithin
  <2> QED
    BY <2>2, <2>3
<1>4. ASSUME NEW i \in 1..Fixed(b)
      PROVE  SegmentWithin(m[i], b[i])
  <2>1. i \in 1..Len(longer) /\ b[i] \in Segment /\ b[i].kind # "rest"
    <3>1. i \in 1..Len(longer)
      <4> HIDE DEF longer
      <4> QED BY <1>2, PatternShape
    <3> QED
      BY <3>1, PatternShape
  <2>2. CASE i <= Fixed(a)
    <3>1. m[i] = NarrowerOf(a[i], b[i]) /\ i \in 1..Fixed(a)
      BY <1>1, <2>1, <2>2, PatternShape
    <3>2. a[i] \in Segment /\ a[i].kind # "rest" /\ SegmentsMeet(a[i], b[i])
      BY <2>1, <3>1, PatternShape DEF PatternsMeet
    <3> QED
      BY <2>1, <3>1, <3>2 DEF NarrowerOf, SegmentWithin, SegmentsMeet
  <2>3. CASE ~(i <= Fixed(a))
    <3>1. takesB
      BY <2>3, PatternShape
    <3>2. m[i] = b[i]
      BY <1>1, <2>1, <2>3, <3>1
    <3> QED
      BY <2>1, <3>2 DEF SegmentWithin
  <2> QED
    BY <2>2, <2>3
<1>5. ~EndsInRest(a) => Len(m) = Len(a)
  BY <1>2, PatternShape DEF PatternsMeet
<1>6. ~EndsInRest(b) => Len(m) = Len(b)
  BY <1>2, PatternShape DEF PatternsMeet
<1> HIDE DEF m, longer
<1> QED
  BY <1>2, <1>3, <1>4, <1>5, <1>6 DEF PatternWithin, m

\* Entries are ordered.
LEMMA EntryOrder ==
  ASSUME NEW x \in Entry, NEW y \in Entry, NEW z \in Entry
  PROVE  /\ EntryWithin(x, x)
         /\ EntryWithin(x, y) /\ EntryWithin(y, z) => EntryWithin(x, z)
         /\ EntryWithin(x, y) /\ EntryWithin(y, x) => x = y
<1>1. x.path \in Pattern /\ y.path \in Pattern /\ z.path \in Pattern
  BY DEF Entry
<1>2. EntryWithin(x, x)
  BY <1>1, PatternReflexive DEF EntryWithin
<1>3. ASSUME EntryWithin(x, y), EntryWithin(y, z) PROVE EntryWithin(x, z)
  BY <1>1, <1>3, PatternTransitive DEF EntryWithin
<1>4. ASSUME EntryWithin(x, y), EntryWithin(y, x) PROVE x = y
  <2>1. x.path = y.path
    BY <1>1, <1>4, PatternAntisymmetric DEF EntryWithin
  <2>2. x.host = y.host /\ x.methods = y.methods
    BY <1>4 DEF EntryWithin
  <2> QED
    BY <2>1, <2>2 DEF Entry
<1> QED
  BY <1>2, <1>3, <1>4

\* Sets of entries: each within itself, and within what a set within it is within.
LEMMA NetPreorder ==
  ASSUME NEW A \in SUBSET Entry, NEW B \in SUBSET Entry, NEW C \in SUBSET Entry
  PROVE  /\ NetWithin(A, A)
         /\ NetWithin(A, B) /\ NetWithin(B, C) => NetWithin(A, C)
<1>1. NetWithin(A, A)
  BY EntryOrder DEF NetWithin
<1>2. ASSUME NetWithin(A, B), NetWithin(B, C) PROVE NetWithin(A, C)
  <2> SUFFICES ASSUME NEW x \in A PROVE \E z \in C : EntryWithin(x, z)
    BY DEF NetWithin
  <2>1. PICK y \in B : EntryWithin(x, y)
    BY <1>2 DEF NetWithin
  <2>2. PICK z \in C : EntryWithin(y, z)
    BY <1>2 DEF NetWithin
  <2>3. x \in Entry /\ y \in Entry /\ z \in Entry
    OBVIOUS
  <2> QED
    BY <2>1, <2>2, <2>3, EntryOrder
<1> QED
  BY <1>1, <1>2

\* Canonical sets of entries that are within each other are one set.
LEMMA NetAntisymmetric ==
  ASSUME NEW A \in SUBSET Entry, NEW B \in SUBSET Entry,
         CanonicalNet(A) = A, CanonicalNet(B) = B,
         NetWithin(A, B), NetWithin(B, A)
  PROVE  A = B
<1>1. ASSUME NEW S \in SUBSET Entry, NEW T \in SUBSET Entry,
             CanonicalNet(S) = S, NetWithin(S, T), NetWithin(T, S)
      PROVE  S \subseteq T
  <2> SUFFICES ASSUME NEW x \in S PROVE x \in T
    OBVIOUS
  <2>1. PICK y \in T : EntryWithin(x, y)
    BY <1>1 DEF NetWithin
  <2>2. PICK z \in S : EntryWithin(y, z)
    BY <1>1 DEF NetWithin
  <2>3. x \in Entry /\ y \in Entry /\ z \in Entry
    OBVIOUS
  <2>4. EntryWithin(x, z)
    BY <2>1, <2>2, <2>3, EntryOrder
  <2>5. z = x
    BY <1>1, <2>4 DEF CanonicalNet
  <2>6. x = y
    BY <2>1, <2>2, <2>3, <2>5, EntryOrder
  <2> QED
    BY <2>6
<1> QED
  BY <1>1

\* What an entry allows every entry it is within allows.
LEMMA EntryIsSound ==
  ASSUME NEW c \in Entry, NEW p \in Entry, EntryWithin(c, p),
         NEW r \in NetRequest, EntryAllows(c, r)
  PROVE  EntryAllows(p, r)
<1>1. c.path \in Pattern /\ p.path \in Pattern /\ r.path \in Seq(STRING)
  BY DEF Entry, NetRequest
<1>2. p.path # AnyPath => r.plain /\ PathMatches(p.path, r.path)
  BY <1>1, PatternIsSound DEF EntryWithin, EntryAllows
<1> QED
  BY <1>2 DEF EntryWithin, EntryAllows

\* Entries that meet meet when either is widened.
LEMMA EntriesMeetingWidens ==
  ASSUME NEW a \in Entry, NEW b \in Entry, NEW v \in Entry, NEW w \in Entry,
         EntriesMeet(a, b), EntryWithin(a, v), EntryWithin(b, w)
  PROVE  EntriesMeet(v, w)
<1>1. /\ a.path \in Pattern /\ b.path \in Pattern
      /\ v.path \in Pattern /\ w.path \in Pattern
  BY DEF Entry
<1>2. v.host = w.host /\ v.methods \cap w.methods # {}
  BY DEF EntryWithin, EntriesMeet
<1>3. ASSUME v.path # AnyPath, w.path # AnyPath
      PROVE  PatternsMeet(v.path, w.path)
  <2>1. PatternsMeet(a.path, b.path)
    BY <1>3 DEF EntryWithin, EntriesMeet
  <2>2. PatternWithin(a.path, v.path) /\ PatternWithin(b.path, w.path)
    BY <1>3 DEF EntryWithin
  <2>3. PatternsMeet(b.path, v.path)
    BY <1>1, <2>1, <2>2, MeetingWidens
  <2> QED
    BY <1>1, <2>2, <2>3, MeetingWidens
<1> QED
  BY <1>2, <1>3 DEF EntriesMeet

\* The meet of sets of entries is within both.
LEMMA NetMeetNarrows ==
  ASSUME NEW A \in SUBSET Entry, NEW B \in SUBSET Entry
  PROVE  NetWithin(NetMeet(A, B), A) /\ NetWithin(NetMeet(A, B), B)
<1>1. ASSUME NEW a \in Entry, NEW b \in Entry, EntriesMeet(a, b)
      PROVE  EntryWithin(EntryMeet(a, b), a) /\ EntryWithin(EntryMeet(a, b), b)
  <2>1. a.path \in Pattern /\ b.path \in Pattern
    BY DEF Entry
  <2>2. /\ EntryMeet(a, b).host = a.host /\ a.host = b.host
        /\ EntryMeet(a, b).methods = a.methods \cap b.methods
    BY <1>1 DEF EntryMeet, EntriesMeet
  <2>3. CASE a.path = AnyPath
    BY <2>1, <2>2, <2>3, PatternReflexive DEF EntryMeet, EntryWithin
  <2>4. CASE b.path = AnyPath
    BY <2>1, <2>2, <2>4, PatternReflexive DEF EntryMeet, EntryWithin
  <2>5. CASE a.path # AnyPath /\ b.path # AnyPath
    <3>1. EntryMeet(a, b).path = PatternMeet(a.path, b.path) /\ PatternsMeet(a.path, b.path)
      BY <1>1, <2>5 DEF EntryMeet, EntriesMeet
    <3>2. /\ PatternWithin(PatternMeet(a.path, b.path), a.path)
          /\ PatternWithin(PatternMeet(a.path, b.path), b.path)
      BY <2>1, <3>1, PatternMeetNarrows
    <3>3. PatternMeet(a.path, b.path) # AnyPath
      <4>1. Len(PatternMeet(a.path, b.path)) # 0
        <5>1. Len(a.path) # 0 /\ Len(b.path) # 0
          BY <2>1, <2>5, PatternShape DEF AnyPath, Pattern
        <5>2. \/ Len(PatternMeet(a.path, b.path)) = Len(a.path)
              \/ Len(PatternMeet(a.path, b.path)) = Len(b.path)
          BY <2>1, PatternShape DEF PatternMeet
        <5> QED
          BY <5>1, <5>2
      <4> QED
        BY <4>1 DEF AnyPath
    <3> QED
      BY <2>2, <3>1, <3>2, <3>3 DEF EntryWithin
  <2> QED
    BY <2>3, <2>4, <2>5
<1>2. ASSUME NEW m \in NetMeet(A, B)
      PROVE  (\E a \in A : EntryWithin(m, a)) /\ (\E b \in B : EntryWithin(m, b))
  <2>1. PICK ab \in A \X B : EntriesMeet(ab[1], ab[2]) /\ m = EntryMeet(ab[1], ab[2])
    BY <1>2 DEF NetMeet
  <2>2. ab[1] \in A /\ ab[2] \in B
    OBVIOUS
  <2> QED
    BY <1>1, <2>1, <2>2
<1> QED
  BY <1>2 DEF NetWithin

-----------------------------------------------------------------------------
(* Devices.                                                                *)

\* What an envelope is made of, without its record.
LEMMA EnvelopeParts ==
  ASSUME NEW e, IsEnvelope(e)
  PROVE  /\ IsMap(e.dims)
         /\ \A d \in DOMAIN e.dims : e.dims[d][1] \in Int /\ e.dims[d][2] \in Int
                                     /\ e.dims[d][1] <= e.dims[d][2]
         /\ e.rate \in Nat \cup {NoRate} /\ e.rate \in Int
         /\ e.heartbeat \in Int /\ e.ttl \in Int
BY DEF IsEnvelope, Ranges, NoRate

\* Envelopes are ordered, the absent rate at the top of its dimension.
LEMMA EnvelopeOrder ==
  ASSUME NEW x, NEW y, NEW z, IsEnvelope(x), IsEnvelope(y), IsEnvelope(z)
  PROVE  /\ EnvelopeWithin(x, x)
         /\ EnvelopeWithin(x, y) /\ EnvelopeWithin(y, z) => EnvelopeWithin(x, z)
         /\ EnvelopeWithin(x, y) /\ EnvelopeWithin(y, x) => x = y
<1>1. EnvelopeWithin(x, x)
  BY EnvelopeParts DEF EnvelopeWithin, DimsWithin, RateWithin
<1>2. ASSUME EnvelopeWithin(x, y), EnvelopeWithin(y, z) PROVE EnvelopeWithin(x, z)
  <2>1. DimsWithin(x.dims, z.dims)
    BY <1>2, EnvelopeParts DEF EnvelopeWithin, DimsWithin
  <2>2. RateWithin(x.rate, z.rate)
    BY <1>2, EnvelopeParts DEF EnvelopeWithin, RateWithin
  <2> QED
    BY <1>2, <2>1, <2>2, EnvelopeParts DEF EnvelopeWithin
<1>3. ASSUME EnvelopeWithin(x, y), EnvelopeWithin(y, x) PROVE x = y
  <2>1. DOMAIN x.dims = DOMAIN y.dims
    BY <1>3 DEF EnvelopeWithin, DimsWithin
  <2>2. ASSUME NEW d \in DOMAIN x.dims PROVE x.dims[d] = y.dims[d]
    <3>1. /\ x.dims[d] \in Int \X Int /\ y.dims[d] \in Int \X Int
      BY <2>1 DEF IsEnvelope, Ranges
    <3>2. x.dims[d][1] = y.dims[d][1] /\ x.dims[d][2] = y.dims[d][2]
      BY <1>3, <2>1, <3>1 DEF EnvelopeWithin, DimsWithin
    <3> QED
      BY <3>1, <3>2
  <2>3. x.dims = y.dims
    BY <2>1, <2>2 DEF IsEnvelope, IsMap
  <2>4. x.rate = y.rate
    BY <1>3, EnvelopeParts DEF EnvelopeWithin, RateWithin
  <2>5. x.heartbeat = y.heartbeat /\ x.ttl = y.ttl /\ x.fail = y.fail
    BY <1>3, EnvelopeParts DEF EnvelopeWithin
  <2> QED
    BY <2>3, <2>4, <2>5 DEF IsEnvelope
<1> QED
  BY <1>1, <1>2, <1>3

\* So are sets of devices, one envelope for each.
LEMMA DevicesOrder ==
  ASSUME NEW A, NEW B, NEW C, AreDevices(A), AreDevices(B), AreDevices(C)
  PROVE  /\ DevicesWithin(A, A)
         /\ DevicesWithin(A, B) /\ DevicesWithin(B, C) => DevicesWithin(A, C)
         /\ DevicesWithin(A, B) /\ DevicesWithin(B, A) => A = B
<1>1. DevicesWithin(A, A)
  BY EnvelopeOrder DEF DevicesWithin, AreDevices
<1>2. ASSUME DevicesWithin(A, B), DevicesWithin(B, C) PROVE DevicesWithin(A, C)
  <2> SUFFICES ASSUME NEW d \in DOMAIN A
               PROVE  d \in DOMAIN C /\ EnvelopeWithin(A[d], C[d])
    BY DEF DevicesWithin
  <2>1. d \in DOMAIN B /\ EnvelopeWithin(A[d], B[d])
    BY <1>2 DEF DevicesWithin
  <2>2. d \in DOMAIN C /\ EnvelopeWithin(B[d], C[d])
    BY <1>2, <2>1 DEF DevicesWithin
  <2> QED
    BY <2>1, <2>2, EnvelopeOrder DEF AreDevices
<1>3. ASSUME DevicesWithin(A, B), DevicesWithin(B, A) PROVE A = B
  <2>1. DOMAIN A = DOMAIN B
    BY <1>3 DEF DevicesWithin
  <2>2. \A d \in DOMAIN A : A[d] = B[d]
    BY <1>3, <2>1, EnvelopeOrder DEF DevicesWithin, AreDevices
  <2> QED
    BY <2>1, <2>2 DEF AreDevices, IsMap
<1> QED
  BY <1>1, <1>2, <1>3

\* What an envelope lets its holder command and keep every envelope it is within
\* lets its holder; of the rate this needs that it is not zero.
LEMMA EnvelopeIsSound ==
  ASSUME NEW c, NEW p, IsEnvelope(c), IsEnvelope(p), EnvelopeWithin(c, p)
  PROVE  /\ \A fields \in SUBSET (STRING \X Int) : InEnvelope(c, fields) => InEnvelope(p, fields)
         /\ \A gap \in Nat : c.rate # 0 /\ InRate(c, gap) => InRate(p, gap)
         /\ \A silent, held \in Nat : Holds(c, silent, held) => Holds(p, silent, held)
<1>1. ASSUME NEW fields \in SUBSET (STRING \X Int), InEnvelope(c, fields), NEW f \in fields
      PROVE  f[1] \in DOMAIN p.dims /\ p.dims[f[1]][1] <= f[2] /\ f[2] <= p.dims[f[1]][2]
  <2>1. /\ f[1] \in DOMAIN c.dims /\ f[2] \in Int
        /\ c.dims[f[1]][1] <= f[2] /\ f[2] <= c.dims[f[1]][2]
    BY <1>1 DEF InEnvelope
  <2>2. /\ f[1] \in DOMAIN p.dims /\ p.dims[f[1]][1] <= c.dims[f[1]][1]
        /\ c.dims[f[1]][2] <= p.dims[f[1]][2]
    BY <2>1 DEF EnvelopeWithin, DimsWithin
  <2> QED
    BY <2>1, <2>2, EnvelopeParts
<1>2. ASSUME NEW gap \in Nat, c.rate # 0, InRate(c, gap), p.rate \notin {NoRate, 0}
      PROVE  (gap + 1) * p.rate > MicrosPerSecond
  <2>1. /\ c.rate # NoRate /\ c.rate <= p.rate /\ c.rate \in Nat /\ p.rate \in Nat
    BY <1>2, EnvelopeParts DEF EnvelopeWithin, RateWithin
  <2>2. (gap + 1) * c.rate > MicrosPerSecond
    BY <1>2, <2>1 DEF InRate
  <2>3. \A k, a, b \in Nat : a <= b => k * a <= k * b
    BY SMT
  <2>4. (gap + 1) * c.rate <= (gap + 1) * p.rate
    BY <2>1, <2>3
  <2>5. (gap + 1) * c.rate \in Int /\ (gap + 1) * p.rate \in Int
    BY <2>1
  <2> QED
    BY <2>2, <2>4, <2>5 DEF MicrosPerSecond
<1>3. \A silent, held \in Nat : Holds(c, silent, held) => Holds(p, silent, held)
  BY EnvelopeParts DEF EnvelopeWithin, Holds
<1> QED
  BY <1>1, <1>2, <1>3 DEF InEnvelope, InRate

\* The meet of two sets of devices is within both.
LEMMA DevicesMeetNarrows ==
  ASSUME NEW A, NEW B, AreDevices(A), AreDevices(B)
  PROVE  DevicesWithin(DevicesMeet(A, B), A) /\ DevicesWithin(DevicesMeet(A, B), B)
<1>1. ASSUME NEW x, NEW y, IsEnvelope(x), IsEnvelope(y), x.fail = y.fail
      PROVE  EnvelopeWithin(EnvelopeMeet(x, y), x) /\ EnvelopeWithin(EnvelopeMeet(x, y), y)
  <2> DEFINE m == EnvelopeMeet(x, y)
  <2>1. DimsWithin(m.dims, x.dims) /\ DimsWithin(m.dims, y.dims)
    <3> SUFFICES ASSUME NEW d \in DOMAIN m.dims
                 PROVE  /\ d \in DOMAIN x.dims /\ x.dims[d][1] <= m.dims[d][1]
                                                /\ m.dims[d][2] <= x.dims[d][2]
                        /\ d \in DOMAIN y.dims /\ y.dims[d][1] <= m.dims[d][1]
                                                /\ m.dims[d][2] <= y.dims[d][2]
      BY DEF DimsWithin
    <3>1. d \in DOMAIN x.dims /\ d \in DOMAIN y.dims
      BY DEF EnvelopeMeet, DimsMeet
    <3>2. /\ m.dims[d][1] = Greater(x.dims[d][1], y.dims[d][1])
          /\ m.dims[d][2] = Lesser(x.dims[d][2], y.dims[d][2])
      BY DEF EnvelopeMeet, DimsMeet, Overlap
    <3> QED
      BY <1>1, <3>1, <3>2, EnvelopeParts DEF Greater, Lesser
  <2>2. RateWithin(m.rate, x.rate) /\ RateWithin(m.rate, y.rate)
    BY <1>1, EnvelopeParts DEF EnvelopeMeet, RateMeet, RateWithin, Lesser
  <2>3. /\ m.heartbeat <= x.heartbeat /\ m.heartbeat <= y.heartbeat
        /\ m.ttl <= x.ttl /\ m.ttl <= y.ttl
    BY <1>1, EnvelopeParts DEF EnvelopeMeet, Lesser
  <2>4. m.fail = x.fail
    BY DEF EnvelopeMeet
  <2> QED
    BY <1>1, <2>1, <2>2, <2>3, <2>4 DEF EnvelopeWithin
<1>2. ASSUME NEW d \in DOMAIN DevicesMeet(A, B)
      PROVE  /\ d \in DOMAIN A /\ EnvelopeWithin(DevicesMeet(A, B)[d], A[d])
             /\ d \in DOMAIN B /\ EnvelopeWithin(DevicesMeet(A, B)[d], B[d])
  <2>1. /\ d \in DOMAIN A /\ d \in DOMAIN B /\ A[d].fail = B[d].fail
        /\ DevicesMeet(A, B)[d] = EnvelopeMeet(A[d], B[d])
    BY DEF DevicesMeet
  <2>2. IsEnvelope(A[d]) /\ IsEnvelope(B[d])
    BY <2>1 DEF AreDevices
  <2> QED
    BY <1>1, <2>1, <2>2
<1> QED
  BY <1>2 DEF DevicesWithin

-----------------------------------------------------------------------------
(* Scopes.                                                                 *)

\* Containment is a preorder on scopes: what Authority assumes of it
\* (attenuation_check).
THEOREM ScopesAreOrdered ==
  ASSUME NEW s, NEW t, NEW u, IsScope(s), IsScope(t), IsScope(u)
  PROVE  /\ ScopesWithin(s, s)
         /\ ScopesWithin(s, t) /\ ScopesWithin(t, u) => ScopesWithin(s, u)
<1>1. ScopesWithin(s, s)
  BY PathsPreorder, NetPreorder, DevicesOrder DEF IsScope, ScopesWithin
<1>2. ASSUME ScopesWithin(s, t), ScopesWithin(t, u) PROVE ScopesWithin(s, u)
  <2>1. PathsWithin(s.fsRead, u.fsRead) /\ PathsWithin(s.fsWrite, u.fsWrite)
    BY <1>2, PathsPreorder DEF IsScope, ScopesWithin
  <2>2. NetWithin(s.net, u.net) /\ NetWithin(s.netSpecial, u.netSpecial)
    BY <1>2, NetPreorder DEF IsScope, ScopesWithin
  <2>3. DevicesWithin(s.device, u.device)
    BY <1>2, DevicesOrder DEF IsScope, ScopesWithin
  <2> QED
    BY <1>2, <2>1, <2>2, <2>3 DEF ScopesWithin
<1> QED
  BY <1>1, <1>2

\* On scopes as they are stored it is an order: two of them within each other are
\* one, so equal authority is recorded in one way (canonicalized).
THEOREM StoredScopesAreOrdered ==
  ASSUME NEW s, NEW t, IsScope(s), IsScope(t),
         ScopesCanonical(s) = s, ScopesCanonical(t) = t,
         ScopesWithin(s, t), ScopesWithin(t, s)
  PROVE  s = t
<1>1. ASSUME NEW x, IsScope(x), ScopesCanonical(x) = x
      PROVE  /\ CanonicalPaths(x.fsRead) = x.fsRead
             /\ CanonicalPaths(x.fsWrite) = x.fsWrite
             /\ CanonicalNet(x.net) = x.net
             /\ CanonicalNet(x.netSpecial) = x.netSpecial
  <2>1. /\ x.fsRead = CanonicalPaths(x.fsRead)
        /\ x.fsWrite = CanonicalPaths(x.fsWrite)
        /\ x.net = CanonicalNet(x.net)
        /\ x.netSpecial \subseteq CanonicalNet(x.netSpecial)
    BY <1>1 DEF IsScope, ScopesCanonical
  <2> QED
    BY <2>1 DEF CanonicalNet
<1>2. s.fsRead = t.fsRead /\ s.fsWrite = t.fsWrite
  BY <1>1, PathsAntisymmetric DEF IsScope, ScopesWithin
<1>3. s.net = t.net /\ s.netSpecial = t.netSpecial
  BY <1>1, NetAntisymmetric DEF IsScope, ScopesWithin
<1>4. s.device = t.device
  BY DevicesOrder DEF IsScope, ScopesWithin
<1>5. /\ s.effects = t.effects /\ s.secrets = t.secrets /\ s.secretTo = t.secretTo
      /\ s.declassify = t.declassify /\ s.foreignC = t.foreignC
      /\ s.foreignPython = t.foreignPython
  BY DEF ScopesWithin
<1> QED
  BY <1>2, <1>3, <1>4, <1>5 DEF IsScope

\* A scope within another allows its holder nothing the other does not: the check
\* on a hand-out is enough for every check on a use (attenuation_check, validate).
THEOREM ContainmentIsSound ==
  ASSUME NEW c, NEW p, IsScope(c), IsScope(p), ScopesWithin(c, p),
         NEW u \in Use, Allows(c, u), ~Unpaced(c, u)
  PROVE  Allows(p, u)
<1>1. RequiredEffect(u.op) \subseteq p.effects
  BY DEF Allows, ScopesWithin
<1>2. InScope(c, u)
  BY DEF Allows
<1>3. ASSUME NEW path \in ResolvedPath, NEW A \in SUBSET ResolvedPath,
             NEW B \in SUBSET ResolvedPath, PathsWithin(A, B), PathsWithin({path}, A)
      PROVE  PathsWithin({path}, B)
  BY <1>3, PathsPreorder
<1>4. ASSUME NEW host \in Host, \E e \in c.net : HostMatches(host, e.host)
      PROVE  \E e \in p.net : HostMatches(host, e.host)
  BY <1>4 DEF ScopesWithin, NetWithin, EntryWithin
<1>5. ASSUME NEW r \in NetRequest, Fetches(c, r)
      PROVE  Fetches(p, r)
  <2>1. PICK e \in c.net : EntryAllows(e, r)
    BY <1>5 DEF Fetches
  <2>2. PICK f \in p.net : EntryWithin(e, f)
    BY DEF ScopesWithin, NetWithin
  <2>3. e \in Entry /\ f \in Entry
    BY DEF IsScope
  <2> QED
    BY <2>1, <2>2, <2>3, EntryIsSound DEF Fetches
<1>6. ASSUME NEW r \in NetRequest, ReachesSpecial(c, r)
      PROVE  ReachesSpecial(p, r)
  <2>1. PICK e \in c.net, x \in c.netSpecial :
          EntriesMeet(e, x) /\ HostMatches(r.host, e.host)
    BY <1>6 DEF ReachesSpecial
  <2>2. PICK f \in p.net : EntryWithin(e, f)
    BY DEF ScopesWithin, NetWithin
  <2>3. PICK y \in p.netSpecial : EntryWithin(x, y)
    BY DEF ScopesWithin, NetWithin
  <2>4. e \in Entry /\ f \in Entry /\ x \in Entry /\ y \in Entry
    BY DEF IsScope
  <2>5. EntriesMeet(f, y)
    BY <2>1, <2>2, <2>3, <2>4, EntriesMeetingWidens
  <2>6. HostMatches(r.host, f.host)
    BY <2>1, <2>2 DEF EntryWithin
  <2> QED
    BY <1>5, <1>6, <2>5, <2>6 DEF ReachesSpecial
<1>7. ASSUME NEW d, d \in DOMAIN c.device
      PROVE  /\ d \in DOMAIN p.device /\ EnvelopeWithin(c.device[d], p.device[d])
             /\ IsEnvelope(c.device[d]) /\ IsEnvelope(p.device[d])
  BY <1>7 DEF ScopesWithin, DevicesWithin, IsScope, AreDevices
<1>8. CASE u.op \in {"FsRead", "FsWrite"}
  <2>1. u.path \in ResolvedPath
    BY <1>8 DEF Use
  <2> QED
    BY <1>1, <1>2, <1>3, <1>8, <2>1 DEF InScope, Allows, ScopesWithin, IsScope
<1>9. CASE u.op \in {"Dial", "Fetch", "Special"}
  <2>1. /\ u.op = "Dial" => u.host \in Host
        /\ u.op \in {"Fetch", "Special"} => u.request \in NetRequest
    BY <1>9 DEF Use
  <2> QED
    BY <1>1, <1>2, <1>4, <1>5, <1>6, <1>9, <2>1 DEF InScope, Allows
<1>10. CASE u.op \in {"Declassify", "Expose", "Send", "Foreign"}
  BY <1>1, <1>2, <1>10 DEF InScope, Allows, ScopesWithin
<1>11. CASE u.op = "Command"
  <2>1. u.fields \in SUBSET (STRING \X Int) /\ u.gap \in Nat
    BY <1>11 DEF Use
  <2>2. /\ u.device \in DOMAIN c.device /\ c.device[u.device].rate # 0
        /\ InEnvelope(c.device[u.device], u.fields) /\ InRate(c.device[u.device], u.gap)
    BY <1>2, <1>11 DEF InScope, Unpaced
  <2>3. /\ u.device \in DOMAIN p.device
        /\ InEnvelope(p.device[u.device], u.fields) /\ InRate(p.device[u.device], u.gap)
    BY <1>7, <2>1, <2>2, EnvelopeIsSound
  <2> QED
    BY <1>1, <1>11, <2>3 DEF InScope, Allows
<1>12. CASE u.op = "Hold"
  <2>1. u.silent \in Nat /\ u.held \in Nat
    BY <1>12 DEF Use
  <2>2. u.device \in DOMAIN c.device /\ Holds(c.device[u.device], u.silent, u.held)
    BY <1>2, <1>12 DEF InScope
  <2>3. u.device \in DOMAIN p.device /\ Holds(p.device[u.device], u.silent, u.held)
    BY <1>7, <2>1, <2>2, EnvelopeIsSound
  <2> QED
    BY <1>1, <1>12, <2>3 DEF InScope, Allows
<1>13. CASE u.op \in {"Clock", "Rand", "Console"}
  BY <1>1, <1>13 DEF InScope, Allows
<1>14. u.op \in {"FsRead", "FsWrite", "Dial", "Fetch", "Special", "Declassify", "Expose",
                 "Foreign", "Send", "Command", "Hold", "Clock", "Rand", "Console"}
  BY DEF Use
<1> QED
  BY <1>8, <1>9, <1>10, <1>11, <1>12, <1>13, <1>14

\* A repair never widens: the meet a refused hand-out is answered with is within
\* what was asked for and within what the parent holds (intersect, DL0802).
THEOREM RepairNeverWidens ==
  ASSUME NEW s, NEW t, IsScope(s), IsScope(t)
  PROVE  ScopesWithin(ScopesMeet(s, t), s) /\ ScopesWithin(ScopesMeet(s, t), t)
BY PathsMeetNarrows, NetMeetNarrows, DevicesMeetNarrows
DEF IsScope, ScopesWithin, ScopesMeet

\* Nor does storing: the canonical form is within what it is the form of
\* (canonicalized).
THEOREM StoringNeverWidens ==
  ASSUME NEW s, IsScope(s)
  PROVE  ScopesWithin(ScopesCanonical(s), s)
<1>1. ASSUME NEW A \in SUBSET ResolvedPath PROVE PathsWithin(CanonicalPaths(A), A)
  BY DescendsReflexive DEF PathsWithin, CanonicalPaths
<1>2. ASSUME NEW A \in SUBSET Entry, NEW B \in SUBSET CanonicalNet(A)
      PROVE  NetWithin(B, A)
  BY EntryOrder DEF NetWithin, CanonicalNet
<1>3. DevicesWithin(s.device, s.device)
  BY DevicesOrder DEF IsScope
<1> QED
  BY <1>1, <1>2, <1>3 DEF IsScope, ScopesWithin, ScopesCanonical

-----------------------------------------------------------------------------
(* The order on the tree.                                                  *)

\* The tree may take the order of its scopes for a preorder, as it does: that
\* assumption follows from what scopes are (attenuation_check).
THEOREM OrderIsAsAssumed ==
  /\ \A s \in Scope : ScopeWithin(s, s)
  /\ \A s, t, u \in Scope : ScopeWithin(s, t) /\ ScopeWithin(t, u) => ScopeWithin(s, u)
BY ScopesAreOpened, ScopesAreOrdered

\* A live node lets its holder do nothing an ancestor that is live, and holds as
\* much, does not (attenuation_check, validate).
LEMMA ShrinksUnderNode ==
  ASSUME TypeOK, NEW n \in Nodes, NEW a \in Nodes,
         Within(tree[n].auth, tree[a].auth), Live(n) => Live(a)
  PROVE  Paced(n) \subseteq MayDo(a)
<1> DEFINE s == tree[n].auth.scope
           t == tree[a].auth.scope
<1>1. s \in Scope /\ t \in Scope
  BY DEF TypeOK, NodeRec, Grant
<1>2. IsScope(Content(s)) /\ IsScope(Content(t)) /\ ScopesWithin(Content(s), Content(t))
  BY <1>1, ScopesAreOpened DEF Within
<1> SUFFICES ASSUME NEW u \in MayDo(n), ~Unpaced(Content(s), u)
             PROVE  u \in MayDo(a)
  BY DEF Paced
<1>3. Live(n) /\ u \in Uses /\ Allows(Content(s), u)
  BY <1>1 DEF MayDo, Permitted
<1>4. u \in Use
  BY <1>3, ScopesAreOpened
<1>5. Allows(Content(t), u)
  BY <1>2, <1>3, <1>4, ContainmentIsSound
<1> QED
  BY <1>1, <1>3, <1>5 DEF MayDo, Permitted

\* What a node may do every node above it may do, in every reachable tree: by what
\* no chain of hand-outs widens, and by what is live above what is live.
THEOREM UsesShrink == Spec => []UsesOnlyShrink
<1>1. ASSUME TypeOK, NothingWidens, NoneOutlivesAncestor
      PROVE  UsesOnlyShrink
  <2> SUFFICES ASSUME NEW n \in Nodes, NEW a \in Path(n)
               PROVE  Paced(n) \subseteq MayDo(a)
    BY DEF UsesOnlyShrink
  <2>1. a \in Nodes
    BY DEF Path
  <2>2. Within(tree[n].auth, tree[a].auth) /\ (Live(n) => Live(a))
    BY <1>1 DEF NothingWidens, NoneOutlivesAncestor
  <2> QED
    BY <1>1, <2>1, <2>2, ShrinksUnderNode
<1>2. TypeOK /\ NothingWidens /\ NoneOutlivesAncestor => UsesOnlyShrink
  BY <1>1
<1> QED
  BY <1>2, TypeCorrect, NothingEverWidens, NoneOutlives, PTL
=============================================================================
