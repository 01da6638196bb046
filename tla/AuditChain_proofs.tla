------------------------- MODULE AuditChain_proofs -------------------------
(***************************************************************************)
(* One chain, whoever writes: for any writers, days and records, records   *)
(* linked, seqs climbing and kept as promised, nothing acknowledged lost,  *)
(* no alarm without a cut, and nothing built on a chain that may have lost *)
(* its last record.                                                        *)
(*                                                                         *)
(* The prover has no induction over data; a least number not in a set does *)
(* for it (Induct), and what files hold is read off them by functions that *)
(* are shown to exist (Recursion).                                         *)
(***************************************************************************)
EXTENDS AuditChain, WellFoundedInduction, TLAPS

-----------------------------------------------------------------------------
(* Numbers, and functions defined by recursion on them.                    *)

\* A nonempty set of numbers has a least one.
LEMMA Least ==
  ASSUME NEW T, T \subseteq Nat, T # {}
  PROVE  \E x \in T : \A y \in T : x <= y
<1> DEFINE R == OpToRel(<, Nat)
<1>1. IsWellFoundedOn(R, Nat)
  BY NatLessThanWellFounded
<1>2. PICK x \in T : \A y \in T : ~(<<y, x>> \in R)
  <2> HIDE DEF R
  <2> QED
    BY <1>1, WFMin
<1>3. \A y \in T : ~(y < x)
  BY <1>2 DEF OpToRel
<1> QED
  BY <1>3

\* Induction, with the set of the numbers it holds of in the operator's place.
LEMMA Induct ==
  ASSUME NEW S, 0 \in S, \A n \in Nat : n \in S => n + 1 \in S
  PROVE  \A n \in Nat : n \in S
<1> SUFFICES ASSUME NEW m \in Nat, m \notin S
             PROVE  FALSE
  OBVIOUS
<1>1. PICK x \in Nat \ S : \A y \in Nat \ S : x <= y
  <2>1. Nat \ S \subseteq Nat /\ Nat \ S # {}
    OBVIOUS
  <2> QED
    BY <2>1, Least
<1>2. x # 0 /\ x - 1 \in Nat
  BY <1>1
<1>3. x - 1 \in S
  BY <1>1, <1>2
<1> QED
  BY <1>1, <1>2, <1>3

\* f is the recursive function on 0 .. n with steps G, from e.
Follows(n, V, e, G, f) ==
  /\ f \in [0 .. n -> V]
  /\ f[0] = e
  /\ \A i \in 1 .. n : f[i] = G[<<i, f[i - 1]>>]

\* A recursive function on 0 .. n exists, in whatever set its steps stay.
LEMMA Recursion ==
  ASSUME NEW n \in Nat, NEW V, NEW e \in V, NEW G \in [(1 .. n) \X V -> V]
  PROVE  \E f : Follows(n, V, e, G, f)
<1> DEFINE S == {m \in Nat : m <= n => \E f \in [0 .. m -> V] :
                    f[0] = e /\ \A i \in 1 .. m : f[i] = G[<<i, f[i - 1]>>]}
<1>1. 0 \in S
  <2> DEFINE h == [i \in 0 .. 0 |-> e]
  <2>1. h \in [0 .. 0 -> V] /\ h[0] = e
    OBVIOUS
  <2>2. PICK f \in [0 .. 0 -> V] : f[0] = e
    <3> HIDE DEF h
    <3> QED
      BY <2>1
  <2>3. \A i \in 1 .. 0 : f[i] = G[<<i, f[i - 1]>>]
    OBVIOUS
  <2> QED
    BY <2>2, <2>3
<1>2. ASSUME NEW m \in Nat, m \in S
      PROVE  m + 1 \in S
  <2> SUFFICES ASSUME m + 1 <= n
               PROVE  \E f \in [0 .. m + 1 -> V] :
                        f[0] = e /\ \A i \in 1 .. m + 1 : f[i] = G[<<i, f[i - 1]>>]
    OBVIOUS
  <2>1. PICK f \in [0 .. m -> V] : f[0] = e /\ \A i \in 1 .. m : f[i] = G[<<i, f[i - 1]>>]
    BY <1>2
  <2> DEFINE g == [i \in 0 .. m + 1 |-> IF i = m + 1 THEN G[<<m + 1, f[m]>>] ELSE f[i]]
  <2>2. f[m] \in V /\ <<m + 1, f[m]>> \in (1 .. n) \X V
    BY <2>1
  <2>3. g \in [0 .. m + 1 -> V]
    BY <2>1, <2>2
  <2>4. g[0] = e
    BY <2>1
  <2>5. ASSUME NEW i \in 1 .. m + 1
        PROVE  g[i] = G[<<i, g[i - 1]>>]
    <3>1. CASE i = m + 1
      <4>1. g[m + 1] = G[<<m + 1, f[m]>>] /\ g[m] = f[m]
        BY DEF g
      <4>2. i - 1 = m
        BY <3>1
      <4> HIDE DEF g
      <4> QED
        BY <3>1, <4>1, <4>2
    <3>2. CASE i \in 1 .. m
      <4>1. g[i] = f[i] /\ g[i - 1] = f[i - 1]
        BY <3>2
      <4> QED
        BY <2>1, <3>2, <4>1
    <3> QED
      BY <3>1, <3>2
  <2> QED
    BY <2>3, <2>4, <2>5
<1>3. n \in S
  <2> HIDE DEF S
  <2> QED
    BY <1>1, <1>2, Induct
<1> QED
  BY <1>3 DEF Follows

-----------------------------------------------------------------------------
(* What a file holds.                                                      *)

\* What a line may be.
LineT == [rec : Record \cup {NoRecord}, parses : BOOLEAN, closed : BOOLEAN]

\* What one line adds.
Added(line, s) == IF HoldsRecord(line) THEN Append(s, line.rec) ELSE s

\* The function `RecordsOf` is the last value of.
Holds(lines, held) ==
  held[0] = <<>> /\ \A i \in 1 .. Len(lines) : held[i] = Added(lines[i], held[i - 1])

\* What a line adds to a list of records leaves a list of records.
LEMMA AddedType ==
  ASSUME NEW line \in LineT, NEW s \in Seq(Record)
  PROVE  Added(line, s) \in Seq(Record)
BY DEF Added, HoldsRecord, LineT

\* What RecordsOf reads off a file is the last value of a function that
\* goes through its lines.
LEMMA RecordsFunction ==
  ASSUME NEW lines \in Seq(LineT)
  PROVE  \E held \in [0 .. Len(lines) -> Seq(Record)] :
           Holds(lines, held) /\ RecordsOf(lines) = held[Len(lines)]
<1>1. PICK n \in Nat : n = Len(lines)
  OBVIOUS
<1>2. \A i \in 1 .. n : lines[i] \in LineT
  BY <1>1
<1> DEFINE G == [p \in (1 .. n) \X Seq(Record) |-> Added(lines[p[1]], p[2])]
           step(f) == [i \in 0 .. n |-> IF i = 0 THEN <<>> ELSE Added(lines[i], f[i - 1])]
           held == CHOOSE f : f = step(f)
<1>3. G \in [(1 .. n) \X Seq(Record) -> Seq(Record)]
  BY <1>2, AddedType
<1>4. \A i \in 1 .. n, s \in Seq(Record) : G[<<i, s>>] = Added(lines[i], s)
  OBVIOUS
<1>5. PICK f : Follows(n, Seq(Record), <<>>, G, f)
  <2>1. <<>> \in Seq(Record)
    OBVIOUS
  <2> HIDE DEF G, step, held
  <2> QED
    BY <1>1, <1>3, <2>1, Recursion
<1>6. \A i \in 1 .. n : f[i] = Added(lines[i], f[i - 1])
  <2> HIDE DEF G
  <2> SUFFICES ASSUME NEW i \in 1 .. n
               PROVE  f[i] = Added(lines[i], f[i - 1])
    OBVIOUS
  <2>1. i - 1 \in 0 .. n
    OBVIOUS
  <2>2. f[i - 1] \in Seq(Record)
    BY <1>5, <2>1 DEF Follows
  <2> QED
    BY <1>4, <1>5, <2>2 DEF Follows
<1>7. f = step(f)
  <2>1. \A i \in 0 .. n : f[i] = step(f)[i]
    BY <1>5, <1>6 DEF Follows
  <2> QED
    BY <1>5, <2>1 DEF Follows
<1>8. held = step(held)
  <2> HIDE DEF step
  <2> QED
    BY <1>7
<1>9. RecordsOf(lines) = held[n]
  BY <1>1 DEF RecordsOf, Added
<1> HIDE DEF held
<1>10. DOMAIN held = 0 .. n /\ held[0] = <<>> /\ \A i \in 1 .. n : held[i] = Added(lines[i], held[i - 1])
  <2>1. DOMAIN step(held) = 0 .. n
    OBVIOUS
  <2>2. step(held)[0] = <<>>
    OBVIOUS
  <2>3. ASSUME NEW i \in 1 .. n
        PROVE  step(held)[i] = Added(lines[i], held[i - 1])
    OBVIOUS
  <2> HIDE DEF step
  <2> QED
    BY <1>8, <2>1, <2>2, <2>3
<1> DEFINE T == {m \in Nat : m <= n => held[m] \in Seq(Record)}
<1>11. \A m \in Nat : m \in T
  <2>1. 0 \in T
    <3>1. <<>> \in Seq(Record)
      OBVIOUS
    <3>2. held[0] \in Seq(Record)
      BY <1>10, <3>1
    <3> QED
      BY <3>2
  <2>2. ASSUME NEW m \in Nat, m \in T
        PROVE  m + 1 \in T
    <3> SUFFICES ASSUME m + 1 <= n PROVE held[m + 1] \in Seq(Record)
      OBVIOUS
    <3>1. m + 1 \in 1 .. n /\ held[m] \in Seq(Record) /\ (m + 1) - 1 = m
      BY <2>2
    <3>2. held[m + 1] = Added(lines[m + 1], held[m])
      BY <1>10, <3>1
    <3> QED
      BY <1>2, <3>1, <3>2, AddedType
  <2> HIDE DEF T
  <2> QED
    BY <2>1, <2>2, Induct
<1>12. held \in [0 .. n -> Seq(Record)]
  <2>1. \A m \in 0 .. n : held[m] \in Seq(Record)
    BY <1>11
  <2>2. held = [m \in 0 .. n |-> held[m]]
    BY <1>8
  <2> QED
    BY <2>1, <2>2
<1> QED
  BY <1>1, <1>9, <1>10, <1>12 DEF Holds

\* The first n lines of two files add the same.
SameTo(n, lines, others) ==
  /\ n <= Len(lines) /\ n <= Len(others) /\ Len(lines) \in Nat /\ Len(others) \in Nat
  /\ \A i \in 1 .. n : \A s : Added(lines[i], s) = Added(others[i], s)

\* Two files alike in their first n lines hold the same in those.
LEMMA HeldAlike ==
  ASSUME NEW lines, NEW others, NEW n \in Nat, SameTo(n, lines, others),
         NEW f, NEW g, Holds(lines, f), Holds(others, g)
  PROVE  f[n] = g[n]
<1> DEFINE T == {m \in Nat : m <= n => f[m] = g[m]}
<1>1. 0 \in T
  BY DEF Holds
<1>2. ASSUME NEW m \in Nat, m \in T
      PROVE  m + 1 \in T
  <2> SUFFICES ASSUME m + 1 <= n PROVE f[m + 1] = g[m + 1]
    OBVIOUS
  <2>1. m + 1 \in 1 .. n /\ m + 1 \in 1 .. Len(lines) /\ m + 1 \in 1 .. Len(others) /\ (m + 1) - 1 = m
    BY DEF SameTo
  <2>2. f[m] = g[m]
    BY <1>2
  <2>3. f[m + 1] = Added(lines[m + 1], f[m]) /\ g[m + 1] = Added(others[m + 1], g[m])
    BY <2>1 DEF Holds
  <2> QED
    BY <2>1, <2>2, <2>3 DEF SameTo
<1>3. n \in T
  <2> HIDE DEF T
  <2> QED
    BY <1>1, <1>2, Induct
<1> QED
  BY <1>3

\* A file's records are a sequence of records.
LEMMA RecordsType ==
  ASSUME NEW lines \in Seq(LineT)
  PROVE  RecordsOf(lines) \in Seq(Record)
<1>1. PICK f \in [0 .. Len(lines) -> Seq(Record)] : RecordsOf(lines) = f[Len(lines)]
  BY RecordsFunction
<1> QED
  BY <1>1

\* A file that is not there holds none.
LEMMA RecordsOfNone == RecordsOf(<<>>) = <<>>
<1>1. <<>> \in Seq(LineT) /\ Len(<<>>) = 0
  OBVIOUS
<1>2. PICK f : Holds(<<>>, f) /\ RecordsOf(<<>>) = f[Len(<<>>)]
  BY <1>1, RecordsFunction
<1> QED
  BY <1>1, <1>2 DEF Holds

\* A line put at the end of a file adds its record, if it holds one
\* (append_line on a file whose last line has its break).
LEMMA RecordsOfAppend ==
  ASSUME NEW lines \in Seq(LineT), NEW line \in LineT
  PROVE  RecordsOf(Append(lines, line)) = Added(line, RecordsOf(lines))
<1> DEFINE more == Append(lines, line)
           n == Len(lines)
<1>1. more \in Seq(LineT) /\ n \in Nat /\ Len(more) = n + 1 /\ more[n + 1] = line
  OBVIOUS
<1>2. PICK f : Holds(lines, f) /\ RecordsOf(lines) = f[n]
  BY RecordsFunction
<1> HIDE DEF more
<1>3. PICK g : Holds(more, g) /\ RecordsOf(more) = g[Len(more)]
  BY <1>1, RecordsFunction
<1>4. \A i \in 1 .. n : more[i] = lines[i]
  BY DEF more
<1>5. \A i \in 1 .. n : \A s : Added(lines[i], s) = Added(more[i], s)
  BY <1>4
<1>6. f[n] = g[n]
  <2>1. SameTo(n, lines, more)
    BY <1>1, <1>5 DEF SameTo
  <2> HIDE DEF n
  <2> QED
    BY <1>1, <1>2, <1>3, <2>1, HeldAlike
<1>7. g[n + 1] = Added(line, g[n])
  <2>1. n + 1 \in 1 .. Len(more) /\ (n + 1) - 1 = n
    BY <1>1
  <2> HIDE DEF n
  <2> QED
    BY <1>1, <1>3, <2>1 DEF Holds
<1> QED
  BY <1>1, <1>2, <1>3, <1>6, <1>7 DEF more

\* Line breaks do not tell in what a file holds.
LEMMA RecordsAlike ==
  ASSUME NEW lines \in Seq(LineT), NEW others \in Seq(LineT), Len(lines) = Len(others),
         \A i \in 1 .. Len(lines) : lines[i].rec = others[i].rec /\ lines[i].parses = others[i].parses
  PROVE  RecordsOf(lines) = RecordsOf(others)
<1>1. PICK f : Holds(lines, f) /\ RecordsOf(lines) = f[Len(lines)]
  BY RecordsFunction
<1>2. PICK g : Holds(others, g) /\ RecordsOf(others) = g[Len(others)]
  BY RecordsFunction
<1>3. \A i \in 1 .. Len(lines) : \A s : Added(lines[i], s) = Added(others[i], s)
  BY DEF Added, HoldsRecord
<1>4. Len(lines) \in Nat /\ SameTo(Len(lines), lines, others)
  BY <1>3 DEF SameTo
<1>5. f[Len(lines)] = g[Len(lines)]
  BY <1>1, <1>2, <1>4, HeldAlike
<1> QED
  BY <1>1, <1>2, <1>5

\* The break that ends a file's last line changes nothing else of it.
LEMMA CloseLineSame ==
  ASSUME NEW lines \in Seq(LineT), lines # <<>>
  PROVE  /\ CloseLine(lines) \in Seq(LineT)
         /\ CloseLine(lines) # <<>>
         /\ Len(CloseLine(lines)) = Len(lines)
         /\ RecordsOf(CloseLine(lines)) = RecordsOf(lines)
         /\ \A i \in 1 .. Len(lines) :
              /\ CloseLine(lines)[i].rec = lines[i].rec
              /\ CloseLine(lines)[i].parses = lines[i].parses
              /\ CloseLine(lines)[i].closed = IF i = Len(lines) THEN TRUE ELSE lines[i].closed
<1> DEFINE n == Len(lines)
           c == CloseLine(lines)
<1>1. n \in Nat /\ n >= 1 /\ DOMAIN lines = 1 .. n /\ \A i \in 1 .. n : lines[i] \in LineT
  OBVIOUS
<1>2. DOMAIN c = 1 .. n
  BY <1>1 DEF CloseLine
<1>3. \A i \in 1 .. n : c[i] = IF i = n THEN [lines[i] EXCEPT !.closed = TRUE] ELSE lines[i]
  BY <1>1 DEF CloseLine
<1>4. \A i \in 1 .. n : c[i] \in LineT
  BY <1>1, <1>3 DEF LineT
<1>5. c \in Seq(LineT) /\ Len(c) = n
  <2>1. c = [i \in 1 .. n |-> c[i]]
    BY <1>1 DEF CloseLine
  <2>2. c \in [1 .. n -> LineT]
    <3> HIDE DEF c
    <3> QED
      BY <1>4, <2>1
  <2> HIDE DEF c
  <2> QED
    BY <1>1, <2>2
<1>6. \A i \in 1 .. n : c[i].rec = lines[i].rec /\ c[i].parses = lines[i].parses
                        /\ c[i].closed = IF i = n THEN TRUE ELSE lines[i].closed
  BY <1>1, <1>3 DEF LineT
<1>7. RecordsOf(c) = RecordsOf(lines)
  <2> HIDE DEF c
  <2>1. \A i \in 1 .. Len(c) : c[i].rec = lines[i].rec /\ c[i].parses = lines[i].parses
    BY <1>5, <1>6
  <2> QED
    BY <1>5, <2>1, RecordsAlike
<1>8. c # <<>>
  <2> HIDE DEF c
  <2> QED
    BY <1>1, <1>5
<1> QED
  BY <1>5, <1>6, <1>7, <1>8

\* The function `FlattenSeq` is the last value of, on the files' records.
Flattens(parts, n, f) ==
  /\ f[1] = parts[1]
  /\ \A i \in 2 .. n : f[i] = f[i - 1] \o parts[i]

-----------------------------------------------------------------------------
(* The chain, file after file.                                             *)

\* What FlattenSeq makes of parts is the last value of a function that
\* goes through them.
LEMMA FlatFunction ==
  ASSUME NEW n \in Nat \ {0}, NEW parts \in [1 .. n -> Seq(Record)]
  PROVE  \E f \in [1 .. n -> Seq(Record)] :
           Flattens(parts, n, f) /\ FlattenSeq(parts) = f[n]
<1> DEFINE G == [p \in (1 .. n) \X Seq(Record) |-> p[2] \o parts[p[1]]]
           step(f) == [i \in 1 .. n |-> IF i = 1 THEN parts[i] ELSE f[i - 1] \o parts[i]]
           held == CHOOSE f : f = step(f)
<1>1. Len(parts) = n
  OBVIOUS
<1>2. <<>> \in Seq(Record) /\ n \in Nat
  OBVIOUS
<1>3. G \in [(1 .. n) \X Seq(Record) -> Seq(Record)]
  OBVIOUS
<1>4. \A i \in 1 .. n, s \in Seq(Record) : G[<<i, s>>] = s \o parts[i]
  OBVIOUS
<1>5. PICK h : Follows(n, Seq(Record), <<>>, G, h)
  <2> HIDE DEF G, step, held
  <2> QED
    BY <1>2, <1>3, Recursion
<1>6. \A i \in 1 .. n : h[i] = h[i - 1] \o parts[i] /\ h[i] \in Seq(Record)
  <2> HIDE DEF G, step, held
  <2> SUFFICES ASSUME NEW i \in 1 .. n
               PROVE  h[i] = h[i - 1] \o parts[i] /\ h[i] \in Seq(Record)
    OBVIOUS
  <2>1. i - 1 \in 0 .. n /\ i \in 0 .. n
    OBVIOUS
  <2>2. h[i - 1] \in Seq(Record) /\ h[i] \in Seq(Record)
    BY <1>5, <2>1 DEF Follows
  <2> QED
    BY <1>4, <1>5, <2>2 DEF Follows
<1> DEFINE f0 == [i \in 1 .. n |-> h[i]]
<1>7. f0[1] = parts[1]
  <2>1. 1 \in 1 .. n /\ 1 - 1 = 0 /\ parts[1] \in Seq(Record)
    OBVIOUS
  <2>2. h[1] = h[0] \o parts[1]
    BY <1>6, <2>1
  <2>3. h[0] = <<>>
    BY <1>5 DEF Follows
  <2> QED
    BY <2>1, <2>2, <2>3
<1>8. \A i \in 1 .. n : i # 1 => f0[i] = f0[i - 1] \o parts[i]
  <2> HIDE DEF G, step, held
  <2> SUFFICES ASSUME NEW i \in 1 .. n, i # 1
               PROVE  f0[i] = f0[i - 1] \o parts[i]
    OBVIOUS
  <2>1. i - 1 \in 1 .. n
    OBVIOUS
  <2>2. f0[i] = h[i] /\ f0[i - 1] = h[i - 1]
    BY <2>1
  <2>3. h[i] = h[i - 1] \o parts[i]
    BY <1>6
  <2> HIDE DEF f0
  <2> QED
    BY <2>2, <2>3
<1>9. f0 = step(f0)
  <2>1. \A i \in 1 .. n : f0[i] = step(f0)[i]
    <3> SUFFICES ASSUME NEW i \in 1 .. n
                 PROVE  f0[i] = IF i = 1 THEN parts[i] ELSE f0[i - 1] \o parts[i]
      OBVIOUS
    <3> HIDE DEF f0
    <3> QED
      BY <1>7, <1>8
  <2> QED
    BY <2>1
<1>10. held = step(held)
  <2> HIDE DEF step, f0
  <2> QED
    BY <1>9
<1>11. FlattenSeq(parts) = held[n]
  BY <1>1 DEF FlattenSeq
<1> HIDE DEF held
<1>12. /\ DOMAIN held = 1 .. n
       /\ held = [i \in 1 .. n |-> held[i]]
       /\ held[1] = parts[1]
       /\ \A i \in 2 .. n : held[i] = held[i - 1] \o parts[i]
  <2>1. DOMAIN step(held) = 1 .. n /\ step(held) = [i \in 1 .. n |-> step(held)[i]]
    OBVIOUS
  <2>2. step(held)[1] = parts[1]
    OBVIOUS
  <2>3. ASSUME NEW i \in 2 .. n
        PROVE  step(held)[i] = held[i - 1] \o parts[i]
    <3>1. i \in 1 .. n /\ i # 1
      OBVIOUS
    <3> QED
      BY <3>1
  <2> HIDE DEF step
  <2> QED
    BY <1>10, <2>1, <2>2, <2>3
<1> DEFINE T == {m \in Nat : m + 1 <= n => held[m + 1] \in Seq(Record)}
<1>13. \A m \in Nat : m \in T
  <2>1. 0 \in T
    BY <1>12
  <2>2. ASSUME NEW m \in Nat, m \in T
        PROVE  m + 1 \in T
    <3> SUFFICES ASSUME (m + 1) + 1 <= n PROVE held[(m + 1) + 1] \in Seq(Record)
      OBVIOUS
    <3>1. (m + 1) + 1 \in 2 .. n /\ held[m + 1] \in Seq(Record) /\ ((m + 1) + 1) - 1 = m + 1
      BY <2>2
    <3>2. held[(m + 1) + 1] = held[m + 1] \o parts[(m + 1) + 1]
      BY <1>12, <3>1
    <3>3. parts[(m + 1) + 1] \in Seq(Record)
      BY <3>1
    <3> QED
      BY <3>1, <3>2, <3>3
  <2> HIDE DEF T
  <2> QED
    BY <2>1, <2>2, Induct
<1>14. held \in [1 .. n -> Seq(Record)]
  <2>1. \A i \in 1 .. n : held[i] \in Seq(Record)
    <3> SUFFICES ASSUME NEW i \in 1 .. n PROVE held[i] \in Seq(Record)
      OBVIOUS
    <3>1. i - 1 \in T /\ (i - 1) + 1 = i
      <4> HIDE DEF T
      <4> QED
        BY <1>13
    <3> QED
      BY <3>1
  <2> QED
    BY <1>12, <2>1
<1> QED
  BY <1>11, <1>12, <1>14 DEF Flattens

\* The same of the chain, which goes through the days.
LEMMA ChainFunction ==
  ASSUME NEW files \in [Day -> Seq(LineT)]
  PROVE  \E f \in [1 .. MaxDay -> Seq(Record)] :
           /\ Flattens([d \in Day |-> RecordsOf(files[d])], MaxDay, f)
           /\ Chain(files) = f[MaxDay]
<1> DEFINE parts == [d \in Day |-> RecordsOf(files[d])]
<1>1. MaxDay \in Nat \ {0}
  BY AuditConstants
<1>2. parts \in [1 .. MaxDay -> Seq(Record)]
  BY RecordsType DEF Day
<1>3. Chain(files) = FlattenSeq(parts)
  BY DEF Chain
<1> HIDE DEF parts
<1>4. \E f \in [1 .. MaxDay -> Seq(Record)] : Flattens(parts, MaxDay, f) /\ FlattenSeq(parts) = f[MaxDay]
  BY <1>1, <1>2, FlatFunction
<1> QED
  BY <1>3, <1>4 DEF parts

\* The chain is a sequence of records.
LEMMA ChainType ==
  ASSUME NEW files \in [Day -> Seq(LineT)]
  PROVE  Chain(files) \in Seq(Record)
<1>1. MaxDay \in Nat \ {0}
  BY AuditConstants
<1>2. MaxDay \in 1 .. MaxDay
  BY <1>1
<1> QED
  BY <1>2, ChainFunction

\* Files that hold the same records make the same chain.
LEMMA ChainAlike ==
  ASSUME NEW files \in [Day -> Seq(LineT)], NEW others \in [Day -> Seq(LineT)],
         \A d \in Day : RecordsOf(files[d]) = RecordsOf(others[d])
  PROVE  Chain(files) = Chain(others)
<1>1. [d \in Day |-> RecordsOf(files[d])] = [d \in Day |-> RecordsOf(others[d])]
  OBVIOUS
<1> QED
  BY <1>1 DEF Chain

\* Files that hold none make an empty chain.
LEMMA ChainOfNone ==
  ASSUME NEW files \in [Day -> Seq(LineT)], \A d \in Day : RecordsOf(files[d]) = <<>>
  PROVE  Chain(files) = <<>>
<1>1. PICK f \in [1 .. MaxDay -> Seq(Record)] :
         Flattens([d \in Day |-> RecordsOf(files[d])], MaxDay, f) /\ Chain(files) = f[MaxDay]
  BY ChainFunction
<1>2. MaxDay \in Nat \ {0}
  BY AuditConstants
<1>3. \A d \in 1 .. MaxDay : [e \in Day |-> RecordsOf(files[e])][d] = <<>>
  BY DEF Day
<1> DEFINE T == {m \in Nat : m + 1 <= MaxDay => f[m + 1] = <<>>}
<1>4. 0 \in T
  BY <1>1, <1>2, <1>3 DEF Flattens
<1>5. ASSUME NEW m \in Nat, m \in T
      PROVE  m + 1 \in T
  <2> SUFFICES ASSUME (m + 1) + 1 <= MaxDay PROVE f[(m + 1) + 1] = <<>>
    OBVIOUS
  <2>1. (m + 1) + 1 \in 2 .. MaxDay /\ (m + 1) + 1 \in 1 .. MaxDay /\ ((m + 1) + 1) - 1 = m + 1
    BY <1>2
  <2>2. f[m + 1] = <<>>
    BY <1>2, <1>5
  <2>3. f[(m + 1) + 1] = <<>> \o <<>>
    BY <1>1, <1>3, <2>1, <2>2 DEF Flattens
  <2> QED
    BY <2>3
<1>6. MaxDay - 1 \in T
  <2>1. MaxDay - 1 \in Nat
    BY <1>2
  <2> HIDE DEF T
  <2> QED
    BY <1>4, <1>5, <2>1, Induct
<1> QED
  BY <1>1, <1>2, <1>6

\* A list put after another, and one element more.
LEMMA ConcatAppend ==
  ASSUME NEW s \in Seq(Record), NEW t \in Seq(Record), NEW r \in Record
  PROVE  s \o Append(t, r) = Append(s \o t, r)
OBVIOUS

\* The empty list put after another.
LEMMA ConcatEmpty ==
  ASSUME NEW s \in Seq(Record)
  PROVE  s \o <<>> = s
OBVIOUS

\* One record more.
LEMMA AppendType ==
  ASSUME NEW s \in Seq(Record), NEW r \in Record
  PROVE  Append(s, r) \in Seq(Record)
OBVIOUS

\* A record put on a file after which no file holds any is the chain's last:
\* what the day rule of append_under (AUDIT-DAY-1) is for.
LEMMA ChainAppend ==
  ASSUME NEW files \in [Day -> Seq(LineT)], NEW others \in [Day -> Seq(LineT)],
         NEW D \in Day, NEW r \in Record,
         RecordsOf(others[D]) = Append(RecordsOf(files[D]), r),
         \A d \in Day : d # D => RecordsOf(others[d]) = RecordsOf(files[d]),
         \A d \in Day : d > D => RecordsOf(files[d]) = <<>>
  PROVE  Chain(others) = Append(Chain(files), r)
<1> DEFINE p == [d \in Day |-> RecordsOf(files[d])]
           q == [d \in Day |-> RecordsOf(others[d])]
<1>1. PICK f \in [1 .. MaxDay -> Seq(Record)] : Flattens(p, MaxDay, f) /\ Chain(files) = f[MaxDay]
  BY ChainFunction
<1>2. PICK g \in [1 .. MaxDay -> Seq(Record)] : Flattens(q, MaxDay, g) /\ Chain(others) = g[MaxDay]
  BY ChainFunction
<1>3. MaxDay \in Nat \ {0} /\ D \in 1 .. MaxDay
  BY AuditConstants DEF Day
<1>4. \A d \in 1 .. MaxDay : /\ p[d] \in Seq(Record)
                             /\ d = D => q[d] = Append(p[d], r)
                             /\ d # D => q[d] = p[d]
                             /\ d > D => p[d] = <<>>
  BY RecordsType DEF Day
<1> HIDE DEF p, q
<1> DEFINE R(k) == IF k < D THEN g[k] = f[k] ELSE g[k] = Append(f[k], r)
           T == {m \in Nat : m + 1 <= MaxDay => R(m + 1)}
<1>5. 0 \in T
  <2>1. R(1)
    BY <1>1, <1>2, <1>3, <1>4 DEF Flattens
  <2> QED
    BY <2>1
<1>6. ASSUME NEW k \in 1 .. MaxDay - 1, R(k)
      PROVE  R(k + 1)
  <2>1. k \in 1 .. MaxDay /\ k + 1 \in 2 .. MaxDay /\ k + 1 \in 1 .. MaxDay /\ (k + 1) - 1 = k
    BY <1>3
  <2>2. f[k + 1] = f[k] \o p[k + 1] /\ g[k + 1] = g[k] \o q[k + 1]
    BY <1>1, <1>2, <2>1 DEF Flattens
  <2>3. f[k] \in Seq(Record) /\ p[k + 1] \in Seq(Record)
    BY <1>4, <2>1
  <2>4. CASE k + 1 < D
    <3>1. k < D /\ k + 1 # D
      BY <1>3, <2>4
    <3> QED
      BY <1>4, <1>6, <2>1, <2>2, <2>4, <3>1
  <2>5. CASE k + 1 = D
    <3>1. k < D /\ ~(k + 1 < D)
      BY <1>3, <2>5
    <3>2. g[k + 1] = f[k] \o Append(p[k + 1], r)
      BY <1>4, <1>6, <2>1, <2>2, <2>5, <3>1
    <3>3. g[k + 1] = Append(f[k + 1], r)
      BY <2>2, <2>3, <3>2, ConcatAppend
    <3> QED
      BY <3>1, <3>3
  <2>6. CASE k + 1 > D
    <3>1. k + 1 # D /\ ~(k + 1 < D) /\ ~(k < D)
      BY <1>3, <2>6
    <3>2. p[k + 1] = <<>> /\ q[k + 1] = <<>>
      BY <1>4, <2>1, <2>6, <3>1
    <3>3. g[k] = Append(f[k], r)
      BY <1>6, <3>1
    <3>4. g[k + 1] = g[k] /\ f[k + 1] = f[k]
      BY <2>2, <2>3, <3>2, <3>3, ConcatEmpty, AppendType
    <3> QED
      BY <3>1, <3>3, <3>4
  <2> QED
    BY <1>3, <2>4, <2>5, <2>6
<1>7. ASSUME NEW m \in Nat, m \in T
      PROVE  m + 1 \in T
  <2> SUFFICES ASSUME (m + 1) + 1 <= MaxDay PROVE R((m + 1) + 1)
    OBVIOUS
  <2>1. m + 1 \in 1 .. MaxDay - 1
    BY <1>3
  <2>2. R(m + 1)
    BY <1>3, <1>7
  <2> HIDE DEF R
  <2> QED
    BY <1>6, <2>1, <2>2
<1>8. MaxDay - 1 \in T
  <2>1. MaxDay - 1 \in Nat
    BY <1>3
  <2> HIDE DEF T
  <2> QED
    BY <1>5, <1>7, <2>1, Induct
<1>9. R(MaxDay)
  BY <1>3, <1>8
<1> QED
  BY <1>1, <1>2, <1>3, <1>9

-----------------------------------------------------------------------------
(* Heads, tops and newest files.                                           *)

\* A bounded nonempty set of numbers has a greatest.
LEMMA MaxMember ==
  ASSUME NEW S, S \subseteq Nat, S # {}, NEW b \in Nat, \A x \in S : x <= b
  PROVE  Max(S) \in S /\ \A x \in S : x <= Max(S)
<1> DEFINE U == {u \in Nat : \A x \in S : x <= u}
<1>1. PICK u \in U : \A v \in U : u <= v
  <2>1. U \subseteq Nat /\ U # {}
    OBVIOUS
  <2> HIDE DEF U
  <2> QED
    BY <2>1, Least
<1>2. u \in S
  <2> SUFFICES ASSUME u \notin S PROVE FALSE
    OBVIOUS
  <2>1. \A x \in S : x < u
    BY <1>1
  <2>2. u - 1 \in Nat /\ \A x \in S : x <= u - 1
    <3>1. PICK x \in S : x \in Nat /\ x < u
      BY <2>1
    <3>2. u \in Nat /\ u # 0
      BY <1>1, <3>1
    <3>3. \A y \in S : y \in Nat /\ y < u
      BY <2>1
    <3> QED
      BY <3>2, <3>3
  <2>3. u - 1 \in U
    BY <2>2
  <2> QED
    BY <1>1, <2>2, <2>3
<1>3. \E x \in S : \A y \in S : x >= y
  BY <1>1, <1>2
<1>4. Max(S) \in S /\ \A y \in S : Max(S) >= y
  BY <1>3 DEF Max
<1> QED
  BY <1>4

\* The greater of two.
LEMMA MaxTwo ==
  ASSUME NEW a \in Nat, NEW b \in Nat
  PROVE  Max({a, b}) = IF a >= b THEN a ELSE b
<1>1. \E x \in {a, b} : \A y \in {a, b} : x >= y
  OBVIOUS
<1>2. Max({a, b}) \in {a, b} /\ \A y \in {a, b} : Max({a, b}) >= y
  BY <1>1 DEF Max
<1> QED
  BY <1>2

\* A chain's seqs have a bound.
LEMMA SeqsBounded ==
  ASSUME NEW chain \in Seq(Record)
  PROVE  \E b \in Nat : \A i \in DOMAIN chain : chain[i].seq <= b
<1> DEFINE T == {m \in Nat : m <= Len(chain) => \E b \in Nat : \A i \in 1 .. m : chain[i].seq <= b}
<1>1. 0 \in T
  <2>1. \A i \in 1 .. 0 : chain[i].seq <= 0
    OBVIOUS
  <2> QED
    BY <2>1
<1>2. ASSUME NEW m \in Nat, m \in T
      PROVE  m + 1 \in T
  <2> SUFFICES ASSUME m + 1 <= Len(chain)
               PROVE  \E b \in Nat : \A i \in 1 .. m + 1 : chain[i].seq <= b
    OBVIOUS
  <2>1. PICK b \in Nat : \A i \in 1 .. m : chain[i].seq <= b
    BY <1>2
  <2>2. m + 1 \in 1 .. Len(chain)
    OBVIOUS
  <2>3. chain[m + 1] \in Record
    BY <2>2
  <2>4. PICK c \in Nat : c = chain[m + 1].seq
    BY <2>3 DEF Record
  <2>5. \A i \in 1 .. m + 1 : chain[i].seq <= b + c
    <3> SUFFICES ASSUME NEW i \in 1 .. m + 1 PROVE chain[i].seq <= b + c
      OBVIOUS
    <3>1. CASE i = m + 1
      BY <2>1, <2>4, <3>1
    <3>2. CASE i \in 1 .. m
      <4>1. chain[i] \in Record
        BY <3>2
      <4>2. chain[i].seq \in Nat /\ chain[i].seq <= b
        BY <2>1, <3>2, <4>1 DEF Record
      <4> QED
        BY <2>1, <2>4, <4>2
    <3> QED
      BY <3>1, <3>2
  <2>6. b + c \in Nat
    BY <2>1, <2>4
  <2> QED
    BY <2>5, <2>6
<1>3. Len(chain) \in T
  <2>1. Len(chain) \in Nat
    OBVIOUS
  <2> HIDE DEF T
  <2> QED
    BY <1>1, <1>2, <2>1, Induct
<1> QED
  BY <1>3

\* The top of a chain is no less than any of its seqs, and is one of them.
LEMMA TopIsMax ==
  ASSUME NEW chain \in Seq(Record)
  PROVE  /\ TopOf(chain) \in Nat
         /\ \A i \in DOMAIN chain : chain[i].seq <= TopOf(chain)
         /\ TopOf(chain) = 0 \/ \E i \in DOMAIN chain : TopOf(chain) = chain[i].seq
<1> DEFINE S == {0} \cup {chain[i].seq : i \in DOMAIN chain}
<1>1. \A i \in DOMAIN chain : chain[i].seq \in Nat
  <2>1. \A i \in DOMAIN chain : chain[i] \in Record
    OBVIOUS
  <2> QED
    BY <2>1 DEF Record
<1>2. S \subseteq Nat /\ S # {}
  BY <1>1
<1>3. PICK b \in Nat : \A i \in DOMAIN chain : chain[i].seq <= b
  BY SeqsBounded
<1>4. \A x \in S : x <= b
  BY <1>3
<1>5. TopOf(chain) = Max(S)
  BY DEF TopOf
<1>6. \A i \in DOMAIN chain : chain[i].seq \in S
  OBVIOUS
<1>7. \A x \in S : x = 0 \/ \E i \in DOMAIN chain : x = chain[i].seq
  OBVIOUS
<1> HIDE DEF S
<1>8. Max(S) \in S /\ \A x \in S : x <= Max(S)
  BY <1>2, <1>3, <1>4, MaxMember
<1> QED
  BY <1>2, <1>5, <1>6, <1>7, <1>8

\* Seqs climb.
Climbs(chain) == \A i, j \in DOMAIN chain : i < j => chain[i].seq < chain[j].seq

\* The head of a chain names its last record.
LEMMA HeadType ==
  ASSUME NEW chain \in Seq(Record)
  PROVE  HeadOf(chain) \in Nat /\ Len(chain) \in Nat
         /\ (chain # <<>> => Last(chain) \in Record /\ HeadOf(chain) = Last(chain).id)
<1>1. chain # <<>> => chain[Len(chain)] \in Record
  OBVIOUS
<1> QED
  BY <1>1 DEF HeadOf, Last, Record, Genesis

\* A record that names the chain's head and has a seq above its top keeps
\* the chain linked and climbing.
LEMMA ChainGrows ==
  ASSUME NEW chain \in Seq(Record), NEW r \in Record,
         Linked(chain), Climbs(chain), r.prev = HeadOf(chain), r.seq > TopOf(chain)
  PROVE  /\ Linked(Append(chain, r))
         /\ Climbs(Append(chain, r))
<1> DEFINE n == Len(chain)
           more == Append(chain, r)
<1>1. /\ more \in Seq(Record) /\ n \in Nat /\ Len(more) = n + 1 /\ more[n + 1] = r
      /\ DOMAIN more = 1 .. n + 1 /\ DOMAIN chain = 1 .. n
      /\ \A i \in 1 .. n : more[i] = chain[i]
      /\ chain = <<>> <=> n = 0
  OBVIOUS
<1> HIDE DEF more
<1>2. Linked(more)
  <2> SUFFICES ASSUME NEW i \in 1 .. n + 1
               PROVE  more[i].prev = IF i = 1 THEN Genesis ELSE more[i - 1].id
    BY <1>1 DEF Linked
  <2>1. CASE i \in 1 .. n
    <3>1. i # 1 => i - 1 \in 1 .. n
      BY <1>1, <2>1
    <3> QED
      BY <1>1, <2>1, <3>1 DEF Linked
  <2>2. CASE i = n + 1 /\ n = 0
    <3>1. r.prev = Genesis
      BY <1>1, <2>2 DEF HeadOf
    <3> QED
      BY <1>1, <2>2, <3>1
  <2>3. CASE i = n + 1 /\ n # 0
    <3>1. HeadOf(chain) = chain[n].id /\ i - 1 = n /\ n \in 1 .. n
      BY <1>1, <2>3 DEF HeadOf, Last
    <3> QED
      BY <1>1, <2>3, <3>1
  <2> QED
    BY <1>1, <2>1, <2>2, <2>3
<1>3. Climbs(more)
  <2> SUFFICES ASSUME NEW i \in 1 .. n + 1, NEW j \in 1 .. n + 1, i < j
               PROVE  more[i].seq < more[j].seq
    BY <1>1 DEF Climbs
  <2>1. i \in 1 .. n
    BY <1>1
  <2>2. CASE j \in 1 .. n
    BY <1>1, <2>1, <2>2 DEF Climbs
  <2>3. CASE j = n + 1
    <3>1. chain[i].seq <= TopOf(chain) /\ TopOf(chain) \in Nat
      BY <1>1, <2>1, TopIsMax
    <3>2. chain[i].seq \in Nat /\ r.seq \in Nat
      <4>1. chain[i] \in Record
        BY <1>1, <2>1
      <4> QED
        BY <4>1 DEF Record
    <3> QED
      BY <1>1, <2>1, <2>3, <3>1, <3>2
  <2> QED
    BY <1>1, <2>2, <2>3
<1> QED
  BY <1>2, <1>3 DEF more

\* A chain and one record more.
LEMMA AppendFacts ==
  ASSUME NEW chain \in Seq(Record), NEW r \in Record
  PROVE  /\ Append(chain, r) \in Seq(Record)
         /\ Append(chain, r) # <<>>
         /\ Len(Append(chain, r)) = Len(chain) + 1
         /\ Last(Append(chain, r)) = r
         /\ HeadOf(Append(chain, r)) = r.id
         /\ IsPrefix(chain, Append(chain, r))
         /\ \A i \in DOMAIN chain : i \in DOMAIN Append(chain, r) /\ Append(chain, r)[i] = chain[i]
<1> DEFINE more == Append(chain, r)
<1>1. more \in Seq(Record) /\ more # <<>> /\ Len(more) = Len(chain) + 1 /\ more[Len(chain) + 1] = r
  OBVIOUS
<1>2. \A i \in DOMAIN chain : i \in DOMAIN more /\ more[i] = chain[i]
  OBVIOUS
<1>3. Last(more) = r /\ HeadOf(more) = r.id
  <2> HIDE DEF more
  <2> QED
    BY <1>1 DEF Last, HeadOf
<1>4. IsPrefix(chain, more)
  <2>1. SubSeq(chain, 1, Len(chain)) = SubSeq(more, 1, Len(chain))
    OBVIOUS
  <2>2. Len(chain) <= Len(more)
    OBVIOUS
  <2> QED
    BY <2>1, <2>2 DEF IsPrefix
<1> QED
  BY <1>1, <1>2, <1>3, <1>4

\* The top of a climbing chain is its last record's seq.
LEMMA TopWhenClimbing ==
  ASSUME NEW chain \in Seq(Record), Climbs(chain), chain # <<>>
  PROVE  TopOf(chain) = Last(chain).seq
<1> DEFINE n == Len(chain)
<1>1. n \in Nat /\ n \in 1 .. n /\ DOMAIN chain = 1 .. n /\ \A i \in 1 .. n : chain[i] \in Record
  OBVIOUS
<1>2. \A i \in 1 .. n : chain[i].seq \in Nat
  BY <1>1 DEF Record
<1>3. \A i \in 1 .. n : chain[i].seq <= chain[n].seq
  BY <1>1, <1>2 DEF Climbs
<1>4. /\ TopOf(chain) \in Nat
      /\ \A i \in 1 .. n : chain[i].seq <= TopOf(chain)
      /\ TopOf(chain) = 0 \/ \E i \in 1 .. n : TopOf(chain) = chain[i].seq
  BY <1>1, TopIsMax
<1> QED
  BY <1>1, <1>2, <1>3, <1>4 DEF Last

\* The top of no chain.
LEMMA TopOfNone == TopOf(<<>>) = 0
<1>1. <<>> \in Seq(Record) /\ DOMAIN <<>> = {}
  OBVIOUS
<1>2. TopOf(<<>>) = 0 \/ \E i \in DOMAIN <<>> : TopOf(<<>>) = <<>>[i].seq
  BY <1>1, TopIsMax
<1> QED
  BY <1>1, <1>2

\* A chain starts with itself.
LEMMA SameIsPrefix ==
  ASSUME NEW chain \in Seq(Record)
  PROVE  IsPrefix(chain, chain)
BY DEF IsPrefix

\* The newest day file is one of those that are there; no later file holds
\* anything.
LEMMA Newest ==
  ASSUME NEW files \in [Day -> Seq(LineT)]
  PROVE  /\ NewestOf(files) \in 0 .. MaxDay
         /\ \A d \in Day : files[d] # <<>> => d <= NewestOf(files)
         /\ LinesOf(files, NewestOf(files)) \in Seq(LineT)
         /\ \A d \in Day : d > NewestOf(files) => RecordsOf(files[d]) = <<>>
         /\ LinesOf(files, NewestOf(files)) # <<>> \/ NewestOf(files) = 0
<1> DEFINE S == {0} \cup {d \in Day : files[d] # <<>>}
<1>1. MaxDay \in Nat
  BY AuditConstants
<1>2. S \subseteq Nat /\ S # {} /\ \A x \in S : x <= MaxDay
  BY <1>1 DEF Day
<1>3. Max(S) \in S /\ \A x \in S : x <= Max(S)
  <2> HIDE DEF S
  <2> QED
    BY <1>1, <1>2, MaxMember
<1>4. NewestOf(files) = Max(S)
  BY DEF NewestOf
<1>5. NewestOf(files) \in 0 .. MaxDay
  BY <1>1, <1>2, <1>3, <1>4
<1>6. \A d \in Day : files[d] # <<>> => d <= NewestOf(files)
  BY <1>3, <1>4
<1>7. LinesOf(files, NewestOf(files)) \in Seq(LineT)
  <2>1. <<>> \in Seq(LineT)
    OBVIOUS
  <2> QED
    BY <1>1, <1>5, <2>1 DEF LinesOf, Day
<1>8. ASSUME NEW d \in Day, d > NewestOf(files)
      PROVE  RecordsOf(files[d]) = <<>>
  <2>1. files[d] = <<>>
    <3>1. d \in Nat /\ NewestOf(files) \in Nat
      BY <1>1, <1>5 DEF Day
    <3> QED
      BY <1>6, <1>8, <3>1
  <2> QED
    BY <2>1, RecordsOfNone
<1>9. LinesOf(files, NewestOf(files)) # <<>> \/ NewestOf(files) = 0
  BY <1>3, <1>4 DEF LinesOf
<1> QED
  BY <1>5, <1>6, <1>7, <1>8, <1>9

-----------------------------------------------------------------------------
(* Types.                                                                  *)

\* The chain that the files hold.
Log == Chain(file)
\* Where a writer is: running, with a record settled and not yet written,
\* with one written whose anchor is not.
Up(w) == pc[w] # "down"
Filing(w) == pc[w] \in {"filing", "opened"}
Landed(w) == pc[w] \in {"lined", "closed"}

\* Where a writer may be.
Labels == {"down", "idle", "holds", "promised", "filing", "opened", "lined", "closed",
           "emptied", "done"}
HandleT == [head : Nat, records : Nat, top : Nat, day : 0 .. MaxDay, tail : Seq(LineT)]

ReaderT == [next : 0 .. MaxDay + 2, files : [Day -> Seq(LineT)],
            verdict : {"none", "whole", "broken", "unconfirmed"}]

Types ==
  /\ file \in [Day -> Seq(LineT)]
  /\ anchor \in [head : Nat, records : Nat] \cup {NoAnchor}
  /\ lock \in Writer \cup {Free}
  /\ pc \in [Writer -> Labels]
  /\ handle \in [Writer -> HandleT]
  /\ count \in Nat
  /\ promise \in [Writer -> Nat]
  /\ rec \in [Writer -> Record \cup {NoRecord}]
  /\ made \in Nat /\ made <= MaxRecords
  /\ cut \in BOOLEAN
  /\ reader \in ReaderT

\* Past `holds` there is one writer, and it knows what it writes and where.
Alone ==
  \A w \in Writer :
    /\ pc[w] \notin {"down", "idle"} => lock = w
    /\ pc[w] \in {"filing", "opened", "lined"} => rec[w] \in Record
    /\ pc[w] \in {"opened", "lined"} => handle[w].day \in Day

\* What a handle's fields are.
LEMMA HandleFields ==
  ASSUME NEW h \in HandleT
  PROVE  h.head \in Nat /\ h.records \in Nat /\ h.top \in Nat /\ h.day \in 0 .. MaxDay
         /\ h.tail \in Seq(LineT)
BY DEF HandleT

\* What `recover` reads makes a handle, and an anchor.
LEMMA RecoveredType ==
  ASSUME Types
  PROVE  /\ Recovered \in HandleT
         /\ AnchorOf(Log) \in [head : Nat, records : Nat]
<1>1. file \in [Day -> Seq(LineT)]
  BY DEF Types
<1>2. Log \in Seq(Record)
  BY <1>1, ChainType DEF Log
<1>3. HeadOf(Log) \in Nat /\ Len(Log) \in Nat /\ TopOf(Log) \in Nat
  BY <1>2, HeadType, TopIsMax
<1>4. NewestOf(file) \in 0 .. MaxDay /\ LinesOf(file, NewestOf(file)) \in Seq(LineT)
  BY <1>1, Newest
<1>5. Recovered = [head |-> HeadOf(Log), records |-> Len(Log), top |-> TopOf(Log),
                   day |-> NewestOf(file), tail |-> LinesOf(file, NewestOf(file))]
  BY DEF Recovered, Log
<1>6. Recovered \in HandleT
  BY <1>3, <1>4, <1>5 DEF HandleT
<1> QED
  BY <1>3, <1>6 DEF AnchorOf

\* So does a catch-up.
LEMMA CatchUpType ==
  ASSUME Types, NEW w \in Writer, CatchUp(w)
  PROVE  /\ handle' \in [Writer -> HandleT]
         /\ anchor' \in [head : Nat, records : Nat] \cup {NoAnchor}
<1>1. Recovered \in HandleT /\ AnchorOf(Log) \in [head : Nat, records : Nat]
  BY RecoveredType
<1>2. CASE UNCHANGED <<handle, anchor>>
  BY <1>2 DEF Types
<1>3. CASE handle' = [handle EXCEPT ![w] = Recovered] /\ anchor' = AnchorOf(Chain(file))
  BY <1>1, <1>3 DEF Types, Log
<1> QED
  BY <1>2, <1>3 DEF CatchUp

\* The lines that are written.
LEMMA LineTypes ==
  ASSUME NEW r \in Record \cup {NoRecord}
  PROVE  Line(r) \in LineT /\ Header \in LineT /\ Torn \in LineT
BY DEF Line, Header, Torn, LineT

\* Adding one leaves a list of lines.
LEMMA AddLineType ==
  ASSUME NEW lines \in Seq(LineT), NEW line \in LineT
  PROVE  AddLine(lines, line) \in Seq(LineT)
<1>1. Torn \in LineT
  BY LineTypes
<1>2. Append(lines, line) \in Seq(LineT)
  OBVIOUS
<1>3. lines # <<>> => Front(lines) \in Seq(LineT)
  BY DEF Front
<1>4. lines # <<>> => Append(Front(lines), Torn) \in Seq(LineT)
  <2> HIDE DEF Torn
  <2> QED
    BY <1>1, <1>3
<1> QED
  BY <1>2, <1>4 DEF AddLine

\* So does closing the last.
LEMMA CloseLineType ==
  ASSUME NEW lines \in Seq(LineT)
  PROVE  CloseLine(lines) \in Seq(LineT)
<1>1. CASE lines # <<>>
  BY <1>1, CloseLineSame
<1>2. CASE lines = <<>>
  <2>1. CloseLine(<<>>) = <<>>
    BY DEF CloseLine
  <2> QED
    BY <1>2, <2>1
<1> QED
  BY <1>1, <1>2

\* A reader at rest, and one that has begun or has a verdict.
LEMMA NoReaderType ==
  /\ NoReader \in ReaderT
  /\ \A n \in 0 .. MaxDay + 2 : [NoReader EXCEPT !.next = n] \in ReaderT
  /\ \A v \in {"whole", "broken", "unconfirmed"} : [NoReader EXCEPT !.verdict = v] \in ReaderT
<1>1. <<>> \in Seq(LineT) /\ 0 \in 0 .. MaxDay + 2
  <2>1. MaxDay \in Nat
    BY AuditConstants
  <2> QED
    BY <2>1
<1>2. [d \in Day |-> <<>>] \in [Day -> Seq(LineT)]
  BY <1>1
<1> QED
  BY <1>1, <1>2 DEF NoReader, ReaderT

\* A verify's steps leave a reader.
LEMMA VerifyType ==
  ASSUME Types, Verify
  PROVE  reader' \in ReaderT
<1>1. MaxDay \in Nat
  BY AuditConstants
<1>2. CASE StartVerify
  <2>1. 1 \in 0 .. MaxDay + 2
    BY <1>1
  <2> QED
    BY <1>2, <2>1, NoReaderType DEF StartVerify
<1>3. CASE ReadDay
  <2> DEFINE d == reader.next
             read == [reader.files EXCEPT ![d] = file[d]]
  <2>1. reader \in ReaderT /\ d \in Day
    BY <1>3 DEF Types, ReadDay
  <2>2. d + 1 \in 0 .. MaxDay + 2
    BY <1>1, <2>1 DEF Day
  <2>3. read \in [Day -> Seq(LineT)]
    BY <2>1 DEF Types, ReaderT
  <2>4. reader' = [reader EXCEPT !.files = read, !.next = d + 1]
    BY <1>3 DEF ReadDay
  <2> HIDE DEF d, read
  <2> QED
    BY <2>1, <2>2, <2>3, <2>4 DEF ReaderT
<1>4. CASE ReadAnchor
  <2>1. MaxDay + 2 \in 0 .. MaxDay + 2
    BY <1>1
  <2> QED
    BY <1>4, <2>1, NoReaderType DEF ReadAnchor
<1>5. CASE ReadAgain
  BY <1>5, NoReaderType DEF ReadAgain
<1>6. CASE BelieveFirst
  BY <1>6, NoReaderType DEF BelieveFirst
<1> QED
  BY <1>2, <1>3, <1>4, <1>5, <1>6 DEF Verify

\* The types hold at first.
LEMMA TypesInit == Init => Types /\ Alone
<1> SUFFICES ASSUME Init PROVE Types /\ Alone
  OBVIOUS
<1>0. <<>> \in Seq(LineT)
  OBVIOUS
<1>1. <<>> \in Seq(LineT) /\ MaxDay \in Nat /\ MaxRecords \in Nat /\ 0 <= MaxRecords
      /\ 0 \in 0 .. MaxDay
  <2>1. MaxDay \in Nat /\ MaxRecords \in Nat
    BY AuditConstants
  <2> QED
    BY <1>0, <2>1
<1>2. NoHandle \in HandleT
  BY <1>1 DEF NoHandle, HandleT, Genesis
<1>3. Types
  <2>0. reader \in ReaderT
    BY NoReaderType DEF Init
  <2>1. file \in [Day -> Seq(LineT)]
    BY <1>1 DEF Init
  <2>2. handle \in [Writer -> HandleT]
    BY <1>2 DEF Init
  <2> QED
    BY <1>1, <2>0, <2>1, <2>2 DEF Init, Types, Labels
<1> QED
  BY <1>3 DEF Init, Alone

\* Every step keeps the types, and one writer alone past the lock.
LEMMA TypesNext == Types /\ Alone /\ [Next]_vars => Types' /\ Alone'
<1> SUFFICES ASSUME Types, Alone, [Next]_vars
             PROVE  Types' /\ Alone'
  OBVIOUS
<1>0. Free \notin Writer /\ MaxDay \in Nat /\ MaxRecords \in Nat
  BY AuditConstants
<1>1. CASE UNCHANGED vars \/ Verify
  <2>1. UNCHANGED <<disk, writers, answers, cut>>
    BY <1>1 DEF vars, Verify, StartVerify, ReadDay, ReadAnchor, ReadAgain, BelieveFirst
  <2>2. reader' \in ReaderT
    BY <1>1, VerifyType DEF vars, Types
  <2> QED
    BY <2>1, <2>2 DEF Types, Alone, disk, writers
<1>2. ASSUME NEW w \in Writer, Step(w)
      PROVE  Types' /\ Alone'
  <2>1. CASE Open(w)
    <3>1. Types'
      BY <1>0, <2>1, RecoveredType DEF Open, Types, Goto, Labels, Log, answers
    <3> QED
      BY <1>0, <2>1, <3>1 DEF Open, Types, Alone, Goto, answers
  <2>2. CASE Take(w) \/ Another(w) \/ Release(w)
    BY <1>0, <2>2 DEF Take, Another, Release, Types, Alone, Goto, Labels, disk
  <2>3. CASE GiveUp(w)
    BY <2>3 DEF GiveUp, Types, Alone, disk
  <2>4. CASE Promise(w)
    <3>1. handle' \in [Writer -> HandleT] /\ anchor' \in [head : Nat, records : Nat] \cup {NoAnchor}
      BY <2>4, CatchUpType DEF Promise, Types
    <3>2. promise' \in [Writer -> Nat] /\ count' \in Nat
      <4>1. CASE w = Daemon /\ CatchUp(w)
                 /\ promise' = [promise EXCEPT ![w] = Max({count, handle'[w].top + 1})]
                 /\ count' = promise'[w] + 1
        <5>0. handle'[w] \in HandleT
          BY <3>1
        <5>1. handle'[w].top + 1 \in Nat /\ count \in Nat
          <6>1. handle'[w].top \in Nat
            BY <5>0, HandleFields
          <6> QED
            BY <6>1 DEF Types
        <5>2. Max({count, handle'[w].top + 1}) \in Nat
          BY <5>1, MaxTwo
        <5> HIDE DEF Max
        <5>3. promise' \in [Writer -> Nat] /\ promise'[w] \in Nat
          BY <4>1, <5>2 DEF Types
        <5> QED
          BY <4>1, <5>3
      <4>2. CASE promise' = [promise EXCEPT ![w] = count] /\ count' = count + 1
        BY <4>2 DEF Types
      <4>3. CASE promise' = [promise EXCEPT ![w] = 0] /\ count' = count
        BY <4>3 DEF Types
      <4> QED
        BY <2>4, <4>1, <4>2, <4>3 DEF Promise
    <3>3. Types'
      BY <2>4, <3>1, <3>2 DEF Promise, Types, Goto, Labels
    <3> QED
      BY <2>4, <3>3 DEF Promise, Types, Alone, Goto
  <2>5. CASE Settle(w)
    <3>1. handle' \in [Writer -> HandleT] /\ anchor' \in [head : Nat, records : Nat] \cup {NoAnchor}
      BY <2>5, CatchUpType DEF Settle
    <3>2. SettledSeq(w) \in Nat /\ handle'[w].head \in Nat
      <4>0. handle'[w] \in HandleT
        BY <3>1
      <4>1. handle'[w].top + 1 \in Nat /\ promise[w] \in Nat /\ handle'[w].head \in Nat
        <5>1. handle'[w].top \in Nat /\ handle'[w].head \in Nat
          BY <4>0, HandleFields
        <5> QED
          BY <5>1 DEF Types
      <4> QED
        BY <4>1, MaxTwo DEF SettledSeq
    <3> DEFINE r == [id |-> made + 1, seq |-> SettledSeq(w), prev |-> handle'[w].head]
    <3>3. r \in Record
      BY <3>2 DEF Types, Record
    <3>4. rec' = [rec EXCEPT ![w] = r]
      BY <2>5 DEF Settle
    <3> HIDE DEF r
    <3>5. Types'
      <4>1. rec' \in [Writer -> Record \cup {NoRecord}]
        BY <3>3, <3>4 DEF Types
      <4>2. made' \in Nat /\ made' <= MaxRecords
        BY <1>0, <2>5 DEF Settle, Types
      <4>3. pc' \in [Writer -> Labels]
        BY <2>5 DEF Settle, Types, Goto, Labels
      <4> QED
        BY <2>5, <3>1, <4>1, <4>2, <4>3 DEF Settle, Types
    <3> QED
      BY <2>5, <3>3, <3>4, <3>5 DEF Settle, Types, Alone, Goto
  <2>6. ASSUME NEW stamp \in Day, OpenDay(w, stamp)
        PROVE  Types' /\ Alone'
    <3> DEFINE day == FilingDay(w, stamp)
    <3>1. day \in Day
      <4>1. stamp \in Nat /\ handle[w].day \in Nat /\ handle[w].day <= MaxDay
        BY <1>0 DEF Types, HandleT, Day
      <4> QED
        BY <1>0, <4>1, MaxTwo DEF FilingDay, Day
    <3>2. <<Header>> \in Seq(LineT)
      BY LineTypes
    <3>3. /\ file' = IF file[day] = <<>> THEN [file EXCEPT ![day] = <<Header>>] ELSE file
          /\ handle' = [handle EXCEPT ![w].day = day]
      BY <2>6 DEF OpenDay
    <3> HIDE DEF day
    <3>4. file' \in [Day -> Seq(LineT)]
      <4> HIDE DEF Header
      <4> QED
        BY <3>2, <3>3 DEF Types
    <3>5. handle' \in [Writer -> HandleT] /\ handle'[w].day = day
          /\ \A v \in Writer : v # w => handle'[v] = handle[v]
      <4>1. handle[w] \in HandleT /\ day \in 0 .. MaxDay
        BY <1>0, <3>1 DEF Types, Day
      <4>2. [handle[w] EXCEPT !.day = day] \in HandleT /\ [handle[w] EXCEPT !.day = day].day = day
        BY <4>1 DEF HandleT
      <4>3. handle' = [handle EXCEPT ![w] = [handle[w] EXCEPT !.day = day]]
        BY <3>3
      <4> QED
        BY <4>2, <4>3 DEF Types
    <3>6. Types'
      BY <2>6, <3>4, <3>5 DEF OpenDay, Types, Goto, Labels
    <3> QED
      BY <2>6, <3>1, <3>5, <3>6 DEF OpenDay, Types, Alone, Goto
  <2>7. CASE WriteLine(w)
    <3>1. file' \in [Day -> Seq(LineT)]
      BY <2>7, AddLineType, LineTypes DEF WriteLine, Types
    <3> QED
      BY <2>7, <3>1 DEF WriteLine, Types, Alone, Goto, Labels
  <2>8. CASE WriteBreak(w)
    <3>1. file' \in [Day -> Seq(LineT)]
      BY <2>8, CloseLineType DEF WriteBreak, Types
    <3>2. rec[w] \in Record /\ handle[w].day \in Day
      BY <2>8 DEF WriteBreak, Alone
    <3> DEFINE h == [head |-> rec[w].id, records |-> handle[w].records + 1,
                     top |-> rec[w].seq, day |-> handle[w].day, tail |-> file'[handle[w].day]]
    <3>3. h \in HandleT
      <4>1. rec[w].id \in Nat /\ rec[w].seq \in Nat
        BY <3>2 DEF Record
      <4>2. handle[w].records + 1 \in Nat /\ handle[w].day \in 0 .. MaxDay
        BY HandleFields DEF Types
      <4>3. file'[handle[w].day] \in Seq(LineT)
        BY <3>1, <3>2
      <4> QED
        BY <4>1, <4>2, <4>3 DEF HandleT
    <3>4. handle' = [handle EXCEPT ![w] = h]
      BY <2>8 DEF WriteBreak
    <3>5. h.day = handle[w].day
      OBVIOUS
    <3> HIDE DEF h
    <3>6. Types'
      BY <2>8, <3>1, <3>3, <3>4 DEF WriteBreak, Types, Goto, Labels
    <3> QED
      BY <2>8, <3>4, <3>5, <3>6 DEF WriteBreak, Types, Alone, Goto
  <2>9. CASE EmptyAnchor(w)
    BY <2>9 DEF EmptyAnchor, Types, Alone, Goto, Labels, answers
  <2>10. CASE WriteAnchor(w)
    <3>1. [head |-> handle[w].head, records |-> handle[w].records] \in [head : Nat, records : Nat]
      BY DEF Types, HandleT
    <3> QED
      BY <2>10, <3>1 DEF WriteAnchor, Types, Alone, Goto, Labels
  <2>11. CASE Fail(w)
    BY <2>11 DEF Fail, Types, Alone, Goto, Labels, disk, Unanchored, Refused
  <2>12. CASE Tear(w)
    <3>1. file' \in [Day -> Seq(LineT)]
      BY <2>12, AddLineType, LineTypes DEF Tear, Types
    <3> QED
      BY <2>12, <3>1 DEF Tear, Types, Alone, Goto, Labels
  <2>13. CASE Die(w)
    BY <1>0, <2>13 DEF Die, Types, Alone, Goto, Labels, disk, Unanchored, answers
  <2> QED
    BY <1>2, <2>1, <2>2, <2>3, <2>4, <2>5, <2>6, <2>7, <2>8, <2>9, <2>10, <2>11, <2>12, <2>13
    DEF Step
<1> QED
  BY <1>1, <1>2 DEF Next

\* They hold throughout.
LEMMA TypesThroughout == Spec => [](Types /\ Alone)
<1>1. Init => Types /\ Alone
  BY TypesInit
<1>2. Types /\ Alone /\ [Next]_vars => (Types /\ Alone)'
  BY TypesNext
<1> QED
  BY <1>1, <1>2, PTL DEF Spec

\* Types are respected throughout, and whoever is past the lock holds it, in
\* any number of days and records and whatever goes wrong (append.lock).
THEOREM AuditTypeCorrect == Spec => []AuditTypeOK
<1>1. Types /\ Alone => AuditTypeOK
  <2> SUFFICES ASSUME Types, Alone PROVE AuditTypeOK
    OBVIOUS
  <2>1. \A d \in Day : \A i \in DOMAIN file[d] : file[d][i].rec \in Record \cup {NoRecord}
    <3> SUFFICES ASSUME NEW d \in Day, NEW i \in DOMAIN file[d]
                 PROVE  file[d][i].rec \in Record \cup {NoRecord}
      OBVIOUS
    <3>1. file[d] \in Seq(LineT)
      BY DEF Types
    <3>2. file[d][i] \in LineT
      BY <3>1
    <3> QED
      BY <3>2 DEF LineT
  <2>2. \A w \in Writer : handle[w].day \in Day \cup {0}
    <3>1. MaxDay \in Nat
      BY AuditConstants
    <3> QED
      BY <3>1 DEF Types, HandleT, Day
  <2> QED
    BY <2>1, <2>2 DEF Types, Alone, AuditTypeOK
<1> QED
  BY <1>1, TypesThroughout, PTL

-----------------------------------------------------------------------------
(* The invariant.                                                          *)

\* The anchor is missing or right, or it is one record short.
Calm == anchor \in {NoAnchor, AnchorOf(Log)}
Stale == anchor # NoAnchor /\ Log # <<>> /\ anchor.records = Len(Log) - 1

\* Every line has its break; no file after this day holds a record.
AllClosed == \A d \in Day : \A i \in DOMAIN file[d] : file[d][i].closed
NoneAfter(day) == \A e \in Day : e > day => RecordsOf(file[e]) = <<>>

\* What the properties say of the chain.
OneLog ==
  /\ Linked(Log) /\ Climbs(Log) /\ PromiseKept
  /\ \A a \in acked : \E i \in DOMAIN Log : Log[i].id = a.id

\* A handle that has as many records as the chain knows it; one that has fewer
\* is behind it.
Knows(h) ==
  /\ h.records <= Len(Log)
  /\ h.records = Len(Log) => h.head = HeadOf(Log) /\ h.top = TopOf(Log) /\ NoneAfter(h.day)

Knowing == \A w \in Writer : Up(w) => Knows(handle[w])

\* No record on the disk, or remembered in a tail, is one to come: made, while
\* a writer has the record in hand, counts it already.
IdsTo(top, lines) == \A i \in DOMAIN lines : lines[i].rec.id <= top

Told == IF \E v \in Writer : Filing(v) THEN made - 1 ELSE made

Fresh ==
  /\ \A d \in Day : IdsTo(Told, file[d])
  /\ \A w \in Writer : IdsTo(Told, handle[w].tail)

\* The record in hand builds on what is there.
Prepared(v) ==
  /\ anchor = AnchorOf(Log) /\ handle[v].records = Len(Log)
  /\ rec[v].id = made /\ rec[v].prev = HeadOf(Log) /\ rec[v].seq > TopOf(Log)
  /\ AllClosed

\* Between the line and its break, and from there to the anchor.
OnlyLastOpen(day) ==
  \A d \in Day : \A i \in DOMAIN file[d] : file[d][i].closed \/ (d = day /\ i = Len(file[d]))

WroteLine(v) ==
  /\ Stale /\ handle[v].records = Len(Log) - 1 /\ Last(Log) = rec[v]
  /\ file[handle[v].day] # <<>> /\ NoneAfter(handle[v].day) /\ OnlyLastOpen(handle[v].day)

WroteBreak(v) ==
  Log # <<>> /\ handle[v].records = Len(Log) /\ Last(Log) = rec[v] /\ AllClosed

\* What a writer has in hand, by where it is.
InHand ==
  \A v \in Writer :
    /\ pc[v] = "promised" => promise[v] = 0 \/ Stale \/ promise[v] > TopOf(Log)
    /\ Filing(v) => Prepared(v)
    /\ pc[v] = "opened" => file[handle[v].day] # <<>>
    /\ pc[v] \in {"filing", "opened", "lined", "closed", "emptied"} =>
         promise[v] = 0 \/ rec[v].seq = promise[v]
    /\ pc[v] = "lined" => WroteLine(v)
    /\ pc[v] = "closed" => Stale
    /\ pc[v] = "emptied" => anchor = NoAnchor
    /\ pc[v] \in {"closed", "emptied"} => WroteBreak(v)

\* The anchor is never further off than one record; and while more records
\* are to come no line is left open before a record may follow it.
Anchored ==
  /\ Calm \/ Stale
  /\ Calm /\ made < MaxRecords => AllClosed

\* w's handle stands aside of v's file: on a later day, or on an earlier one
\* when the record is the first of its file.
Aside(v, w) ==
  \/ handle[w].day > handle[v].day
  \/ /\ handle[w].day \in 1 .. handle[v].day - 1
     /\ Len(RecordsOf(file[handle[v].day])) = 1

\* While the anchor is one record short, that record is on a file D that every
\* handle one record behind either stands on with a tail that lacks it, or has no
\* file, or stands aside of: the writer is then still between its line and its
\* anchor, and its cut is one of those ruled out.
BlockedOn(D) ==
  /\ \E i \in DOMAIN file[D] : file[D][i].rec = Last(Log)
  /\ \A v \in Writer : Landed(v) => handle[v].day = D
  /\ \A w \in Writer : Up(w) /\ handle[w].records = Len(Log) - 1 =>
       /\ \A i \in DOMAIN handle[w].tail : handle[w].tail[i].rec # Last(Log)
       /\ handle[w].day \in {0, D} \/ \E v \in Writer : Landed(v) /\ Aside(v, w)

Blocked == Stale => \E D \in Day : BlockedOn(D)

\* As long as no write was cut short there is nothing wrong with the files,
\* and the anchor is short only while a writer is about to renew it.
Honest ==
  /\ ~cut => /\ \A d \in Day : \A i \in DOMAIN file[d] : file[d][i].parses
             /\ Stale => \E v \in Writer : Landed(v)
  /\ AlarmsAreReal

\* The inductive invariant.
ChainInv == /\ Types /\ Alone /\ OneLog /\ Knowing /\ Fresh /\ InHand /\ Anchored /\ Blocked /\ Honest

\* The constants' assumptions, one by one.
LEMMA Bounds ==
  /\ MaxDay \in Nat \ {0} /\ MaxRecords \in Nat \ {0}
  /\ Free \notin Writer /\ Daemon \in Writer
BY AuditConstants

\* The chain that the files hold, its head and its top.
LEMMA LogType ==
  ASSUME Types
  PROVE  Log \in Seq(Record) /\ Len(Log) \in Nat /\ HeadOf(Log) \in Nat /\ TopOf(Log) \in Nat
BY ChainType, HeadType, TopIsMax DEF Types, Log

\* The anchor of a chain is not a missing one.
LEMMA AnchorIsOne ==
  ASSUME Types
  PROVE  AnchorOf(Log) # NoAnchor /\ AnchorOf(Log).records = Len(Log) /\ AnchorOf(Log).head = HeadOf(Log)
<1>1. HeadOf(Log) \in Nat
  BY LogType
<1> QED
  BY <1>1 DEF AnchorOf, NoAnchor

\* A stale anchor disagrees with the files: `recover` refuses.
LEMMA StaleDisagrees ==
  ASSUME Types, Stale
  PROVE  ~Agrees(anchor, Chain(file)) /\ ~Calm
<1>1. Len(Log) \in Nat
  BY LogType
<1> QED
  BY <1>1, AnchorIsOne DEF Stale, Agrees, Calm, Log

\* With the anchor stale and nobody between a line and its anchor, no handle
\* takes itself for current: its tail, or its day, is not what is there.
LEMMA StaleNotCurrent ==
  ASSUME Types, Alone, Blocked, Stale, NEW w \in Writer, pc[w] \in {"holds", "promised", "idle"},
         \A v \in Writer : ~Landed(v)
  PROVE  ~Current(w)
<1> SUFFICES ASSUME Current(w) PROVE FALSE
  OBVIOUS
<1>1. PICK D \in Day : BlockedOn(D)
  BY DEF Blocked
<1>2. handle[w].records = Len(Log) - 1
  BY DEF Current, Stale
<1>3. /\ \A i \in DOMAIN handle[w].tail : handle[w].tail[i].rec # Last(Log)
      /\ handle[w].day \in {0, D}
  BY <1>1, <1>2 DEF BlockedOn, Up
<1>4. PICK i \in DOMAIN file[D] : file[D][i].rec = Last(Log)
  BY <1>1 DEF BlockedOn
<1>5. file[D] # <<>> /\ D \in Nat \ {0}
  <2>1. file[D] \in Seq(LineT)
    BY DEF Types
  <2>2. D \in Nat \ {0}
    BY Bounds DEF Day
  <2> QED
    BY <1>4, <2>1, <2>2
<1>6. CASE handle[w].day = 0
  <2>1. NewestOf(file) = 0
    BY <1>6 DEF Current
  <2>2. D <= NewestOf(file)
    BY <1>5, Newest DEF Types
  <2> QED
    BY <1>5, <2>1, <2>2
<1>7. CASE handle[w].day = D
  <2>1. handle[w].tail = file[D]
    BY <1>5, <1>7 DEF Current, LinesOf
  <2> QED
    BY <1>3, <1>4, <2>1
<1> QED
  BY <1>3, <1>6, <1>7

\* So a writer with the lock is refused (catch_up).
LEMMA StaleRefused ==
  ASSUME Types, Alone, Blocked, Stale, NEW w \in Writer, pc[w] \in {"holds", "promised"}
  PROVE  Refused(w) /\ ~CatchUp(w)
<1>1. \A v \in Writer : ~Landed(v)
  BY DEF Alone, Landed
<1>2. ~Current(w)
  BY <1>1, StaleNotCurrent
<1> QED
  BY <1>2, StaleDisagrees DEF Refused, CatchUp

\* A recovery knows the chain it read.
LEMMA RecoveredKnows ==
  ASSUME Types, \A d \in Day : IdsTo(made, file[d])
  PROVE  Knows(Recovered) /\ Recovered.records = Len(Log) /\ IdsTo(made, Recovered.tail)
<1>1. /\ Recovered.head = HeadOf(Log) /\ Recovered.records = Len(Log)
      /\ Recovered.top = TopOf(Log) /\ Recovered.day = NewestOf(file)
      /\ Recovered.tail = LinesOf(file, NewestOf(file))
  BY DEF Recovered, Log
<1>2. /\ NewestOf(file) \in 0 .. MaxDay
      /\ \A d \in Day : d > NewestOf(file) => RecordsOf(file[d]) = <<>>
  BY Newest DEF Types
<1>3. IdsTo(made, LinesOf(file, NewestOf(file)))
  <2>1. CASE NewestOf(file) = 0
    BY <2>1 DEF LinesOf, IdsTo
  <2>2. CASE NewestOf(file) # 0
    <3>1. NewestOf(file) \in Day
      BY <1>2, <2>2, Bounds DEF Day
    <3> QED
      BY <2>2, <3>1 DEF LinesOf
  <2> QED
    BY <2>1, <2>2
<1>4. Len(Log) \in Nat
  BY LogType
<1> QED
  BY <1>1, <1>2, <1>3, <1>4 DEF Knows, NoneAfter

\* A writer that has caught up knows the chain, and the anchor names it.
LEMMA CaughtUp ==
  ASSUME ChainInv, NEW w \in Writer, pc[w] \in {"holds", "promised"}, CatchUp(w)
  PROVE  /\ ~Stale /\ anchor' = AnchorOf(Log)
         /\ Knows(handle'[w]) /\ handle'[w].records = Len(Log)
         /\ \A v \in Writer : v # w => handle'[v] = handle[v]
         /\ IdsTo(made, handle'[w].tail)
<1> USE DEF ChainInv
<1>1. ~Stale
  BY StaleRefused
<1>2. Calm
  BY <1>1 DEF Anchored
<1>3. \A v \in Writer : ~Filing(v)
  BY DEF Alone, Filing
<1>4. Told = made
  BY <1>3 DEF Told
<1>5. /\ \A d \in Day : IdsTo(made, file[d])
      /\ \A v \in Writer : IdsTo(made, handle[v].tail)
  BY <1>4 DEF Fresh
<1>6. CASE Current(w) /\ UNCHANGED <<handle, anchor>>
  <2>1. handle[w].head \in Nat /\ handle[w].records \in Nat
    BY HandleFields DEF Types
  <2>2. anchor = [head |-> handle[w].head, records |-> handle[w].records]
    BY <1>6 DEF Current
  <2>3. anchor # NoAnchor
    BY <2>1, <2>2 DEF NoAnchor
  <2>4. anchor = AnchorOf(Log)
    BY <1>2, <2>3 DEF Calm
  <2>5. handle[w].records = Len(Log)
    BY <2>2, <2>4, AnchorIsOne
  <2>6. Knows(handle[w])
    BY DEF Knowing, Up
  <2> QED
    BY <1>1, <1>5, <1>6, <2>4, <2>5, <2>6
<1>7. CASE handle' = [handle EXCEPT ![w] = Recovered] /\ anchor' = AnchorOf(Chain(file))
  <2>1. handle'[w] = Recovered /\ \A v \in Writer : v # w => handle'[v] = handle[v]
    BY <1>7 DEF Types
  <2>2. Knows(Recovered) /\ Recovered.records = Len(Log) /\ IdsTo(made, Recovered.tail)
    BY <1>5, RecoveredKnows
  <2> QED
    BY <1>1, <1>7, <2>1, <2>2 DEF Log
<1> QED
  BY <1>6, <1>7 DEF CatchUp

\* What may go wrong: a write stops between lines, where no handle stands
\* aside, or within the last line of all.
OnlyCuts == Faults \cap {"tear", "other day"} = {}

-----------------------------------------------------------------------------
(* Its steps.                                                              *)

\* The files unchanged, so is what is read off them.
LEMMA SameFile ==
  ASSUME Types, file' = file
  PROVE  /\ Log' = Log
         /\ AllClosed' <=> AllClosed
         /\ \A day : NoneAfter(day)' <=> NoneAfter(day)
BY DEF Log, AllClosed, NoneAfter

\* So is what a handle knows.
LEMMA SameKnows ==
  ASSUME Types, file' = file, NEW h
  PROVE  Knows(h)' <=> Knows(h)
BY SameFile DEF Knows

\* A writer that does not write, or no longer (Take, Another, Release, Fail and
\* Die): nothing of the disk and no handle changes.
LEMMA StepAside ==
  ASSUME ChainInv, Types', Alone', NEW w \in Writer, NEW label \in {"idle", "holds", "done", "down"},
         UNCHANGED <<disk, handle, promise, rec, made, acked, reader>>,
         pc' = [pc EXCEPT ![w] = label], pc[w] # "down",
         cut' = (cut \/ Unanchored(w)),
         Landed(w) => ~LeavesAside(w)
  PROVE  ChainInv'
<1> USE DEF ChainInv
<1>1. file' = file /\ anchor' = anchor
  BY DEF disk
<1>2. Log' = Log /\ (AllClosed' <=> AllClosed) /\ (Stale' <=> Stale) /\ (Calm' <=> Calm)
      /\ (\A day : NoneAfter(day)' <=> NoneAfter(day))
  BY <1>1, SameFile DEF Stale, Calm
<1>3. /\ pc'[w] = label /\ \A v \in Writer : v # w => pc'[v] = pc[v]
      /\ \A v \in Writer : Filing(v)' => Filing(v)
      /\ \A v \in Writer : Landed(v)' => Landed(v) /\ v # w
      /\ \A v \in Writer : Up(v)' => Up(v)
  BY DEF Types, Filing, Landed, Up
<1>4. OneLog'
  BY <1>2 DEF OneLog, PromiseKept
<1>5. Knowing'
  BY <1>2, <1>3 DEF Knowing, Knows
<1>6. Fresh'
  <2>1. Told' = Told \/ Told' = Told + 1
    BY <1>3 DEF Told, Types
  <2>2. Told \in Int
    BY DEF Told, Types
  <2>3. ASSUME NEW lines \in Seq(LineT), IdsTo(Told, lines)
        PROVE  IdsTo(Told', lines)
    <3> SUFFICES ASSUME NEW i \in DOMAIN lines
                 PROVE  lines[i].rec.id <= Told'
      BY DEF IdsTo
    <3>1. lines[i] \in LineT
      OBVIOUS
    <3>2. lines[i].rec.id \in Int
      BY <3>1 DEF LineT, Record, NoRecord
    <3> QED
      BY <2>1, <2>2, <2>3, <3>2 DEF IdsTo
  <2>4. \A d \in Day : file[d] \in Seq(LineT)
    BY DEF Types
  <2>5. \A v \in Writer : handle[v].tail \in Seq(LineT)
    BY HandleFields DEF Types
  <2> QED
    BY <1>1, <2>3, <2>4, <2>5 DEF Fresh, IdsTo
<1>7. InHand'
  <2> SUFFICES ASSUME NEW v \in Writer, v # w
               PROVE  /\ pc'[v] = "promised" => promise[v] = 0 \/ Stale' \/ promise[v] > TopOf(Log')
                      /\ Filing(v)' => Prepared(v)'
                      /\ pc'[v] = "opened" => file'[handle'[v].day] # <<>>
                      /\ pc'[v] \in {"filing", "opened", "lined", "closed", "emptied"} =>
                           promise'[v] = 0 \/ rec'[v].seq = promise'[v]
                      /\ pc'[v] = "lined" => WroteLine(v)'
                      /\ pc'[v] = "closed" => Stale'
                      /\ pc'[v] = "emptied" => anchor' = NoAnchor
                      /\ pc'[v] \in {"closed", "emptied"} => WroteBreak(v)'
    BY <1>3 DEF InHand, Filing
  <2>1. Prepared(v)' <=> Prepared(v)
    BY <1>1, <1>2 DEF Prepared
  <2>2. WroteLine(v)' <=> WroteLine(v)
    BY <1>1, <1>2 DEF WroteLine, OnlyLastOpen
  <2>3. WroteBreak(v)' <=> WroteBreak(v)
    BY <1>1, <1>2 DEF WroteBreak
  <2>4. pc'[v] = pc[v] /\ (Filing(v)' <=> Filing(v))
    BY <1>3 DEF Filing
  <2> QED
    BY <1>1, <1>2, <2>1, <2>2, <2>3, <2>4 DEF InHand
<1>8. Anchored'
  BY <1>2 DEF Anchored
<1>9. Blocked'
  <2> SUFFICES ASSUME Stale PROVE (\E D \in Day : BlockedOn(D))'
    BY <1>2 DEF Blocked
  <2>1. PICK D \in Day : BlockedOn(D)
    BY DEF Blocked
  <2>2. ASSUME NEW u \in Writer, Up(u)', handle[u].records = Len(Log) - 1
        PROVE  /\ \A i \in DOMAIN handle[u].tail : handle[u].tail[i].rec # Last(Log)
               /\ handle[u].day \in {0, D} \/ \E v \in Writer : Landed(v)' /\ Aside(v, u)'
    <3>1. /\ \A i \in DOMAIN handle[u].tail : handle[u].tail[i].rec # Last(Log)
          /\ handle[u].day \in {0, D} \/ \E v \in Writer : Landed(v) /\ Aside(v, u)
      BY <1>3, <2>1, <2>2 DEF BlockedOn
    <3>2. ASSUME NEW v \in Writer, Landed(v), Aside(v, u)
          PROVE  Landed(v)' /\ Aside(v, u)'
      <4>1. CASE v = w
        <5>1. LeavesAside(w)
          BY <1>3, <2>2, <3>2, <4>1 DEF LeavesAside, Aside, Up
        <5> QED
          BY <3>2, <4>1, <5>1
      <4>2. CASE v # w
        BY <1>1, <1>3, <3>2, <4>2 DEF Landed, Aside
      <4> QED
        BY <4>1, <4>2
    <3> QED
      BY <3>1, <3>2
  <2>3. BlockedOn(D)'
    BY <1>1, <1>2, <1>3, <2>1, <2>2 DEF BlockedOn
  <2> QED
    BY <2>3
<1>10. Honest'
  <2>1. AlarmsAreReal'
    BY DEF Honest, AlarmsAreReal, Types
  <2>2. ASSUME ~cut', Stale
        PROVE  \E v \in Writer : Landed(v)'
    <3>1. ~cut /\ ~Unanchored(w)
      BY <2>2 DEF Types
    <3>2. PICK v \in Writer : Landed(v)
      BY <2>2, <3>1 DEF Honest
    <3>3. v # w
      BY <3>1, <3>2 DEF Landed, Unanchored
    <3> QED
      BY <1>3, <3>2, <3>3 DEF Landed
  <2>3. ~cut' => ~cut
    BY DEF Types
  <2> QED
    BY <1>1, <1>2, <2>1, <2>2, <2>3 DEF Honest
<1> QED
  BY <1>4, <1>5, <1>6, <1>7, <1>8, <1>9, <1>10

\* The steps of a verify, and those of the daemon's own count: no alarm but a
\* real one.
LEMMA StepOfReader ==
  ASSUME ChainInv, Types', Alone',
         UNCHANGED <<disk, lock, pc, handle, promise, rec, made, acked, cut>>,
         reader'.verdict = reader.verdict \/ ReadAgain \/ reader'.verdict # "broken"
  PROVE  ChainInv'
<1> USE DEF ChainInv
<1>1. file' = file /\ anchor' = anchor
  BY DEF disk
<1>2. Log' = Log /\ (AllClosed' <=> AllClosed) /\ (Stale' <=> Stale) /\ (Calm' <=> Calm)
      /\ (\A day : NoneAfter(day)' <=> NoneAfter(day))
  BY <1>1, SameFile DEF Stale, Calm
<1>3. \A v \in Writer : (Filing(v)' <=> Filing(v)) /\ (Landed(v)' <=> Landed(v)) /\ (Up(v)' <=> Up(v))
  BY DEF Filing, Landed, Up
<1>4. OneLog' /\ Knowing' /\ Anchored'
  BY <1>2, <1>3 DEF OneLog, PromiseKept, Knowing, Knows, Anchored
<1>5. Fresh'
  BY <1>1, <1>3 DEF Fresh, Told, IdsTo
<1>6. InHand'
  BY <1>1, <1>2, <1>3 DEF InHand, Prepared, WroteLine, WroteBreak, OnlyLastOpen
<1>7. Blocked'
  BY <1>1, <1>2, <1>3 DEF Blocked, BlockedOn, Aside
<1>8. (\E v \in Writer : Landed(v)') <=> \E v \in Writer : Landed(v)
  BY <1>3
<1>9. AlarmsAreReal'
  <2>1. CASE reader'.verdict = reader.verdict
    BY <2>1 DEF Honest, AlarmsAreReal
  <2>2. CASE reader'.verdict # "broken"
    BY <2>2 DEF AlarmsAreReal
  <2>3. CASE ReadAgain
    <3> SUFFICES ASSUME ~cut PROVE Verifies(file, anchor)
      BY <2>3 DEF ReadAgain, AlarmsAreReal, NoReader
    <3>1. \A v \in Writer : ~Landed(v)
      BY <2>3, Bounds DEF ReadAgain, Alone, Landed
    <3>2. ~Stale
      BY <3>1 DEF Honest
    <3>3. Calm
      BY <3>2 DEF Anchored
    <3>4. Agrees(anchor, Chain(file))
      BY <3>3 DEF Calm, Agrees, Log
    <3>5. Linked(Chain(file))
      BY DEF OneLog, Log
    <3> QED
      BY <3>4, <3>5 DEF Verifies, Honest
  <2> QED
    BY <2>1, <2>2, <2>3
<1> QED
  BY <1>1, <1>2, <1>4, <1>5, <1>6, <1>7, <1>8, <1>9 DEF Honest

\* An anchor that is missing or right is not stale.
LEMMA NotStale ==
  ASSUME NEW chain \in Seq(Record), NEW a \in {NoAnchor, AnchorOf(chain)}
  PROVE  ~(a # NoAnchor /\ chain # <<>> /\ a.records = Len(chain) - 1)
<1>1. Len(chain) \in Nat
  OBVIOUS
<1>2. AnchorOf(chain).records = Len(chain)
  BY DEF AnchorOf
<1> QED
  BY <1>1, <1>2

\* A recovery under the lock keeps the invariant (open).
LEMMA OpenStep ==
  ASSUME ChainInv, Types', Alone', NEW w \in Writer, Open(w)
  PROVE  ChainInv'
<1> USE DEF ChainInv
<1>1. /\ file' = file /\ anchor' = AnchorOf(Log) /\ rec' = rec /\ made' = made /\ promise' = promise
      /\ acked' = acked /\ cut' = cut /\ reader' = reader
      /\ handle'[w] = Recovered /\ \A v \in Writer : v # w => handle'[v] = handle[v]
      /\ pc'[w] = "idle" /\ \A v \in Writer : v # w => pc'[v] = pc[v]
      /\ lock = Free
  BY DEF Open, Types, Log, answers, Goto
<1>2. Log' = Log /\ (AllClosed' <=> AllClosed) /\ (\A day : NoneAfter(day)' <=> NoneAfter(day))
  BY <1>1, SameFile
<1>3. \A v \in Writer : pc[v] \in {"down", "idle"} /\ pc'[v] \in {"down", "idle"}
  BY <1>1, Bounds DEF Alone
<1>4. Calm
  <2>1. Agrees(anchor, Chain(file))
    BY DEF Open
  <2> QED
    BY <2>1 DEF Agrees, Calm, Log
<1>5. ~Stale' /\ Calm'
  BY <1>1, <1>2, LogType, NotStale DEF Calm, Stale
<1>6. Told = made /\ Told' = made
  BY <1>1, <1>3 DEF Told, Filing
<1>7. Knows(Recovered) /\ IdsTo(made, Recovered.tail)
  BY <1>6, RecoveredKnows DEF Fresh
<1>8. OneLog'
  BY <1>1, <1>2 DEF OneLog, PromiseKept
<1>9. Knowing'
  <2> SUFFICES ASSUME NEW v \in Writer, Up(v)' PROVE Knows(handle[v])'
    BY DEF Knowing
  <2>1. CASE v = w
    BY <1>1, <1>2, <1>7, <2>1 DEF Knows
  <2>2. CASE v # w
    BY <1>1, <1>2, <2>2 DEF Knows, Knowing, Up
  <2> QED
    BY <2>1, <2>2
<1>10. Fresh'
  BY <1>1, <1>6, <1>7 DEF Fresh, IdsTo
<1>11. InHand'
  BY <1>3 DEF InHand, Filing
<1>12. Anchored'
  BY <1>1, <1>2, <1>4, <1>5 DEF Anchored
<1>13. Blocked' /\ Honest'
  BY <1>1, <1>5 DEF Blocked, Honest, AlarmsAreReal
<1> QED
  BY <1>8, <1>9, <1>10, <1>11, <1>12, <1>13

\* What a catch-up leaves true, but for what its writer has in hand.
LEMMA RestAfterCatchUp ==
  ASSUME ChainInv, Types', Alone', NEW w \in Writer, pc[w] \in {"holds", "promised"}, CatchUp(w),
         UNCHANGED <<file, acked, cut, reader>>,
         Up(w)', \A v \in Writer : v # w => pc'[v] = pc[v],
         Told' = made, made' >= made
  PROVE  /\ OneLog' /\ Knowing' /\ Fresh' /\ Anchored' /\ Blocked' /\ Honest'
         /\ Log' = Log /\ (AllClosed' <=> AllClosed) /\ ~Stale'
         /\ anchor' = AnchorOf(Log) /\ handle'[w].records = Len(Log)
         /\ Knows(handle'[w])
         /\ \A v \in Writer : v # w => pc'[v] \in {"down", "idle"}
<1> USE DEF ChainInv
<1>1. /\ ~Stale /\ anchor' = AnchorOf(Log)
      /\ Knows(handle'[w]) /\ handle'[w].records = Len(Log)
      /\ \A v \in Writer : v # w => handle'[v] = handle[v]
      /\ IdsTo(made, handle'[w].tail)
  BY CaughtUp
<1>2. Log' = Log /\ (AllClosed' <=> AllClosed) /\ (\A day : NoneAfter(day)' <=> NoneAfter(day))
  BY SameFile
<1>3. \A v \in Writer : v # w => pc'[v] \in {"down", "idle"}
  BY DEF Alone
<1>4. Calm
  BY <1>1 DEF Anchored
<1>5. ~Stale' /\ Calm'
  BY <1>1, <1>2, LogType, NotStale DEF Calm, Stale
<1>6. Told = made
  BY DEF Told, Filing, Alone
<1>7. OneLog'
  BY <1>1, <1>2 DEF OneLog, PromiseKept
<1>8. Knowing'
  <2> SUFFICES ASSUME NEW v \in Writer, Up(v)' PROVE Knows(handle[v])'
    BY DEF Knowing
  <2>1. CASE v = w
    BY <1>1, <1>2, <2>1 DEF Knows
  <2>2. CASE v # w
    BY <1>1, <1>2, <2>2 DEF Knows, Knowing, Up
  <2> QED
    BY <2>1, <2>2
<1>9. Fresh'
  BY <1>1, <1>6 DEF Fresh, IdsTo
<1>10. Anchored'
  BY <1>2, <1>4, <1>5, Bounds DEF Anchored, Types
<1>11. Blocked' /\ Honest'
  BY <1>1, <1>5 DEF Blocked, Honest, AlarmsAreReal
<1> QED
  BY <1>1, <1>2, <1>3, <1>5, <1>7, <1>8, <1>9, <1>10, <1>11

\* Taking a seq keeps the invariant: it is above the chain's top, or the
\* chain is refused (take_seq).
LEMMA PromiseStep ==
  ASSUME ChainInv, Types', Alone', NEW w \in Writer, Promise(w)
  PROVE  ChainInv'
<1> USE DEF ChainInv
<1>1. /\ pc[w] = "holds" /\ pc'[w] = "promised" /\ \A v \in Writer : v # w => pc'[v] = pc[v]
      /\ file' = file /\ made' = made /\ rec' = rec /\ lock' = lock /\ acked' = acked
      /\ cut' = cut /\ reader' = reader
  BY DEF Promise, Goto, Types, answers
<1>2. Told' = made
  BY <1>1 DEF Told, Filing, Alone
<1>3. \A v \in Writer : v # w => pc'[v] \in {"down", "idle"} /\ pc[v] \in {"down", "idle"}
  BY <1>1 DEF Alone
<1>4. CASE /\ CatchUp(w)
           /\ promise' = [promise EXCEPT ![w] = Max({count, handle'[w].top + 1})]
  <2>1. /\ OneLog' /\ Knowing' /\ Fresh' /\ Anchored' /\ Blocked' /\ Honest'
        /\ Log' = Log /\ handle'[w].records = Len(Log) /\ Knows(handle'[w])
    <3>1. CatchUp(w) /\ pc[w] \in {"holds", "promised"} /\ Up(w)' /\ made' >= made
      BY <1>1, <1>4 DEF Up, Types
    <3> QED
      BY <1>1, <1>2, <3>1, RestAfterCatchUp
  <2>2. handle'[w].top = TopOf(Log)
    BY <2>1 DEF Knows
  <2>3. promise'[w] > TopOf(Log)
    <3>1. count \in Nat /\ TopOf(Log) \in Nat /\ handle'[w].top + 1 \in Nat
      BY <2>2, LogType DEF Types
    <3>2. promise'[w] = Max({count, handle'[w].top + 1})
      BY <1>4 DEF Types
    <3> QED
      BY <2>2, <3>1, <3>2, MaxTwo
  <2>4. InHand'
    BY <1>1, <1>3, <2>1, <2>3 DEF InHand, Filing
  <2> QED
    BY <2>1, <2>4
<1>5. CASE UNCHANGED <<handle, anchor>> /\ (Refused(w) \/ promise' = [promise EXCEPT ![w] = 0])
  <2>1. Log' = Log /\ (AllClosed' <=> AllClosed) /\ (Stale' <=> Stale) /\ (Calm' <=> Calm)
        /\ (\A day : NoneAfter(day)' <=> NoneAfter(day))
    BY <1>1, <1>5, SameFile DEF Stale, Calm
  <2>2. \A v \in Writer : (Filing(v)' <=> Filing(v)) /\ (Landed(v)' <=> Landed(v)) /\ (Up(v)' <=> Up(v))
    BY <1>1 DEF Filing, Landed, Up
  <2>3. OneLog' /\ Knowing' /\ Anchored'
    BY <1>1, <1>5, <2>1, <2>2 DEF OneLog, PromiseKept, Knowing, Knows, Anchored
  <2>4. Fresh'
    BY <1>1, <1>5, <2>2 DEF Fresh, Told, IdsTo
  <2>5. promise'[w] = 0 \/ Stale'
    <3>1. CASE Refused(w)
      <4>1. ~Calm
        BY <3>1 DEF Refused, Agrees, Calm, Log
      <4> QED
        BY <2>1, <4>1 DEF Anchored
    <3>2. CASE promise' = [promise EXCEPT ![w] = 0]
      BY <3>2 DEF Types
    <3> QED
      BY <1>5, <3>1, <3>2
  <2>6. InHand'
    BY <1>1, <1>3, <2>5 DEF InHand, Filing
  <2>7. Blocked'
    BY <1>1, <1>5, <2>1, <2>2 DEF Blocked, BlockedOn, Aside
  <2>8. Honest'
    <3>1. (\E v \in Writer : Landed(v)') <=> \E v \in Writer : Landed(v)
      BY <2>2
    <3> QED
      BY <1>1, <2>1, <3>1 DEF Honest, AlarmsAreReal
  <2> QED
    BY <2>3, <2>4, <2>6, <2>7, <2>8
<1> QED
  BY <1>4, <1>5 DEF Promise

\* Settling the record under the lock does: it names the head that is there
\* and has the seq it was promised (append_under).
LEMMA SettleStep ==
  ASSUME ChainInv, Types', Alone', NEW w \in Writer, Settle(w)
  PROVE  ChainInv'
<1> USE DEF ChainInv
<1>1. /\ pc[w] = "promised" /\ pc'[w] = "filing" /\ \A v \in Writer : v # w => pc'[v] = pc[v]
      /\ CatchUp(w) /\ file' = file /\ made' = made + 1 /\ made < MaxRecords
      /\ promise' = promise /\ acked' = acked /\ cut' = cut /\ reader' = reader
      /\ rec'[w] = [id |-> made + 1, seq |-> SettledSeq(w), prev |-> handle'[w].head]
  BY DEF Settle, Goto, Types, answers
<1>2. Told' = made
  BY <1>1 DEF Told, Filing, Types
<1>3. /\ OneLog' /\ Knowing' /\ Fresh' /\ Anchored' /\ Blocked' /\ Honest'
      /\ Log' = Log /\ (AllClosed' <=> AllClosed)
      /\ anchor' = AnchorOf(Log) /\ handle'[w].records = Len(Log) /\ Knows(handle'[w])
      /\ \A v \in Writer : v # w => pc'[v] \in {"down", "idle"}
  <2>1. Up(w)' /\ made' >= made
    BY <1>1 DEF Up, Types
  <2> QED
    BY <1>1, <1>2, <2>1, RestAfterCatchUp
<1>4. handle'[w].top = TopOf(Log) /\ handle'[w].head = HeadOf(Log)
  BY <1>3 DEF Knows
<1>5. ~Stale
  BY <1>1, StaleRefused
<1>6. promise[w] \in Nat /\ TopOf(Log) \in Nat /\ handle'[w].top + 1 \in Nat
  BY <1>4, LogType DEF Types
<1>7. promise[w] = 0 \/ promise[w] > TopOf(Log)
  BY <1>1, <1>5 DEF InHand
<1>8. /\ SettledSeq(w) > TopOf(Log)
      /\ promise[w] = 0 \/ SettledSeq(w) = promise[w]
  BY <1>4, <1>6, <1>7, MaxTwo DEF SettledSeq
<1>9. AllClosed'
  <2>1. Calm
    BY <1>5 DEF Anchored
  <2> QED
    BY <1>1, <1>3, <2>1 DEF Anchored
<1>10. Prepared(w)'
  BY <1>1, <1>3, <1>4, <1>8, <1>9 DEF Prepared
<1>11. InHand'
  BY <1>1, <1>3, <1>8, <1>10 DEF InHand, Filing
<1> QED
  BY <1>3, <1>11

\* Opening its day file does: a header holds no record, and the file is none
\* before the handle's.
LEMMA OpenDayStep ==
  ASSUME ChainInv, Types', Alone', NEW w \in Writer, NEW stamp \in Day, OpenDay(w, stamp)
  PROVE  ChainInv' /\ Log' = Log
<1> USE DEF ChainInv
<1> DEFINE day == FilingDay(w, stamp)
<1>1. /\ pc[w] = "filing" /\ pc'[w] = "opened" /\ \A v \in Writer : v # w => pc'[v] = pc[v]
      /\ anchor' = anchor /\ made' = made /\ rec' = rec /\ promise' = promise /\ acked' = acked
      /\ cut' = cut /\ reader' = reader
      /\ file' = IF file[day] = <<>> THEN [file EXCEPT ![day] = <<Header>>] ELSE file
      /\ handle' = [handle EXCEPT ![w].day = day]
  BY DEF OpenDay, Goto, Types, answers
<1>2. day \in Day /\ day >= handle[w].day /\ handle[w].day \in Nat
  <2>1. handle[w].day \in 0 .. MaxDay
    BY HandleFields DEF Types
  <2>2. stamp \in Nat /\ stamp >= 1 /\ stamp <= MaxDay
    BY Bounds DEF Day
  <2> QED
    BY <2>1, <2>2, Bounds, MaxTwo DEF FilingDay, Day
<1> HIDE DEF day
<1>3. /\ handle'[w].records = handle[w].records /\ handle'[w].head = handle[w].head
      /\ handle'[w].top = handle[w].top /\ handle'[w].tail = handle[w].tail
      /\ handle'[w].day = day
      /\ \A v \in Writer : v # w => handle'[v] = handle[v]
  <2>1. handle[w] \in HandleT
    BY DEF Types
  <2> QED
    BY <1>1, <2>1 DEF Types, HandleT
<1>4. /\ file'[day] # <<>>
      /\ \A d \in Day : file'[d] = file[d] \/ (file[d] = <<>> /\ file'[d] = <<Header>>)
  BY <1>1, <1>2 DEF Types
<1>5. RecordsOf(<<Header>>) = <<>>
  <2>1. <<>> \in Seq(LineT) /\ Header \in LineT /\ Append(<<>>, Header) = <<Header>>
    BY LineTypes
  <2>2. Added(Header, <<>>) = <<>>
    BY DEF Added, HoldsRecord, Header
  <2> QED
    BY <2>1, <2>2, RecordsOfNone, RecordsOfAppend
<1>6. \A d \in Day : RecordsOf(file'[d]) = RecordsOf(file[d])
  BY <1>4, <1>5, RecordsOfNone
<1>7. Log' = Log
  BY <1>6, ChainAlike DEF Log, Types
<1>8. \A e : NoneAfter(e)' <=> NoneAfter(e)
  BY <1>6 DEF NoneAfter
<1>9. /\ \A d \in Day, t \in Int : t >= -1 /\ IdsTo(t, file[d]) => IdsTo(t, file'[d])
      /\ AllClosed => AllClosed'
      /\ (\A d \in Day : \A i \in DOMAIN file[d] : file[d][i].parses)
           => \A d \in Day : \A i \in DOMAIN file'[d] : file'[d][i].parses
  <2>1. \A i \in DOMAIN <<Header>> : <<Header>>[i] = Header
    OBVIOUS
  <2>2. Header.rec.id = -1 /\ Header.closed /\ Header.parses
    BY DEF Header, NoRecord
  <2> HIDE DEF Header
  <2>3. \A d \in Day : \A i : i \in DOMAIN file'[d] => file'[d][i] = Header \/ (i \in DOMAIN file[d] /\ file'[d][i] = file[d][i])
    BY <1>4, <2>1
  <2>4. \A d \in Day, t \in Int : t >= -1 /\ IdsTo(t, file[d]) => IdsTo(t, file'[d])
    BY <2>2, <2>3 DEF IdsTo
  <2>5. AllClosed => AllClosed'
    BY <2>2, <2>3 DEF AllClosed
  <2> QED
    BY <2>2, <2>3, <2>4, <2>5
<1>10. Prepared(w) /\ \A v \in Writer : v # w => pc[v] \in {"down", "idle"}
  BY <1>1 DEF InHand, Filing, Alone
<1>11. ~Stale' /\ Calm'
  BY <1>1, <1>7, <1>10, LogType, NotStale DEF Prepared, Calm, Stale
<1>12. Told = made - 1 /\ Told' = made - 1 /\ made \in Nat
  BY <1>1 DEF Told, Filing, Types
<1>13. OneLog'
  BY <1>1, <1>7 DEF OneLog, PromiseKept
<1>14. Knowing'
  <2> SUFFICES ASSUME NEW v \in Writer, Up(v)' PROVE Knows(handle[v])'
    BY DEF Knowing
  <2>1. CASE v = w
    <3>1. Knows(handle[w])
      BY <1>1 DEF Knowing, Up
    <3>2. NoneAfter(handle[w].day) => NoneAfter(day)
      BY <1>2, Bounds DEF NoneAfter, Day
    <3> QED
      BY <1>3, <1>7, <1>8, <2>1, <3>1, <3>2 DEF Knows
  <2>2. CASE v # w
    BY <1>1, <1>3, <1>7, <1>8, <2>2 DEF Knows, Knowing, Up
  <2> QED
    BY <2>1, <2>2
<1>15. Fresh'
  BY <1>3, <1>9, <1>12 DEF Fresh, IdsTo
<1>16. Prepared(w)'
  BY <1>1, <1>3, <1>7, <1>9, <1>10 DEF Prepared
<1>17. InHand'
  <2>1. promise[w] = 0 \/ rec[w].seq = promise[w]
    BY <1>1 DEF InHand
  <2> QED
    BY <1>1, <1>3, <1>4, <1>10, <1>16, <2>1 DEF InHand, Filing
<1>18. Anchored' /\ Blocked'
  BY <1>9, <1>10, <1>11 DEF Anchored, Blocked, Prepared
<1>19. Honest'
  BY <1>1, <1>9, <1>11 DEF Honest, AlarmsAreReal
<1> QED
  BY <1>7, <1>13, <1>14, <1>15, <1>17, <1>18, <1>19

\* The two writes of the anchor do (write_anchor).
LEMMA EmptyAnchorStep ==
  ASSUME ChainInv, Types', Alone', NEW w \in Writer, EmptyAnchor(w) \/ WriteAnchor(w)
  PROVE  ChainInv'
<1> USE DEF ChainInv
<1>1. /\ pc[w] \in {"closed", "emptied"} /\ \A v \in Writer : v # w => pc'[v] = pc[v]
      /\ file' = file /\ handle' = handle /\ made' = made /\ rec' = rec /\ promise' = promise
      /\ cut' = cut /\ reader' = reader
  BY DEF EmptyAnchor, WriteAnchor, Goto, Types, answers
<1>2. Log' = Log /\ (AllClosed' <=> AllClosed) /\ (\A day : NoneAfter(day)' <=> NoneAfter(day))
  BY <1>1, SameFile
<1>3. WroteBreak(w) /\ (promise[w] = 0 \/ rec[w].seq = promise[w])
      /\ \A v \in Writer : v # w => pc[v] \in {"down", "idle"}
  BY <1>1 DEF InHand, Alone
<1>4. handle[w].head = HeadOf(Log) /\ handle[w].records = Len(Log)
  BY <1>1, <1>3 DEF WroteBreak, Knowing, Knows, Up
<1>5. pc'[w] \in {"emptied", "done"} /\ (pc'[w] = "emptied" => anchor' = NoAnchor)
  BY DEF EmptyAnchor, WriteAnchor, Goto, Types
<1>6. anchor' \in {NoAnchor, AnchorOf(Log)}
  BY <1>4 DEF EmptyAnchor, WriteAnchor, AnchorOf
<1>7. ~Stale' /\ Calm'
  BY <1>2, <1>6, LogType, NotStale DEF Calm, Stale
<1>8. Told' = Told
  BY <1>1, <1>3, <1>5 DEF Told, Filing
<1>9. OneLog'
  <2>1. CASE EmptyAnchor(w)
    BY <1>2, <2>1 DEF EmptyAnchor, answers, OneLog, PromiseKept
  <2>2. CASE WriteAnchor(w)
    <3>1. acked' = acked \cup {[id |-> rec[w].id, seq |-> rec[w].seq, asked |-> promise[w]]}
      BY <2>2 DEF WriteAnchor
    <3>2. Len(Log) \in DOMAIN Log /\ Log[Len(Log)].id = rec[w].id
      BY <1>3, LogType DEF WroteBreak, Last
    <3>3. PromiseKept'
      BY <1>3, <3>1 DEF OneLog, PromiseKept
    <3>4. \A a \in acked' : \E i \in DOMAIN Log : Log[i].id = a.id
      BY <3>1, <3>2 DEF OneLog
    <3> QED
      BY <1>2, <3>3, <3>4 DEF OneLog
  <2> QED
    BY <2>1, <2>2
<1>10. Knowing'
  BY <1>1, <1>2, <1>5 DEF Knowing, Knows, Up
<1>11. Fresh'
  BY <1>1, <1>8 DEF Fresh, IdsTo
<1>12. InHand'
  BY <1>1, <1>2, <1>3, <1>5 DEF InHand, Filing, WroteBreak
<1>13. Anchored' /\ Blocked' /\ Honest'
  BY <1>1, <1>2, <1>3, <1>7 DEF Anchored, Blocked, Honest, AlarmsAreReal, WroteBreak
<1> QED
  BY <1>9, <1>10, <1>11, <1>12, <1>13

\* Writing the line does. From here to its anchor the chain is one record
\* ahead, and whoever is not up to date can see it.
LEMMA WriteLineStep ==
  ASSUME ChainInv, Types', Alone', NEW w \in Writer, WriteLine(w)
  PROVE  ChainInv' /\ rec[w] \in Record /\ Log' = Append(Log, rec[w])
<1> USE DEF ChainInv
<1>0. pc[w] = "opened" /\ handle[w].day \in Day /\ rec[w] \in Record
  BY DEF WriteLine, Alone
<1>a. PICK D \in Day : D = handle[w].day
  BY <1>0
<1>b. PICK r \in Record : r = rec[w]
  BY <1>0
<1> DEFINE lines == file[D]
<1>1. /\ pc[w] = "opened" /\ pc'[w] = "lined" /\ \A v \in Writer : v # w => pc'[v] = pc[v]
      /\ anchor' = anchor /\ handle' = handle /\ made' = made /\ rec' = rec /\ promise' = promise
      /\ acked' = acked /\ cut' = cut /\ reader' = reader
      /\ file' = [file EXCEPT ![D] = AddLine(@, Line(r))]
  BY <1>a, <1>b DEF WriteLine, Goto, Types, answers
<1>2. /\ D \in Day /\ r \in Record /\ Prepared(w) /\ lines # <<>>
      /\ \A v \in Writer : v # w => pc[v] \in {"down", "idle"}
      /\ promise[w] = 0 \/ r.seq = promise[w]
  BY <1>a, <1>b, <1>1 DEF InHand, Filing, Alone
<1>3. lines \in Seq(LineT) /\ Line(r) \in LineT /\ Log \in Seq(Record)
  BY <1>2, LineTypes, LogType DEF Types
<1>4. Len(lines) \in DOMAIN lines /\ Len(lines) \in Nat
  BY <1>2, <1>3
<1>5. AddLine(lines, Line(r)) = Append(lines, Line(r))
  <2>1. Last(lines).closed
    BY <1>2, <1>4 DEF Prepared, AllClosed, Last
  <2> QED
    BY <2>1 DEF AddLine
<1>6. /\ file'[D] = Append(lines, Line(r))
      /\ \A d \in Day : d # D => file'[d] = file[d]
  BY <1>1, <1>2, <1>5 DEF Types
<1>7. /\ Len(file'[D]) = Len(lines) + 1 /\ file'[D][Len(lines) + 1] = Line(r)
      /\ DOMAIN file'[D] = 1 .. Len(lines) + 1 /\ DOMAIN lines = 1 .. Len(lines)
      /\ \A i \in DOMAIN lines : file'[D][i] = lines[i]
  <2> HIDE DEF lines
  <2> QED
    BY <1>3, <1>6
<1>8. HoldsRecord(Line(r)) /\ Line(r).rec = r /\ Line(r).parses /\ ~Line(r).closed
  BY <1>2 DEF HoldsRecord, Line, Record, NoRecord
<1>9. RecordsOf(file'[D]) = Append(RecordsOf(file[D]), r)
  BY <1>3, <1>6, <1>8, RecordsOfAppend DEF Added
<1>10. NoneAfter(D)
  BY <1>a, <1>1, <1>2 DEF Prepared, Knowing, Knows, Up
<1>11. Log' = Append(Log, r)
  <2>1. file \in [Day -> Seq(LineT)] /\ file' \in [Day -> Seq(LineT)]
    BY DEF Types
  <2>2. \A d \in Day : d # D => RecordsOf(file'[d]) = RecordsOf(file[d])
    BY <1>6
  <2> QED
    BY <1>2, <1>9, <1>10, <2>1, <2>2, ChainAppend DEF Log, NoneAfter
<1> HIDE DEF lines
<1>12. /\ Log' # <<>> /\ Len(Log') = Len(Log) + 1 /\ Last(Log') = r /\ Len(Log) \in Nat
       /\ \A i \in DOMAIN Log : i \in DOMAIN Log' /\ Log'[i] = Log[i]
  BY <1>2, <1>3, <1>11, AppendFacts, LogType
<1>13. /\ anchor # NoAnchor /\ anchor.records = Len(Log)
       /\ r.id = made /\ r.prev = HeadOf(Log) /\ r.seq > TopOf(Log) /\ AllClosed
       /\ handle[w].records = Len(Log)
  BY <1>b, <1>2, AnchorIsOne DEF Prepared
<1>14. Stale' /\ ~Calm'
  <2>1. AnchorOf(Log').records = Len(Log')
    BY DEF AnchorOf
  <2> QED
    BY <1>1, <1>12, <1>13, <2>1 DEF Stale, Calm
<1>15. OneLog'
  <2>1. Linked(Log') /\ Climbs(Log')
    BY <1>2, <1>3, <1>11, <1>13, ChainGrows DEF OneLog
  <2>2. PromiseKept'
    BY <1>1 DEF OneLog, PromiseKept
  <2>3. \A a \in acked' : \E i \in DOMAIN Log' : Log'[i].id = a.id
    BY <1>1, <1>12 DEF OneLog
  <2> QED
    BY <2>1, <2>2, <2>3 DEF OneLog
<1>16. \A v \in Writer : Up(v) => handle[v].records \in Nat /\ handle[v].records <= Len(Log)
  BY HandleFields DEF Knowing, Knows, Types
<1>17. \A v \in Writer : (Up(v)' <=> Up(v)) /\ (Landed(v)' <=> v = w) /\ ~Filing(v)'
  BY <1>1, <1>2 DEF Up, Landed, Filing
<1>18. Knowing'
  BY <1>1, <1>12, <1>16, <1>17 DEF Knowing, Knows
<1>19. Told = made - 1 /\ Told' = made /\ made \in Nat
  BY <1>1, <1>17 DEF Told, Filing, Types
<1>20. \A d \in Day : IdsTo(made - 1, file[d])
  BY <1>19 DEF Fresh
<1>21. \A v \in Writer : IdsTo(made - 1, handle[v].tail)
  BY <1>19 DEF Fresh
<1>22. ASSUME NEW s \in Seq(LineT), NEW i \in DOMAIN s, IdsTo(made - 1, s)
       PROVE  s[i].rec.id \in Int /\ s[i].rec.id < made /\ s[i].rec # r
  <2>1. s[i] \in LineT
    OBVIOUS
  <2>2. s[i].rec.id \in Int
    BY <2>1 DEF LineT, Record, NoRecord
  <2>3. s[i].rec.id <= made - 1
    BY <1>22 DEF IdsTo
  <2> QED
    BY <1>13, <1>19, <2>2, <2>3
<1>23. Fresh'
  <2>1. \A v \in Writer : handle[v].tail \in Seq(LineT)
    BY HandleFields DEF Types
  <2>2. \A v \in Writer : IdsTo(made, handle[v].tail)
    BY <1>19, <1>21, <1>22, <2>1 DEF IdsTo
  <2>3. \A d \in Day : d # D => IdsTo(made, file'[d])
    <3> SUFFICES ASSUME NEW d \in Day, d # D, NEW i \in DOMAIN file[d]
                 PROVE  file[d][i].rec.id <= made
      BY <1>6 DEF IdsTo
    <3>1. file[d] \in Seq(LineT) /\ IdsTo(made - 1, file[d])
      BY <1>20 DEF Types
    <3>2. file[d][i].rec.id \in Int /\ file[d][i].rec.id < made
      BY <1>22, <3>1
    <3> QED
      BY <1>19, <3>2
  <2>4. \A i \in DOMAIN lines : lines[i].rec.id <= made
    BY <1>2, <1>3, <1>19, <1>20, <1>22 DEF lines
  <2>5. IdsTo(made, file'[D])
    <3> SUFFICES ASSUME NEW i \in 1 .. Len(lines) + 1
                 PROVE  file'[D][i].rec.id <= made
      BY <1>7 DEF IdsTo
    <3>1. CASE i \in 1 .. Len(lines)
      BY <1>7, <2>4, <3>1
    <3>2. CASE i = Len(lines) + 1
      BY <1>7, <1>8, <1>13, <1>19, <3>2
    <3> QED
      BY <1>4, <3>1, <3>2
  <2>6. \A d \in Day : IdsTo(made, file'[d])
    BY <2>3, <2>5
  <2> QED
    BY <1>1, <1>19, <2>2, <2>6 DEF Fresh, IdsTo
<1>24. NoneAfter(D)'
  <2>1. \A e \in Day : e > D => e # D
    BY <1>2, Bounds DEF Day
  <2> QED
    BY <1>6, <1>10, <2>1 DEF NoneAfter
<1>25. WroteLine(w)'
  <2>1. OnlyLastOpen(D)'
    <3> SUFFICES ASSUME NEW d \in Day, NEW i \in DOMAIN file'[d]
                 PROVE  file'[d][i].closed \/ (d = D /\ i = Len(file'[d]))
      BY DEF OnlyLastOpen
    <3>1. CASE d # D
      BY <1>6, <1>13, <3>1 DEF AllClosed
    <3>2. CASE d = D /\ i \in DOMAIN lines
      BY <1>2, <1>7, <1>13, <3>2 DEF AllClosed, lines
    <3>3. CASE d = D /\ i \notin DOMAIN lines
      BY <1>4, <1>7, <3>3
    <3> QED
      BY <3>1, <3>2, <3>3
  <2>2. file'[D] # <<>>
    BY <1>4, <1>7
  <2>3. handle'[w].day = D /\ rec'[w] = r
    BY <1>a, <1>b, <1>1
  <2>4. handle'[w].records = Len(Log') - 1
    BY <1>1, <1>12, <1>13
  <2> QED
    BY <1>12, <1>14, <1>24, <2>1, <2>2, <2>3, <2>4 DEF WroteLine
<1>26. InHand'
  BY <1>b, <1>1, <1>2, <1>25 DEF InHand, Filing
<1>27. Anchored'
  BY <1>14 DEF Anchored
<1>28. Blocked'
  <2>1. file'[D][Len(lines) + 1].rec = Last(Log') /\ Len(lines) + 1 \in DOMAIN file'[D]
    BY <1>4, <1>7, <1>8, <1>12
  <2>2. \A v \in Writer : Landed(v)' => handle'[v].day = D
    BY <1>a, <1>1, <1>17
  <2>3. ASSUME NEW u \in Writer, Up(u)', handle'[u].records = Len(Log') - 1
        PROVE  /\ \A i \in DOMAIN handle'[u].tail : handle'[u].tail[i].rec # Last(Log')
               /\ handle'[u].day \in {0, D} \/ \E v \in Writer : Landed(v)' /\ Aside(v, u)'
    <3>1. handle[u].tail \in Seq(LineT) /\ handle[u].day \in Nat /\ D \in Nat
      BY <1>2, HandleFields, Bounds DEF Types, Day
    <3>2. \A i \in DOMAIN handle[u].tail : handle[u].tail[i].rec # r
      BY <1>21, <1>22, <3>1
    <3>3. NoneAfter(handle[u].day)
      BY <1>1, <1>12, <1>17, <2>3 DEF Knowing, Knows
    <3>4. ASSUME handle[u].day # 0, handle[u].day < D
          PROVE  Aside(w, u)'
      <4>1. RecordsOf(file[D]) = <<>>
        BY <1>2, <3>3, <3>4 DEF NoneAfter
      <4>2. Len(RecordsOf(file'[D])) = 1
        BY <1>a, <1>b, <1>9, <4>1
      <4>3. handle'[u].day \in 1 .. handle'[w].day - 1 /\ handle'[w].day = D
        BY <1>a, <1>1, <3>1, <3>4
      <4> QED
        BY <4>2, <4>3 DEF Aside
    <3>5. handle[u].day > D => Aside(w, u)'
      BY <1>a, <1>1 DEF Aside
    <3> QED
      BY <1>1, <1>12, <1>17, <3>1, <3>2, <3>4, <3>5
  <2>4. BlockedOn(D)'
    BY <2>1, <2>2, <2>3 DEF BlockedOn
  <2> QED
    BY <1>2, <2>4 DEF Blocked
<1>29. Honest'
  <2>1. AlarmsAreReal'
    BY <1>1 DEF Honest, AlarmsAreReal
  <2>2. ASSUME ~cut', NEW d \in Day, NEW i \in DOMAIN file'[d]
        PROVE  file'[d][i].parses
    <3>1. CASE d # D
      BY <1>1, <1>6, <2>2, <3>1 DEF Honest
    <3>2. CASE d = D /\ i \in DOMAIN lines
      BY <1>1, <1>2, <1>7, <2>2, <3>2 DEF Honest, lines
    <3>3. CASE d = D /\ i \notin DOMAIN lines
      BY <1>4, <1>7, <1>8, <2>2, <3>3
    <3> QED
      BY <3>1, <3>2, <3>3
  <2> QED
    BY <1>17, <2>1, <2>2 DEF Honest
<1> QED
  BY <1>b, <1>11, <1>15, <1>18, <1>23, <1>26, <1>27, <1>28, <1>29

\* So does its line break, and the handle moves on.
LEMMA WriteBreakStep ==
  ASSUME ChainInv, Types', Alone', NEW w \in Writer, WriteBreak(w)
  PROVE  ChainInv' /\ Log' = Log
<1> USE DEF ChainInv
<1>0. pc[w] = "lined" /\ handle[w].day \in Day /\ rec[w] \in Record
  BY DEF WriteBreak, Alone
<1>a. PICK D \in Day : D = handle[w].day
  BY <1>0
<1>b. PICK r \in Record : r = rec[w]
  BY <1>0
<1> DEFINE lines == file[D]
<1>1. /\ pc[w] = "lined" /\ pc'[w] = "closed" /\ \A v \in Writer : v # w => pc'[v] = pc[v]
      /\ anchor' = anchor /\ made' = made /\ rec' = rec /\ promise' = promise
      /\ acked' = acked /\ cut' = cut /\ reader' = reader
      /\ file' = [file EXCEPT ![D] = CloseLine(@)]
      /\ handle' = [handle EXCEPT ![w] = [head |-> r.id, records |-> handle[w].records + 1,
                                          top |-> r.seq, day |-> D, tail |-> file'[D]]]
  BY <1>a, <1>b DEF WriteBreak, Goto, Types, answers
<1>2. /\ D \in Day /\ r \in Record /\ WroteLine(w)
      /\ \A v \in Writer : v # w => pc[v] \in {"down", "idle"}
      /\ promise[w] = 0 \/ r.seq = promise[w]
  BY <1>a, <1>b, <1>1 DEF InHand, Alone
<1>3. lines \in Seq(LineT) /\ lines # <<>>
  BY <1>a, <1>2 DEF Types, WroteLine
<1>4. /\ file'[D] = CloseLine(lines)
      /\ \A d \in Day : d # D => file'[d] = file[d]
  BY <1>1, <1>2 DEF Types
<1>5. /\ handle'[w].head = r.id /\ handle'[w].records = handle[w].records + 1
      /\ handle'[w].top = r.seq /\ handle'[w].day = D /\ handle'[w].tail = file'[D]
      /\ \A v \in Writer : v # w => handle'[v] = handle[v]
  BY <1>1 DEF Types
<1> HIDE DEF lines
<1>6. /\ file'[D] \in Seq(LineT) /\ Len(file'[D]) = Len(lines) /\ RecordsOf(file'[D]) = RecordsOf(lines)
      /\ \A i \in 1 .. Len(lines) :
           /\ file'[D][i].rec = lines[i].rec /\ file'[D][i].parses = lines[i].parses
           /\ file'[D][i].closed = IF i = Len(lines) THEN TRUE ELSE lines[i].closed
      /\ DOMAIN lines = 1 .. Len(lines) /\ DOMAIN file'[D] = 1 .. Len(lines)
  <2> DEFINE c == CloseLine(lines)
  <2>1. /\ c \in Seq(LineT) /\ Len(c) = Len(lines) /\ RecordsOf(c) = RecordsOf(lines)
        /\ \A i \in 1 .. Len(lines) :
             /\ c[i].rec = lines[i].rec /\ c[i].parses = lines[i].parses
             /\ c[i].closed = IF i = Len(lines) THEN TRUE ELSE lines[i].closed
    BY <1>3, CloseLineSame
  <2> HIDE DEF c
  <2>2. DOMAIN c = 1 .. Len(c) /\ DOMAIN lines = 1 .. Len(lines)
    BY <1>3, <2>1
  <2>3. file'[D] = c
    BY <1>4 DEF c
  <2> QED
    BY <2>1, <2>2, <2>3
<1>7. \A d \in Day : /\ RecordsOf(file'[d]) = RecordsOf(file[d])
                     /\ DOMAIN file'[d] = DOMAIN file[d]
                     /\ \A i \in DOMAIN file[d] :
                          file'[d][i].rec = file[d][i].rec /\ file'[d][i].parses = file[d][i].parses
  BY <1>4, <1>6 DEF lines
<1>8. Log' = Log
  BY <1>7, ChainAlike DEF Log, Types
<1>9. AllClosed'
  <2> SUFFICES ASSUME NEW d \in Day, NEW i \in DOMAIN file'[d]
               PROVE  file'[d][i].closed
    BY DEF AllClosed
  <2>1. CASE d # D
    BY <1>a, <1>2, <1>4, <2>1 DEF WroteLine, OnlyLastOpen
  <2>2. CASE d = D
    <3>1. i \in 1 .. Len(lines) /\ (lines[i].closed \/ i = Len(lines))
      BY <1>2, <1>6, <2>2 DEF WroteLine, OnlyLastOpen, lines
    <3> QED
      BY <1>6, <2>2, <3>1
  <2> QED
    BY <2>1, <2>2
<1>10. \A e : NoneAfter(e)' <=> NoneAfter(e)
  BY <1>7 DEF NoneAfter
<1>11. Stale /\ Stale' /\ (Calm' <=> Calm)
  BY <1>1, <1>2, <1>8 DEF WroteLine, Stale, Calm
<1>12. /\ Log # <<>> /\ Last(Log) = r /\ handle[w].records = Len(Log) - 1 /\ NoneAfter(D)
       /\ Len(Log) \in Nat /\ Log \in Seq(Record)
  BY <1>a, <1>b, <1>2, LogType DEF WroteLine, Stale
<1>13. handle'[w].records = Len(Log) /\ r.id = HeadOf(Log) /\ r.seq = TopOf(Log)
  BY <1>5, <1>12, HeadType, TopWhenClimbing DEF OneLog
<1>14. \A v \in Writer : (Up(v)' <=> Up(v)) /\ (Landed(v)' <=> v = w) /\ (Landed(v) <=> v = w)
                         /\ ~Filing(v)' /\ ~Filing(v)
  BY <1>1, <1>2 DEF Up, Landed, Filing
<1>15. OneLog'
  BY <1>1, <1>8 DEF OneLog, PromiseKept
<1>16. Knowing'
  <2> SUFFICES ASSUME NEW v \in Writer, Up(v)' PROVE Knows(handle[v])'
    BY DEF Knowing
  <2>1. CASE v = w
    BY <1>5, <1>8, <1>10, <1>12, <1>13, <2>1 DEF Knows
  <2>2. CASE v # w
    BY <1>5, <1>8, <1>10, <1>14, <2>2 DEF Knows, Knowing
  <2> QED
    BY <2>1, <2>2
<1>17. Fresh'
  <2>1. Told' = Told
    BY <1>1, <1>14 DEF Told
  <2>2. \A d \in Day : IdsTo(Told, file'[d])
    BY <1>7 DEF Fresh, IdsTo
  <2>3. \A v \in Writer : IdsTo(Told, handle'[v].tail)
    BY <1>2, <1>5, <2>2 DEF Fresh
  <2> QED
    BY <2>1, <2>2, <2>3 DEF Fresh
<1>18. WroteBreak(w)'
  BY <1>b, <1>1, <1>8, <1>9, <1>12, <1>13 DEF WroteBreak
<1>19. InHand'
  BY <1>b, <1>1, <1>2, <1>11, <1>18 DEF InHand, Filing
<1>20. Anchored'
  BY <1>9, <1>11 DEF Anchored
<1>21. Blocked'
  <2>1. PICK E \in Day : BlockedOn(E)
    BY <1>11 DEF Blocked
  <2>2. E = D
    BY <1>a, <1>14, <2>1 DEF BlockedOn
  <2>3. \E i \in DOMAIN file'[D] : file'[D][i].rec = Last(Log')
    BY <1>2, <1>7, <1>8, <2>1, <2>2 DEF BlockedOn
  <2>4. \A v \in Writer : Landed(v)' => handle'[v].day = D
    BY <1>5, <1>14
  <2>5. ASSUME NEW u \in Writer, Up(u)', handle'[u].records = Len(Log') - 1
        PROVE  /\ \A i \in DOMAIN handle'[u].tail : handle'[u].tail[i].rec # Last(Log')
               /\ handle'[u].day \in {0, D} \/ \E v \in Writer : Landed(v)' /\ Aside(v, u)'
    <3>1. u # w
      BY <1>8, <1>12, <1>13, <2>5
    <3>2. handle'[u] = handle[u] /\ Up(u) /\ handle[u].records = Len(Log) - 1
      BY <1>5, <1>8, <1>14, <2>5, <3>1
    <3>3. /\ \A i \in DOMAIN handle[u].tail : handle[u].tail[i].rec # Last(Log)
          /\ handle[u].day \in {0, D} \/ Aside(w, u)
      BY <1>14, <2>1, <2>2, <3>2 DEF BlockedOn
    <3>4. Aside(w, u) => Aside(w, u)'
      BY <1>a, <1>2, <1>5, <1>7, <3>2 DEF Aside
    <3> QED
      BY <1>8, <1>14, <3>2, <3>3, <3>4
  <2>6. BlockedOn(D)'
    BY <2>3, <2>4, <2>5 DEF BlockedOn
  <2> QED
    BY <1>2, <2>6 DEF Blocked
<1>22. Honest'
  <2>1. AlarmsAreReal'
    BY <1>1 DEF Honest, AlarmsAreReal
  <2> QED
    BY <1>1, <1>7, <1>14, <2>1 DEF Honest
<1> QED
  BY <1>8, <1>15, <1>16, <1>17, <1>19, <1>20, <1>21, <1>22

\* A line that stops within, and that nobody writes after, keeps it.
LEMMA TearStep ==
  ASSUME OnlyCuts, ChainInv, Types', Alone', NEW w \in Writer, Tear(w)
  PROVE  ChainInv' /\ Log' = Log
<1> USE DEF ChainInv
<1>a. PICK D \in Day : D = handle[w].day
  BY DEF Tear, Alone
<1> DEFINE lines == file[D]
<1>1. /\ pc[w] = "opened" /\ pc'[w] = "done" /\ \A v \in Writer : v # w => pc'[v] = pc[v]
      /\ anchor' = anchor /\ handle' = handle /\ made' = made /\ rec' = rec /\ promise' = promise
      /\ acked' = acked /\ cut' = TRUE /\ reader' = reader
      /\ file' = [file EXCEPT ![D] = AddLine(@, Torn)]
  BY <1>a DEF Tear, Goto, Types
<1>2. made = MaxRecords
  BY DEF Tear, MayTear, OnlyCuts
<1>3. /\ D \in Day /\ Prepared(w) /\ lines # <<>>
      /\ \A v \in Writer : v # w => pc[v] \in {"down", "idle"}
  BY <1>a, <1>1 DEF InHand, Filing, Alone
<1>4. lines \in Seq(LineT) /\ Torn \in LineT
  BY <1>3, LineTypes DEF Types
<1>5. AddLine(lines, Torn) = Append(lines, Torn)
  <2>1. Len(lines) \in DOMAIN lines
    BY <1>3, <1>4
  <2>2. Last(lines).closed
    BY <1>3, <2>1 DEF Prepared, AllClosed, Last
  <2> QED
    BY <2>2 DEF AddLine
<1>6. /\ file'[D] = Append(lines, Torn)
      /\ \A d \in Day : d # D => file'[d] = file[d]
  BY <1>1, <1>3, <1>5 DEF Types
<1>7. RecordsOf(file'[D]) = RecordsOf(file[D])
  <2>1. Added(Torn, RecordsOf(lines)) = RecordsOf(lines)
    BY DEF Added, HoldsRecord, Torn
  <2> QED
    BY <1>4, <1>6, <2>1, RecordsOfAppend
<1>8. \A i \in DOMAIN file'[D] : file'[D][i] = Torn \/ (i \in DOMAIN lines /\ file'[D][i] = lines[i])
  <2> HIDE DEF lines, Torn
  <2> QED
    BY <1>4, <1>6
<1> HIDE DEF lines
<1>9. \A d \in Day : RecordsOf(file'[d]) = RecordsOf(file[d])
  BY <1>6, <1>7
<1>10. Log' = Log
  BY <1>9, ChainAlike DEF Log, Types
<1>11. \A e : NoneAfter(e)' <=> NoneAfter(e)
  BY <1>9 DEF NoneAfter
<1>12. ~Stale' /\ Calm'
  BY <1>1, <1>3, <1>10, LogType, NotStale DEF Prepared, Calm, Stale
<1>13. \A v \in Writer : pc'[v] \in {"down", "idle", "done"}
  BY <1>1, <1>3
<1>14. OneLog'
  BY <1>1, <1>10 DEF OneLog, PromiseKept
<1>15. Knowing'
  BY <1>1, <1>10, <1>11 DEF Knowing, Knows, Up
<1>16. Fresh'
  <2>1. Told = made - 1 /\ Told' = made /\ made \in Nat
    BY <1>1, <1>13 DEF Told, Filing, Types
  <2>2. ASSUME NEW s \in Seq(LineT), IdsTo(Told, s)
        PROVE  IdsTo(made, s)
    <3> SUFFICES ASSUME NEW i \in DOMAIN s
                 PROVE  s[i].rec.id <= made
      BY DEF IdsTo
    <3>1. s[i] \in LineT
      OBVIOUS
    <3>2. s[i].rec.id \in Int
      BY <3>1 DEF LineT, Record, NoRecord
    <3> QED
      BY <2>1, <2>2, <3>2 DEF IdsTo
  <2>3. \A v \in Writer : IdsTo(made, handle[v].tail)
    <3>1. \A v \in Writer : handle[v].tail \in Seq(LineT)
      BY HandleFields DEF Types
    <3> QED
      BY <2>2, <3>1 DEF Fresh
  <2>4. \A d \in Day : IdsTo(made, file[d])
    BY <2>2 DEF Fresh, Types
  <2>5. Torn.rec.id <= made
    BY <2>1 DEF Torn, NoRecord
  <2>6. \A d \in Day : IdsTo(made, file'[d])
    BY <1>3, <1>6, <1>8, <2>4, <2>5 DEF IdsTo, lines
  <2> QED
    BY <1>1, <2>1, <2>3, <2>6 DEF Fresh
<1>17. InHand'
  BY <1>13 DEF InHand, Filing
<1>18. Anchored' /\ Blocked'
  BY <1>1, <1>2, <1>12, Bounds DEF Anchored, Blocked
<1>19. Honest'
  BY <1>1 DEF Honest, AlarmsAreReal
<1> QED
  BY <1>10, <1>14, <1>15, <1>16, <1>17, <1>18, <1>19

-----------------------------------------------------------------------------
(* What holds throughout.                                                  *)

\* The invariant holds at first.
LEMMA InvInit == Init => ChainInv
<1> SUFFICES ASSUME Init PROVE ChainInv
  OBVIOUS
<1>1. Types /\ Alone
  BY TypesInit
<1>2. /\ \A d \in Day : file[d] = <<>>
      /\ anchor = NoAnchor /\ acked = {} /\ cut = FALSE /\ reader = NoReader /\ made = 0
      /\ \A w \in Writer : pc[w] = "down" /\ handle[w] = NoHandle
  BY DEF Init
<1>3. Log = <<>>
  <2>1. \A d \in Day : RecordsOf(file[d]) = <<>>
    BY <1>2, RecordsOfNone
  <2> QED
    BY <1>1, <2>1, ChainOfNone DEF Log, Types
<1>4. OneLog
  <2>1. Linked(<<>>) /\ Climbs(<<>>)
    BY DEF Linked, Climbs
  <2> QED
    BY <1>2, <1>3, <2>1 DEF OneLog, PromiseKept
<1>5. Knowing /\ InHand
  BY <1>2 DEF Knowing, InHand, Up, Filing
<1>6. Fresh
  BY <1>2 DEF Fresh, IdsTo, NoHandle
<1>7. Anchored /\ Blocked
  BY <1>2 DEF Anchored, Blocked, Calm, Stale, AllClosed
<1>8. Honest
  BY <1>2 DEF Honest, AlarmsAreReal, NoReader, Stale
<1> QED
  BY <1>1, <1>4, <1>5, <1>6, <1>7, <1>8 DEF ChainInv

\* Every step keeps it, and the chain starts with what it was.
LEMMA InvNext ==
  ASSUME OnlyCuts, ChainInv, [Next]_vars
  PROVE  ChainInv' /\ IsPrefix(Log, Log')
<1>1. Types' /\ Alone'
  BY TypesNext DEF ChainInv
<1>2. Log \in Seq(Record) /\ IsPrefix(Log, Log)
  BY LogType, SameIsPrefix DEF ChainInv
<1>3. file' = file => Log' = Log
  BY SameFile DEF ChainInv
<1>4. CASE UNCHANGED vars
  BY <1>1, <1>2, <1>3, <1>4, StepOfReader DEF vars, disk, writers, answers
<1>5. CASE Verify
  <2>1. UNCHANGED <<disk, lock, pc, handle, promise, rec, made, acked, cut>>
    BY <1>5 DEF Verify, StartVerify, ReadDay, ReadAnchor, ReadAgain, BelieveFirst, writers, answers
  <2>2. reader'.verdict = reader.verdict \/ ReadAgain \/ reader'.verdict # "broken"
    <3>1. CASE StartVerify
      BY <3>1 DEF StartVerify, NoReader
    <3>2. CASE ReadDay
      BY <3>2 DEF ReadDay, ChainInv, Types, ReaderT
    <3>3. CASE ReadAnchor \/ BelieveFirst
      BY <3>3 DEF ReadAnchor, BelieveFirst, NoReader
    <3> QED
      BY <1>5, <3>1, <3>2, <3>3 DEF Verify
  <2> QED
    BY <1>1, <1>2, <1>3, <2>1, <2>2, StepOfReader DEF disk
<1>6. ASSUME NEW w \in Writer, Step(w)
      PROVE  ChainInv' /\ IsPrefix(Log, Log')
  <2>1. CASE Open(w)
    BY <1>1, <1>2, <1>3, <2>1, OpenStep DEF Open
  <2>2. CASE Take(w) \/ Another(w) \/ Release(w)
    <3>1. PICK label \in {"holds", "idle"} : pc' = [pc EXCEPT ![w] = label]
      BY <2>2 DEF Take, Another, Release, Goto
    <3>2. pc[w] \in {"idle", "done"} /\ cut' = cut
          /\ UNCHANGED <<disk, handle, promise, rec, made, acked, reader>>
      BY <2>2 DEF Take, Another, Release, answers
    <3>3. ~Landed(w) /\ ~Unanchored(w)
      BY <3>2 DEF Landed, Unanchored
    <3>4. cut' = (cut \/ Unanchored(w))
      BY <3>2, <3>3 DEF ChainInv, Types
    <3>5. ChainInv'
      BY <1>1, <3>1, <3>2, <3>3, <3>4, StepAside
    <3> QED
      BY <1>2, <1>3, <3>2, <3>5 DEF disk
  <2>3. CASE GiveUp(w)
    BY <1>1, <1>2, <1>3, <2>3, StepOfReader DEF GiveUp, disk
  <2>4. CASE Promise(w)
    BY <1>1, <1>2, <1>3, <2>4, PromiseStep DEF Promise
  <2>5. CASE Settle(w)
    BY <1>1, <1>2, <1>3, <2>5, SettleStep DEF Settle
  <2>6. ASSUME NEW stamp \in Day, OpenDay(w, stamp)
        PROVE  ChainInv' /\ IsPrefix(Log, Log')
    BY <1>1, <1>2, <2>6, OpenDayStep
  <2>7. CASE WriteLine(w)
    BY <1>1, <1>2, <2>7, WriteLineStep, AppendFacts
  <2>8. CASE WriteBreak(w)
    BY <1>1, <1>2, <2>8, WriteBreakStep
  <2>9. CASE EmptyAnchor(w) \/ WriteAnchor(w)
    BY <1>1, <1>2, <1>3, <2>9, EmptyAnchorStep DEF EmptyAnchor, WriteAnchor
  <2>10. CASE Fail(w) \/ Die(w)
    <3>1. PICK label \in {"done", "down"} : pc' = [pc EXCEPT ![w] = label]
      BY <2>10 DEF Fail, Die, Goto
    <3>2. pc[w] # "down" /\ cut' = (cut \/ Unanchored(w))
          /\ UNCHANGED <<disk, handle, promise, rec, made, acked, reader>>
      BY <2>10 DEF Fail, Die, answers, Unanchored
    <3>3. Landed(w) => ~LeavesAside(w)
      BY <2>10 DEF Fail, Die, Landed, Unanchored, MayCut, OnlyCuts
    <3>4. ChainInv'
      BY <1>1, <3>1, <3>2, <3>3, StepAside
    <3> QED
      BY <1>2, <1>3, <3>2, <3>4 DEF disk
  <2>11. CASE Tear(w)
    BY <1>1, <1>2, <2>11, TearStep
  <2> QED
    BY <1>6, <2>1, <2>2, <2>3, <2>4, <2>5, <2>6, <2>7, <2>8, <2>9, <2>10, <2>11 DEF Step
<1> QED
  BY <1>4, <1>5, <1>6 DEF Next

\* The invariant holds throughout.
THEOREM ChainInvHolds ==
  ASSUME OnlyCuts
  PROVE  Spec => []ChainInv
<1>1. Init => ChainInv
  BY InvInit
<1>2. ChainInv /\ [Next]_vars => ChainInv'
  BY InvNext
<1> QED
  BY <1>1, <1>2, PTL DEF Spec

\* For any number of writers, days and records: every record names the one
\* before it, seqs climb, and a seq promised ahead is its record's
\* (append_under, take_seq; AUDIT-WRITERS-1, AUDIT-DAY-1, AUDIT-SEQ-1).
THEOREM ChainStandsAsOne ==
  ASSUME OnlyCuts
  PROVE  Spec => []ChainIsOne
<1>1. ChainInv => ChainIsOne
  BY DEF ChainInv, OneLog, ChainIsOne, ChainLinked, SeqsClimb, Climbs, Log
<1> QED
  BY <1>1, ChainInvHolds, PTL

\* verify, once it has read under the lock, calls a chain broken only if a
\* write was cut short.
THEOREM AlarmsStayReal ==
  ASSUME OnlyCuts
  PROVE  Spec => []AlarmsAreReal
<1>1. ChainInv => AlarmsAreReal
  BY DEF ChainInv, Honest
<1> QED
  BY <1>1, ChainInvHolds, PTL

\* The chain grows at its end only, and what was answered as recorded is on
\* it ever after (write_anchor, invariant 26).
THEOREM NothingIsLost ==
  ASSUME OnlyCuts
  PROVE  Spec => ChainKeeps
<1>1. ChainInv => AckedStays
  BY DEF ChainInv, OneLog, AckedStays, Log
<1>2. ChainInv /\ [Next]_vars => [IsPrefix(Chain(file), Chain(file'))]_vars
  <2> SUFFICES ASSUME ChainInv, [Next]_vars
               PROVE  IsPrefix(Chain(file), Chain(file'))
    OBVIOUS
  <2>1. IsPrefix(Log, Log')
    BY InvNext
  <2> QED
    BY <2>1 DEF Log
<1>3. Spec => []AckedStays
  BY <1>1, ChainInvHolds, PTL
<1>4. Spec => [][IsPrefix(Chain(file), Chain(file'))]_vars
  BY <1>2, ChainInvHolds, PTL DEF Spec
<1> QED
  BY <1>3, <1>4 DEF ChainKeeps, AppendOnly

\* An anchor that names another chain than the files hold is one short of it.
LEMMA DiffersIsStale ==
  ASSUME ChainInv, AnchorDiffers
  PROVE  Stale
BY DEF ChainInv, AnchorDiffers, Anchored, Calm, Log

\* No step of anybody builds on such a chain or renews its anchor.
LEMMA StaleIsLeft ==
  ASSUME ChainInv, AnchorDiffers, \A w \in Writer : ~Unanchored(w), Next
  PROVE  anchor' = anchor /\ Chain(file') = Chain(file)
<1> USE DEF ChainInv
<1>1. Stale
  BY DiffersIsStale
<1>2. \A v \in Writer : pc[v] \notin {"filing", "opened", "lined", "closed", "emptied"}
  <2>1. \A v \in Writer : ~Filing(v)
    <3> SUFFICES ASSUME NEW v \in Writer, Filing(v) PROVE FALSE
      OBVIOUS
    <3>1. anchor = AnchorOf(Log)
      BY DEF InHand, Prepared
    <3> QED
      BY <3>1 DEF AnchorDiffers, Log
  <2> QED
    BY <2>1 DEF Filing, Unanchored
<1>3. \A w \in Writer : pc[w] \in {"holds", "promised"} => ~CatchUp(w)
  BY <1>1, StaleRefused
<1>4. ASSUME NEW w \in Writer, Step(w)
      PROVE  anchor' = anchor /\ file' = file
  <2>1. ~Open(w)
    BY <1>1, StaleDisagrees DEF Open
  <2>2. ~Settle(w)
    BY <1>3 DEF Settle
  <2>3. ASSUME Promise(w) PROVE anchor' = anchor /\ file' = file
    BY <1>3, <2>3 DEF Promise
  <2>4. ~WriteLine(w) /\ ~WriteBreak(w) /\ ~EmptyAnchor(w) /\ ~WriteAnchor(w) /\ ~Tear(w)
        /\ \A stamp \in Day : ~OpenDay(w, stamp)
    BY <1>2 DEF WriteLine, WriteBreak, EmptyAnchor, WriteAnchor, Tear, OpenDay
  <2>5. ASSUME Take(w) \/ GiveUp(w) \/ Another(w) \/ Release(w) \/ Fail(w) \/ Die(w)
        PROVE  anchor' = anchor /\ file' = file
    BY <2>5 DEF Take, GiveUp, Another, Release, Fail, Die, disk
  <2> QED
    BY <1>4, <2>1, <2>2, <2>3, <2>4, <2>5 DEF Step
<1>5. ASSUME Verify
      PROVE  anchor' = anchor /\ file' = file
  BY <1>5 DEF Verify, StartVerify, ReadDay, ReadAnchor, ReadAgain, BelieveFirst, disk
<1> QED
  BY <1>4, <1>5 DEF Next

\* A chain that may have lost its last record is not built on and its anchor
\* not written over: every later writer is refused (recover, append_under).
THEOREM TornChainIsLeft ==
  ASSUME OnlyCuts
  PROVE  Spec => NeverBuiltOn
<1>1. ChainInv /\ [Next]_vars =>
        [(AnchorDiffers /\ \A w \in Writer : ~Unanchored(w))
           => anchor' = anchor /\ Chain(file') = Chain(file)]_vars
  <2> SUFFICES ASSUME ChainInv, Next, AnchorDiffers, \A w \in Writer : ~Unanchored(w)
               PROVE  anchor' = anchor /\ Chain(file') = Chain(file)
    OBVIOUS
  <2> QED
    BY StaleIsLeft
<1>2. Spec => [][(AnchorDiffers /\ \A w \in Writer : ~Unanchored(w))
                   => anchor' = anchor /\ Chain(file') = Chain(file)]_vars
  BY <1>1, ChainInvHolds, PTL DEF Spec
<1> QED
  BY <1>2 DEF NeverBuiltOn
=============================================================================
