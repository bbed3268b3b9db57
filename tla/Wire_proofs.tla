------------------------------ MODULE Wire_proofs ------------------------------
(***************************************************************************)
(* Proof that a packet's options are read as they were written, whatever   *)
(* they are and in whichever order they are put on the wire (Options.      *)
(* Serialize and ParseOptions, internal/dhcp/options.go).                  *)
(*                                                                         *)
(* ParseOptions and FlattenSeq are recursive functions, each the choice of *)
(* a function that solves an equation.  That there is a solution is shown  *)
(* first, by induction on the natural numbers, which the provers have as a *)
(* fact about sets: every set of them has a least element.                 *)
(***************************************************************************)
EXTENDS Wire, SequenceTheorems, FiniteSetTheorems, WellFoundedInduction, TLAPS

\* The options that Field writes faithfully: a code that is not Pad or End, and
\* a value whose length fits a byte.
WellFormed(o) ==
    /\ DOMAIN o \subseteq Bytes \ {OptPad, OptEnd}
    /\ o \in [DOMAIN o -> Seq(Bytes)]
    /\ \A c \in DOMAIN o : Len(o[c]) < Base

-----------------------------------------------------------------------------
(* Induction over a set of natural numbers *)

LEMMA LeastElement ==
    ASSUME NEW T \in SUBSET Nat, T # {}
    PROVE  \E x \in T : \A y \in T : x <= y
<1> DEFINE R == OpToRel(<, Nat)
<1>1. IsWellFoundedOn(R, Nat)
  BY NatLessThanWellFounded
<1>2. \A x, y \in Nat : y < x => <<y, x>> \in R
  BY DEF OpToRel
<1> HIDE DEF R
<1>3. PICK x \in T : \A y \in T : ~ (<<y, x>> \in R)
  BY <1>1, WFMin
<1>4. ASSUME NEW y \in T PROVE x <= y
  <2>1. x \in Nat /\ y \in Nat
    OBVIOUS
  <2>2. ~(y < x)
    BY <1>2, <1>3, <2>1
  <2> QED BY <2>1, <2>2
<1> QED BY <1>4

LEMMA Upward ==
    ASSUME NEW n \in Nat, NEW S, 0 \in S, \A k \in 0 .. n : k < n /\ k \in S => k + 1 \in S
    PROVE  \A k \in 0 .. n : k \in S
<1> DEFINE T == {k \in 0 .. n : k \notin S}
<1> SUFFICES ASSUME T # {} PROVE FALSE
  OBVIOUS
<1>1. T \in SUBSET Nat
  OBVIOUS
<1> HIDE DEF T
<1>2. PICK x \in T : \A y \in T : x <= y
  BY <1>1, LeastElement
<1>3. x \in 0 .. n /\ x \notin S
  BY DEF T
<1>4. x # 0
  BY <1>3
<1>5. x - 1 \in 0 .. n /\ x - 1 < n /\ x - 1 < x
  BY <1>3, <1>4
<1>6. x - 1 \in S
  BY <1>2, <1>5 DEF T
<1> QED BY <1>3, <1>5, <1>6

LEMMA Downward ==
    ASSUME NEW n \in Nat, NEW S, n \in S, \A k \in 1 .. n : k \in S => k - 1 \in S
    PROVE  \A k \in 0 .. n : k \in S
<1> DEFINE T == {k \in 0 .. n : n - k \in S}
<1>1. 0 \in T
  OBVIOUS
<1>2. ASSUME NEW k \in 0 .. n, k < n, k \in T PROVE k + 1 \in T
  <2>1. n - k \in 1 .. n /\ n - (k + 1) = (n - k) - 1 /\ k + 1 \in 0 .. n
    BY <1>2
  <2> QED BY <1>2, <2>1
<1> HIDE DEF T
<1>3. \A k \in 0 .. n : k \in T
  BY <1>1, <1>2, Upward
<1>4. ASSUME NEW k \in 0 .. n PROVE k \in S
  <2>1. n - k \in 0 .. n /\ n - (n - k) = k
    OBVIOUS
  <2>2. n - k \in T
    BY <1>3, <2>1
  <2> QED BY <2>1, <2>2 DEF T
<1> QED BY <1>4

-----------------------------------------------------------------------------
(* The options one after the other *)

Appends(seqs, f) ==
    f = [i \in 1 .. Len(seqs) |-> IF i = 1 THEN seqs[i] ELSE f[i - 1] \o seqs[i]]

LEMMA FlattenSeqDef ==
    ASSUME NEW seqs, Len(seqs) # 0
    PROVE  FlattenSeq(seqs) = (CHOOSE f : Appends(seqs, f))[Len(seqs)]
  BY Zenon DEF FlattenSeq, Appends

LEMMA AppendsMeans ==
    ASSUME NEW seqs, NEW f, Appends(seqs, f)
    PROVE  \A i \in 1 .. Len(seqs) : f[i] = IF i = 1 THEN seqs[i] ELSE f[i - 1] \o seqs[i]
  BY Zenon DEF Appends

LEMMA AppendsExists ==
    ASSUME NEW S, NEW seqs \in Seq(S)
    PROVE  \E f : Appends(seqs, f)
<1> DEFINE n == Len(seqs)
           Solved(k) == \E f : /\ f = [i \in 1 .. n |-> f[i]]
                               /\ \A i \in 1 .. k :
                                     f[i] = IF i = 1 THEN seqs[i] ELSE f[i - 1] \o seqs[i]
           T == {k \in 0 .. n : Solved(k)}
<1>1. n \in Nat
  OBVIOUS
<1>2. 0 \in T
  <2> DEFINE g == [i \in 1 .. n |-> seqs[i]]
  <2>1. g = [i \in 1 .. n |-> g[i]]
    OBVIOUS
  <2> QED BY <1>1, <2>1
<1>3. ASSUME NEW k \in 0 .. n, k < n, k \in T PROVE k + 1 \in T
  <2>1. PICK f : /\ f = [i \in 1 .. n |-> f[i]]
                 /\ \A i \in 1 .. k : f[i] = IF i = 1 THEN seqs[i] ELSE f[i - 1] \o seqs[i]
    BY <1>3
  <2> DEFINE g == [i \in 1 .. n |-> IF i = k + 1
                                    THEN IF i = 1 THEN seqs[i] ELSE f[i - 1] \o seqs[i]
                                    ELSE f[i]]
  <2>2. g = [i \in 1 .. n |-> g[i]]
    OBVIOUS
  <2>3. \A i \in 1 .. k : g[i] = f[i]
    BY <1>1, <1>3
  <2>4. g[k + 1] = IF k + 1 = 1 THEN seqs[k + 1] ELSE f[k + 1 - 1] \o seqs[k + 1]
    BY <1>1, <1>3
  <2> HIDE DEF g
  <2>5. ASSUME NEW i \in 1 .. k + 1
        PROVE  g[i] = IF i = 1 THEN seqs[i] ELSE g[i - 1] \o seqs[i]
    <3>1. CASE i = k + 1
      <4>1. i # 1 => i - 1 \in 1 .. k
        BY <1>1, <3>1
      <4> QED BY <1>1, <2>3, <2>4, <3>1, <4>1
    <3>2. CASE i # k + 1
      <4>1. i \in 1 .. k /\ (i # 1 => i - 1 \in 1 .. k)
        BY <1>1, <3>2
      <4> QED BY <2>1, <2>3, <4>1
    <3> QED BY <3>1, <3>2
  <2>6. Solved(k + 1)
    BY <2>2, <2>5
  <2> HIDE DEF Solved
  <2> QED BY <1>1, <1>3, <2>6
<1>4. n \in T
  <2> HIDE DEF T
  <2>1. \A k \in 0 .. n : k \in T
    BY <1>1, <1>2, <1>3, Upward
  <2> QED BY <1>1, <2>1
<1>5. PICK f : /\ f = [i \in 1 .. n |-> f[i]]
               /\ \A i \in 1 .. n : f[i] = IF i = 1 THEN seqs[i] ELSE f[i - 1] \o seqs[i]
  BY <1>4
<1>6. [i \in 1 .. n |-> f[i]]
        = [i \in 1 .. n |-> IF i = 1 THEN seqs[i] ELSE f[i - 1] \o seqs[i]]
  BY <1>5
<1>7. f = [i \in 1 .. n |-> IF i = 1 THEN seqs[i] ELSE f[i - 1] \o seqs[i]]
  BY <1>5, <1>6, Zenon
<1> QED BY <1>7, Zenon DEF Appends

\* Two sequences joined; a name for it keeps the equation away from provers
\* that would rewrite with it for ever.
Joins(p, q, r) == r = p \o q

LEMMA JoinsMeans ==
    ASSUME NEW S, NEW p \in Seq(S), NEW q \in Seq(S), NEW r, Joins(p, q, r)
    PROVE  /\ r \in Seq(S)
           /\ Len(r) = Len(p) + Len(q)
           /\ \A x \in 1 .. Len(p) : r[x] = p[x]
           /\ \A x \in 1 .. Len(q) : r[Len(p) + x] = q[x]
<1>1. r = p \o q
  BY DEF Joins
<1> QED BY <1>1

\* The sequences joined up to each of them.
LEMMA FlattenPrefixes ==
    ASSUME NEW S, NEW seqs \in Seq(Seq(S)), Len(seqs) > 0
    PROVE  \E f : /\ FlattenSeq(seqs) = f[Len(seqs)]
                  /\ f[1] = seqs[1]
                  /\ \A i \in 1 .. Len(seqs) : f[i] \in Seq(S)
                  /\ \A i \in 2 .. Len(seqs) : Joins(f[i - 1], seqs[i], f[i])
<1> DEFINE f == CHOOSE g : Appends(seqs, g)
           n == Len(seqs)
<1>1. n \in Nat /\ n > 0 /\ n # 0
  OBVIOUS
<1>2. Appends(seqs, f)
  BY AppendsExists
<1>3. FlattenSeq(seqs) = f[n]
  BY <1>1, FlattenSeqDef
<1> HIDE DEF f
<1>4. f[1] = seqs[1]
  <2>1. 1 \in 1 .. n
    BY <1>1
  <2> QED BY <1>2, <2>1, AppendsMeans, Zenon
<1>5. ASSUME NEW i \in 2 .. n PROVE Joins(f[i - 1], seqs[i], f[i])
  <2>1. i \in 1 .. n /\ i # 1
    BY <1>1
  <2> QED BY <1>2, <2>1, AppendsMeans, Zenon DEF Joins
<1> DEFINE T == {k \in 0 .. n : k > 0 => f[k] \in Seq(S)}
<1>6. 0 \in T
  BY <1>1
<1>7. ASSUME NEW k \in 0 .. n, k < n, k \in T PROVE k + 1 \in T
  <2>1. k + 1 \in 1 .. n /\ seqs[k + 1] \in Seq(S)
    BY <1>1, <1>7
  <2>2. CASE k = 0
    BY <1>1, <1>4, <2>1, <2>2
  <2>3. CASE k > 0
    <3>1. k + 1 \in 2 .. n /\ f[k + 1 - 1] \in Seq(S)
      BY <1>7, <2>1, <2>3
    <3>2. f[k + 1] \in Seq(S)
      BY <1>5, <2>1, <3>1, JoinsMeans
    <3> QED BY <2>1, <3>2
  <2> QED BY <1>1, <2>2, <2>3
<1>8. \A k \in 0 .. n : k \in T
  <2> HIDE DEF T
  <2> QED BY <1>1, <1>6, <1>7, Upward
<1>9. \A i \in 1 .. n : f[i] \in Seq(S)
  BY <1>1, <1>8
<1> QED BY <1>3, <1>4, <1>5, <1>9

\* Where each of the sequences stands in the whole: behind pos[i - 1].
Places(seqs, s, pos) ==
    /\ pos \in [0 .. Len(seqs) -> Nat]
    /\ pos[0] = 0 /\ pos[Len(seqs)] = Len(s)
    /\ \A i \in 1 .. Len(seqs) :
          /\ pos[i] = pos[i - 1] + Len(seqs[i])
          /\ pos[i] <= Len(s)
          /\ \A x \in 1 .. Len(seqs[i]) : s[pos[i - 1] + x] = seqs[i][x]

LEMMA FlattenPlaces ==
    ASSUME NEW S, NEW seqs \in Seq(Seq(S))
    PROVE  /\ FlattenSeq(seqs) \in Seq(S)
           /\ \E pos : Places(seqs, FlattenSeq(seqs), pos)
<1> DEFINE n == Len(seqs)
<1>1. n \in Nat
  OBVIOUS
<1>2. CASE n = 0
  <2>1. FlattenSeq(seqs) = <<>>
    BY <1>2 DEF FlattenSeq
  <2> DEFINE pos == [i \in 0 .. n |-> 0]
  <2>2. pos \in [0 .. n -> Nat] /\ pos[0] = 0 /\ pos[n] = 0
    BY <1>2
  <2>3. 1 .. n = {} /\ Len(<<>>) = 0 /\ <<>> \in Seq(S)
    BY <1>2
  <2> HIDE DEF pos
  <2>4. Places(seqs, <<>>, pos)
    BY <2>2, <2>3 DEF Places
  <2> QED BY <2>1, <2>3, <2>4
<1>3. CASE n > 0
  <2>1. PICK f : /\ FlattenSeq(seqs) = f[n] /\ f[1] = seqs[1]
                 /\ \A i \in 1 .. n : f[i] \in Seq(S)
                 /\ \A i \in 2 .. n : Joins(f[i - 1], seqs[i], f[i])
    <3>1. Len(seqs) > 0
      BY <1>3
    <3> QED BY <3>1, FlattenPrefixes, Zenon
  <2> DEFINE pos == [i \in 0 .. n |-> IF i = 0 THEN 0 ELSE Len(f[i])]
  <2>2. pos \in [0 .. n -> Nat]
    BY <1>1, <2>1
  <2>3. pos[0] = 0 /\ (\A i \in 1 .. n : pos[i] = Len(f[i]))
    BY <1>1
  <2> HIDE DEF pos
  <2>4. ASSUME NEW i \in 2 .. n
        PROVE  /\ i \in 1 .. n /\ i - 1 \in 1 .. n
               /\ pos[i] = pos[i - 1] + Len(seqs[i])
               /\ \A x \in 1 .. pos[i - 1] : f[i][x] = f[i - 1][x]
               /\ \A x \in 1 .. Len(seqs[i]) : f[i][pos[i - 1] + x] = seqs[i][x]
    <3>1. i \in 1 .. n /\ i - 1 \in 1 .. n
      BY <1>1
    <3>2. f[i - 1] \in Seq(S) /\ seqs[i] \in Seq(S)
      BY <2>1, <3>1
    <3>3. pos[i] = Len(f[i]) /\ pos[i - 1] = Len(f[i - 1])
      BY <2>3, <3>1
    <3>4. Joins(f[i - 1], seqs[i], f[i])
      BY <2>1
    <3> DEFINE p == f[i - 1]
               q == seqs[i]
               r == f[i]
    <3>5. p \in Seq(S) /\ q \in Seq(S) /\ Joins(p, q, r)
      BY <3>2, <3>4
    <3> HIDE DEF p, q, r
    <3>6. /\ Len(r) = Len(p) + Len(q)
          /\ \A x \in 1 .. Len(p) : r[x] = p[x]
          /\ \A x \in 1 .. Len(q) : r[Len(p) + x] = q[x]
      BY <3>5, JoinsMeans
    <3> QED BY <3>1, <3>3, <3>6, Zenon DEF p, q, r
  <2>5. ASSUME NEW i \in 1 .. n
        PROVE  /\ pos[i] = pos[i - 1] + Len(seqs[i])
               /\ \A x \in 1 .. Len(seqs[i]) : f[i][pos[i - 1] + x] = seqs[i][x]
    <3>1. CASE i = 1
      <4>1. seqs[1] \in Seq(S) /\ pos[1] = Len(seqs[1]) /\ pos[1 - 1] = 0 /\ f[1] = seqs[1]
        BY <2>1, <2>3, <3>1
      <4>2. \A x \in 1 .. Len(seqs[1]) : pos[1 - 1] + x = x
        BY <4>1
      <4> QED BY <3>1, <4>1, <4>2
    <3>2. CASE i # 1
      <4>1. i \in 2 .. n
        BY <1>1, <3>2
      <4> QED BY <2>4, <4>1
    <3> QED BY <3>1, <3>2
  <2>6. ASSUME NEW i \in 1 .. n
        PROVE  pos[i] <= pos[n] /\ \A x \in 1 .. pos[i] : f[n][x] = f[i][x]
    <3> DEFINE T == {k \in 0 .. n : k >= i => /\ pos[i] <= pos[k]
                                             /\ \A x \in 1 .. pos[i] : f[k][x] = f[i][x]}
    <3>1. 0 \in T
      BY <1>1
    <3>2. ASSUME NEW k \in 0 .. n, k < n, k \in T PROVE k + 1 \in T
      <4>1. k + 1 \in 1 .. n
        BY <1>1, <3>2
      <4>2. pos[i] \in Nat
        <5>1. i \in 0 .. n
          BY <1>1
        <5> QED BY <2>2, <5>1
      <4>3. CASE k + 1 < i
        BY <1>1, <4>1, <4>3
      <4>4. CASE k + 1 = i
        BY <4>1, <4>2, <4>4
      <4>5. CASE k >= i
        <5>1. k + 1 \in 2 .. n /\ (k + 1) - 1 = k
          BY <1>1, <4>1, <4>5
        <5>2. /\ pos[k + 1] = pos[k] + Len(seqs[k + 1])
              /\ \A x \in 1 .. pos[k] : f[k + 1][x] = f[k][x]
          BY <2>4, <5>1
        <5>3. pos[k] \in Nat /\ Len(seqs[k + 1]) \in Nat
          BY <1>1, <2>2, <4>1
        <5>4. pos[i] <= pos[k] /\ \A x \in 1 .. pos[i] : f[k][x] = f[i][x]
          BY <3>2, <4>5
        <5>5. pos[i] <= pos[k + 1]
          BY <4>2, <5>2, <5>3, <5>4
        <5>6. ASSUME NEW x \in 1 .. pos[i] PROVE f[k + 1][x] = f[i][x]
          <6>1. x \in 1 .. pos[k]
            BY <4>2, <5>3, <5>4
          <6> QED BY <5>2, <5>4, <6>1
        <5> QED BY <4>1, <5>5, <5>6
      <4> QED BY <1>1, <4>1, <4>3, <4>4, <4>5
    <3>3. \A k \in 0 .. n : k \in T
      <4> HIDE DEF T
      <4> QED BY <1>1, <3>1, <3>2, Upward
    <3>4. n \in T /\ n >= i
      BY <1>1, <3>3
    <3> QED BY <3>4
  <2>7. f[n] \in Seq(S) /\ pos[n] = Len(f[n])
    BY <1>1, <1>3, <2>1, <2>3
  <2>8. ASSUME NEW i \in 1 .. n, NEW x \in 1 .. Len(seqs[i])
        PROVE  f[n][pos[i - 1] + x] = seqs[i][x]
    <3>1. pos[i - 1] \in Nat /\ pos[i] \in Nat /\ Len(seqs[i]) \in Nat
      <4>1. i \in 0 .. n /\ i - 1 \in 0 .. n
        BY <1>1
      <4>2. Len(seqs[i]) \in Nat
        OBVIOUS
      <4> QED BY <2>2, <4>1, <4>2
    <3>2. pos[i - 1] + x \in 1 .. pos[i]
      BY <2>5, <3>1
    <3> QED BY <2>5, <2>6, <3>2
  <2>9. Places(seqs, f[n], pos)
    BY <2>2, <2>3, <2>5, <2>6, <2>7, <2>8 DEF Places
  <2> QED BY <2>1, <2>7, <2>9
<1> QED BY <1>1, <1>2, <1>3

LEMMA FlattenPairs ==
    ASSUME NEW S, NEW seqs \in Seq(Seq(S)), \A i \in 1 .. Len(seqs) : Len(seqs[i]) = 2
    PROVE  FlattenSeq(seqs) \in Seq(S) /\ Len(FlattenSeq(seqs)) = 2 * Len(seqs)
<1> DEFINE n == Len(seqs)
           s == FlattenSeq(seqs)
<1>1. n \in Nat /\ s \in Seq(S)
  BY FlattenPlaces
<1> HIDE DEF s
<1>2. PICK pos : Places(seqs, s, pos)
  BY FlattenPlaces DEF s
<1>3. /\ pos \in [0 .. n -> Nat] /\ pos[0] = 0 /\ pos[n] = Len(s)
      /\ \A i \in 1 .. n : pos[i] = pos[i - 1] + 2
  BY <1>2 DEF Places
<1> DEFINE T == {k \in 0 .. n : pos[k] = 2 * k}
<1>4. 0 \in T
  BY <1>1, <1>3
<1>5. ASSUME NEW k \in 0 .. n, k < n, k \in T PROVE k + 1 \in T
  <2>1. k + 1 \in 1 .. n /\ k + 1 \in 0 .. n /\ (k + 1) - 1 = k
    BY <1>1, <1>5
  <2>2. pos[k + 1] = pos[k] + 2
    BY <1>3, <2>1
  <2> QED BY <1>5, <2>1, <2>2
<1>6. \A k \in 0 .. n : k \in T
  <2> HIDE DEF T
  <2> QED BY <1>1, <1>4, <1>5, Upward
<1>7. pos[n] = 2 * n
  BY <1>1, <1>6
<1> QED BY <1>1, <1>3, <1>7 DEF s

-----------------------------------------------------------------------------
(* The reader *)

\* What ParseOptions makes of the bytes from i on, given what it makes of
\* those that follow.
Step(data, f, i) ==
    IF i > Len(data) THEN <<>>
    ELSE IF data[i] = OptPad THEN f[i + 1]
    ELSE IF data[i] = OptEnd THEN <<>>
    ELSE IF i + 1 > Len(data) \/ i + 1 + data[i + 1] > Len(data) THEN Nil
    ELSE LET rest == f[i + 2 + data[i + 1]] IN
         IF rest = Nil THEN Nil
         ELSE WithOption(rest, data[i], SubSeq(data, i + 2, i + 1 + data[i + 1]))

Reads(data, f) == f = [i \in Nat |-> Step(data, f, i)]

LEMMA ParseOptionsDef ==
    ASSUME NEW data
    PROVE  ParseOptions(data) = (CHOOSE f : Reads(data, f))[1]
  BY Zenon DEF ParseOptions, Reads, Step

LEMMA ReadsMeans ==
    ASSUME NEW data, NEW f, Reads(data, f), NEW i \in Nat
    PROVE  f[i] = Step(data, f, i)
  BY Zenon DEF Reads

\* A step looks at what follows only.
LEMMA StepLooksAhead ==
    ASSUME NEW data \in Seq(Bytes), NEW i \in Nat, NEW f, NEW g,
           \A k \in Nat : k > i => f[k] = g[k]
    PROVE  Step(data, f, i) = Step(data, g, i)
<1>1. Bytes \subseteq Nat
  BY WireAssumption DEF Bytes
<1>2. f[i + 1] = g[i + 1]
  OBVIOUS
<1>3. ASSUME i + 1 <= Len(data) PROVE f[i + 2 + data[i + 1]] = g[i + 2 + data[i + 1]]
  <2>1. data[i + 1] \in Nat
    <3>1. i + 1 \in 1 .. Len(data)
      BY <1>3
    <3>2. data[i + 1] \in Bytes
      BY <3>1, ElementOfSeq
    <3> QED BY <1>1, <3>2
  <2>2. i + 2 + data[i + 1] \in Nat /\ i + 2 + data[i + 1] > i
    BY <2>1
  <2> QED BY <2>2
<1>4. i + 1 > Len(data) \/ i + 1 <= Len(data)
  OBVIOUS
<1> QED BY <1>2, <1>3, <1>4, Zenon DEF Step

LEMMA ReaderExists ==
    ASSUME NEW data \in Seq(Bytes)
    PROVE  \E f : Reads(data, f)
<1> DEFINE n == Len(data) + 1
           Solved(j) == \E f : /\ f = [i \in Nat |-> f[i]]
                               /\ \A i \in Nat : i >= j => f[i] = Step(data, f, i)
           T == {j \in 0 .. n : Solved(j)}
<1>1. n \in Nat
  OBVIOUS
<1>2. n \in T
  <2> DEFINE g == [i \in Nat |-> <<>>]
  <2>1. g = [i \in Nat |-> g[i]]
    OBVIOUS
  <2>2. ASSUME NEW i \in Nat, i >= n PROVE g[i] = Step(data, g, i)
    <3>1. i > Len(data)
      BY <2>2
    <3> QED BY <3>1 DEF Step
  <2> HIDE DEF g
  <2>3. Solved(n)
    BY <2>1, <2>2
  <2> HIDE DEF Solved
  <2> QED BY <1>1, <2>3
<1>3. ASSUME NEW k \in 1 .. n, k \in T PROVE k - 1 \in T
  <2>1. PICK f : /\ f = [i \in Nat |-> f[i]]
                 /\ \A i \in Nat : i >= k => f[i] = Step(data, f, i)
    BY <1>3
  <2>2. k \in Nat /\ k - 1 \in Nat
    BY <1>1
  <2> DEFINE g == [i \in Nat |-> IF i = k - 1 THEN Step(data, f, i) ELSE f[i]]
  <2>3. g = [i \in Nat |-> g[i]]
    OBVIOUS
  <2>4. \A i \in Nat : i > k - 1 => g[i] = f[i]
    BY <2>2
  <2>5. g[k - 1] = Step(data, f, k - 1)
    BY <2>2
  <2> HIDE DEF g
  <2>6. ASSUME NEW i \in Nat, i >= k - 1 PROVE g[i] = Step(data, g, i)
    <3>1. \A j \in Nat : j > i => g[j] = f[j]
      BY <2>2, <2>4, <2>6
    <3>2. Step(data, g, i) = Step(data, f, i)
      BY <3>1, StepLooksAhead
    <3>3. CASE i = k - 1
      BY <2>5, <3>2, <3>3
    <3>4. CASE i # k - 1
      <4>1. i >= k /\ i > k - 1
        BY <2>2, <2>6, <3>4
      <4> QED BY <2>1, <2>4, <3>2, <4>1
    <3> QED BY <3>3, <3>4
  <2>7. Solved(k - 1)
    BY <2>3, <2>6
  <2> HIDE DEF Solved
  <2> QED BY <1>1, <2>7
<1>4. 0 \in T
  <2> HIDE DEF T
  <2>1. \A k \in 0 .. n : k \in T
    BY <1>1, <1>2, <1>3, Downward
  <2> QED BY <1>1, <2>1
<1>5. PICK f : /\ f = [i \in Nat |-> f[i]]
               /\ \A i \in Nat : i >= 0 => f[i] = Step(data, f, i)
  BY <1>4
<1>6. \A i \in Nat : f[i] = Step(data, f, i)
  BY <1>5
<1>7. [i \in Nat |-> f[i]] = [i \in Nat |-> Step(data, f, i)]
  BY <1>6
<1>8. f = [i \in Nat |-> Step(data, f, i)]
  BY <1>5, <1>7, Zenon
<1> QED BY <1>8, Zenon DEF Reads

LEMMA ReaderOf ==
    ASSUME NEW data \in Seq(Bytes)
    PROVE  \E f : /\ ParseOptions(data) = f[1]
                  /\ \A i \in Nat : f[i] = Step(data, f, i)
<1> DEFINE f == CHOOSE g : Reads(data, g)
<1>1. Reads(data, f)
  BY ReaderExists
<1>2. ParseOptions(data) = f[1]
  BY ParseOptionsDef
<1> HIDE DEF f
<1> QED BY <1>1, <1>2, ReadsMeans

-----------------------------------------------------------------------------
(* Fields *)

LEMMA ByteFacts ==
    /\ Bytes \subseteq Nat /\ \A n \in Nat : n < Base => n \in Bytes /\ n % Base = n
    /\ OptEnd \in Bytes /\ OptPad \in Bytes /\ OptEnd # OptPad
    /\ IsFiniteSet(Bytes)
<1>1. 0 \in Int /\ Base - 1 \in Int
  BY WireAssumption
<1>2. IsFiniteSet(Bytes)
  BY <1>1, FS_Interval DEF Bytes
<1> QED BY <1>2, WireAssumption DEF Bytes, OptEnd, OptPad

\* An order in which the options are written names each code once.
LEMMA OrderFacts ==
    ASSUME NEW o, WellFormed(o), NEW order \in SetToSeqs(DOMAIN o)
    PROVE  \E n \in Nat :
              /\ order \in [1 .. n -> DOMAIN o]
              /\ \A i, j \in 1 .. n : i # j => order[i] # order[j]
              /\ \A c \in DOMAIN o : \E i \in 1 .. n : order[i] = c
<1> DEFINE S == DOMAIN o
           n == Cardinality(S)
<1>1. IsFiniteSet(S)
  BY ByteFacts, FS_Subset DEF WellFormed
<1>2. n \in Nat
  BY <1>1, FS_CardinalityType
<1>3. /\ order \in [1 .. n -> S]
      /\ \A i, j \in 1 .. n : i # j => order[i] # order[j]
  BY DEF SetToSeqs
<1>4. order \in Injection(1 .. n, S)
  BY <1>3 DEF Injection, IsInjective
<1>5. Cardinality(1 .. n) = n
  BY <1>2, FS_Interval
<1>6. order \in Surjection(1 .. n, S)
  BY <1>1, <1>4, <1>5, FS_Injection
<1> QED BY <1>2, <1>3, <1>6 DEF Surjection

LEMMA FieldFacts ==
    ASSUME NEW o, WellFormed(o), NEW c \in DOMAIN o
    PROVE  /\ Field(o, c) \in Seq(Bytes)
           /\ o[c] \in Seq(Bytes) /\ Len(o[c]) \in Nat
           /\ Len(Field(o, c)) = 2 + Len(o[c])
           /\ Field(o, c)[1] = c /\ Field(o, c)[2] = Len(o[c])
           /\ \A x \in 1 .. Len(o[c]) : Field(o, c)[2 + x] = o[c][x]
<1>1. /\ c \in Bytes /\ o[c] \in Seq(Bytes) /\ Len(o[c]) \in Nat
      /\ Len(o[c]) \in Bytes /\ Len(o[c]) % Base = Len(o[c])
  BY ByteFacts DEF WellFormed
<1> DEFINE v == o[c]
           l == Len(o[c])
<1>2. <<c, l>> \in Seq(Bytes) /\ Len(<<c, l>>) = 2 /\ <<c, l>>[1] = c /\ <<c, l>>[2] = l
  BY <1>1
<1>3. Field(o, c) = <<c, l>> \o v
  BY <1>1 DEF Field
<1>4. v \in Seq(Bytes)
  BY <1>1
<1> HIDE DEF l, v
<1>5. Joins(<<c, l>>, v, Field(o, c))
  BY <1>3 DEF Joins
<1>6. /\ Field(o, c) \in Seq(Bytes)
      /\ Len(Field(o, c)) = 2 + Len(v)
      /\ \A x \in 1 .. 2 : Field(o, c)[x] = <<c, l>>[x]
      /\ \A x \in 1 .. Len(v) : Field(o, c)[2 + x] = v[x]
  <2> DEFINE p == <<c, l>>
             r == Field(o, c)
  <2>1. p \in Seq(Bytes) /\ Joins(p, v, r)
    BY <1>2, <1>5
  <2>9. Len(p) = 2
    BY <1>2
  <2> HIDE DEF p, r
  <2>2. /\ r \in Seq(Bytes)
        /\ Len(r) = Len(p) + Len(v)
        /\ \A x \in 1 .. Len(p) : r[x] = p[x]
        /\ \A x \in 1 .. Len(v) : r[Len(p) + x] = v[x]
    BY <1>4, <2>1, JoinsMeans
  <2>3. /\ Len(r) = 2 + Len(v)
        /\ \A x \in 1 .. 2 : r[x] = p[x]
        /\ \A x \in 1 .. Len(v) : r[2 + x] = v[x]
    BY <2>9, <2>2, Zenon
  <2> QED BY <2>2, <2>3, Zenon DEF p, r
<1>7. Field(o, c)[1] = c /\ Field(o, c)[2] = l
  BY <1>2, <1>6
<1> QED BY <1>1, <1>6, <1>7 DEF l, v

\* A field on the wire behind byte p.
FieldAt(bytes, p, c, v) ==
    /\ bytes[p + 1] = c /\ bytes[p + 2] = Len(v)
    /\ \A x \in 1 .. Len(v) : bytes[p + 2 + x] = v[x]

\* What is on the wire: the fields at their places, and End behind them.
Written(o, order, n, bytes, pos) ==
    /\ bytes \in Seq(Bytes)
    /\ pos \in [0 .. n -> Nat] /\ pos[0] = 0 /\ Len(bytes) = pos[n] + 1
    /\ bytes[pos[n] + 1] = OptEnd
    /\ \A k \in 1 .. n :
          /\ pos[k] = pos[k - 1] + 2 + Len(o[order[k]]) /\ pos[k] <= pos[n]
          /\ FieldAt(bytes, pos[k - 1], order[k], o[order[k]])

LEMMA SerializeWrites ==
    ASSUME NEW o, WellFormed(o), NEW n \in Nat, NEW order \in [1 .. n -> DOMAIN o],
           NEW bytes,
           Joins(FlattenSeq([i \in DOMAIN order |-> Field(o, order[i])]), <<OptEnd>>, bytes)
    PROVE  \E pos : Written(o, order, n, bytes, pos)
<1> DEFINE seqs == [i \in 1 .. n |-> Field(o, order[i])]
           s == FlattenSeq(seqs)
           e == <<OptEnd>>
<1>1. seqs \in Seq(Seq(Bytes)) /\ Len(seqs) = n
  <2>1. \A i \in 1 .. n : seqs[i] \in Seq(Bytes)
    BY FieldFacts
  <2>2. seqs \in [1 .. n -> Seq(Bytes)]
    BY <2>1
  <2> HIDE DEF seqs
  <2> QED BY <2>2
<1>2. Joins(s, e, bytes)
  OBVIOUS
<1>3. \A i \in 1 .. n : seqs[i] = Field(o, order[i])
  OBVIOUS
<1> HIDE DEF seqs
<1>4. s \in Seq(Bytes) /\ \E pos : Places(seqs, s, pos)
  BY <1>1, FlattenPlaces
<1>5. e \in Seq(Bytes)
  BY ByteFacts
<1>6. Len(e) = 1 /\ e[1] = OptEnd
  OBVIOUS
<1> HIDE DEF s, e
<1>7. s \in Seq(Bytes)
  BY <1>4
<1>8. PICK pos : Places(seqs, s, pos)
  BY <1>4
<1>9. /\ pos \in [0 .. n -> Nat] /\ pos[0] = 0 /\ pos[n] = Len(s)
      /\ \A k \in 1 .. n :
            /\ pos[k] = pos[k - 1] + Len(seqs[k])
            /\ pos[k] <= Len(s)
            /\ \A x \in 1 .. Len(seqs[k]) : s[pos[k - 1] + x] = seqs[k][x]
  BY <1>1, <1>8 DEF Places
<1>10. /\ bytes \in Seq(Bytes) /\ Len(bytes) = Len(s) + 1
       /\ \A x \in 1 .. Len(s) : bytes[x] = s[x]
       /\ bytes[Len(s) + 1] = OptEnd
  <2>1. /\ bytes \in Seq(Bytes) /\ Len(bytes) = Len(s) + Len(e)
        /\ \A x \in 1 .. Len(s) : bytes[x] = s[x]
        /\ \A x \in 1 .. Len(e) : bytes[Len(s) + x] = e[x]
    BY <1>2, <1>5, <1>7, JoinsMeans
  <2>2. 1 \in 1 .. Len(e)
    BY <1>6
  <2> QED BY <1>6, <2>1, <2>2
<1>11. ASSUME NEW k \in 1 .. n
       PROVE  /\ pos[k] = pos[k - 1] + 2 + Len(o[order[k]]) /\ pos[k] <= pos[n]
              /\ FieldAt(bytes, pos[k - 1], order[k], o[order[k]])
  <2> DEFINE c == order[k]
             p == pos[k - 1]
             l == Len(o[c])
  <2>1. c \in DOMAIN o
    OBVIOUS
  <2>2. /\ seqs[k] \in Seq(Bytes) /\ Len(seqs[k]) = 2 + l /\ l \in Nat
        /\ seqs[k][1] = c /\ seqs[k][2] = l
        /\ \A x \in 1 .. l : seqs[k][2 + x] = o[c][x]
    <3>1. seqs[k] = Field(o, c)
      BY <1>3
    <3> HIDE DEF c
    <3>2. /\ Field(o, c) \in Seq(Bytes) /\ Len(Field(o, c)) = 2 + l /\ l \in Nat
          /\ Field(o, c)[1] = c /\ Field(o, c)[2] = l
          /\ \A x \in 1 .. l : Field(o, c)[2 + x] = o[c][x]
      BY <2>1, FieldFacts
    <3> QED BY <3>1, <3>2, Zenon
  <2>3. k \in 0 .. n /\ k - 1 \in 0 .. n
    OBVIOUS
  <2>4. p \in Nat /\ pos[k] = p + (2 + l) /\ pos[k] <= Len(s) /\ Len(s) \in Nat
    BY <1>7, <1>9, <2>2, <2>3
  <2>5. \A x \in 1 .. 2 + l : s[p + x] = seqs[k][x]
    BY <1>9, <2>2
  <2> HIDE DEF p, l, c
  <2>6. \A x \in 1 .. 2 + l : bytes[p + x] = seqs[k][x]
    <3> SUFFICES ASSUME NEW x \in 1 .. 2 + l PROVE bytes[p + x] = seqs[k][x]
      OBVIOUS
    <3>1. p + x \in 1 .. Len(s)
      BY <2>2, <2>4
    <3> QED BY <1>10, <2>5, <3>1
  <2>7. bytes[p + 1] = c /\ bytes[p + 2] = l
    <3>1. 1 \in 1 .. 2 + l /\ 2 \in 1 .. 2 + l
      BY <2>2
    <3> QED BY <2>2, <2>6, <3>1
  <2>8. ASSUME NEW x \in 1 .. l PROVE bytes[p + 2 + x] = o[c][x]
    <3>1. 2 + x \in 1 .. 2 + l /\ p + (2 + x) = p + 2 + x
      BY <2>2, <2>4
    <3> QED BY <2>2, <2>6, <3>1
  <2>9. pos[k] = p + 2 + l /\ pos[k] <= pos[n]
    BY <1>9, <2>2, <2>4
  <2> QED BY <2>7, <2>8, <2>9, Zenon DEF p, l, c, FieldAt
<1>12. Len(bytes) = pos[n] + 1 /\ bytes[pos[n] + 1] = OptEnd
  <2>1. pos[n] = Len(s)
    BY <1>9
  <2> QED BY <1>10, <2>1
<1>13. Written(o, order, n, bytes, pos)
  BY <1>9, <1>10, <1>11, <1>12, Zenon DEF Written
<1> QED BY <1>13

-----------------------------------------------------------------------------
(* Reading back what was written *)

\* The options at and behind place k of the order.
Suffix(o, order, n, k) == [c \in {order[j] : j \in k .. n} |-> o[c]]

LEMMA SuffixNotNil ==
    ASSUME NEW o, WellFormed(o), NEW n \in Nat, NEW order \in [1 .. n -> DOMAIN o],
           NEW k \in 1 .. n + 1
    PROVE  Suffix(o, order, n, k) # Nil
<1> DEFINE S == {order[j] : j \in k .. n}
<1>1. S \subseteq DOMAIN o
  OBVIOUS
<1>2. S \in SUBSET Bytes /\ \A c \in S : o[c] \in Seq(Bytes)
  BY <1>1 DEF WellFormed
<1>3. Suffix(o, order, n, k) \in [S -> Seq(Bytes)]
  BY <1>2 DEF Suffix
<1> HIDE DEF S
<1> QED BY <1>2, <1>3, WireAssumption

LEMMA ReadsBack ==
    ASSUME NEW o, WellFormed(o), NEW n \in Nat, NEW order \in [1 .. n -> DOMAIN o],
           \A i, j \in 1 .. n : i # j => order[i] # order[j],
           NEW bytes, NEW pos, Written(o, order, n, bytes, pos),
           NEW f, \A i \in Nat : f[i] = Step(bytes, f, i)
    PROVE  \A k \in 0 .. n : f[pos[k] + 1] = Suffix(o, order, n, k + 1)
<1> DEFINE T == {k \in 0 .. n : f[pos[k] + 1] = Suffix(o, order, n, k + 1)}
<1>1. /\ bytes \in Seq(Bytes) /\ pos \in [0 .. n -> Nat]
      /\ Len(bytes) = pos[n] + 1 /\ bytes[pos[n] + 1] = OptEnd
  BY DEF Written
<1>2. n \in T
  <2>1. pos[n] + 1 \in Nat /\ ~(pos[n] + 1 > Len(bytes))
    BY <1>1
  <2>2. Step(bytes, f, pos[n] + 1) = <<>>
    BY <1>1, <2>1, ByteFacts, Zenon DEF Step
  <2>3. f[pos[n] + 1] = <<>>
    BY <2>1, <2>2
  <2>4. {order[j] : j \in n + 1 .. n} = {}
    OBVIOUS
  <2>5. Suffix(o, order, n, n + 1) = <<>>
    BY <2>4 DEF Suffix
  <2> QED BY <2>3, <2>5
<1>3. ASSUME NEW k \in 1 .. n, k \in T PROVE k - 1 \in T
  <2> DEFINE c == order[k]
             v == o[c]
             l == Len(v)
             p == pos[k - 1]
             rest == Suffix(o, order, n, k + 1)
  <2>1. /\ k - 1 \in 0 .. n /\ k \in 0 .. n /\ k - 1 + 1 = k /\ k \in 1 .. n + 1
        /\ k + 1 \in 1 .. n + 1
    OBVIOUS
  <2>2. /\ c \in DOMAIN o /\ c \in Bytes /\ c # OptPad /\ c # OptEnd
        /\ v \in Seq(Bytes) /\ l \in Nat
    BY DEF WellFormed
  <2>3. /\ p \in Nat /\ pos[k] = p + 2 + l /\ pos[k] <= pos[n] /\ pos[n] \in Nat
        /\ FieldAt(bytes, p, c, v)
    BY <1>1, <2>1 DEF Written
  <2>4. f[pos[k] + 1] = rest
    BY <1>3
  <2>5. rest # Nil
    BY <2>1, SuffixNotNil
  <2>6. Suffix(o, order, n, k) = WithOption(rest, c, v)
    <3>1. k .. n = {k} \cup (k + 1 .. n)
      OBVIOUS
    <3>2. {order[j] : j \in k .. n} = {order[j] : j \in k + 1 .. n} \cup {c}
      BY <3>1
    <3> QED BY <3>2 DEF Suffix, WithOption
  <2> HIDE DEF c, v, l, p, rest
  <2>7. bytes[p + 1] = c /\ bytes[p + 2] = l /\ \A x \in 1 .. l : bytes[p + 2 + x] = v[x]
    BY <2>3, Zenon DEF FieldAt, l
  <2>8. SubSeq(bytes, p + 3, p + 2 + l) = v
    <3> DEFINE a == p + 3
               b == p + 2 + l
               w == SubSeq(bytes, a, b)
    <3>1. /\ a \in Int /\ b \in Int /\ b - a + 1 = l /\ (a <= b \/ l = 0) /\ (a <= b => l # 0)
          /\ a > 0 /\ b <= Len(bytes)
          /\ \A x \in 1 .. l : a + x - 1 = p + 2 + x
      BY <1>1, <2>2, <2>3
    <3>2. \A i \in a .. b : bytes[i] \in Bytes
      <4> HIDE DEF a, b
      <4> QED BY <1>1, <3>1, ElementOfSeq
    <3> HIDE DEF a, b
    <3>3. /\ w \in Seq(Bytes)
          /\ Len(w) = (IF a <= b THEN b - a + 1 ELSE 0)
          /\ \A x \in 1 .. b - a + 1 : w[x] = bytes[a + x - 1]
      BY <3>1, <3>2, SubSeqProperties
    <3> HIDE DEF w
    <3>4. Len(w) = l
      BY <3>1, <3>3
    <3>5. \A x \in 1 .. l : w[x] = v[x]
      BY <2>7, <3>1, <3>3, Zenon
    <3>6. w = v
      BY <2>2, <3>3, <3>4, <3>5, SeqEqual DEF l
    <3> QED BY <3>6 DEF w, a, b
  <2>9. /\ p + 1 \in Nat /\ ~(p + 1 > Len(bytes)) /\ ~(p + 1 + 1 > Len(bytes))
        /\ ~(p + 1 + 1 + l > Len(bytes))
        /\ p + 1 + 1 = p + 2 /\ p + 1 + 2 + l = pos[k] + 1
        /\ p + 1 + 2 = p + 3 /\ p + 1 + 1 + l = p + 2 + l
    BY <1>1, <2>2, <2>3
  <2>10. Step(bytes, f, p + 1) = WithOption(rest, c, v)
    BY <2>2, <2>4, <2>5, <2>7, <2>8, <2>9, Zenon DEF Step
  <2>11. f[p + 1] = WithOption(rest, c, v)
    BY <2>9, <2>10
  <2> QED BY <2>1, <2>6, <2>11 DEF p
<1> HIDE DEF T
<1>4. \A k \in 0 .. n : k \in T
  BY <1>2, <1>3, Downward
<1> QED BY <1>4 DEF T

\* Options of any content and length that fits a byte are read from the wire as
\* they were written, in whichever order the map was walked (Options.Serialize,
\* ParseOptions): no value is taken for a code, and none is lost.
THEOREM RoundTrip ==
    ASSUME NEW o, WellFormed(o), NEW bytes \in Serialize(o)
    PROVE  ParseOptions(bytes) = o
<1>1. PICK order \in SetToSeqs(DOMAIN o) :
         bytes = FlattenSeq([i \in DOMAIN order |-> Field(o, order[i])]) \o <<OptEnd>>
  BY DEF Serialize
<1>2. Joins(FlattenSeq([i \in DOMAIN order |-> Field(o, order[i])]), <<OptEnd>>, bytes)
  BY <1>1, Zenon DEF Joins
<1>3. PICK n \in Nat : /\ order \in [1 .. n -> DOMAIN o]
                       /\ \A i, j \in 1 .. n : i # j => order[i] # order[j]
                       /\ \A c \in DOMAIN o : \E i \in 1 .. n : order[i] = c
  BY OrderFacts
<1>4. PICK pos : Written(o, order, n, bytes, pos)
  BY <1>2, <1>3, SerializeWrites
<1>5. bytes \in Seq(Bytes) /\ pos[0] = 0
  BY <1>4 DEF Written
<1>6. PICK f : /\ ParseOptions(bytes) = f[1]
               /\ \A i \in Nat : f[i] = Step(bytes, f, i)
  BY <1>5, ReaderOf
<1>7. f[pos[0] + 1] = Suffix(o, order, n, 0 + 1)
  <2>1. 0 \in 0 .. n
    OBVIOUS
  <2> QED BY <1>3, <1>4, <1>6, <2>1, ReadsBack
<1>8. f[1] = Suffix(o, order, n, 1)
  BY <1>5, <1>7
<1>9. {order[j] : j \in 1 .. n} = DOMAIN o
  <2>1. \A j \in 1 .. n : order[j] \in DOMAIN o
    BY <1>3
  <2>2. \A c \in DOMAIN o : \E j \in 1 .. n : c = order[j]
    BY <1>3, Zenon
  <2> QED BY <2>1, <2>2, Zenon
<1>10. Suffix(o, order, n, 1) = o
  <2>1. o = [c \in DOMAIN o |-> o[c]]
    BY DEF WellFormed
  <2> QED BY <1>9, <2>1, Zenon DEF Suffix
<1> QED BY <1>6, <1>8, <1>10

\* There is always something to send.
THEOREM SerializeSome ==
    ASSUME NEW o, WellFormed(o)
    PROVE  Serialize(o) # {}
<1>1. IsFiniteSet(DOMAIN o)
  BY ByteFacts, FS_Subset DEF WellFormed
<1>2. PICK order : order \in Bijection(1 .. Cardinality(DOMAIN o), DOMAIN o)
  BY <1>1, FS_CardinalityType DEF ExistsBijection
<1>3. order \in SetToSeqs(DOMAIN o)
  BY <1>2 DEF SetToSeqs, Bijection, Injection, IsInjective
<1> QED BY <1>3 DEF Serialize

-----------------------------------------------------------------------------
(* Reading anything else *)

Readable(r) == r = Nil \/ WellFormed(r)

LEMMA WithOptionWellFormed ==
    ASSUME NEW o, WellFormed(o), NEW c \in Bytes \ {OptPad, OptEnd},
           NEW v \in Seq(Bytes), Len(v) < Base
    PROVE  WellFormed(WithOption(o, c, v))
<1> DEFINE r == WithOption(o, c, v)
<1>1. /\ DOMAIN o \subseteq Bytes \ {OptPad, OptEnd}
      /\ \A k \in DOMAIN o : o[k] \in Seq(Bytes) /\ Len(o[k]) < Base
  BY DEF WellFormed
<1>2. /\ r = [k \in DOMAIN o \cup {c} |-> IF k \in DOMAIN o THEN o[k] ELSE v]
      /\ DOMAIN r = DOMAIN o \cup {c}
  BY DEF WithOption
<1>3. \A k \in DOMAIN r : r[k] \in Seq(Bytes) /\ Len(r[k]) < Base
  BY <1>1, <1>2
<1>4. r \in [DOMAIN r -> Seq(Bytes)]
  BY <1>1, <1>2
<1> QED BY <1>1, <1>2, <1>3, <1>4 DEF WellFormed

LEMMA StepReadable ==
    ASSUME NEW data \in Seq(Bytes), NEW i \in Nat, i > 0, NEW f,
           \A k \in Nat : k > i => Readable(f[k])
    PROVE  Readable(Step(data, f, i))
<1>1. Readable(<<>>)
  <2>1. DOMAIN <<>> = {} /\ <<>> \in [{} -> Seq(Bytes)]
    OBVIOUS
  <2> QED BY <2>1 DEF Readable, WellFormed
<1>2. Readable(Nil)
  BY DEF Readable
<1>3. Readable(f[i + 1])
  OBVIOUS
<1>4. ASSUME i + 1 <= Len(data), i + 1 + data[i + 1] <= Len(data),
             data[i] # OptPad, data[i] # OptEnd, f[i + 2 + data[i + 1]] # Nil
      PROVE  Readable(WithOption(f[i + 2 + data[i + 1]], data[i],
                                 SubSeq(data, i + 2, i + 1 + data[i + 1])))
  <2>1. i \in 1 .. Len(data) /\ i + 1 \in 1 .. Len(data)
    BY <1>4
  <2>2. data[i] \in Bytes /\ data[i + 1] \in Bytes
    BY <2>1, ElementOfSeq
  <2> DEFINE l == data[i + 1]
             a == i + 2
             b == i + 1 + l
             v == SubSeq(data, a, b)
             rest == f[i + 2 + l]
  <2>3. l \in Nat /\ l < Base
    BY <2>2, WireAssumption DEF Bytes
  <2>4. /\ a \in Int /\ b \in Int /\ b - a + 1 = l /\ (a > b => l = 0)
        /\ a > 0 /\ b <= Len(data)
        /\ i + 2 + l \in Nat /\ i + 2 + l > i
    BY <1>4, <2>3
  <2>5. Readable(rest) /\ rest # Nil
    BY <1>4, <2>4
  <2> HIDE DEF l, a, b, rest
  <2>6. \A k \in a .. b : data[k] \in Bytes
    BY <2>4, ElementOfSeq
  <2>7. /\ v \in Seq(Bytes)
        /\ Len(v) = (IF a <= b THEN b - a + 1 ELSE 0)
    BY <2>4, <2>6, SubSeqProperties
  <2>8. Len(v) < Base
    BY <2>3, <2>4, <2>7, WireAssumption
  <2>9. WellFormed(WithOption(rest, data[i], v))
    BY <1>4, <2>2, <2>5, <2>7, <2>8, WithOptionWellFormed DEF Readable
  <2> QED BY <2>9, Zenon DEF Readable, rest, v, a, b, l
<1>5. /\ ~(i > Len(data)) /\ ~(i + 1 > Len(data) \/ i + 1 + data[i + 1] > Len(data))
         => i + 1 <= Len(data) /\ i + 1 + data[i + 1] <= Len(data)
  <2> SUFFICES ASSUME i + 1 <= Len(data), ~(i + 1 + data[i + 1] > Len(data))
               PROVE  i + 1 + data[i + 1] <= Len(data)
    OBVIOUS
  <2>1. i + 1 \in 1 .. Len(data)
    OBVIOUS
  <2>2. data[i + 1] \in Nat
    BY <2>1, ElementOfSeq, ByteFacts
  <2> QED BY <2>2
<1> QED BY <1>1, <1>2, <1>3, <1>4, <1>5, Zenon DEF Step

\* Any bytes are either refused or read as options that can be written again:
\* the reader leaves nothing half read behind a length that is too large
\* (ParseOptions).
THEOREM ParsesOrRefuses ==
    ASSUME NEW data \in Seq(Bytes)
    PROVE  ParseOptions(data) = Nil \/ WellFormed(ParseOptions(data))
<1>1. PICK f : /\ ParseOptions(data) = f[1]
               /\ \A i \in Nat : f[i] = Step(data, f, i)
  BY ReaderOf
<1> DEFINE n == Len(data) + 1
           T == {j \in 0 .. n : \A i \in Nat : i > 0 /\ i >= j => Readable(f[i])}
<1>2. n \in Nat /\ n >= 1
  OBVIOUS
<1>3. n \in T
  <2>1. ASSUME NEW i \in Nat, i >= n PROVE Readable(f[i])
    <3>1. i > Len(data)
      BY <2>1
    <3>2. f[i] = <<>>
      <4>1. Step(data, f, i) = <<>>
        BY <3>1, Zenon DEF Step
      <4> QED BY <1>1, <4>1, Zenon
    <3>3. DOMAIN <<>> = {} /\ <<>> \in [{} -> Seq(Bytes)]
      OBVIOUS
    <3>4. Readable(<<>>)
      BY <3>3 DEF Readable, WellFormed
    <3> QED BY <3>2, <3>4
  <2> QED BY <1>2, <2>1
<1>4. ASSUME NEW k \in 1 .. n, k \in T PROVE k - 1 \in T
  <2>1. ASSUME NEW i \in Nat, i > 0, i >= k - 1 PROVE Readable(f[i])
    <3>1. CASE i >= k
      BY <1>4, <2>1, <3>1
    <3>2. CASE i = k - 1
      <4>1. \A j \in Nat : j > i => Readable(f[j])
        BY <1>2, <1>4, <3>2
      <4>2. Readable(Step(data, f, i))
        BY <2>1, <4>1, StepReadable
      <4> QED BY <1>1, <4>2, Zenon
    <3> QED BY <1>2, <2>1, <3>1, <3>2
  <2>2. k - 1 \in 0 .. n
    BY <1>2
  <2> QED BY <2>1, <2>2
<1> HIDE DEF T
<1>5. \A k \in 0 .. n : k \in T
  BY <1>2, <1>3, <1>4, Downward
<1>6. Readable(f[1])
  BY <1>2, <1>5 DEF T
<1> QED BY <1>1, <1>6 DEF Readable

=============================================================================
