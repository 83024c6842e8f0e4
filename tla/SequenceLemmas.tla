--------------------------- MODULE SequenceLemmas ---------------------------
(* Induction over the natural numbers in a form the provers can use, and what *)
(* FlattenSeq makes of a sequence of sequences.                               *)
EXTENDS Integers, Sequences, SequencesExt, SequenceTheorems, WellFoundedInduction, TLAPS

(***************************************************************************)
(* Induction.                                                              *)
(***************************************************************************)

\* The natural numbers are in every set that holds 0 and with n also n + 1.
LEMMA NatSet ==
  ASSUME NEW S, 0 \in S, \A n \in Nat : n \in S => n + 1 \in S
  PROVE  Nat \subseteq S
<1> SUFFICES ASSUME Nat \ S # {} PROVE FALSE
  OBVIOUS
<1>1. \E x \in Nat \ S : \A y \in Nat \ S : ~ (<<y, x>> \in OpToRel(<, Nat))
  BY NatLessThanWellFounded, WFMin, Zenon
<1>2. PICK x \in Nat \ S : \A y \in Nat \ S : ~(y < x)
  BY <1>1 DEF OpToRel
<1>3. x # 0 /\ x - 1 \in Nat /\ x - 1 < x /\ (x - 1) + 1 = x
  BY <1>2
<1>4. x - 1 \in S
  BY <1>2, <1>3
<1> QED
  BY <1>2, <1>3, <1>4

(***************************************************************************)
(* Sequences that are joined.                                              *)
(***************************************************************************)

\* f is what FlattenSeq builds of the first n sequences.
FlattenedTo(f, seqs, n) ==
  f = [i \in 1 .. n |-> IF i = 1 THEN seqs[i] ELSE f[i - 1] \o seqs[i]]

\* There is such a function.
LEMMA FlattenExists ==
  ASSUME NEW seqs
  PROVE  \A n \in Nat : \E f : FlattenedTo(f, seqs, n)
<1> DEFINE S == {n \in Nat : \E f : FlattenedTo(f, seqs, n)}
<1>1. 0 \in S
  <2> DEFINE f == [i \in 1 .. 0 |-> seqs[i]]
  <2>1. f = [i \in 1 .. 0 |-> IF i = 1 THEN seqs[i] ELSE f[i - 1] \o seqs[i]]
    OBVIOUS
  <2> HIDE DEF f
  <2>2. FlattenedTo(f, seqs, 0)
    BY <2>1 DEF FlattenedTo
  <2> QED
    BY <2>2
<1>2. ASSUME NEW n \in Nat, n \in S PROVE n + 1 \in S
  <2>1. PICK f : FlattenedTo(f, seqs, n)
    BY <1>2
  <2> DEFINE j(i) == IF i = 1 THEN seqs[i] ELSE f[i - 1] \o seqs[i]
             h(i) == IF i = n + 1 THEN j(i) ELSE f[i]
             g == [i \in 1 .. n + 1 |-> h(i)]
  <2>2. \A i \in 1 .. n : g[i] = f[i]
    OBVIOUS
  <2>3. f = [i \in 1 .. n |-> j(i)]
    BY <2>1 DEF FlattenedTo
  <2> HIDE DEF j
  <2>4. \A i \in 1 .. n : f[i] = j(i)
    BY <2>3
  <2>5. g[n + 1] = j(n + 1)
    OBVIOUS
  <2>6. g = [i \in 1 .. n + 1 |-> g[i]]
    OBVIOUS
  <2> HIDE DEF g, h
  <2>7. \A i \in 1 .. n + 1 : g[i] = j(i)
    <3> TAKE i \in 1 .. n + 1
    <3>1. CASE i = n + 1
      BY <2>5, <3>1
    <3>2. CASE i \in 1 .. n
      BY <2>2, <2>4, <3>2
    <3> QED
      BY <3>1, <3>2
  <2>8. \A i \in 1 .. n + 1 : j(i) = IF i = 1 THEN seqs[i] ELSE g[i - 1] \o seqs[i]
    <3> TAKE i \in 1 .. n + 1
    <3>1. CASE i = 1
      BY <3>1 DEF j
    <3>2. CASE i # 1
      <4>1. i - 1 \in 1 .. n
        BY <3>2
      <4>2. g[i - 1] = f[i - 1]
        BY <2>2, <4>1
      <4>3. j(i) = f[i - 1] \o seqs[i]
        BY <3>2 DEF j
      <4> QED
        BY <3>2, <4>2, <4>3
    <3> QED
      BY <3>1, <3>2
  <2>9. g = [i \in 1 .. n + 1 |-> IF i = 1 THEN seqs[i] ELSE g[i - 1] \o seqs[i]]
    BY <2>6, <2>7, <2>8, Zenon
  <2>10. FlattenedTo(g, seqs, n + 1)
    BY <2>9 DEF FlattenedTo
  <2> QED
    BY <2>10
<1> HIDE DEF S
<1>3. Nat \subseteq S
  BY <1>1, <1>2, NatSet
<1> QED
  BY <1>3 DEF S

\* g joins the sequences one after the other.
Joins(g, seqs) ==
  g[0] = << >> /\ \A i \in 1 .. Len(seqs) : g[i] = g[i - 1] \o seqs[i]

\* FlattenSeq joins.
LEMMA FlattenIs ==
  ASSUME NEW S, NEW seqs \in Seq(Seq(S))
  PROVE  \E g : Joins(g, seqs) /\ FlattenSeq(seqs) = g[Len(seqs)]
<1> DEFINE n == Len(seqs)
<1>0. n \in Nat /\ \A i \in 1 .. n : seqs[i] \in Seq(S)
  OBVIOUS
<1>1. CASE n = 0
  <2> DEFINE g == [i \in {0} |-> << >>]
  <2>1. seqs = << >>
    BY <1>1
  <2>2. FlattenSeq(seqs) = << >>
    BY <1>1, <2>1, Zenon DEF FlattenSeq
  <2>3. Joins(g, seqs) /\ g[n] = << >>
    BY <1>1 DEF Joins
  <2> QED
    BY <2>2, <2>3
<1>2. CASE n # 0
  <2>1. \E f : FlattenedTo(f, seqs, n)
    BY <1>0, FlattenExists
  <2> DEFINE f == CHOOSE f : FlattenedTo(f, seqs, n)
  <2>2. FlattenedTo(f, seqs, n)
    BY <2>1
  <2>3. FlattenSeq(seqs) = f[n]
    BY <1>2, Zenon DEF FlattenSeq, FlattenedTo
  <2> HIDE DEF f
  <2> DEFINE j(i) == IF i = 1 THEN seqs[i] ELSE f[i - 1] \o seqs[i]
  <2>4. f = [i \in 1 .. n |-> j(i)]
    BY <2>2 DEF FlattenedTo
  <2> HIDE DEF j
  <2>5. \A i \in 1 .. n : f[i] = j(i)
    BY <2>4
  <2> DEFINE g == [i \in 0 .. n |-> IF i = 0 THEN << >> ELSE f[i]]
  <2>6. g[0] = << >> /\ \A i \in 1 .. n : g[i] = f[i]
    BY <1>0
  <2> HIDE DEF g
  <2>7. ASSUME NEW i \in 1 .. n PROVE g[i] = g[i - 1] \o seqs[i]
    <3>1. CASE i = 1
      <4>1. g[1] = seqs[1] /\ g[1 - 1] = << >>
        BY <1>0, <2>5, <2>6, <3>1 DEF j
      <4>2. << >> \o seqs[1] = seqs[1]
        BY <1>0, <1>2, ConcatEmptySeq
      <4> QED
        BY <3>1, <4>1, <4>2
    <3>2. CASE i # 1
      <4>1. i - 1 \in 1 .. n
        BY <3>2
      <4>2. g[i] = j(i) /\ g[i - 1] = f[i - 1]
        BY <2>5, <2>6, <4>1
      <4>3. j(i) = f[i - 1] \o seqs[i]
        BY <3>2 DEF j
      <4> QED
        BY <4>2, <4>3
    <3> QED
      BY <3>1, <3>2
  <2>8. Joins(g, seqs)
    BY <2>6, <2>7 DEF Joins
  <2>9. FlattenSeq(seqs) = g[n]
    BY <1>0, <1>2, <2>3, <2>6
  <2> QED
    BY <2>8, <2>9
<1> QED
  BY <1>1, <1>2

\* What g has joined up to each place, and where its parts are.
Parts(g, seqs, S) ==
  /\ g[0] = << >>
  /\ \A i \in 0 .. Len(seqs) : g[i] \in Seq(S)
  /\ \A i \in 1 .. Len(seqs) :
       /\ Len(g[i]) = Len(g[i - 1]) + Len(seqs[i])
       /\ \A p \in 1 .. Len(g[i - 1]) : g[i][p] = g[i - 1][p]
       /\ \A p \in 1 .. Len(seqs[i]) : g[i][Len(g[i - 1]) + p] = seqs[i][p]

\* Joined sequences have their parts in place.
LEMMA JoinsHasParts ==
  ASSUME NEW S, NEW seqs \in Seq(Seq(S)), NEW g, Joins(g, seqs)
  PROVE  Parts(g, seqs, S)
<1> DEFINE n == Len(seqs)
<1>0. n \in Nat /\ \A i \in 1 .. n : seqs[i] \in Seq(S)
  OBVIOUS
<1>1. g[0] = << >> /\ \A i \in 1 .. n : g[i] = g[i - 1] \o seqs[i]
  BY DEF Joins
<1> DEFINE T == {i \in Nat : i <= n => g[i] \in Seq(S)}
<1>2. 0 \in T
  <2>1. g[0] \in Seq(S)
    BY <1>1, EmptySeq, Zenon
  <2> QED
    BY <2>1
<1>3. ASSUME NEW i \in Nat, i \in T PROVE i + 1 \in T
  <2> SUFFICES ASSUME i + 1 <= n PROVE g[i + 1] \in Seq(S)
    OBVIOUS
  <2>1. g[i] \in Seq(S) /\ i + 1 \in 1 .. n /\ (i + 1) - 1 = i
    BY <1>0, <1>3
  <2>2. g[i + 1] = g[i] \o seqs[i + 1]
    BY <1>1, <2>1
  <2> QED
    BY <1>0, <2>1, <2>2, ConcatProperties
<1> HIDE DEF T
<1>4. Nat \subseteq T
  BY <1>2, <1>3, NatSet
<1>5. ASSUME NEW i \in 0 .. n PROVE g[i] \in Seq(S)
  <2>1. i \in T /\ i <= n
    BY <1>0, <1>4
  <2> QED
    BY <2>1 DEF T
<1>6. ASSUME NEW i \in 1 .. n
      PROVE  /\ Len(g[i]) = Len(g[i - 1]) + Len(seqs[i])
             /\ \A p \in 1 .. Len(g[i - 1]) : g[i][p] = g[i - 1][p]
             /\ \A p \in 1 .. Len(seqs[i]) : g[i][Len(g[i - 1]) + p] = seqs[i][p]
  <2> DEFINE a == g[i - 1]
             b == seqs[i]
  <2>1. a \in Seq(S) /\ b \in Seq(S) /\ g[i] = a \o b
    <3>1. i - 1 \in 0 .. n
      BY <1>0
    <3> QED
      BY <1>0, <1>1, <1>5, <3>1
  <2> HIDE DEF a, b
  <2>2. /\ Len(a \o b) = Len(a) + Len(b)
        /\ \A p \in 1 .. Len(a) + Len(b) : (a \o b)[p] = IF p <= Len(a) THEN a[p] ELSE b[p - Len(a)]
    BY <2>1, ConcatProperties
  <2>3. Len(a) \in Nat /\ Len(b) \in Nat
    BY <2>1
  <2>6. Len(g[i]) = Len(a) + Len(b)
    BY <2>1, <2>2
  <2>4. \A p \in 1 .. Len(a) : g[i][p] = a[p]
    BY <2>1, <2>2, <2>3
  <2>5. \A p \in 1 .. Len(b) : g[i][Len(a) + p] = b[p]
    <3> TAKE p \in 1 .. Len(b)
    <3>1. Len(a) + p \in 1 .. Len(a) + Len(b) /\ ~(Len(a) + p <= Len(a)) /\ (Len(a) + p) - Len(a) = p
      BY <2>3
    <3> QED
      BY <2>1, <2>2, <3>1
  <2> QED
    BY <2>4, <2>5, <2>6 DEF a, b
<1> QED
  BY <1>1, <1>5, <1>6, Zenon DEF Parts

\* What is joined at one place begins what is joined at a later one.
LEMMA PartsGrow ==
  ASSUME NEW S, NEW seqs \in Seq(Seq(S)), NEW g, Parts(g, seqs, S), NEW i \in 0 .. Len(seqs)
  PROVE  \A k \in i .. Len(seqs) :
           Len(g[i]) <= Len(g[k]) /\ \A p \in 1 .. Len(g[i]) : g[k][p] = g[i][p]
<1> DEFINE n == Len(seqs)
<1>0. n \in Nat /\ i \in Nat /\ i <= n
  OBVIOUS
<1>10. \A k \in 0 .. n : g[k] \in Seq(S) /\ Len(g[k]) \in Nat
  BY DEF Parts
<1> DEFINE G(k) == Len(g[i]) <= Len(g[k]) /\ \A p \in 1 .. Len(g[i]) : g[k][p] = g[i][p]
           T == {k \in Nat : i <= k /\ k <= n => G(k)}
<1>1. 0 \in T
  <2> SUFFICES ASSUME i <= 0 PROVE G(0)
    OBVIOUS
  <2>1. i = 0
    BY <1>0
  <2>2. Len(g[0]) <= Len(g[0])
    BY <1>0, <1>10, <2>1
  <2> QED
    BY <2>1, <2>2
<1>2. ASSUME NEW k \in Nat, k \in T PROVE k + 1 \in T
  <2> SUFFICES ASSUME i <= k + 1, k + 1 <= n PROVE G(k + 1)
    OBVIOUS
  <2>1. CASE i = k + 1
    BY <1>10, <1>0, <2>1
  <2>2. CASE i # k + 1
    <3>1. G(k)
      BY <1>0, <1>2, <2>2
    <3>2. PICK m \in 1 .. n : m = k + 1 /\ m - 1 = k
      BY <1>0
    <3>3. /\ Len(g[m]) = Len(g[m - 1]) + Len(seqs[m])
          /\ \A p \in 1 .. Len(g[m - 1]) : g[m][p] = g[m - 1][p]
      BY DEF Parts
    <3>4. Len(seqs[m]) \in Nat /\ Len(g[k]) \in Nat /\ Len(g[i]) \in Nat
      <4>1. seqs[m] \in Seq(S) /\ k \in 0 .. n
        BY <3>2
      <4> QED
        BY <4>1, <1>10
    <3>5. Len(g[i]) <= Len(g[m])
      <4>1. Len(g[i]) <= Len(g[k]) /\ Len(g[m]) = Len(g[k]) + Len(seqs[m])
        BY <3>1, <3>2, <3>3
      <4>2. \A x, y, z \in Nat : x <= y => x <= y + z
        OBVIOUS
      <4> QED
        BY <3>4, <4>1, <4>2
    <3>6. \A p \in 1 .. Len(g[i]) : g[m][p] = g[i][p]
      <4> TAKE p \in 1 .. Len(g[i])
      <4>1. p \in 1 .. Len(g[m - 1])
        BY <3>1, <3>2, <3>4
      <4>2. g[m][p] = g[m - 1][p]
        BY <3>3, <4>1
      <4> QED
        BY <3>1, <3>2, <4>2
    <3> QED
      BY <3>2, <3>5, <3>6
  <2> QED
    BY <2>1, <2>2
<1> HIDE DEF T
<1>3. Nat \subseteq T
  BY <1>1, <1>2, NatSet
<1>4. ASSUME NEW k \in i .. n PROVE G(k)
  <2>1. k \in Nat /\ i <= k /\ k <= n
    BY <1>0
  <2>2. k \in T
    BY <1>3, <2>1
  <2>3. i <= k /\ k <= n => G(k)
    BY <2>2 DEF T
  <2> QED
    BY <2>1, <2>3
<1> QED
  BY <1>4

\* The first k sequences joined.
LEMMA FlattenOfBeginning ==
  ASSUME NEW S, NEW seqs \in Seq(Seq(S)), NEW g, Joins(g, seqs), NEW k \in 0 .. Len(seqs)
  PROVE  FlattenSeq(SubSeq(seqs, 1, k)) = g[k]
<1> DEFINE x == SubSeq(seqs, 1, k)
<1>0. k \in Nat
  OBVIOUS
<1>1. x \in Seq(Seq(S)) /\ Len(x) = k /\ \A j \in 1 .. k : x[j] = seqs[j]
  <2>1. \A i \in 1 .. k : seqs[i] \in Seq(S)
    OBVIOUS
  <2>2. 1 \in Int /\ k \in Int
    OBVIOUS
  <2>3. /\ SubSeq(seqs, 1, k) \in Seq(Seq(S))
        /\ Len(SubSeq(seqs, 1, k)) = IF 1 <= k THEN k - 1 + 1 ELSE 0
        /\ \A i \in 1 .. k - 1 + 1 : SubSeq(seqs, 1, k)[i] = seqs[1 + i - 1]
    BY <2>1, <2>2, SubSeqProperties
  <2> QED
    BY <2>3
<1> HIDE DEF x
<1>2. PICK h : Joins(h, x) /\ FlattenSeq(x) = h[k]
  BY <1>1, FlattenIs
<1> DEFINE T == {i \in Nat : i <= k => h[i] = g[i]}
<1>3. 0 \in T
  BY <1>2 DEF Joins
<1>4. ASSUME NEW i \in Nat, i \in T PROVE i + 1 \in T
  <2> SUFFICES ASSUME i + 1 <= k PROVE h[i + 1] = g[i + 1]
    OBVIOUS
  <2>1. h[i] = g[i]
    BY <1>4
  <2>2. PICK m \in 1 .. k : m = i + 1 /\ m - 1 = i
    OBVIOUS
  <2>3. h[m] = h[m - 1] \o x[m]
    BY <1>1, <1>2 DEF Joins
  <2>4. g[m] = g[m - 1] \o seqs[m]
    <3>1. m \in 1 .. Len(seqs)
      OBVIOUS
    <3> QED
      BY <3>1 DEF Joins
  <2> QED
    BY <1>1, <2>1, <2>2, <2>3, <2>4
<1> HIDE DEF T
<1>5. Nat \subseteq T
  BY <1>3, <1>4, NatSet
<1>6. h[k] = g[k]
  BY <1>0, <1>5 DEF T
<1> QED
  BY <1>2, <1>6 DEF x

\* The whole, its parts, and its beginnings.
LEMMA FlattenParts ==
  ASSUME NEW S, NEW seqs \in Seq(Seq(S))
  PROVE  \E g : /\ Parts(g, seqs, S)
                /\ FlattenSeq(seqs) = g[Len(seqs)]
                /\ \A k \in 0 .. Len(seqs) : FlattenSeq(SubSeq(seqs, 1, k)) = g[k]
<1>1. PICK g : Joins(g, seqs) /\ FlattenSeq(seqs) = g[Len(seqs)]
  BY FlattenIs
<1>2. Parts(g, seqs, S)
  BY <1>1, JoinsHasParts
<1>3. \A k \in 0 .. Len(seqs) : FlattenSeq(SubSeq(seqs, 1, k)) = g[k]
  BY <1>1, FlattenOfBeginning
<1> QED
  BY <1>1, <1>2, <1>3
=============================================================================
