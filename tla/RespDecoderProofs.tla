------------------------- MODULE RespDecoderProofs -------------------------
(* Theorems about RespDecoder for any requests and any size of a read.     *)
EXTENDS RespDecoder, SequenceLemmas

(***************************************************************************)
(* The scan.                                                               *)
(***************************************************************************)

\* f is what the loop of parse comes to at each of the first n places.
ScannedTo(f, d, buf, n) ==
  f = [i \in 0 .. n |-> IF i = 0 THEN [d |-> d, start |-> 1] ELSE ScanAt(buf, f[i - 1], i)]

\* There is such a scan.
LEMMA ScanExists ==
  ASSUME NEW d, NEW buf
  PROVE  \A n \in Nat : \E f : ScannedTo(f, d, buf, n)
<1> DEFINE S == {n \in Nat : \E f : ScannedTo(f, d, buf, n)}
<1>1. 0 \in S
  <2> DEFINE f == [i \in 0 .. 0 |-> [d |-> d, start |-> 1]]
  <2>1. f = [i \in 0 .. 0 |-> IF i = 0 THEN [d |-> d, start |-> 1] ELSE ScanAt(buf, f[i - 1], i)]
    OBVIOUS
  <2> HIDE DEF f
  <2>2. ScannedTo(f, d, buf, 0)
    BY <2>1 DEF ScannedTo
  <2> QED
    BY <2>2
<1>2. ASSUME NEW n \in Nat, n \in S PROVE n + 1 \in S
  <2>1. PICK f : ScannedTo(f, d, buf, n)
    BY <1>2
  <2> DEFINE h(i) == IF i = n + 1 THEN ScanAt(buf, f[n], i) ELSE f[i]
  <2> DEFINE g == [i \in 0 .. n + 1 |-> h(i)]
  <2>2. \A i \in 0 .. n : g[i] = f[i]
    OBVIOUS
  <2>3. \A i \in 0 .. n : f[i] = IF i = 0 THEN [d |-> d, start |-> 1] ELSE ScanAt(buf, f[i - 1], i)
    BY <2>1 DEF ScannedTo
  <2>4. g[n + 1] = ScanAt(buf, g[n], n + 1)
    BY <2>2
  <2>5. g = [i \in 0 .. n + 1 |-> g[i]]
    OBVIOUS
  <2> HIDE DEF g, h
  <2>6. ASSUME NEW i \in 0 .. n + 1
        PROVE  g[i] = IF i = 0 THEN [d |-> d, start |-> 1] ELSE ScanAt(buf, g[i - 1], i)
    <3>1. CASE i = n + 1
      BY <2>4, <3>1
    <3>2. CASE i = 0
      BY <2>2, <2>3, <3>2
    <3>3. CASE i \in 1 .. n
      <4>1. g[i] = f[i] /\ g[i - 1] = f[i - 1]
        BY <2>2, <3>3
      <4>2. f[i] = ScanAt(buf, f[i - 1], i)
        BY <2>3, <3>3
      <4> QED
        BY <4>1, <4>2, <3>3
    <3> QED
      BY <3>1, <3>2, <3>3
  <2>7. g = [i \in 0 .. n + 1 |-> IF i = 0 THEN [d |-> d, start |-> 1] ELSE ScanAt(buf, g[i - 1], i)]
    BY <2>5, <2>6
  <2>8. ScannedTo(g, d, buf, n + 1)
    BY <2>7 DEF ScannedTo
  <2> QED
    BY <2>8
<1> HIDE DEF S
<1>3. Nat \subseteq S
  BY <1>1, <1>2, NatSet
<1> QED
  BY <1>3 DEF S

\* Parse is the end of a scan of the whole buffer.
LEMMA ParseIs ==
  ASSUME NEW d, NEW buf, Len(buf) \in Nat
  PROVE  \E f : ScannedTo(f, d, buf, Len(buf)) /\ Parse(d, buf) = f[Len(buf)]
<1>1. \E f : ScannedTo(f, d, buf, Len(buf))
  BY ScanExists
<1> DEFINE f == CHOOSE f : ScannedTo(f, d, buf, Len(buf))
<1>2. ScannedTo(f, d, buf, Len(buf))
  BY <1>1
<1>3. Parse(d, buf) = f[Len(buf)]
  BY Zenon DEF Parse, ScannedTo
<1> QED
  BY <1>2, <1>3

\* What the loop has come to: the decoding, and where the next token starts.
At(d, start) == [d |-> d, start |-> start]
\* A token, or any other piece of the buffer.
Piece(buf, a, b) == SubSeq(buf, a, b)
\* There is nothing for s to do at place j.
Idle(buf, s, j) ==
  \/ s.d.outcome = "threw" \/ j < s.start \/ ~EndsToken(buf, j)
  \/ ~TokenDone(s.d, Piece(buf, s.start, j - 1))

\* One turn of the loop.
LEMMA TurnIs ==
  ASSUME NEW buf, NEW d, NEW start, NEW i
  PROVE  /\ Idle(buf, At(d, start), i) => ScanAt(buf, At(d, start), i) = At(d, start)
         /\ ~Idle(buf, At(d, start), i) =>
              /\ ScanAt(buf, At(d, start), i)
                   = At(HandleToken(d, Piece(buf, start, i - 1)), i + 2)
              /\ EndsToken(buf, i)
<1>1. At(d, start).d = d /\ At(d, start).start = start
  BY DEF At
<1>2. [d |-> HandleToken(d, SubSeq(buf, start, i - 1)), start |-> i + 2]
        = At(HandleToken(d, Piece(buf, start, i - 1)), i + 2)
  BY DEF At, Piece
<1> QED
  BY <1>1, <1>2, Zenon DEF ScanAt, Idle, Piece

\* The places of a scan, one after the other.
LEMMA ScanSteps ==
  ASSUME NEW f, NEW d, NEW buf, NEW n \in Nat, ScannedTo(f, d, buf, n)
  PROVE  /\ f[0] = At(d, 1)
         /\ \A i \in 1 .. n : f[i] = ScanAt(buf, f[i - 1], i)
BY DEF ScannedTo, At

\* A token begins in the buffer, or just behind it; and where the scan has been,
\* there is nothing left for it to do.
Settled(buf, s, i) ==
  /\ s = At(s.d, s.start)
  /\ s.start \in 1 .. i + 2 /\ s.start <= Len(buf) + 1
  /\ \A j \in 1 .. i : Idle(buf, s, j)

\* A scan is settled at each of its places.
LEMMA ScanSettles ==
  ASSUME NEW f, NEW d, NEW buf, Len(buf) \in Nat, ScannedTo(f, d, buf, Len(buf))
  PROVE  \A i \in 0 .. Len(buf) : Settled(buf, f[i], i)
<1> DEFINE S == {i \in Nat : i <= Len(buf) => Settled(buf, f[i], i)}
<1>1. 0 \in S
  <2>1. f[0] = At(d, 1)
    BY ScanSteps
  <2>2. At(d, 1).d = d /\ At(d, 1).start = 1
    BY DEF At
  <2> QED
    BY <2>1, <2>2 DEF Settled
<1>2. ASSUME NEW i \in Nat, i \in S PROVE i + 1 \in S
  <2> SUFFICES ASSUME i + 1 <= Len(buf) PROVE Settled(buf, f[i + 1], i + 1)
    OBVIOUS
  <2>1. Settled(buf, f[i], i)
    BY <1>2
  <2>2. PICK e, start : f[i] = At(e, start) /\ start \in 1 .. i + 2 /\ start <= Len(buf) + 1
    BY <2>1 DEF Settled
  <2>3. f[i + 1] = ScanAt(buf, f[i], i + 1)
    BY ScanSteps
  <2>4. CASE Idle(buf, f[i], i + 1)
    <3>1. f[i + 1] = f[i]
      BY <2>2, <2>3, <2>4, TurnIs
    <3> QED
      BY <2>1, <2>4, <3>1 DEF Settled
  <2>5. CASE ~Idle(buf, f[i], i + 1)
    <3> DEFINE e2 == HandleToken(e, Piece(buf, start, i + 1 - 1))
    <3>1. f[i + 1] = At(e2, i + 1 + 2) /\ EndsToken(buf, i + 1)
      BY <2>2, <2>3, <2>5, TurnIs
    <3>2. i + 1 < Len(buf)
      BY <3>1 DEF EndsToken
    <3> HIDE DEF e2
    <3>3. f[i + 1].d = e2 /\ f[i + 1].start = i + 3
      BY <3>1 DEF At
    <3>4. f[i + 1] = At(f[i + 1].d, f[i + 1].start)
      BY <3>1, <3>3
    <3>5. \A j \in 1 .. i + 1 : Idle(buf, f[i + 1], j)
      BY <3>3 DEF Idle
    <3> QED
      BY <3>2, <3>3, <3>4, <3>5 DEF Settled
  <2> QED
    BY <2>4, <2>5
<1> HIDE DEF S
<1>3. Nat \subseteq S
  BY <1>1, <1>2, NatSet
<1> QED
  BY <1>3 DEF S

(***************************************************************************)
(* A scan of a part of the buffer.                                         *)
(***************************************************************************)

\* part is what all has behind its first off symbols.
PartOf(part, all, off) ==
  /\ part \in Seq(Symbols) /\ all \in Seq(Symbols) /\ off \in Nat
  /\ off + Len(part) <= Len(all)
  /\ \A j \in 1 .. Len(part) : part[j] = all[off + j]

\* A token of a part is one of the whole.
LEMMA TokenOfPart ==
  ASSUME NEW part, NEW all, NEW off, PartOf(part, all, off),
         NEW a \in Nat \ {0}, NEW b \in Nat, b <= Len(part)
  PROVE  Piece(part, a, b) = Piece(all, off + a, off + b)
<1>1. \A i \in a .. b : part[i] \in Symbols
  BY DEF PartOf
<1>2. \A i \in off + a .. off + b : all[i] \in Symbols
  BY DEF PartOf
<1>0. a \in Int /\ b \in Int
  OBVIOUS
<1>3. /\ SubSeq(part, a, b) \in Seq(Symbols)
      /\ Len(SubSeq(part, a, b)) = IF a <= b THEN b - a + 1 ELSE 0
      /\ \A i \in 1 .. b - a + 1 : SubSeq(part, a, b)[i] = part[a + i - 1]
  BY <1>1, <1>0, SubSeqProperties
<1>4. off + a \in Int /\ off + b \in Int
  BY DEF PartOf
<1>5. /\ SubSeq(all, off + a, off + b) \in Seq(Symbols)
      /\ Len(SubSeq(all, off + a, off + b))
           = IF off + a <= off + b THEN (off + b) - (off + a) + 1 ELSE 0
      /\ \A i \in 1 .. (off + b) - (off + a) + 1 :
           SubSeq(all, off + a, off + b)[i] = all[off + a + i - 1]
  BY <1>2, <1>4, SubSeqProperties
<1> DEFINE x == SubSeq(part, a, b)
           y == SubSeq(all, off + a, off + b)
<1>6. Len(x) = Len(y)
  BY <1>3, <1>5 DEF PartOf
<1>7. \A i \in 1 .. Len(x) : x[i] = y[i]
  <2> TAKE i \in 1 .. Len(x)
  <2>1. i \in 1 .. b - a + 1 /\ i \in 1 .. (off + b) - (off + a) + 1
    BY <1>3 DEF PartOf
  <2>2. a + i - 1 \in 1 .. Len(part) /\ off + (a + i - 1) = off + a + i - 1
    BY <2>1 DEF PartOf
  <2> QED
    BY <1>3, <1>5, <2>1, <2>2 DEF PartOf
<1>8. x \in Seq(Symbols) /\ y \in Seq(Symbols)
  BY <1>3, <1>5
<1> HIDE DEF x, y
<1>9. x = y
  BY <1>6, <1>7, <1>8, SeqEqual
<1> QED
  BY <1>9 DEF x, y, Piece

\* t is where s is, for a scan that began off symbols earlier.
Moved(off, s, t) ==
  s = At(s.d, s.start) /\ s.start \in Nat \ {0} /\ t = At(s.d, off + s.start)

\* A token of a part of the buffer is one of the whole, and nothing is to be done
\* at a place of the part if nothing is at that of the whole, but perhaps at the
\* last symbol of the part.
LEMMA IdleOfPart ==
  ASSUME NEW part, NEW all, NEW off, PartOf(part, all, off),
         NEW d, NEW a \in Nat \ {0}, NEW i \in 1 .. Len(part),
         i < Len(part) \/ off + Len(part) = Len(all)
  PROVE  /\ Piece(part, a, i - 1) = Piece(all, off + a, (off + i) - 1)
         /\ Idle(part, At(d, a), i) <=> Idle(all, At(d, off + a), off + i)
<1>2. off \in Nat /\ Len(part) \in Nat /\ Len(all) \in Nat /\ i - 1 \in Nat /\ i - 1 <= Len(part)
  BY DEF PartOf
<1>3. EndsToken(part, i) <=> EndsToken(all, off + i)
  <2>1. part[i] = all[off + i]
    BY DEF PartOf
  <2>2. CASE i < Len(part)
    <3>1. part[i + 1] = all[off + i + 1] /\ off + i < Len(all)
      <4>1. i + 1 \in 1 .. Len(part) /\ off + (i + 1) = off + i + 1
        BY <1>2, <2>2
      <4>2. part[i + 1] = all[off + (i + 1)]
        BY <4>1 DEF PartOf
      <4>3. off + i < Len(all)
        BY <1>2, <2>2 DEF PartOf
      <4> QED
        BY <4>1, <4>2, <4>3
    <3> QED
      BY <2>1, <2>2, <3>1, Zenon DEF EndsToken
  <2>3. CASE ~(i < Len(part))
    <3>1. ~(off + i < Len(all))
      BY <1>2, <2>3
    <3> QED
      BY <2>3, <3>1 DEF EndsToken
  <2> QED
    BY <2>2, <2>3
<1> DEFINE x == Piece(part, a, i - 1)
<1>4. x = Piece(all, off + a, (off + i) - 1)
  <2>1. off + (i - 1) = (off + i) - 1
    BY <1>2
  <2>2. PICK m \in Nat : m = i - 1 /\ m <= Len(part)
    BY <1>2
  <2>3. Piece(part, a, m) = Piece(all, off + a, off + m)
    <3>1. m <= Len(part)
      BY <2>2
    <3> QED
      BY <3>1, TokenOfPart
  <2> QED
    BY <2>1, <2>2, <2>3
<1> HIDE DEF x
<1>5. i < a <=> off + i < off + a
  BY <1>2
<1>6. At(d, a).d = d /\ At(d, a).start = a /\ At(d, off + a).d = d /\ At(d, off + a).start = off + a
  BY DEF At
<1>7. Idle(part, At(d, a), i) <=> Idle(all, At(d, off + a), off + i)
  <2>1. Idle(part, At(d, a), i) <=>
          (d.outcome = "threw" \/ i < a \/ ~EndsToken(part, i) \/ ~TokenDone(d, x))
    BY <1>6, Zenon DEF Idle, x
  <2>2. Idle(all, At(d, off + a), off + i) <=>
          (d.outcome = "threw" \/ off + i < off + a \/ ~EndsToken(all, off + i)
             \/ ~TokenDone(d, Piece(all, off + a, (off + i) - 1)))
    BY <1>6, Zenon DEF Idle
  <2> QED
    BY <1>3, <1>4, <1>5, <2>1, <2>2
<1> QED
  BY <1>4, <1>7 DEF x

\* One turn of the loop on a part of the buffer is one on the whole.
LEMMA TurnOfPart ==
  ASSUME NEW part, NEW all, NEW off, PartOf(part, all, off),
         NEW d, NEW a \in Nat \ {0}, NEW i \in 1 .. Len(part),
         i < Len(part) \/ off + Len(part) = Len(all)
  PROVE  Moved(off, ScanAt(part, At(d, a), i), ScanAt(all, At(d, off + a), off + i))
<1> DEFINE x == Piece(part, a, i - 1)
<1>2. off \in Nat /\ Len(part) \in Nat
  BY DEF PartOf
<1>3. x = Piece(all, off + a, (off + i) - 1)
  BY IdleOfPart
<1>4. Idle(part, At(d, a), i) <=> Idle(all, At(d, off + a), off + i)
  BY IdleOfPart
<1>5. At(d, a).d = d /\ At(d, a).start = a
  BY DEF At
<1> HIDE DEF x
<1>8. CASE Idle(part, At(d, a), i)
  <2>1. ScanAt(part, At(d, a), i) = At(d, a) /\ ScanAt(all, At(d, off + a), off + i) = At(d, off + a)
    BY <1>4, <1>8, TurnIs
  <2> QED
    BY <1>5, <2>1 DEF Moved
<1>9. CASE ~Idle(part, At(d, a), i)
  <2> DEFINE e == HandleToken(d, x)
  <2>1. ScanAt(part, At(d, a), i) = At(e, i + 2)
    BY <1>9, TurnIs DEF x
  <2>2. ScanAt(all, At(d, off + a), off + i) = At(e, (off + i) + 2)
    <3>1. ~Idle(all, At(d, off + a), off + i)
      BY <1>4, <1>9
    <3>2. ScanAt(all, At(d, off + a), off + i)
            = At(HandleToken(d, Piece(all, off + a, (off + i) - 1)), (off + i) + 2)
      BY <3>1, TurnIs
    <3> QED
      BY <1>3, <3>2
  <2> HIDE DEF e
  <2>3. (off + i) + 2 = off + (i + 2) /\ i + 2 \in Nat \ {0}
    BY <1>2
  <2>4. At(e, i + 2).d = e /\ At(e, i + 2).start = i + 2
    BY DEF At
  <2> QED
    BY <2>1, <2>2, <2>3, <2>4 DEF Moved
<1> QED
  BY <1>8, <1>9

\* The same for states of two scans.
LEMMA MovedTurn ==
  ASSUME NEW part, NEW all, NEW off, PartOf(part, all, off),
         NEW s, NEW t, Moved(off, s, t), NEW i \in 1 .. Len(part),
         i < Len(part) \/ off + Len(part) = Len(all)
  PROVE  Moved(off, ScanAt(part, s, i), ScanAt(all, t, off + i))
<1>1. PICK d, a : s = At(d, a) /\ a \in Nat \ {0} /\ t = At(d, off + a)
  BY DEF Moved
<1>2. Moved(off, ScanAt(part, At(d, a), i), ScanAt(all, At(d, off + a), off + i))
  BY <1>1, TurnOfPart
<1> QED
  BY <1>1, <1>2

\* A scan of a beginning of the buffer is a beginning of the scan, and its last
\* turn does nothing.
LEMMA ScanOfBeginning ==
  ASSUME NEW all \in Seq(Symbols), NEW n \in 0 .. Len(all), NEW d,
         NEW f, ScannedTo(f, d, SubSeq(all, 1, n), n),
         NEW g, ScannedTo(g, d, all, Len(all))
  PROVE  /\ n # 0 => f[n] = g[n - 1]
         /\ n = 0 => f[n] = g[0]
         /\ Settled(SubSeq(all, 1, n), f[n], n)
         /\ PartOf(SubSeq(all, 1, n), all, 0)
<1> DEFINE part == SubSeq(all, 1, n)
<1>1. part \in Seq(Symbols) /\ Len(part) = n /\ \A j \in 1 .. n : part[j] = all[j]
  <2>1. \A i \in 1 .. n : all[i] \in Symbols
    OBVIOUS
  <2>2. 1 \in Int /\ n \in Int
    OBVIOUS
  <2>3. /\ SubSeq(all, 1, n) \in Seq(Symbols)
        /\ Len(SubSeq(all, 1, n)) = IF 1 <= n THEN n - 1 + 1 ELSE 0
        /\ \A i \in 1 .. n - 1 + 1 : SubSeq(all, 1, n)[i] = all[1 + i - 1]
    BY <2>1, <2>2, SubSeqProperties
  <2> QED
    BY <2>3
<1> HIDE DEF part
<1>2. PartOf(part, all, 0)
  BY <1>1 DEF PartOf
<1>0. n \in Nat /\ Len(all) \in Nat
  OBVIOUS
<1>3. f[0] = At(d, 1) /\ \A i \in 1 .. n : f[i] = ScanAt(part, f[i - 1], i)
  BY <1>0, ScanSteps DEF part
<1>4. g[0] = At(d, 1) /\ \A i \in 1 .. Len(all) : g[i] = ScanAt(all, g[i - 1], i)
  BY ScanSteps
<1>5. \A i \in 0 .. n : Settled(part, f[i], i)
  <2>1. Len(part) \in Nat /\ ScannedTo(f, d, part, Len(part))
    BY <1>0, <1>1 DEF part
  <2>2. \A i \in 0 .. Len(part) : Settled(part, f[i], i)
    BY <2>1, ScanSettles
  <2> QED
    BY <1>1, <2>2
<1> DEFINE S == {i \in Nat : i = 0 \/ i < n => f[i] = g[i]}
<1>6. 0 \in S
  BY <1>3, <1>4
<1>7. ASSUME NEW i \in Nat, i \in S PROVE i + 1 \in S
  <2> SUFFICES ASSUME i + 1 < n PROVE f[i + 1] = g[i + 1]
    OBVIOUS
  <2>1. f[i] = g[i]
    BY <1>7
  <2>2. f[i + 1] = ScanAt(part, f[i], i + 1) /\ g[i + 1] = ScanAt(all, g[i], i + 1)
    BY <1>3, <1>4
  <2>3. Settled(part, f[i], i)
    BY <1>5
  <2>4. Moved(0, f[i], g[i])
    BY <2>1, <2>3 DEF Settled, Moved
  <2>5. Moved(0, ScanAt(part, f[i], i + 1), ScanAt(all, g[i], 0 + (i + 1)))
    <3>1. i + 1 \in 1 .. Len(part) /\ i + 1 < Len(part)
      BY <1>1
    <3> QED
      BY <1>2, <2>4, <3>1, MovedTurn
  <2>6. 0 + (i + 1) = i + 1
    OBVIOUS
  <2>7. Moved(0, f[i + 1], g[i + 1])
    BY <2>2, <2>5, <2>6
  <2> QED
    BY <2>7 DEF Moved
<1> HIDE DEF S
<1>8. Nat \subseteq S
  BY <1>6, <1>7, NatSet
<1>9. CASE n = 0
  BY <1>2, <1>3, <1>4, <1>5, <1>9 DEF part
<1>10. CASE n # 0
  <2>1. f[n - 1] = g[n - 1]
    BY <1>8, <1>10 DEF S
  <2>2. f[n] = ScanAt(part, f[n - 1], n) /\ Settled(part, f[n - 1], n - 1)
    BY <1>3, <1>5, <1>10
  <2>3. ~EndsToken(part, n)
    BY <1>1 DEF EndsToken
  <2>4. f[n] = f[n - 1]
    <3>1. PICK e, a : f[n - 1] = At(e, a)
      BY <2>2 DEF Settled
    <3>2. Idle(part, At(e, a), n)
      BY <2>3 DEF Idle
    <3> QED
      BY <2>2, <3>1, <3>2, TurnIs
  <2> QED
    BY <1>2, <1>5, <1>10, <2>1, <2>4 DEF part
<1> QED
  BY <1>9, <1>10

\* A scan of what a scan of a beginning has left over, in the state it came to, ends
\* where a scan of everything does.
LEMMA ScanGoesOn ==
  ASSUME NEW all \in Seq(Symbols), NEW n \in 0 .. Len(all), NEW d,
         NEW f, ScannedTo(f, d, SubSeq(all, 1, n), n),
         NEW g, ScannedTo(g, d, all, Len(all)),
         NEW e, NEW off \in Nat, f[n] = At(e, off + 1),
         NEW rest, PartOf(rest, all, off), off + Len(rest) = Len(all),
         NEW h, ScannedTo(h, e, rest, Len(rest))
  PROVE  Moved(off, h[Len(rest)], g[Len(all)])
<1> DEFINE part == SubSeq(all, 1, n)
<1>0. /\ n \in Nat /\ Len(all) \in Nat /\ rest \in Seq(Symbols) /\ Len(rest) \in Nat
      /\ off + 1 \in Nat \ {0}
  BY DEF PartOf
<1>1. /\ n # 0 => f[n] = g[n - 1]
      /\ n = 0 => f[n] = g[0]
      /\ Settled(part, f[n], n)
      /\ PartOf(part, all, 0)
  BY ScanOfBeginning
<1> HIDE DEF part
<1>2. Len(part) = n
  <2>1. \A i \in 1 .. n : all[i] \in Symbols
    OBVIOUS
  <2>2. 1 \in Int /\ n \in Int
    OBVIOUS
  <2>3. Len(SubSeq(all, 1, n)) = IF 1 <= n THEN n - 1 + 1 ELSE 0
    BY <2>1, <2>2, SubSeqProperties
  <2> QED
    BY <2>3 DEF part
<1>3. h[0] = At(e, 1) /\ \A i \in 1 .. Len(rest) : h[i] = ScanAt(rest, h[i - 1], i)
  BY <1>0, ScanSteps
<1>4. \A i \in 1 .. Len(all) : g[i] = ScanAt(all, g[i - 1], i)
  BY <1>0, ScanSteps
<1>5. At(e, off + 1).d = e /\ At(e, off + 1).start = off + 1
      /\ At(e, 1).d = e /\ At(e, 1).start = 1
  BY DEF At
<1>6. off <= n /\ \A j \in 1 .. n : Idle(part, At(e, off + 1), j)
  <2>1. Settled(part, At(e, off + 1), n)
    BY <1>1
  <2> QED
    BY <1>0, <1>2, <1>5, <2>1 DEF Settled
<1>7. Moved(off, At(e, 1), At(e, off + 1))
  BY <1>5 DEF Moved
<1> DEFINE S == {j \in Nat : j <= Len(rest) =>
                   /\ off + j < n => h[j] = At(e, 1)
                   /\ ~(off + j < n) => Moved(off, h[j], g[off + j])}
<1>8. 0 \in S
  <2> SUFFICES ASSUME ~(off + 0 < n) PROVE Moved(off, h[0], g[off + 0])
    BY <1>3
  <2>1. off = n /\ off + 0 = n
    BY <1>0, <1>6
  <2>2. CASE n = 0
    BY <1>1, <1>3, <1>7, <2>1, <2>2
  <2>3. CASE n # 0
    <3>1. g[n - 1] = At(e, off + 1)
      BY <1>1, <2>3
    <3>2. g[n] = ScanAt(all, At(e, off + 1), n)
      BY <1>0, <1>4, <2>3, <3>1
    <3>3. Idle(all, At(e, off + 1), n)
      BY <1>0, <1>5, <2>1 DEF Idle
    <3>4. g[n] = At(e, off + 1)
      BY <3>2, <3>3, TurnIs
    <3> QED
      BY <1>3, <1>7, <2>1, <3>4
  <2> QED
    BY <2>2, <2>3
<1>9. ASSUME NEW j \in Nat, j \in S PROVE j + 1 \in S
  <2> SUFFICES ASSUME j + 1 <= Len(rest)
               PROVE  /\ off + (j + 1) < n => h[j + 1] = At(e, 1)
                      /\ ~(off + (j + 1) < n) => Moved(off, h[j + 1], g[off + (j + 1)])
    OBVIOUS
  <2>1. h[j + 1] = ScanAt(rest, h[j], j + 1) /\ j + 1 \in 1 .. Len(rest)
    BY <1>0, <1>3
  <2>2. /\ off + (j + 1) \in 1 .. Len(all) /\ off + (j + 1) - 1 = off + j
        /\ g[off + (j + 1)] = ScanAt(all, g[off + j], off + (j + 1))
    <3>1. off + (j + 1) \in 1 .. Len(all) /\ off + (j + 1) - 1 = off + j
      BY <1>0
    <3> QED
      BY <1>4, <3>1
  <2>3. CASE off + (j + 1) < n
    <3>1. h[j] = At(e, 1)
      BY <1>0, <1>9, <2>3
    <3>2. Idle(part, At(e, off + 1), off + (j + 1))
      BY <1>0, <1>6, <2>3
    <3>3. Idle(all, At(e, off + 1), off + (j + 1))
      <4> DEFINE i == off + (j + 1)
                 a == off + 1
      <4>1. i \in 1 .. Len(part) /\ i < Len(part) /\ a \in Nat \ {0} /\ 0 + i = i /\ 0 + a = a
        BY <1>0, <1>2, <2>3
      <4> HIDE DEF i, a
      <4>2. Idle(part, At(e, a), i) <=> Idle(all, At(e, 0 + a), 0 + i)
        BY <1>1, <4>1, IdleOfPart
      <4> QED
        BY <3>2, <4>1, <4>2 DEF i, a
    <3>4. Idle(rest, At(e, 1), j + 1)
      <4>1. Idle(rest, At(e, 1), j + 1) <=> Idle(all, At(e, off + 1), off + (j + 1))
        <5> DEFINE i == j + 1
        <5>1. i \in 1 .. Len(rest) /\ 1 \in Nat \ {0}
          BY <2>1
        <5> HIDE DEF i
        <5>2. Idle(rest, At(e, 1), i) <=> Idle(all, At(e, off + 1), off + i)
          BY <5>1, IdleOfPart
        <5> QED
          BY <5>2 DEF i
      <4> QED
        BY <3>3, <4>1
    <3> QED
      BY <2>1, <2>3, <3>1, <3>4, TurnIs
  <2>4. CASE ~(off + (j + 1) < n)
    <3>1. Moved(off, h[j], g[off + j])
      <4>1. CASE off + j < n
        <5>1. h[j] = At(e, 1) /\ off + j = n - 1 /\ n # 0
          BY <1>0, <1>9, <2>4, <4>1
        <5> QED
          BY <1>1, <1>7, <5>1
      <4>2. CASE ~(off + j < n)
        BY <1>0, <1>9, <4>2
      <4> QED
        BY <4>1, <4>2
    <3>2. Moved(off, ScanAt(rest, h[j], j + 1), ScanAt(all, g[off + j], off + (j + 1)))
      BY <2>1, <3>1, MovedTurn
    <3> QED
      BY <2>1, <2>2, <2>4, <3>2
  <2> QED
    BY <2>3, <2>4
<1> HIDE DEF S
<1>10. Nat \subseteq S
  BY <1>8, <1>9, NatSet
<1>11. Len(rest) \in S
  BY <1>0, <1>10
<1> QED
  BY <1>0, <1>11 DEF S

(***************************************************************************)
(* The stream.                                                             *)
(***************************************************************************)

\* Sequences of symbols, joined, are one.
LEMMA FlattenType ==
  ASSUME NEW S, NEW seqs \in Seq(Seq(S))
  PROVE  FlattenSeq(seqs) \in Seq(S)
<1>1. PICK g : Parts(g, seqs, S) /\ FlattenSeq(seqs) = g[Len(seqs)]
  BY FlattenParts
<1> QED
  BY <1>1 DEF Parts

\* What is encoded is a sequence of symbols.
LEMMA EncodeArgType ==
  ASSUME NEW arg \in Seq(Symbols)
  PROVE  EncodeArg(arg) \in Seq(Symbols)
<1>1. /\ CR \in Symbols /\ LF \in Symbols /\ Symbol("$", Len(arg)) \in Symbols
  BY DEF CR, LF, Symbol, Symbols
<1> HIDE DEF Symbols
<1>2. <<CR, LF>> \in Seq(Symbols) /\ <<Symbol("$", Len(arg)), CR, LF>> \in Seq(Symbols)
  BY <1>1
<1>3. arg \o <<CR, LF>> \in Seq(Symbols)
  BY <1>2, ConcatProperties
<1>4. <<Symbol("$", Len(arg)), CR, LF>> \o arg \in Seq(Symbols)
  BY <1>2, ConcatProperties
<1>5. <<Symbol("$", Len(arg)), CR, LF>> \o arg \o <<CR, LF>> \in Seq(Symbols)
  BY <1>2, <1>4, ConcatProperties
<1> QED
  BY <1>3, <1>5 DEF EncodeArg

\* So is an encoded request,
LEMMA EncodeRequestType ==
  ASSUME NEW args \in Seq(Seq(Symbols))
  PROVE  /\ [i \in DOMAIN args |-> EncodeArg(args[i])] \in Seq(Seq(Symbols))
         /\ EncodeRequest(args) \in Seq(Symbols)
<1>1. CR \in Symbols /\ LF \in Symbols /\ Symbol("*", Len(args)) \in Symbols
  BY DEF CR, LF, Symbol, Symbols
<1>2. <<Symbol("*", Len(args)), CR, LF>> \in Seq(Symbols)
  BY <1>1
<1> DEFINE enc == [i \in DOMAIN args |-> EncodeArg(args[i])]
<1>3. enc \in Seq(Seq(Symbols))
  <2>1. \A i \in 1 .. Len(args) : args[i] \in Seq(Symbols)
    OBVIOUS
  <2>2. \A i \in 1 .. Len(args) : EncodeArg(args[i]) \in Seq(Symbols)
    BY <2>1, EncodeArgType
  <2>3. DOMAIN args = 1 .. Len(args) /\ Len(args) \in Nat
    OBVIOUS
  <2> QED
    BY <2>2, <2>3, IsASeq
<1> HIDE DEF enc
<1>4. FlattenSeq(enc) \in Seq(Symbols)
  BY <1>3, FlattenType
<1>5. <<Symbol("*", Len(args)), CR, LF>> \o FlattenSeq(enc) \in Seq(Symbols)
  BY <1>2, <1>4, ConcatProperties
<1> QED
  BY <1>3, <1>5 DEF EncodeRequest, enc

\* and a stream of requests.
LEMMA StreamType ==
  ASSUME NEW requests \in Seq(Seq(Seq(Symbols)))
  PROVE  /\ [i \in DOMAIN requests |-> EncodeRequest(requests[i])] \in Seq(Seq(Symbols))
         /\ Stream(requests) \in Seq(Symbols)
<1> DEFINE enc == [i \in DOMAIN requests |-> EncodeRequest(requests[i])]
<1>3. enc \in Seq(Seq(Symbols))
  <2>1. \A i \in 1 .. Len(requests) : requests[i] \in Seq(Seq(Symbols))
    OBVIOUS
  <2>2. \A i \in 1 .. Len(requests) : EncodeRequest(requests[i]) \in Seq(Symbols)
    BY <2>1, EncodeRequestType
  <2>3. DOMAIN requests = 1 .. Len(requests) /\ Len(requests) \in Nat
    OBVIOUS
  <2> QED
    BY <2>2, <2>3, IsASeq
<1> HIDE DEF enc
<1>4. FlattenSeq(enc) \in Seq(Symbols)
  BY <1>3, FlattenType
<1> QED
  BY <1>3, <1>4 DEF Stream, enc

(***************************************************************************)
(* The context keeps its shape.                                            *)
(***************************************************************************)

\* The values of a decode_context.
Contexts ==
  [state : {"INIT", "PARSE_ELEMENTS", "PARSE_BLUK_STRINGS"}, reading_list_size : Nat,
   reading_str_size : Nat, req_list : Seq(Seq(Symbols)), last_command_id : Nat]
\* What parse works on.
Decodings ==
  [ctx : Contexts, calls : Seq([id : Nat, args : Seq(Seq(Symbols))]),
   outcome : {"returned", "threw"}]

\* The calls are counted, and an exception leaves parse between two requests only.
WellFormed(d) ==
  /\ d \in Decodings
  /\ d.ctx.last_command_id = Len(d.calls)
  /\ d.ctx.state = "INIT" => d.ctx.req_list = << >>
  /\ d.outcome = "threw" => d.ctx.state = "INIT"

\* A context with new contents is one.
LEMMA DecodingIs ==
  ASSUME NEW state \in {"INIT", "PARSE_ELEMENTS", "PARSE_BLUK_STRINGS"},
         NEW ls \in Nat, NEW ss \in Nat, NEW list \in Seq(Seq(Symbols)), NEW id \in Nat,
         NEW made \in Seq([id : Nat, args : Seq(Seq(Symbols))]), id = Len(made),
         state = "INIT" => list = << >>
  PROVE  WellFormed(Decoding(Context(state, ls, ss, list, id), made))
BY DEF WellFormed, Decodings, Contexts, Decoding, Context

\* A list with an element more, and the calls with the one for it.
LEMMA PushElementForm ==
  ASSUME NEW d, WellFormed(d), d.outcome = "returned", NEW element \in Seq(Symbols)
  PROVE  WellFormed(PushElement(d, element))
<1> DEFINE c == d.ctx
           list == Append(c.req_list, element)
<1>1. /\ c.req_list \in Seq(Seq(Symbols)) /\ c.reading_list_size \in Nat
      /\ c.last_command_id \in Nat /\ c.last_command_id = Len(d.calls)
      /\ d.calls \in Seq([id : Nat, args : Seq(Seq(Symbols))])
  BY DEF WellFormed, Decodings, Contexts
<1>2. list \in Seq(Seq(Symbols))
  BY <1>1
<1> HIDE DEF list
<1>3. /\ Called(d, list) \in Seq([id : Nat, args : Seq(Seq(Symbols))])
      /\ Len(Called(d, list)) = c.last_command_id + 1
  BY <1>1, <1>2 DEF Called
<1>4. WellFormed(CallHandler(d, list))
  <2>1. << >> \in Seq(Seq(Symbols))
    OBVIOUS
  <2>2. c.last_command_id + 1 \in Nat
    BY <1>1
  <2>3. WellFormed(Decoding(Context("INIT", 0, 0, << >>, c.last_command_id + 1), Called(d, list)))
    BY <1>3, <2>1, <2>2, DecodingIs
  <2> QED
    BY <2>3 DEF CallHandler
<1>5. WellFormed(Decoding(Context("PARSE_ELEMENTS", c.reading_list_size, 0, list, c.last_command_id),
                          d.calls))
  BY <1>1, <1>2, DecodingIs
<1> QED
  BY <1>4, <1>5, Zenon DEF PushElement, list

\* Whatever a token is, handling it leaves a well-formed context.
LEMMA HandleTokenForm ==
  ASSUME NEW d, WellFormed(d), d.outcome = "returned", NEW token \in Seq(Symbols)
  PROVE  WellFormed(HandleToken(d, token))
<1> DEFINE c == d.ctx
<1>1. /\ c.req_list \in Seq(Seq(Symbols)) /\ c.reading_list_size \in Nat
      /\ c.reading_str_size \in Nat
      /\ c.last_command_id \in Nat /\ c.last_command_id = Len(d.calls)
      /\ d.calls \in Seq([id : Nat, args : Seq(Seq(Symbols))])
      /\ c.state \in {"INIT", "PARSE_ELEMENTS", "PARSE_BLUK_STRINGS"}
      /\ c.state = "INIT" => c.req_list = << >>
  BY DEF WellFormed, Decodings, Contexts
<1>2. token # << >> => token[1].n \in Nat
  <2>1. token # << >> => token[1] \in Symbols
    OBVIOUS
  <2>2. \A x \in Symbols : x.n \in Nat
    BY DEF Symbols
  <2> QED
    BY <2>1, <2>2
<1>3. << >> \in Seq(Symbols)
  OBVIOUS
<1>4. CASE c.state = "INIT"
  <2>1. CASE token # << >> /\ IsHeader(token[1])
    <3>1. WellFormed(Decoding(Context("PARSE_ELEMENTS", token[1].n, c.reading_str_size, c.req_list,
                                      c.last_command_id), d.calls))
      BY <1>1, <1>2, <2>1, DecodingIs
    <3>2. InitToken(d, token) = Decoding(Context("PARSE_ELEMENTS", token[1].n, c.reading_str_size,
                                                 c.req_list, c.last_command_id), d.calls)
      BY <2>1, Zenon DEF InitToken
    <3> QED
      BY <1>4, <3>1, <3>2, Zenon DEF HandleToken
  <2>2. CASE ~(token # << >> /\ IsHeader(token[1]))
    <3>1. WellFormed(Throw(d))
      BY <1>4 DEF WellFormed, Throw, Decodings
    <3>2. InitToken(d, token) = Throw(d)
      BY <2>2, Zenon DEF InitToken
    <3> QED
      BY <1>4, <3>1, <3>2, Zenon DEF HandleToken
  <2> QED
    BY <2>1, <2>2
<1>5. CASE c.state = "PARSE_ELEMENTS"
  <2>1. WellFormed(PushElement(d, << >>))
    BY <1>3, PushElementForm
  <2>2. WellFormed(Decoding(Context(c.state, c.reading_list_size, c.reading_str_size,
                                    Append(c.req_list, token), c.last_command_id), d.calls))
    <3>1. Append(c.req_list, token) \in Seq(Seq(Symbols))
      BY <1>1
    <3> QED
      BY <1>1, <1>5, <3>1, DecodingIs
  <2>3. token # << >> =>
          WellFormed(Decoding(Context("PARSE_BLUK_STRINGS", c.reading_list_size, token[1].n,
                                      c.req_list, c.last_command_id), d.calls))
    BY <1>1, <1>2, DecodingIs
  <2>4. WellFormed(ElementToken(d, token))
    BY <2>1, <2>2, <2>3, Zenon DEF ElementToken
  <2>5. HandleToken(d, token) = ElementToken(d, token)
    <3>1. "INIT" # "PARSE_ELEMENTS"
      OBVIOUS
    <3> QED
      BY <1>5, Zenon DEF HandleToken
  <2> QED
    BY <2>4, <2>5
<1>6. CASE c.state = "PARSE_BLUK_STRINGS"
  <2>1. WellFormed(PushElement(d, token))
    BY PushElementForm
  <2>2. WellFormed(StringToken(d, token))
    BY <2>1, Zenon DEF StringToken
  <2>3. HandleToken(d, token) = StringToken(d, token)
    BY <1>6, Zenon DEF HandleToken
  <2> QED
    BY <2>2, <2>3
<1> QED
  BY <1>1, <1>4, <1>5, <1>6

\* So does a scan, at each of its places.
LEMMA ScanKeepsForm ==
  ASSUME NEW buf \in Seq(Symbols), NEW d, WellFormed(d), NEW f, ScannedTo(f, d, buf, Len(buf))
  PROVE  \A i \in 0 .. Len(buf) : WellFormed(f[i].d)
<1>0. Len(buf) \in Nat
  OBVIOUS
<1>1. f[0] = At(d, 1) /\ \A i \in 1 .. Len(buf) : f[i] = ScanAt(buf, f[i - 1], i)
  BY <1>0, ScanSteps
<1>2. \A i \in 0 .. Len(buf) : Settled(buf, f[i], i)
  BY <1>0, ScanSettles
<1> DEFINE S == {i \in Nat : i <= Len(buf) => WellFormed(f[i].d)}
<1>3. 0 \in S
  <2>1. f[0].d = d
    BY <1>1 DEF At
  <2> QED
    BY <2>1
<1>4. ASSUME NEW i \in Nat, i \in S PROVE i + 1 \in S
  <2> SUFFICES ASSUME i + 1 <= Len(buf) PROVE WellFormed(f[i + 1].d)
    OBVIOUS
  <2>1. PICK m \in 1 .. Len(buf) : m = i + 1 /\ m - 1 = i
    BY <1>0
  <2>2. PICK e, a : f[m - 1] = At(e, a) /\ a \in Nat \ {0}
    <3>1. Settled(buf, f[m - 1], m - 1)
      BY <1>0, <1>2, <2>1
    <3>2. f[m - 1] = At(f[m - 1].d, f[m - 1].start) /\ f[m - 1].start \in Nat \ {0}
      BY <3>1, <2>1 DEF Settled
    <3> QED
      BY <3>2, Zenon
  <2>3. WellFormed(e)
    BY <1>0, <1>4, <2>1, <2>2 DEF At
  <2>4. f[m] = ScanAt(buf, At(e, a), m)
    BY <1>1, <2>2
  <2>5. CASE Idle(buf, At(e, a), m)
    <3>1. f[m] = At(e, a)
      BY <2>4, <2>5, TurnIs
    <3> QED
      BY <2>1, <2>3, <3>1 DEF At
  <2>6. CASE ~Idle(buf, At(e, a), m)
    <3>1. f[m] = At(HandleToken(e, Piece(buf, a, m - 1)), m + 2)
      BY <2>4, <2>6, TurnIs
    <3>2. Piece(buf, a, m - 1) \in Seq(Symbols)
      <4>1. \A j \in a .. m - 1 : buf[j] \in Symbols
        BY <1>0, <2>2
      <4>2. a \in Int /\ m - 1 \in Int
        BY <2>2
      <4>3. SubSeq(buf, a, m - 1) \in Seq(Symbols)
        BY <4>1, <4>2, SubSeqProperties
      <4> QED
        BY <4>3 DEF Piece
    <3>3. e.outcome = "returned"
      <4>1. e.outcome # "threw"
        BY <2>6 DEF Idle, At
      <4> QED
        BY <2>3, <4>1 DEF WellFormed, Decodings
    <3> DEFINE e2 == HandleToken(e, Piece(buf, a, m - 1))
    <3>4. WellFormed(e2)
      BY <2>3, <3>2, <3>3, HandleTokenForm
    <3> HIDE DEF e2
    <3>5. f[m].d = e2
      BY <3>1 DEF At, e2
    <3> QED
      BY <2>1, <3>4, <3>5
  <2> QED
    BY <2>5, <2>6
<1> HIDE DEF S
<1>5. Nat \subseteq S
  BY <1>3, <1>4, NatSet
<1>6. \A i \in 0 .. Len(buf) : i \in Nat /\ i <= Len(buf)
  BY <1>0
<1> QED
  BY <1>5, <1>6 DEF S

(***************************************************************************)
(* What has been read, and what is in the buffer.                          *)
(***************************************************************************)

\* A piece of a sequence of symbols.
LEMMA PieceIs ==
  ASSUME NEW all \in Seq(Symbols), NEW a \in Nat \ {0}, NEW b \in Nat, b <= Len(all),
         a <= b + 1
  PROVE  /\ Piece(all, a, b) \in Seq(Symbols)
         /\ Len(Piece(all, a, b)) = (b - a) + 1
         /\ \A j \in 1 .. (b - a) + 1 : Piece(all, a, b)[j] = all[(a + j) - 1]
<1>1. \A i \in a .. b : all[i] \in Symbols
  OBVIOUS
<1>2. a \in Int /\ b \in Int
  OBVIOUS
<1>3. /\ SubSeq(all, a, b) \in Seq(Symbols)
      /\ Len(SubSeq(all, a, b)) = IF a <= b THEN b - a + 1 ELSE 0
      /\ \A i \in 1 .. b - a + 1 : SubSeq(all, a, b)[i] = all[a + i - 1]
  BY <1>1, <1>2, SubSeqProperties
<1>4. \A j \in Int : a + j - 1 = (a + j) - 1
  OBVIOUS
<1> QED
  BY <1>3, <1>4 DEF Piece

\* A beginning.
LEMMA BeginningIs ==
  ASSUME NEW all \in Seq(Symbols), NEW n \in Nat, n <= Len(all)
  PROVE  /\ Piece(all, 1, n) \in Seq(Symbols) /\ Len(Piece(all, 1, n)) = n
         /\ \A j \in 1 .. n : Piece(all, 1, n)[j] = all[j]
<1>1. \A i \in 1 .. n : all[i] \in Symbols
  OBVIOUS
<1>2. 1 \in Int /\ n \in Int
  OBVIOUS
<1>3. /\ SubSeq(all, 1, n) \in Seq(Symbols)
      /\ Len(SubSeq(all, 1, n)) = IF 1 <= n THEN n - 1 + 1 ELSE 0
      /\ \A i \in 1 .. n - 1 + 1 : SubSeq(all, 1, n)[i] = all[1 + i - 1]
  BY <1>1, <1>2, SubSeqProperties
<1> QED
  BY <1>3 DEF Piece

\* A piece of a piece.
LEMMA PieceOfPiece ==
  ASSUME NEW all \in Seq(Symbols), NEW n \in Nat, n <= Len(all),
         NEW a \in Nat \ {0}, NEW b \in Nat, n + b <= Len(all), a <= b + 1
  PROVE  Piece(Piece(all, n + 1, Len(all)), a, b) = Piece(all, n + a, n + b)
<1> DEFINE w == Piece(all, n + 1, Len(all))
<1>1. /\ w \in Seq(Symbols) /\ Len(w) = Len(all) - n
      /\ \A j \in 1 .. Len(all) - n : w[j] = all[n + j]
  <2>1. n + 1 \in Nat \ {0} /\ Len(all) \in Nat /\ Len(all) <= Len(all) /\ n + 1 <= Len(all) + 1
    OBVIOUS
  <2> DEFINE m == n + 1
             l == Len(all)
  <2> HIDE DEF m
  <2>2. m \in Nat \ {0} /\ l \in Nat /\ l <= Len(all) /\ m <= l + 1
    BY <2>1 DEF m
  <2>3. /\ Piece(all, m, l) \in Seq(Symbols) /\ Len(Piece(all, m, l)) = (l - m) + 1
        /\ \A j \in 1 .. (l - m) + 1 : Piece(all, m, l)[j] = all[(m + j) - 1]
    BY <2>2, PieceIs
  <2>4. (l - m) + 1 = Len(all) - n /\ \A j \in Int : (m + j) - 1 = n + j
    BY DEF m
  <2> QED
    BY <2>3, <2>4 DEF m
<1> HIDE DEF w
<1>2. PartOf(w, all, n)
  <2>1. PICK l \in Nat : l = Len(all)
    OBVIOUS
  <2>2. n + Len(w) <= Len(all) /\ n \in Nat
    BY <1>1, <2>1
  <2>3. \A j \in 1 .. Len(w) : w[j] = all[n + j]
    BY <1>1
  <2> QED
    BY <1>1, <2>2, <2>3 DEF PartOf
<1>3. Piece(w, a, b) = Piece(all, n + a, n + b)
  <2>1. b <= Len(w)
    BY <1>1
  <2> QED
    BY <1>2, <2>1, TokenOfPart
<1> QED
  BY <1>3 DEF w

\* Parse returns where a token begins.
LEMMA ParseEnds ==
  ASSUME NEW buf \in Seq(Symbols), NEW d, WellFormed(d)
  PROVE  /\ Parse(d, buf) = At(Parse(d, buf).d, Parse(d, buf).start)
         /\ Parse(d, buf).start \in 1 .. Len(buf) + 1
         /\ WellFormed(Parse(d, buf).d)
         /\ \A j \in 1 .. Len(buf) : Idle(buf, Parse(d, buf), j)
<1>0. Len(buf) \in Nat /\ Len(buf) \in 0 .. Len(buf)
  OBVIOUS
<1>1. PICK f : ScannedTo(f, d, buf, Len(buf)) /\ Parse(d, buf) = f[Len(buf)]
  BY <1>0, ParseIs
<1>2. Settled(buf, f[Len(buf)], Len(buf))
  BY <1>0, <1>1, ScanSettles
<1>3. WellFormed(f[Len(buf)].d)
  BY <1>0, <1>1, ScanKeepsForm
<1> QED
  BY <1>0, <1>1, <1>2, <1>3 DEF Settled

\* Parsing what parsing a beginning has left, with k symbols more, in the state it has
\* come to, is parsing the longer beginning.
GoesOn(all, d, n, k, once, rest, s, twice) ==
  /\ once = Parse(d, Piece(all, 1, n))
  /\ rest = Piece(Piece(all, 1, n), once.start, n) \o Piece(all, n + 1, n + k)
  /\ s = Parse(once.d, rest)
  /\ twice = Parse(d, Piece(all, 1, n + k))
  /\ twice.d = s.d
  /\ Piece(rest, s.start, Len(rest)) = Piece(Piece(all, 1, n + k), twice.start, n + k)
  /\ rest \in Seq(Symbols)

\* The loop of parse goes on so, whatever the beginning.
LEMMA ParseGoesOn ==
  ASSUME NEW all \in Seq(Symbols), NEW d, WellFormed(d),
         NEW n \in Nat, NEW k \in Nat, n + k <= Len(all)
  PROVE  \E once, rest, s, twice : GoesOn(all, d, n, k, once, rest, s, twice)
<1>0. Len(all) \in Nat /\ n <= Len(all) /\ n + k \in Nat /\ 1 \in Nat \ {0} /\ n + 1 \in Nat \ {0}
  OBVIOUS
<1> DEFINE part == Piece(all, 1, n)
           whole == Piece(all, 1, n + k)
           new == Piece(all, n + 1, n + k)
<1>a. PICK once : once = Parse(d, part)
  OBVIOUS
<1>b. PICK rest : rest = Piece(part, once.start, n) \o new
  OBVIOUS
<1>c. PICK s : s = Parse(once.d, rest)
  OBVIOUS
<1>d. PICK twice : twice = Parse(d, whole)
  OBVIOUS
<1>1. part \in Seq(Symbols) /\ Len(part) = n /\ \A j \in 1 .. n : part[j] = all[j]
  BY <1>0, BeginningIs
<1>2. whole \in Seq(Symbols) /\ Len(whole) = n + k /\ \A j \in 1 .. n + k : whole[j] = all[j]
  <2> DEFINE m == n + k
  <2> HIDE DEF m
  <2>1. m \in Nat /\ m <= Len(all)
    BY <1>0 DEF m
  <2>2. /\ Piece(all, 1, m) \in Seq(Symbols) /\ Len(Piece(all, 1, m)) = m
        /\ \A j \in 1 .. m : Piece(all, 1, m)[j] = all[j]
    BY <2>1, BeginningIs
  <2> QED
    BY <2>2 DEF m
<1>3. new \in Seq(Symbols) /\ Len(new) = k /\ \A j \in 1 .. k : new[j] = all[n + j]
  <2> DEFINE m == n + k
             a == n + 1
  <2> HIDE DEF m, a
  <2>1. m \in Nat /\ m <= Len(all) /\ a \in Nat \ {0} /\ a <= m + 1 /\ (m - a) + 1 = k
        /\ \A j \in 1 .. k : (a + j) - 1 = n + j
    BY <1>0 DEF m, a
  <2>3. /\ Piece(all, a, m) \in Seq(Symbols) /\ Len(Piece(all, a, m)) = (m - a) + 1
        /\ \A j \in 1 .. (m - a) + 1 : Piece(all, a, m)[j] = all[(a + j) - 1]
    BY <2>1, PieceIs
  <2>2. /\ Piece(all, a, m) \in Seq(Symbols) /\ Len(Piece(all, a, m)) = k
        /\ \A j \in 1 .. k : Piece(all, a, m)[j] = all[n + j]
    BY <2>1, <2>3
  <2> QED
    BY <2>2 DEF m, a
<1> HIDE DEF part, whole, new
<1>4. PICK f : ScannedTo(f, d, part, n) /\ once = f[n] /\ f[n] = At(f[n].d, f[n].start)
               /\ f[n].start \in 1 .. n + 1
  <2>1. PICK f : ScannedTo(f, d, part, Len(part)) /\ Parse(d, part) = f[Len(part)]
    BY <1>1, ParseIs
  <2>2. once = Parse(d, part)
    BY <1>a
  <2>3. Parse(d, part) = At(Parse(d, part).d, Parse(d, part).start)
        /\ Parse(d, part).start \in 1 .. Len(part) + 1
    BY <1>1, ParseEnds
  <2> QED
    BY <1>1, <2>1, <2>2, <2>3
<1>5. PICK off \in Nat, e \in {once.d} : f[n] = At(e, off + 1) /\ off <= n /\ once.d = e /\ once.start = off + 1
  <2>1. once.start - 1 \in Nat /\ (once.start - 1) + 1 = once.start /\ once.start - 1 <= n
    BY <1>4
  <2> QED
    BY <1>4, <2>1
<1>6. PICK g : ScannedTo(g, d, whole, n + k) /\ twice = g[n + k]
  <2>1. PICK g : ScannedTo(g, d, whole, Len(whole)) /\ Parse(d, whole) = g[Len(whole)]
    <3>1. Len(whole) \in Nat
      BY <1>2
    <3> QED
      BY <3>1, ParseIs
  <2> QED
    BY <1>2, <1>d, <2>1
<1> DEFINE old == Piece(part, off + 1, n)
<1>7. old \in Seq(Symbols) /\ Len(old) = n - off /\ \A j \in 1 .. n - off : old[j] = all[off + j]
  <2> DEFINE a == off + 1
  <2>1. a \in Nat \ {0} /\ a <= n + 1 /\ n <= Len(part) /\ (n - a) + 1 = n - off
        /\ \A j \in 1 .. n - off : (a + j) - 1 = off + j /\ off + j \in 1 .. n
    BY <1>1, <1>5
  <2> HIDE DEF a
  <2>3. /\ Piece(part, a, n) \in Seq(Symbols) /\ Len(Piece(part, a, n)) = (n - a) + 1
        /\ \A j \in 1 .. (n - a) + 1 : Piece(part, a, n)[j] = part[(a + j) - 1]
    BY <1>1, <2>1, PieceIs
  <2>2. /\ Piece(part, a, n) \in Seq(Symbols) /\ Len(Piece(part, a, n)) = n - off
        /\ \A j \in 1 .. n - off : Piece(part, a, n)[j] = part[off + j]
    BY <2>1, <2>3
  <2> QED
    BY <1>1, <2>1, <2>2 DEF a
<1>8. rest = old \o new
  BY <1>5, <1>b
<1> HIDE DEF old
<1>9. /\ rest \in Seq(Symbols) /\ Len(rest) = Len(old) + Len(new)
      /\ \A j \in 1 .. Len(old) + Len(new) :
           rest[j] = IF j <= Len(old) THEN old[j] ELSE new[j - Len(old)]
  BY <1>3, <1>7, <1>8, ConcatProperties
<1>10. PartOf(rest, whole, off) /\ off + Len(rest) = Len(whole)
  <2>1. Len(rest) = (n - off) + k /\ off + Len(rest) = Len(whole)
    BY <1>2, <1>3, <1>5, <1>7, <1>9
  <2>2. ASSUME NEW j \in 1 .. Len(rest) PROVE rest[j] = whole[off + j]
    <3>1. CASE j <= n - off
      <4>1. j \in 1 .. n - off /\ off + j \in 1 .. n + k /\ j \in 1 .. Len(old) + Len(new) /\ j <= Len(old)
        BY <1>3, <1>5, <1>7, <2>1, <3>1
      <4> QED
        BY <1>2, <1>7, <1>9, <4>1
    <3>2. CASE ~(j <= n - off)
      <4>1. j - (n - off) \in 1 .. k /\ n + (j - (n - off)) = off + j /\ off + j \in 1 .. n + k
            /\ j \in 1 .. Len(old) + Len(new) /\ ~(j <= Len(old))
        BY <1>3, <1>5, <1>7, <2>1, <3>2
      <4>2. rest[j] = new[j - (n - off)]
        BY <1>7, <1>9, <4>1
      <4>3. new[j - (n - off)] = all[off + j]
        BY <1>3, <4>1
      <4> QED
        BY <1>2, <4>1, <4>2, <4>3
    <3> QED
      BY <3>1, <3>2
  <2> QED
    BY <1>2, <1>9, <2>1, <2>2 DEF PartOf
<1>11. PICK h : ScannedTo(h, e, rest, Len(rest)) /\ s = h[Len(rest)]
  <2>1. Len(rest) \in Nat
    BY <1>9
  <2>2. PICK h : ScannedTo(h, e, rest, Len(rest)) /\ Parse(e, rest) = h[Len(rest)]
    BY <2>1, ParseIs
  <2> QED
    BY <1>5, <1>c, <2>2
<1>12. Moved(off, h[Len(rest)], g[Len(whole)])
  <2>1. ScannedTo(f, d, SubSeq(whole, 1, n), n)
    <3>1. part = SubSeq(whole, 1, n)
      <4>0. n <= Len(whole)
        BY <1>2
      <4>1. /\ Piece(whole, 1, n) \in Seq(Symbols) /\ Len(Piece(whole, 1, n)) = n
            /\ \A j \in 1 .. n : Piece(whole, 1, n)[j] = whole[j]
        BY <1>2, <4>0, BeginningIs
      <4> DEFINE x == Piece(whole, 1, n)
      <4>3. x \in Seq(Symbols) /\ Len(x) = Len(part) /\ \A j \in 1 .. Len(x) : x[j] = part[j]
        BY <1>1, <1>2, <4>1
      <4> HIDE DEF x
      <4>4. x = part
        BY <1>1, <4>3, SeqEqual
      <4> QED
        BY <4>4 DEF x, Piece
    <3> QED
      BY <1>4, <3>1
  <2>2. n \in 0 .. Len(whole) /\ ScannedTo(g, d, whole, Len(whole))
    BY <1>2, <1>6
  <2> QED
    BY <1>2, <1>5, <1>10, <1>11, <2>1, <2>2, ScanGoesOn
<1>13. /\ s = At(s.d, s.start) /\ s.start \in Nat \ {0} /\ twice = At(s.d, off + s.start)
  <2>1. Moved(off, s, twice)
    BY <1>2, <1>6, <1>11, <1>12
  <2> QED
    BY <2>1 DEF Moved
<1>14. twice.d = s.d /\ twice.start = off + s.start
  BY <1>13 DEF At
<1>15. Piece(rest, s.start, Len(rest)) = Piece(whole, off + s.start, off + Len(rest))
  <2> DEFINE a == s.start
             b == Len(rest)
  <2>1. a \in Nat \ {0} /\ b \in Nat /\ b <= Len(rest)
    BY <1>9, <1>13
  <2> HIDE DEF a, b
  <2>2. Piece(rest, a, b) = Piece(whole, off + a, off + b)
    BY <1>10, <2>1, TokenOfPart
  <2> QED
    BY <2>2 DEF a, b
<1> QED
  <2>1. off + Len(rest) = n + k
    BY <1>2, <1>10
  <2>2. Piece(rest, s.start, Len(rest)) = Piece(whole, twice.start, n + k)
    BY <1>14, <1>15, <2>1
  <2> QED
    BY <1>a, <1>b, <1>c, <1>d, <1>9, <1>14, <2>2 DEF part, whole, new, GoesOn

\* The client has sent n symbols of its requests, and they have been read.
ReadTo(n) ==
  n \in 0 .. Len(Stream(script)) /\ wire = Piece(Stream(script), n + 1, Len(Stream(script)))

\* What has been read is the beginning of the stream, the wire has the rest.
FragInv ==
  /\ script \in Scripts
  /\ \E n \in Nat : ReadTo(n)
  /\ FragmentationIrrelevant

\* What the client sends is a sequence of symbols.
LEMMA ScriptType ==
  ASSUME script \in Scripts
  PROVE  /\ script \in Seq(Seq(Seq(Symbols))) /\ Stream(script) \in Seq(Symbols)
         /\ Len(Stream(script)) \in Nat
<1>1. script \in Seq(Seq(Seq(Symbols)))
  BY DecoderAssumption DEF DecoderAssumption
<1>2. Stream(script) \in Seq(Symbols)
  BY <1>1, StreamType
<1> QED
  BY <1>1, <1>2, LenProperties

\* The length of what is left when n symbols have been read.
LEMMA RestLength ==
  ASSUME NEW all \in Seq(Symbols), NEW n \in Nat, n <= Len(all)
  PROVE  Len(Piece(all, n + 1, Len(all))) = Len(all) - n
<1> DEFINE l == Len(all)
           a == n + 1
<1>1. a \in Nat \ {0} /\ l \in Nat /\ l <= Len(all) /\ a <= l + 1 /\ (l - a) + 1 = l - n
  OBVIOUS
<1> HIDE DEF a, l
<1>2. Len(Piece(all, a, l)) = (l - a) + 1
  BY <1>1, PieceIs
<1> QED
  BY <1>1, <1>2 DEF a, l

\* Consumed is what has been read.
LEMMA ConsumedIs ==
  ASSUME script \in Scripts, NEW n \in Nat, ReadTo(n)
  PROVE  /\ Consumed = Piece(Stream(script), 1, n)
         /\ Len(wire) = Len(Stream(script)) - n
         /\ n <= Len(Stream(script))
<1> DEFINE all == Stream(script)
           l == Len(all)
<1>1. all \in Seq(Symbols) /\ l \in Nat
  BY ScriptType
<1>2. n <= l /\ wire = Piece(all, n + 1, l)
  BY <1>1 DEF ReadTo
<1> HIDE DEF all
<1>3. Len(wire) = l - n
  BY <1>1, <1>2, RestLength
<1>4. Consumed = SubSeq(all, 1, l - Len(wire))
  BY DEF Consumed, all, l
<1>5. l - Len(wire) = n
  BY <1>1, <1>2, <1>3
<1> QED
  BY <1>2, <1>3, <1>4, <1>5 DEF Piece, all, l

\* The decoder as it is before the first read.
LEMMA NewIsWellFormed == WellFormed(Decoding(NewContext, << >>))
<1>1. << >> \in Seq(Seq(Symbols)) /\ << >> \in Seq([id : Nat, args : Seq(Seq(Symbols))])
      /\ Len(<< >>) = 0
  OBVIOUS
<1>2. WellFormed(Decoding(Context("INIT", 0, 0, << >>, 0), << >>))
  BY <1>1, DecodingIs
<1> QED
  BY <1>2 DEF NewContext

\* Nothing has been read.
LEMMA InitFrag == Init => FragInv
<1> SUFFICES ASSUME Init PROVE FragInv
  OBVIOUS
<1> DEFINE all == Stream(script)
           new == Decoding(NewContext, << >>)
<1>1. script \in Scripts /\ wire = all /\ all \in Seq(Symbols) /\ Len(all) \in Nat
  BY ScriptType DEF Init
<1>2. ReadTo(0)
  <2> DEFINE l == Len(all)
             x == Piece(all, 1, l)
  <2>1. x \in Seq(Symbols) /\ Len(x) = l /\ \A j \in 1 .. l : x[j] = all[j]
    <3>1. l <= Len(all) /\ l \in Nat
      BY <1>1
    <3> QED
      BY <1>1, <3>1, BeginningIs
  <2> HIDE DEF x, all
  <2>2. x = all
    BY <1>1, <2>1, SeqEqual
  <2>3. 0 + 1 = 1 /\ 0 \in 0 .. l
    BY <1>1
  <2> QED
    BY <1>1, <2>2, <2>3 DEF ReadTo, x, all
<1>3. Consumed = Piece(all, 1, 0)
  BY <1>1, <1>2, ConsumedIs
<1>4. Consumed \in Seq(Symbols) /\ Len(Consumed) = 0
  <2>1. 0 \in Nat /\ 0 <= Len(all)
    BY <1>1
  <2>2. Piece(all, 1, 0) \in Seq(Symbols) /\ Len(Piece(all, 1, 0)) = 0
    BY <1>1, <2>1, BeginningIs
  <2> QED
    BY <1>3, <2>2
<1> HIDE DEF new
<1>5. PICK f : ScannedTo(f, new, Consumed, 0) /\ Parse(new, Consumed) = f[0]
  BY <1>4, ParseIs
<1>6. f[0] = At(new, 1)
  BY <1>5, ScanSteps
<1>7. Parse(new, Consumed).d = new /\ Parse(new, Consumed).start = 1
  BY <1>5, <1>6 DEF At
<1>8. new = [ctx |-> ctx, calls |-> calls, outcome |-> outcome]
  BY DEF new, Init, Decoding
<1>9. buffered_input = SubSeq(Consumed, 1, Len(Consumed))
  <2>1. Consumed = << >>
    BY <1>4, EmptySeq
  <2>2. SubSeq(<< >>, 1, 0) = << >>
    OBVIOUS
  <2> QED
    BY <1>4, <2>1, <2>2 DEF Init
<1>10. FragmentationIrrelevant
  BY <1>7, <1>8, <1>9 DEF FragmentationIrrelevant, new
<1> QED
  BY <1>1, <1>2, <1>10 DEF FragInv

\* The next piece is read.
LEMMA ReadFrag ==
  ASSUME FragInv, NEW k \in 1 .. ReadSize, Read(k)
  PROVE  FragInv'
<1> DEFINE all == Stream(script)
           d == Decoding(NewContext, << >>)
<1>1. script \in Scripts /\ all \in Seq(Symbols) /\ Len(all) \in Nat /\ script' = script
  BY ScriptType DEF FragInv, Read
<1>2. k \in Nat
  BY DecoderAssumption DEF DecoderAssumption
<1>3. PICK n \in Nat : ReadTo(n)
  BY DEF FragInv
<1>4. Consumed = Piece(all, 1, n) /\ Len(wire) = Len(all) - n /\ n <= Len(all)
  BY <1>1, <1>3, ConsumedIs
<1>5. n + k <= Len(all) /\ n + k \in Nat
  BY <1>1, <1>2, <1>4 DEF Read
<1>6. WellFormed(d)
  BY NewIsWellFormed
<1>7. wire = Piece(all, n + 1, Len(all))
  BY <1>3 DEF ReadTo
<1>8. SubSeq(wire, 1, k) = Piece(all, n + 1, n + k)
  <2>1. 1 \in Nat \ {0} /\ 1 <= k + 1
    BY <1>2
  <2>2. Piece(Piece(all, n + 1, Len(all)), 1, k) = Piece(all, n + 1, n + k)
    BY <1>1, <1>2, <1>4, <1>5, <2>1, PieceOfPiece
  <2> QED
    BY <1>7, <2>2 DEF Piece
<1>9. ReadTo(n + k)'
  <2> DEFINE a == k + 1
             b == Len(all) - n
  <2>1. a \in Nat \ {0} /\ b \in Nat /\ n + b <= Len(all) /\ a <= b + 1 /\ n + a = (n + k) + 1
        /\ n + b = Len(all)
    BY <1>1, <1>2, <1>4, <1>5
  <2> HIDE DEF a, b
  <2>2. Piece(Piece(all, n + 1, Len(all)), a, b) = Piece(all, n + a, n + b)
    BY <1>1, <1>4, <2>1, PieceOfPiece
  <2>3. wire' = Piece(wire, a, b)
    BY <1>4 DEF Read, a, b, Piece
  <2>4. wire' = Piece(all, (n + k) + 1, Len(all))
    BY <1>7, <2>1, <2>2, <2>3
  <2>5. n + k \in 0 .. Len(all)
    BY <1>1, <1>5
  <2> QED
    BY <1>1, <2>4, <2>5 DEF ReadTo, Piece
<1>10. Consumed' = Piece(all, 1, n + k)
  <2> DEFINE m == n + k
             l == Len(all)
  <2>1. m \in Nat /\ m <= l /\ wire' = Piece(all, m + 1, l)
    BY <1>1, <1>5, <1>9 DEF ReadTo, Piece
  <2>2. Consumed' = SubSeq(all, 1, l - Len(wire'))
    BY <1>1 DEF Consumed
  <2> HIDE DEF m, all
  <2>3. Len(wire') = l - m
    BY <1>1, <2>1, RestLength
  <2>4. l - Len(wire') = m
    BY <1>1, <2>1, <2>3
  <2> QED
    BY <2>2, <2>4 DEF Piece, m
<1> HIDE DEF all, d
<1>g. PICK once, rest, s, twice : GoesOn(all, d, n, k, once, rest, s, twice)
  BY <1>1, <1>2, <1>5, <1>6, ParseGoesOn
<1>11. /\ once = Parse(d, Piece(all, 1, n))
       /\ rest = Piece(Piece(all, 1, n), once.start, n) \o Piece(all, n + 1, n + k)
       /\ s = Parse(once.d, rest)
       /\ twice = Parse(d, Piece(all, 1, n + k))
       /\ twice.d = s.d
       /\ Piece(rest, s.start, Len(rest)) = Piece(Piece(all, 1, n + k), twice.start, n + k)
       /\ rest \in Seq(Symbols)
  BY <1>g DEF GoesOn
<1>12. /\ once.d = [ctx |-> ctx, calls |-> calls, outcome |-> outcome]
       /\ outcome = "returned"
       /\ buffered_input = SubSeq(Consumed, once.start, Len(Consumed))
  BY <1>4, <1>11 DEF FragInv, FragmentationIrrelevant, Read, d
<1>13. Len(Consumed) = n
  BY <1>1, <1>4, BeginningIs
<1>14. rest = buffered_input \o SubSeq(wire, 1, k) /\ once.d = Decoding(ctx, calls)
  BY <1>4, <1>8, <1>11, <1>12, <1>13 DEF Decoding, Piece
<1>15. s = Parse(Decoding(ctx, calls), buffered_input \o SubSeq(wire, 1, k))
  BY <1>11, <1>14
<1>16. /\ ctx' = s.d.ctx /\ calls' = s.d.calls /\ outcome' = s.d.outcome
       /\ outcome' # "threw" => buffered_input' = SubSeq(rest, s.start, Len(rest))
  BY <1>14, <1>15 DEF Read
<1>17. WellFormed(s.d)
  <2>1. Piece(all, 1, n) \in Seq(Symbols)
    BY <1>1, <1>4, BeginningIs
  <2>2. WellFormed(once.d)
    BY <1>6, <1>11, <2>1, ParseEnds
  <2> QED
    BY <1>11, <2>2, ParseEnds
<1>18. s.d = [ctx |-> ctx', calls |-> calls', outcome |-> outcome'] 
  BY <1>16, <1>17 DEF WellFormed, Decodings
<1>19. Len(Consumed') = n + k
  <2> DEFINE m == n + k
  <2>1. m \in Nat /\ m <= Len(all)
    BY <1>5
  <2> HIDE DEF m
  <2>2. Len(Piece(all, 1, m)) = m
    BY <1>1, <2>1, BeginningIs
  <2> QED
    BY <1>10, <2>2 DEF m
<1>20. twice = Parse(d, Consumed')
  BY <1>10, <1>11
<1>21. outcome' = "returned" => buffered_input' = SubSeq(Consumed', twice.start, Len(Consumed'))
  <2> SUFFICES ASSUME outcome' = "returned"
               PROVE  buffered_input' = SubSeq(Consumed', twice.start, Len(Consumed'))
    OBVIOUS
  <2>1. buffered_input' = Piece(rest, s.start, Len(rest))
    BY <1>16 DEF Piece
  <2>2. buffered_input' = Piece(Consumed', twice.start, n + k)
    BY <1>10, <1>11, <2>1
  <2> QED
    BY <1>19, <2>2 DEF Piece
<1>22. FragmentationIrrelevant'
  <2>1. d' = d /\ twice.d = [ctx |-> ctx', calls |-> calls', outcome |-> outcome']
    BY <1>11, <1>18 DEF d
  <2> QED
    BY <1>20, <1>21, <2>1 DEF FragmentationIrrelevant, d
<1> QED
  BY <1>1, <1>5, <1>9, <1>22 DEF FragInv

(***************************************************************************)
(* The tokens of the stream.                                               *)
(***************************************************************************)

\* g is a scan of the stream.
Scanned(g, all) ==
  all \in Seq(Symbols) /\ \A i \in 1 .. Len(all) : g[i] = ScanAt(all, g[i - 1], i)

\* The token comes behind the first p symbols, with CR LF behind it.
TokenAt(all, p, token) ==
  /\ p \in Nat /\ token \in Seq(Symbols) /\ (p + Len(token)) + 2 <= Len(all)
  /\ \A j \in 1 .. Len(token) : all[p + j] = token[j]
  /\ all[(p + Len(token)) + 1] = CR /\ all[(p + Len(token)) + 2] = LF

\* The token is one the decoder waits for: a string of the length announced, or else
\* one symbol at most, which does not begin a CR LF.
Expected(d, token) ==
  /\ d.outcome = "returned"
  /\ IF d.ctx.state = "PARSE_BLUK_STRINGS" THEN Len(token) = d.ctx.reading_str_size
     ELSE Len(token) = 0 \/ (Len(token) = 1 /\ token[1] # CR)

\* Between two tokens, behind the first q symbols.
Between(g, q, d) == g[q] = At(d, q + 1) /\ (q > 0 => g[q - 1] = At(d, q + 1))

\* The decoder waits until the token has arrived with its CR LF, and handles it then.
LEMMA TokenStep ==
  ASSUME NEW g, NEW all, Scanned(g, all), NEW p, NEW token, TokenAt(all, p, token),
         NEW d, Expected(d, token), g[p] = At(d, p + 1)
  PROVE  /\ \A i \in p .. p + Len(token) : g[i] = At(d, p + 1)
         /\ Between(g, (p + Len(token)) + 2, HandleToken(d, token))
<1> DEFINE n == Len(token)
           s == At(d, p + 1)
<1>0. /\ all \in Seq(Symbols) /\ Len(all) \in Nat /\ p \in Nat /\ token \in Seq(Symbols)
      /\ n \in Nat /\ (p + n) + 2 <= Len(all)
  BY DEF Scanned, TokenAt
<1>1. s.d = d /\ s.start = p + 1
  BY DEF At
<1>2. \A i \in 1 .. Len(all) : g[i] = ScanAt(all, g[i - 1], i)
  BY DEF Scanned
<1>3. PartOf(token, all, p)
  <2>1. p + Len(token) <= Len(all)
    BY <1>0
  <2> QED
    BY <1>0, <2>1 DEF PartOf, TokenAt
<1>4. ASSUME NEW m \in Nat, m <= n PROVE Piece(all, p + 1, p + m) = Piece(token, 1, m)
  <2>1. 1 \in Nat \ {0} /\ m <= Len(token)
    BY <1>4
  <2> QED
    BY <1>3, <2>1, TokenOfPart
<1> HIDE DEF s
<1>5. ASSUME NEW m \in Nat, m < n PROVE Idle(all, s, (p + m) + 1)
  <2>1. CASE d.ctx.state = "PARSE_BLUK_STRINGS"
    <3>1. Len(Piece(token, 1, m)) = m
      <4>1. m <= Len(token)
        BY <1>5
      <4> QED
        BY <1>0, <4>1, BeginningIs
    <3>2. ~TokenDone(d, Piece(all, p + 1, p + m))
      <4>1. Piece(all, p + 1, p + m) = Piece(token, 1, m)
        BY <1>4, <1>5
      <4>2. Len(Piece(all, p + 1, p + m)) = m
        BY <3>1, <4>1
      <4>3. d.ctx.reading_str_size = n
        BY <2>1 DEF Expected
      <4>4. ~(Len(Piece(all, p + 1, p + m)) >= d.ctx.reading_str_size)
        BY <1>5, <4>2, <4>3
      <4> QED
        BY <2>1, <4>4 DEF TokenDone
    <3>3. ((p + m) + 1) - 1 = p + m
      BY <1>0
    <3> QED
      BY <1>1, <3>2, <3>3 DEF Idle
  <2>2. CASE d.ctx.state # "PARSE_BLUK_STRINGS"
    <3>1. n = 1 /\ token[1] # CR
      BY <1>0, <1>5, <2>2 DEF Expected
    <3>2. m = 0 /\ (p + m) + 1 = p + 1 /\ all[p + 1] = token[1]
      <4>1. m = 0
        BY <1>5, <3>1
      <4>2. 1 \in 1 .. Len(token)
        BY <3>1
      <4>3. all[p + 1] = token[1]
        BY <4>2 DEF TokenAt
      <4> QED
        BY <1>0, <4>1, <4>3
    <3>3. ~EndsToken(all, (p + m) + 1)
      BY <3>1, <3>2 DEF EndsToken
    <3> QED
      BY <3>3 DEF Idle
  <2> QED
    BY <2>1, <2>2
<1> DEFINE S == {m \in Nat : m <= n => g[p + m] = s}
<1>6. 0 \in S
  BY <1>0 DEF s
<1>7. ASSUME NEW m \in Nat, m \in S PROVE m + 1 \in S
  <2> SUFFICES ASSUME m + 1 <= n PROVE g[p + (m + 1)] = s
    OBVIOUS
  <2>1. g[p + m] = s
    BY <1>0, <1>7
  <2>2. PICK i \in 1 .. Len(all) : i = p + (m + 1) /\ i - 1 = p + m /\ i = (p + m) + 1
    BY <1>0
  <2>3. g[i] = ScanAt(all, s, i)
    BY <1>2, <2>1, <2>2
  <2>4. Idle(all, s, i)
    <3>1. m < n
      BY <1>0
    <3> QED
      BY <1>5, <2>2, <3>1
  <2> QED
    BY <2>2, <2>3, <2>4, TurnIs DEF s
<1> HIDE DEF S
<1>8. Nat \subseteq S
  BY <1>6, <1>7, NatSet
<1>9. ASSUME NEW i \in p .. p + n PROVE g[i] = s
  <2>1. i - p \in Nat /\ i - p <= n /\ p + (i - p) = i
    BY <1>0
  <2>2. i - p \in S
    BY <1>8, <2>1
  <2>3. i - p <= n => g[p + (i - p)] = s
    BY <2>2 DEF S
  <2> QED
    BY <2>1, <2>3
<1> DEFINE i == (p + n) + 1
           e == HandleToken(d, token)
<1>10. i \in 1 .. Len(all) /\ i - 1 = p + n /\ i + 1 \in 1 .. Len(all) /\ i < Len(all)
       /\ i + 1 = (p + n) + 2 /\ (i + 1) - 1 = i /\ i + 2 = ((p + n) + 2) + 1 /\ p + n \in p .. p + n
  BY <1>0
<1>11. EndsToken(all, i)
  BY <1>10 DEF TokenAt, EndsToken
<1>12. Piece(all, p + 1, i - 1) = token
  <2>1. Piece(all, p + 1, p + n) = Piece(token, 1, n)
    BY <1>0, <1>4
  <2> DEFINE x == Piece(token, 1, n)
  <2>2. x \in Seq(Symbols) /\ Len(x) = Len(token) /\ \A j \in 1 .. Len(x) : x[j] = token[j]
    <3>1. n <= Len(token)
      BY <1>0
    <3> QED
      BY <1>0, <3>1, BeginningIs
  <2> HIDE DEF x
  <2>3. x = token
    BY <1>0, <2>2, SeqEqual
  <2> QED
    BY <1>10, <2>1, <2>3 DEF x
<1>13. TokenDone(d, token)
  BY <1>0 DEF TokenDone, Expected
<1>14. ~Idle(all, s, i)
  <2>1. ~(i < p + 1)
    BY <1>0
  <2>2. d.outcome # "threw"
    BY DEF Expected
  <2> QED
    BY <1>1, <1>11, <1>12, <1>13, <2>1, <2>2 DEF Idle
<1>15. g[i] = At(e, i + 2)
  <2>1. g[i] = ScanAt(all, s, i)
    BY <1>2, <1>9, <1>10
  <2>2. ScanAt(all, At(d, p + 1), i) = At(HandleToken(d, Piece(all, p + 1, i - 1)), i + 2)
    <3> HIDE DEF i
    <3> QED
      BY <1>14, TurnIs DEF s
  <2> QED
    BY <1>12, <2>1, <2>2 DEF s
<1> HIDE DEF e
<1>16. g[i + 1] = At(e, i + 2)
  <2>1. g[i + 1] = ScanAt(all, At(e, i + 2), i + 1)
    BY <1>2, <1>10, <1>15
  <2>2. Idle(all, At(e, i + 2), i + 1)
    BY <1>10 DEF Idle, At
  <2> HIDE DEF i
  <2> QED
    BY <2>1, <2>2, TurnIs
<1>17. Between(g, i + 1, e)
  <2>1. (i + 1) + 1 = i + 2
    BY <1>0
  <2> HIDE DEF i
  <2> QED
    BY <1>10, <1>15, <1>16, <2>1 DEF Between
<1> QED
  BY <1>9, <1>10, <1>17 DEF s, e

\* What the decoder is doing: waiting for a request,
Fresh(d, made) ==
  WellFormed(d) /\ d.outcome = "returned" /\ d.ctx.state = "INIT" /\ d.calls = made

\* in a request of the announced size, with this much of it in its list,
InRequest(d, list, size, made) ==
  /\ WellFormed(d) /\ d.outcome = "returned" /\ d.ctx.state = "PARSE_ELEMENTS"
  /\ d.ctx.req_list = list /\ d.ctx.reading_list_size = size /\ d.calls = made

\* waiting for a string of it,
InString(d, list, size, made, length) ==
  /\ WellFormed(d) /\ d.outcome = "returned" /\ d.ctx.state = "PARSE_BLUK_STRINGS"
  /\ d.ctx.req_list = list /\ d.ctx.reading_list_size = size /\ d.calls = made
  /\ d.ctx.reading_str_size = length

\* or gone.
Thrown(d) == WellFormed(d) /\ d.outcome = "threw"

\* The call for a request.
CallFor(made, list) == Append(made, [id |-> Len(made), args |-> list])

\* The header of a request.
LEMMA HandleRequestHeader ==
  ASSUME NEW d, NEW made, Fresh(d, made), NEW n \in Nat
  PROVE  InRequest(HandleToken(d, <<Symbol("*", n)>>), << >>, n, made)
<1> DEFINE token == <<Symbol("*", n)>>
           c == d.ctx
           e == Decoding(Context("PARSE_ELEMENTS", n, c.reading_str_size, c.req_list,
                                 c.last_command_id), d.calls)
<1>1. token \in Seq(Symbols) /\ token # << >> /\ token[1].n = n /\ token[1].t = "*"
  BY DEF Symbol, Symbols
<1>2. IsHeader(token[1])
  BY <1>1 DEF IsHeader
<1>3. WellFormed(HandleToken(d, token))
  BY <1>1, HandleTokenForm DEF Fresh
<1> HIDE DEF token
<1>4. HandleToken(d, token) = e
  <2>1. HandleToken(d, token) = InitToken(d, token)
    BY Zenon DEF Fresh, HandleToken
  <2>2. InitToken(d, token)
          = Decoding(Context("PARSE_ELEMENTS", token[1].n, c.reading_str_size, c.req_list,
                             c.last_command_id), d.calls)
    BY <1>1, <1>2, Zenon DEF InitToken
  <2> QED
    BY <1>1, <2>1, <2>2
<1>5. c.req_list = << >>
  BY DEF Fresh, WellFormed
<1>6. InRequest(e, << >>, n, made)
  <2>1. /\ e.outcome = "returned" /\ e.ctx.state = "PARSE_ELEMENTS" /\ e.ctx.req_list = << >>
        /\ e.ctx.reading_list_size = n /\ e.calls = made
    BY <1>5 DEF Decoding, Context, Fresh
  <2> HIDE DEF e
  <2> QED
    BY <1>3, <1>4, <2>1 DEF InRequest
<1> QED
  BY <1>4, <1>6 DEF token

\* An element of a request: which one it is decides.
LEMMA HandleElement ==
  ASSUME NEW d, NEW list, NEW size, NEW made, InRequest(d, list, size, made),
         NEW token \in Seq(Symbols)
  PROVE  /\ HandleToken(d, token) = ElementToken(d, token)
         /\ WellFormed(HandleToken(d, token))
<1>1. WellFormed(HandleToken(d, token))
  BY HandleTokenForm DEF InRequest
<1>2. HandleToken(d, token) = ElementToken(d, token)
  <2>1. "INIT" # "PARSE_ELEMENTS" /\ d.ctx.state = "PARSE_ELEMENTS"
    BY DEF InRequest
  <2> QED
    BY <2>1, Zenon DEF HandleToken
<1> QED
  BY <1>1, <1>2

\* Nothing, or the header of a request, is no element.
LEMMA HandleNoElement ==
  ASSUME NEW d, NEW list, NEW size, NEW made, InRequest(d, list, size, made)
  PROVE  /\ HandleToken(d, << >>) = d
         /\ \A n \in Nat : HandleToken(d, <<Symbol("*", n)>>) = d
<1>1. HandleToken(d, << >>) = d
  <2>1. << >> \in Seq(Symbols)
    OBVIOUS
  <2>2. HandleToken(d, << >>) = ElementToken(d, << >>)
    BY <2>1, HandleElement
  <2>3. ElementToken(d, << >>) = d
    BY Zenon DEF ElementToken
  <2> QED
    BY <2>2, <2>3
<1>2. ASSUME NEW n \in Nat PROVE HandleToken(d, <<Symbol("*", n)>>) = d
  <2> DEFINE token == <<Symbol("*", n)>>
  <2>1. token \in Seq(Symbols) /\ token[1].t = "*"
    BY DEF Symbol, Symbols
  <2> HIDE DEF token
  <2>2. HandleToken(d, token) = ElementToken(d, token)
    BY <2>1, HandleElement
  <2>3. ElementToken(d, token) = d
    BY <2>1, Zenon DEF ElementToken
  <2> QED
    BY <2>2, <2>3 DEF token
<1> QED
  BY <1>1, <1>2

\* An integer.
LEMMA HandleInteger ==
  ASSUME NEW d, NEW list, NEW size, NEW made, InRequest(d, list, size, made),
         NEW token \in Seq(Symbols), IsInteger(token)
  PROVE  InRequest(HandleToken(d, token), Append(list, token), size, made)
<1> DEFINE c == d.ctx
           e == Decoding(Context(c.state, c.reading_list_size, c.reading_str_size,
                                 Append(c.req_list, token), c.last_command_id), d.calls)
<1>1. token # << >> /\ token[1].t = ":"
  <2>1. Len(token) = 1 /\ token[1].t = ":"
    BY DEF IsInteger
  <2> QED
    BY <2>1
<1>2. IsHeader(token[1]) /\ token[1].t # "*"
  BY <1>1 DEF IsHeader
<1>3. HandleToken(d, token) = ElementToken(d, token) /\ WellFormed(HandleToken(d, token))
  BY HandleElement
<1>4. ElementToken(d, token) = e
  BY <1>1, <1>2, Zenon DEF ElementToken
<1>5. /\ e.outcome = "returned" /\ e.ctx.state = "PARSE_ELEMENTS"
      /\ e.ctx.req_list = Append(list, token)
      /\ e.ctx.reading_list_size = size /\ e.calls = made
  BY DEF Decoding, Context, InRequest
<1> HIDE DEF e
<1> QED
  BY <1>3, <1>4, <1>5 DEF InRequest

\* The length of a string.
LEMMA HandleLength ==
  ASSUME NEW d, NEW list, NEW size, NEW made, InRequest(d, list, size, made),
         NEW n \in Nat \ {0}
  PROVE  InString(HandleToken(d, <<Symbol("$", n)>>), list, size, made, n)
<1> DEFINE token == <<Symbol("$", n)>>
           c == d.ctx
           e == Decoding(Context("PARSE_BLUK_STRINGS", c.reading_list_size, n, c.req_list,
                                 c.last_command_id), d.calls)
<1>1. token \in Seq(Symbols) /\ token # << >> /\ token[1].n = n /\ token[1].t = "$"
  BY DEF Symbol, Symbols
<1>2. IsHeader(token[1]) /\ token[1].t # "*" /\ token[1].t # ":" /\ token[1].n # 0
  BY <1>1 DEF IsHeader
<1> HIDE DEF token
<1>3. HandleToken(d, token) = ElementToken(d, token) /\ WellFormed(HandleToken(d, token))
  BY <1>1, HandleElement
<1>4. ElementToken(d, token) = e
  <2>1. ElementToken(d, token)
          = Decoding(Context("PARSE_BLUK_STRINGS", c.reading_list_size, token[1].n, c.req_list,
                             c.last_command_id), d.calls)
    BY <1>1, <1>2, Zenon DEF ElementToken
  <2> QED
    BY <1>1, <2>1
<1>5. /\ e.outcome = "returned" /\ e.ctx.state = "PARSE_BLUK_STRINGS" /\ e.ctx.req_list = list
      /\ e.ctx.reading_list_size = size /\ e.calls = made /\ e.ctx.reading_str_size = n
  BY DEF Decoding, Context, InRequest
<1> HIDE DEF e
<1>6. InString(e, list, size, made, n)
  BY <1>3, <1>4, <1>5 DEF InString
<1> QED
  BY <1>3, <1>4, <1>6 DEF token

\* An element more: the request goes on, or is complete and handed over.
Pushed(d, list, size, made, element) ==
  IF Len(list) + 1 = size THEN Fresh(d, CallFor(made, Append(list, element)))
  ELSE InRequest(d, Append(list, element), size, made)

\* PushElement does so (decode_context::push_element).
LEMMA PushedElement ==
  ASSUME NEW d, WellFormed(d), d.outcome = "returned", NEW element \in Seq(Symbols)
  PROVE  Pushed(PushElement(d, element), d.ctx.req_list, d.ctx.reading_list_size, d.calls, element)
<1> DEFINE c == d.ctx
           list == Append(c.req_list, element)
<1>1. WellFormed(PushElement(d, element))
  BY PushElementForm
<1>2. /\ c.req_list \in Seq(Seq(Symbols)) /\ Len(list) = Len(c.req_list) + 1
      /\ c.last_command_id = Len(d.calls)
  BY DEF WellFormed, Decodings, Contexts
<1> HIDE DEF list
<1>3. CASE Len(c.req_list) + 1 = c.reading_list_size
  <2>1. ListComplete(d, list)
    BY <1>2, <1>3 DEF ListComplete
  <2> DEFINE e == Decoding(Context("INIT", 0, 0, << >>, c.last_command_id + 1), Called(d, list))
  <2>2. PushElement(d, element) = e
    BY <2>1, Zenon DEF PushElement, CallHandler, list
  <2>3. /\ e.outcome = "returned" /\ e.ctx.state = "INIT" /\ e.calls = Called(d, list)
    BY DEF Decoding, Context
  <2>4. Called(d, list) = CallFor(d.calls, list)
    BY <1>2 DEF Called, CallFor
  <2> HIDE DEF e
  <2>5. Fresh(e, CallFor(d.calls, list))
    BY <1>1, <2>2, <2>3, <2>4 DEF Fresh
  <2> QED
    BY <1>3, <2>2, <2>5 DEF Pushed, list
<1>4. CASE Len(c.req_list) + 1 # c.reading_list_size
  <2>1. ~ListComplete(d, list)
    BY <1>2, <1>4 DEF ListComplete
  <2> DEFINE e == Decoding(Context("PARSE_ELEMENTS", c.reading_list_size, 0, list,
                                   c.last_command_id), d.calls)
  <2>2. PushElement(d, element) = e
    BY <2>1, Zenon DEF PushElement, list
  <2>3. /\ e.outcome = "returned" /\ e.ctx.state = "PARSE_ELEMENTS" /\ e.ctx.req_list = list
        /\ e.ctx.reading_list_size = c.reading_list_size /\ e.calls = d.calls
    BY DEF Decoding, Context
  <2> HIDE DEF e
  <2>4. InRequest(e, list, c.reading_list_size, d.calls)
    BY <1>1, <2>2, <2>3 DEF InRequest
  <2> QED
    BY <1>4, <2>2, <2>4 DEF Pushed, list
<1> QED
  BY <1>3, <1>4

\* An empty string is an element at once.
LEMMA HandleEmpty ==
  ASSUME NEW d, NEW list, NEW size, NEW made, InRequest(d, list, size, made)
  PROVE  Pushed(HandleToken(d, <<Symbol("$", 0)>>), list, size, made, << >>)
<1> DEFINE token == <<Symbol("$", 0)>>
<1>1. token \in Seq(Symbols) /\ token # << >> /\ token[1].n = 0 /\ token[1].t = "$"
  BY DEF Symbol, Symbols
<1>2. IsHeader(token[1]) /\ token[1].t # "*" /\ token[1].t # ":" /\ token[1].n = 0
  BY <1>1 DEF IsHeader
<1> HIDE DEF token
<1>3. HandleToken(d, token) = ElementToken(d, token)
  BY <1>1, HandleElement
<1>4. ElementToken(d, token) = PushElement(d, << >>)
  BY <1>1, <1>2, Zenon DEF ElementToken
<1>5. Pushed(PushElement(d, << >>), d.ctx.req_list, d.ctx.reading_list_size, d.calls, << >>)
  <2>1. << >> \in Seq(Symbols)
    OBVIOUS
  <2> QED
    BY <2>1, PushedElement DEF InRequest
<1> QED
  BY <1>3, <1>4, <1>5 DEF token, InRequest

\* A string of the announced length is an element.
LEMMA HandleString ==
  ASSUME NEW d, NEW list, NEW size, NEW made, NEW token \in Seq(Symbols),
         InString(d, list, size, made, Len(token))
  PROVE  Pushed(HandleToken(d, token), list, size, made, token)
<1>1. HandleToken(d, token) = StringToken(d, token)
  <2>1. d.ctx.state = "PARSE_BLUK_STRINGS" /\ "PARSE_BLUK_STRINGS" # "INIT"
        /\ "PARSE_BLUK_STRINGS" # "PARSE_ELEMENTS"
    BY DEF InString
  <2> QED
    BY <2>1, Zenon DEF HandleToken
<1>2. StringToken(d, token) = PushElement(d, token)
  BY Zenon DEF StringToken, InString
<1>3. Pushed(PushElement(d, token), d.ctx.req_list, d.ctx.reading_list_size, d.calls, token)
  BY PushedElement DEF InString
<1> QED
  BY <1>1, <1>2, <1>3 DEF InString

\* An empty token between two requests is none: its first character cannot be skipped.
LEMMA HandleNothing ==
  ASSUME NEW d, NEW made, Fresh(d, made)
  PROVE  Thrown(HandleToken(d, << >>))
<1>1. << >> \in Seq(Symbols)
  OBVIOUS
<1>2. WellFormed(HandleToken(d, << >>))
  BY <1>1, HandleTokenForm DEF Fresh
<1>3. HandleToken(d, << >>) = Throw(d)
  BY Zenon DEF HandleToken, InitToken, Fresh
<1>4. Throw(d).outcome = "threw"
  BY DEF Throw
<1> QED
  BY <1>2, <1>3, <1>4 DEF Thrown

(***************************************************************************)
(* An argument.                                                            *)
(***************************************************************************)

\* What is to be shown of each place: the list of the request is shorter than announced,
\* or the request is stalled; and a string that is waited for is not longer than announced.
Calm(g, i, stalled) ==
  /\ g[i].d.ctx.state # "INIT" =>
       Len(g[i].d.ctx.req_list) < g[i].d.ctx.reading_list_size \/ stalled
  /\ g[i].d.outcome = "returned" /\ g[i].d.ctx.state = "PARSE_BLUK_STRINGS" =>
       (i + 2) - g[i].start <= g[i].d.ctx.reading_str_size + 1

\* And nothing has been called meanwhile.
Steady(g, i, made, stalled) == Calm(g, i, stalled) /\ g[i].d.calls = made

\* So it is between two requests,
LEMMA FreshIsSteady ==
  ASSUME NEW g, NEW i, NEW d, NEW start, g[i] = At(d, start), NEW made, Fresh(d, made), NEW stalled
  PROVE  Steady(g, i, made, stalled)
BY DEF At, Fresh, Steady, Calm

\* in a request that can still be completed,
LEMMA InRequestIsSteady ==
  ASSUME NEW g, NEW i, NEW d, NEW start, g[i] = At(d, start),
         NEW list, NEW size, NEW made, InRequest(d, list, size, made),
         NEW stalled, Len(list) < size \/ stalled
  PROVE  Steady(g, i, made, stalled)
BY DEF At, InRequest, Steady, Calm

\* in a string of it,
LEMMA InStringIsSteady ==
  ASSUME NEW g, NEW p \in Nat, NEW n \in Nat, NEW i \in Nat, i <= p + n, NEW d,
         g[i] = At(d, p + 1),
         NEW list, NEW size, NEW made, InString(d, list, size, made, n),
         NEW stalled, Len(list) < size \/ stalled
  PROVE  Steady(g, i, made, stalled)
<1>1. (i + 2) - (p + 1) <= n + 1
  OBVIOUS
<1> QED
  BY <1>1 DEF At, InString, Steady, Calm

\* and after an exception, but for the calls.
LEMMA ThrownIsCalm ==
  ASSUME NEW g, NEW i, Thrown(g[i].d), NEW stalled
  PROVE  Calm(g, i, stalled)
BY DEF Thrown, WellFormed, Calm

\* x with CR LF behind it.
LEMMA WithEnd ==
  ASSUME NEW x \in Seq(Symbols)
  PROVE  /\ x \o <<CR, LF>> \in Seq(Symbols)
         /\ Len(x \o <<CR, LF>>) = Len(x) + 2
         /\ \A j \in 1 .. Len(x) : (x \o <<CR, LF>>)[j] = x[j]
         /\ (x \o <<CR, LF>>)[Len(x) + 1] = CR /\ (x \o <<CR, LF>>)[Len(x) + 2] = LF
<1>1. CR \in Symbols /\ LF \in Symbols
  BY DEF CR, LF, Symbol, Symbols
<1> DEFINE y == <<CR, LF>>
<1>2. y \in Seq(Symbols) /\ Len(y) = 2 /\ y[1] = CR /\ y[2] = LF
  BY <1>1
<1> HIDE DEF y
<1>3. /\ x \o y \in Seq(Symbols) /\ Len(x \o y) = Len(x) + Len(y)
      /\ \A j \in 1 .. Len(x) + Len(y) : (x \o y)[j] = IF j <= Len(x) THEN x[j] ELSE y[j - Len(x)]
  BY <1>2, ConcatProperties
<1>4. /\ Len(x) \in Nat /\ Len(x) + 1 \in 1 .. Len(x) + 2 /\ Len(x) + 2 \in 1 .. Len(x) + 2
      /\ ~(Len(x) + 1 <= Len(x)) /\ ~(Len(x) + 2 <= Len(x))
      /\ (Len(x) + 1) - Len(x) = 1 /\ (Len(x) + 2) - Len(x) = 2
  OBVIOUS
<1>5. (x \o y)[Len(x) + 1] = CR
  BY <1>2, <1>3, <1>4
<1>6. (x \o y)[Len(x) + 2] = LF
  BY <1>2, <1>3, <1>4
<1>7. \A j \in 1 .. Len(x) : (x \o y)[j] = x[j]
  BY <1>2, <1>3, <1>4
<1> QED
  BY <1>2, <1>3, <1>5, <1>6, <1>7 DEF y

\* A header with CR LF behind it.
LEMMA HeaderIs ==
  ASSUME NEW s, <<s>> \in Seq(Symbols)
  PROVE  <<s>> \o <<CR, LF>> = <<s, CR, LF>>
<1>1. CR \in Symbols /\ LF \in Symbols
  BY DEF CR, LF, Symbol, Symbols
<1> DEFINE h == <<s>>
           x == h \o <<CR, LF>>
           y == <<s, CR, LF>>
<1>2. h \in Seq(Symbols) /\ Len(h) = 1 /\ h[1] = s
  OBVIOUS
<1>3. s \in Symbols
  BY <1>2
<1>4. y \in Seq(Symbols) /\ Len(y) = 3 /\ y[1] = s /\ y[2] = CR /\ y[3] = LF
  BY <1>1, <1>3
<1> HIDE DEF h
<1>5. /\ x \in Seq(Symbols) /\ Len(x) = Len(h) + 2 /\ \A j \in 1 .. Len(h) : x[j] = h[j]
      /\ x[Len(h) + 1] = CR /\ x[Len(h) + 2] = LF
  BY <1>2, WithEnd
<1> HIDE DEF x, y
<1>6. Len(x) = 3 /\ x[1] = s /\ x[2] = CR /\ x[3] = LF
  BY <1>2, <1>5
<1>7. \A j \in 1 .. 3 : x[j] = y[j]
  BY <1>4, <1>6
<1>8. x = y
  BY <1>4, <1>5, <1>6, <1>7, SeqEqual
<1> QED
  BY <1>8 DEF x, y, h

\* A token of a part.
LEMMA TokenInPart ==
  ASSUME NEW token \in Seq(Symbols), NEW all, NEW p, PartOf(token \o <<CR, LF>>, all, p)
  PROVE  TokenAt(all, p, token)
<1> DEFINE y == token \o <<CR, LF>>
           n == Len(token)
<1>1. /\ Len(y) = n + 2 /\ \A j \in 1 .. n : y[j] = token[j]
      /\ y[n + 1] = CR /\ y[n + 2] = LF
  BY WithEnd
<1>2. n \in Nat
  OBVIOUS
<1> HIDE DEF y, n
<1>3. p \in Nat /\ p + Len(y) <= Len(all) /\ \A j \in 1 .. Len(y) : y[j] = all[p + j]
  BY DEF PartOf, y
<1>4. Len(all) \in Nat
  BY DEF PartOf
<1>5. \A j \in 1 .. n : all[p + j] = token[j]
  BY <1>1, <1>2, <1>3
<1>6. all[p + (n + 1)] = CR /\ all[p + (n + 2)] = LF
  BY <1>1, <1>2, <1>3
<1>7. p + (n + 1) = (p + n) + 1 /\ p + (n + 2) = (p + n) + 2 /\ (p + n) + 2 <= Len(all)
  BY <1>1, <1>2, <1>3, <1>4
<1> QED
  BY <1>3, <1>5, <1>6, <1>7 DEF TokenAt, n

\* A part of a part.
LEMMA PartOfPart ==
  ASSUME NEW x, NEW y, NEW all, NEW a, NEW p, PartOf(x, y, a), PartOf(y, all, p)
  PROVE  PartOf(x, all, p + a)
<1>1. /\ Len(x) \in Nat /\ Len(y) \in Nat /\ Len(all) \in Nat /\ a \in Nat /\ p \in Nat
      /\ a + Len(x) <= Len(y) /\ p + Len(y) <= Len(all)
  BY DEF PartOf
<1>2. p + a \in Nat /\ (p + a) + Len(x) <= Len(all)
  BY <1>1
<1>3. ASSUME NEW j \in 1 .. Len(x) PROVE x[j] = all[(p + a) + j]
  <2>1. a + j \in 1 .. Len(y) /\ p + (a + j) = (p + a) + j
    BY <1>1
  <2>2. x[j] = y[a + j]
    BY DEF PartOf
  <2>3. y[a + j] = all[p + (a + j)]
    BY <2>1 DEF PartOf
  <2> QED
    BY <2>1, <2>2, <2>3
<1> QED
  BY <1>2, <1>3 DEF PartOf

\* The parts of two that are joined.
LEMMA PartsOfConcat ==
  ASSUME NEW x \in Seq(Symbols), NEW y \in Seq(Symbols)
  PROVE  /\ x \o y \in Seq(Symbols) /\ Len(x \o y) = Len(x) + Len(y)
         /\ PartOf(x, x \o y, 0) /\ PartOf(y, x \o y, Len(x))
<1> DEFINE z == x \o y
<1>1. /\ z \in Seq(Symbols) /\ Len(z) = Len(x) + Len(y)
      /\ \A j \in 1 .. Len(x) + Len(y) : z[j] = IF j <= Len(x) THEN x[j] ELSE y[j - Len(x)]
  BY ConcatProperties
<1>2. Len(x) \in Nat /\ Len(y) \in Nat
  OBVIOUS
<1> HIDE DEF z
<1>3. PartOf(x, z, 0)
  BY <1>1, <1>2 DEF PartOf
<1>4. ASSUME NEW j \in 1 .. Len(y) PROVE y[j] = z[Len(x) + j]
  <2>1. Len(x) + j \in 1 .. Len(x) + Len(y) /\ ~(Len(x) + j <= Len(x)) /\ (Len(x) + j) - Len(x) = j
    BY <1>2
  <2> QED
    BY <1>1, <2>1
<1>5. PartOf(y, z, Len(x))
  BY <1>1, <1>2, <1>4 DEF PartOf
<1> QED
  BY <1>1, <1>3, <1>5 DEF z

\* The tokens of an argument.
LEMMA ArgTokens ==
  ASSUME NEW arg \in Seq(Symbols), NEW all, NEW p, PartOf(EncodeArg(arg), all, p)
  PROVE  /\ IsInteger(arg) => TokenAt(all, p, arg) /\ Len(EncodeArg(arg)) = 3
         /\ ~IsInteger(arg) =>
              /\ TokenAt(all, p, <<Symbol("$", Len(arg))>>) /\ TokenAt(all, p + 3, arg)
              /\ Len(EncodeArg(arg)) = Len(arg) + 5
<1>1. CASE IsInteger(arg)
  <2>1. EncodeArg(arg) = arg \o <<CR, LF>>
    BY <1>1, Zenon DEF EncodeArg
  <2>2. Len(arg) = 1
    BY <1>1 DEF IsInteger
  <2>3. Len(EncodeArg(arg)) = 3
    <3>1. Len(arg \o <<CR, LF>>) = Len(arg) + 2
      BY WithEnd
    <3> QED
      BY <2>1, <2>2, <3>1
  <2> QED
    BY <1>1, <2>1, <2>3, TokenInPart
<1>2. CASE ~IsInteger(arg)
  <2> DEFINE h == <<Symbol("$", Len(arg))>>
             x == h \o <<CR, LF>>
             y == arg \o <<CR, LF>>
  <2>1. h \in Seq(Symbols) /\ Len(h) = 1
    BY DEF Symbol, Symbols
  <2>2. x \in Seq(Symbols) /\ Len(x) = 3
    BY <2>1, WithEnd
  <2>3. y \in Seq(Symbols) /\ Len(y) = Len(arg) + 2
    BY WithEnd
  <2>4. EncodeArg(arg) = x \o y
    <3>1. EncodeArg(arg) = <<Symbol("$", Len(arg)), CR, LF>> \o arg \o <<CR, LF>>
      BY <1>2, Zenon DEF EncodeArg
    <3>2. CR \in Symbols /\ LF \in Symbols /\ Symbol("$", Len(arg)) \in Symbols
      BY DEF CR, LF, Symbol, Symbols
    <3>3. x = <<Symbol("$", Len(arg)), CR, LF>>
      BY <2>1, HeaderIs
    <3>4. <<CR, LF>> \in Seq(Symbols)
      BY <3>2
    <3> HIDE DEF x
    <3>5. (x \o arg) \o <<CR, LF>> = x \o (arg \o <<CR, LF>>)
      BY <2>2, <3>4, ConcatAssociative
    <3> QED
      BY <3>1, <3>3, <3>5
  <2> HIDE DEF x, y
  <2>5. PartOf(x, x \o y, 0) /\ PartOf(y, x \o y, 3) /\ Len(x \o y) = 3 + (Len(arg) + 2)
    BY <2>2, <2>3, PartsOfConcat
  <2>6. p \in Nat
    BY DEF PartOf
  <2>7. PartOf(x, all, p) /\ PartOf(y, all, p + 3)
    <3>1. PartOf(x \o y, all, p)
      BY <2>4
    <3>2. PartOf(x, all, p + 0) /\ PartOf(y, all, p + 3)
      BY <2>5, <3>1, PartOfPart
    <3> QED
      BY <2>6, <3>2
  <2>8. TokenAt(all, p, h)
    BY <2>1, <2>7, TokenInPart DEF x
  <2>9. TokenAt(all, p + 3, arg)
    BY <2>7, TokenInPart DEF y
  <2>10. Len(EncodeArg(arg)) = Len(arg) + 5
    BY <2>4, <2>5
  <2> QED
    BY <1>2, <2>8, <2>9, <2>10
<1> QED
  BY <1>1, <1>2

\* Where an argument leaves the decoder.
ArgEnd(d, list, size, made, arg) ==
  IF Len(list) + 1 = size /\ ~IsInteger(arg)
  THEN IF arg = << >> THEN Thrown(d) ELSE Fresh(d, CallFor(made, Append(list, arg)))
  ELSE InRequest(d, Append(list, arg), size, made)

\* And on the way from place p to place q.
ArgRead(g, p, q, d, list, size, made, arg, stalled) ==
  /\ ArgEnd(d, list, size, made, arg)
  /\ Between(g, q, d)
  /\ \A i \in p .. q - 2 :
       /\ Calm(g, i, stalled)
       /\ arg # << >> \/ Len(list) + 1 # size => Steady(g, i, made, stalled)

\* An integer as an argument.
LEMMA IntegerStep ==
  ASSUME NEW all, NEW g, Scanned(g, all), NEW arg \in Seq(Symbols),
         NEW p, PartOf(EncodeArg(arg), all, p), IsInteger(arg),
         NEW d, NEW list, NEW size, NEW made, InRequest(d, list, size, made), g[p] = At(d, p + 1),
         NEW stalled, Len(list) < size \/ stalled
  PROVE  \E d2 : ArgRead(g, p, p + Len(EncodeArg(arg)), d2, list, size, made, arg, stalled)
<1>1. TokenAt(all, p, arg) /\ Len(EncodeArg(arg)) = 3 /\ p \in Nat
  BY ArgTokens DEF PartOf
<1>2. Len(arg) = 1 /\ arg[1].t = ":"
  BY DEF IsInteger
<1>3. arg[1] # CR
  BY <1>2 DEF CR, Symbol
<1>4. Expected(d, arg)
  BY <1>2, <1>3 DEF Expected, InRequest
<1> DEFINE d2 == HandleToken(d, arg)
<1>5. /\ \A i \in p .. p + Len(arg) : g[i] = At(d, p + 1)
      /\ Between(g, (p + Len(arg)) + 2, d2)
  BY <1>1, <1>4, TokenStep
<1>6. InRequest(d2, Append(list, arg), size, made)
  BY HandleInteger
<1> HIDE DEF d2
<1>7. ArgEnd(d2, list, size, made, arg)
  BY <1>6 DEF ArgEnd
<1>8. p + Len(EncodeArg(arg)) = p + 3 /\ (p + Len(arg)) + 2 = p + 3 /\ (p + 3) - 2 = p + 1
  BY <1>1, <1>2
<1>9. \A i \in p .. p + 1 : Steady(g, i, made, stalled)
  <2> TAKE i \in p .. p + 1
  <2>1. g[i] = At(d, p + 1)
    BY <1>2, <1>5
  <2> QED
    BY <2>1, InRequestIsSteady
<1>10. \A i \in p .. p + 1 : Calm(g, i, stalled)
  BY <1>9 DEF Steady
<1>11. ArgRead(g, p, p + 3, d2, list, size, made, arg, stalled)
  BY <1>5, <1>7, <1>8, <1>9, <1>10 DEF ArgRead
<1> QED
  BY <1>8, <1>11

\* A string that is not empty.
LEMMA StringStep ==
  ASSUME NEW all, NEW g, Scanned(g, all), NEW arg \in Seq(Symbols),
         NEW p, PartOf(EncodeArg(arg), all, p), ~IsInteger(arg), arg # << >>,
         NEW d, NEW list, NEW size, NEW made, InRequest(d, list, size, made), g[p] = At(d, p + 1),
         NEW stalled, Len(list) < size \/ stalled
  PROVE  \E d2 : ArgRead(g, p, p + Len(EncodeArg(arg)), d2, list, size, made, arg, stalled)
<1> DEFINE n == Len(arg)
           h == <<Symbol("$", n)>>
<1>1. TokenAt(all, p, h) /\ TokenAt(all, p + 3, arg) /\ Len(EncodeArg(arg)) = n + 5 /\ p \in Nat
  BY ArgTokens DEF PartOf
<1>2. n \in Nat \ {0}
  BY EmptySeq
<1>3. Len(h) = 1 /\ h[1] # CR
  BY DEF CR, Symbol
<1> DEFINE e == HandleToken(d, h)
           d2 == HandleToken(e, arg)
<1>4. InString(e, list, size, made, n)
  BY <1>2, HandleLength
<1> HIDE DEF h
<1>5. Expected(d, h)
  BY <1>3 DEF Expected, InRequest
<1>6. /\ \A i \in p .. p + Len(h) : g[i] = At(d, p + 1)
      /\ Between(g, (p + Len(h)) + 2, e)
  BY <1>1, <1>5, TokenStep
<1> HIDE DEF e, n
<1>7. Expected(e, arg)
  BY <1>4 DEF Expected, InString, n
<1>8. (p + Len(h)) + 2 = p + 3 /\ p + Len(h) = p + 1 /\ p + 3 > 0 /\ (p + 3) - 1 = p + 2
  BY <1>1, <1>3
<1>9. g[p + 3] = At(e, (p + 3) + 1) /\ g[p + 2] = At(e, (p + 3) + 1)
  BY <1>6, <1>8 DEF Between
<1>10. /\ \A i \in p + 3 .. (p + 3) + n : g[i] = At(e, (p + 3) + 1)
       /\ Between(g, ((p + 3) + n) + 2, d2)
  <2> DEFINE m == p + 3
  <2> HIDE DEF m
  <2>1. TokenAt(all, m, arg) /\ g[m] = At(e, m + 1)
    BY <1>1, <1>9 DEF m
  <2>2. /\ \A i \in m .. m + Len(arg) : g[i] = At(e, m + 1)
        /\ Between(g, (m + Len(arg)) + 2, d2)
    BY <1>7, <2>1, TokenStep
  <2> QED
    BY <2>2 DEF m, n
<1>11. Pushed(d2, list, size, made, arg)
  BY <1>4, HandleString DEF n
<1> HIDE DEF d2
<1>12. ArgEnd(d2, list, size, made, arg)
  BY <1>11 DEF ArgEnd, Pushed
<1>13. p + Len(EncodeArg(arg)) = ((p + 3) + n) + 2 /\ (((p + 3) + n) + 2) - 2 = (p + 3) + n
  BY <1>1, <1>2
<1>14. \A i \in p .. (p + 3) + n : Steady(g, i, made, stalled)
  <2> TAKE i \in p .. (p + 3) + n
  <2>1. CASE i \in p .. p + 1
    <3>1. g[i] = At(d, p + 1)
      BY <1>6, <1>8, <2>1
    <3> QED
      BY <3>1, InRequestIsSteady
  <2>2. CASE i = p + 2 \/ i \in p + 3 .. (p + 3) + n
    <3> DEFINE m == p + 3
    <3>1. g[i] = At(e, m + 1) /\ m \in Nat /\ i \in Nat /\ i <= m + n
      BY <1>1, <1>2, <1>9, <1>10, <2>2
    <3> HIDE DEF m
    <3>2. n \in Nat
      BY <1>2
    <3> QED
      BY <1>4, <3>1, <3>2, InStringIsSteady
  <2> QED
    BY <1>1, <1>2, <2>1, <2>2
<1>15. \A i \in p .. (p + 3) + n : Calm(g, i, stalled)
  BY <1>14 DEF Steady
<1>16. ArgRead(g, p, ((p + 3) + n) + 2, d2, list, size, made, arg, stalled)
  BY <1>10, <1>12, <1>13, <1>14, <1>15 DEF ArgRead
<1> QED
  BY <1>13, <1>16

\* An empty string: it is an element when its length has arrived, and its end is then
\* a token of its own.
LEMMA EmptyStep ==
  ASSUME NEW all, NEW g, Scanned(g, all),
         NEW p, PartOf(EncodeArg(<< >>), all, p),
         NEW d, NEW list, NEW size, NEW made, InRequest(d, list, size, made), g[p] = At(d, p + 1),
         NEW stalled, Len(list) < size \/ stalled
  PROVE  \E d2 : ArgRead(g, p, p + Len(EncodeArg(<< >>)), d2, list, size, made, << >>, stalled)
<1> DEFINE h == <<Symbol("$", 0)>>
<1>0. << >> \in Seq(Symbols) /\ Len(<< >>) = 0 /\ ~IsInteger(<< >>)
  BY DEF IsInteger
<1>1. TokenAt(all, p, h) /\ TokenAt(all, p + 3, << >>) /\ Len(EncodeArg(<< >>)) = 5 /\ p \in Nat
  <2>1. /\ TokenAt(all, p, <<Symbol("$", Len(<< >>))>>) /\ TokenAt(all, p + 3, << >>)
        /\ Len(EncodeArg(<< >>)) = Len(<< >>) + 5
    BY <1>0, ArgTokens
  <2> QED
    BY <1>0, <2>1 DEF PartOf
<1>3. Len(h) = 1 /\ h[1] # CR
  BY DEF CR, Symbol
<1> DEFINE e == HandleToken(d, h)
           d2 == HandleToken(e, << >>)
<1>4. Pushed(e, list, size, made, << >>)
  BY HandleEmpty
<1> HIDE DEF h
<1>5. Expected(d, h)
  BY <1>3 DEF Expected, InRequest
<1>6. /\ \A i \in p .. p + Len(h) : g[i] = At(d, p + 1)
      /\ Between(g, (p + Len(h)) + 2, e)
  BY <1>1, <1>5, TokenStep
<1> HIDE DEF e
<1>7. Expected(e, << >>)
  BY <1>0, <1>4 DEF Expected, Pushed, Fresh, InRequest
<1>8. (p + Len(h)) + 2 = p + 3 /\ p + Len(h) = p + 1 /\ p + 3 > 0 /\ (p + 3) - 1 = p + 2
  BY <1>1, <1>3
<1>9. g[p + 3] = At(e, (p + 3) + 1) /\ g[p + 2] = At(e, (p + 3) + 1)
  BY <1>6, <1>8 DEF Between
<1>10. Between(g, p + 5, d2)
  <2> DEFINE m == p + 3
             t == << >>
  <2> HIDE DEF m, t
  <2>1. TokenAt(all, m, t) /\ g[m] = At(e, m + 1) /\ Expected(e, t)
    BY <1>1, <1>7, <1>9 DEF m, t
  <2>2. Between(g, (m + Len(t)) + 2, HandleToken(e, t))
    BY <2>1, TokenStep
  <2>3. (m + Len(t)) + 2 = p + 5
    BY <1>0, <1>1 DEF m, t
  <2> QED
    BY <2>2, <2>3 DEF t
<1>11. \A i \in p .. p + 1 : Steady(g, i, made, stalled)
  <2> TAKE i \in p .. p + 1
  <2>1. g[i] = At(d, p + 1)
    BY <1>6, <1>8
  <2> QED
    BY <2>1, InRequestIsSteady
<1>12. CASE Len(list) + 1 = size
  <2>1. Fresh(e, CallFor(made, Append(list, << >>)))
    BY <1>4, <1>12 DEF Pushed
  <2>2. Thrown(d2)
    BY <2>1, HandleNothing
  <2> HIDE DEF d2
  <2>3. ArgEnd(d2, list, size, made, << >>)
    BY <1>0, <1>12, <2>2 DEF ArgEnd
  <2>4. \A i \in {p + 2, p + 3} : Calm(g, i, stalled)
    <3> TAKE i \in {p + 2, p + 3}
    <3>1. g[i] = At(e, (p + 3) + 1)
      BY <1>9
    <3> DEFINE c == CallFor(made, Append(list, << >>))
    <3> HIDE DEF c
    <3>2. Steady(g, i, c, stalled)
      BY <2>1, <3>1, FreshIsSteady DEF c
    <3> QED
      BY <3>2 DEF Steady
  <2>5. \A i \in p .. (p + 5) - 2 : Calm(g, i, stalled)
    <3> TAKE i \in p .. (p + 5) - 2
    <3>1. i \in p .. p + 1 \/ i \in {p + 2, p + 3}
      BY <1>1
    <3> QED
      BY <1>11, <2>4, <3>1 DEF Steady
  <2>6. ArgRead(g, p, p + 5, d2, list, size, made, << >>, stalled)
    BY <1>10, <1>12, <2>3, <2>5 DEF ArgRead
  <2> QED
    BY <1>1, <2>6
<1>13. CASE Len(list) + 1 # size
  <2>1. InRequest(e, Append(list, << >>), size, made)
    BY <1>4, <1>13 DEF Pushed
  <2>2. d2 = e
    BY <2>1, HandleNoElement
  <2>3. ArgEnd(d2, list, size, made, << >>)
    BY <1>13, <2>1, <2>2 DEF ArgEnd
  <2> HIDE DEF d2
  <2>4. Len(Append(list, << >>)) < size \/ stalled
    <3>1. list \in Seq(Seq(Symbols)) /\ size \in Nat
      BY DEF InRequest, WellFormed, Decodings, Contexts
    <3>2. Len(Append(list, << >>)) = Len(list) + 1 /\ Len(list) \in Nat
      BY <3>1
    <3> QED
      BY <1>13, <3>1, <3>2
  <2>5. \A i \in {p + 2, p + 3} : Steady(g, i, made, stalled)
    <3> TAKE i \in {p + 2, p + 3}
    <3>1. g[i] = At(e, (p + 3) + 1)
      BY <1>9
    <3> DEFINE l == Append(list, << >>)
    <3> HIDE DEF l
    <3>2. InRequest(e, l, size, made) /\ (Len(l) < size \/ stalled)
      BY <2>1, <2>4 DEF l
    <3> QED
      BY <3>1, <3>2, InRequestIsSteady
  <2>6. \A i \in p .. (p + 5) - 2 : Steady(g, i, made, stalled)
    <3> TAKE i \in p .. (p + 5) - 2
    <3>1. i \in p .. p + 1 \/ i \in {p + 2, p + 3}
      BY <1>1
    <3> QED
      BY <1>11, <2>5, <3>1
  <2>7. \A i \in p .. (p + 5) - 2 : Calm(g, i, stalled)
    BY <2>6 DEF Steady
  <2>8. ArgRead(g, p, p + 5, d2, list, size, made, << >>, stalled)
    BY <1>10, <2>3, <2>6, <2>7 DEF ArgRead
  <2> QED
    BY <1>1, <2>8
<1> QED
  BY <1>12, <1>13

\* Any argument.
LEMMA ArgStep ==
  ASSUME NEW all, NEW g, Scanned(g, all), NEW arg \in Seq(Symbols),
         NEW p, PartOf(EncodeArg(arg), all, p),
         NEW d, NEW list, NEW size, NEW made, InRequest(d, list, size, made), g[p] = At(d, p + 1),
         NEW stalled, Len(list) < size \/ stalled
  PROVE  \E d2 : ArgRead(g, p, p + Len(EncodeArg(arg)), d2, list, size, made, arg, stalled)
<1>1. CASE IsInteger(arg)
  BY <1>1, IntegerStep
<1>2. CASE ~IsInteger(arg) /\ arg # << >>
  BY <1>2, StringStep
<1>3. CASE arg = << >>
  <2>1. PartOf(EncodeArg(<< >>), all, p)
    BY <1>3
  <2>2. \E d2 : ArgRead(g, p, p + Len(EncodeArg(<< >>)), d2, list, size, made, << >>, stalled)
    BY <2>1, EmptyStep
  <2> QED
    BY <1>3, <2>2
<1> QED
  BY <1>1, <1>2, <1>3

(***************************************************************************)
(* A request.                                                              *)
(***************************************************************************)

\* Each of the joined sequences is where the ones before it end.
PlacedAt(seqs, g, all, p, j) ==
  /\ PartOf(seqs[j], all, p + Len(g[j - 1]))
  /\ Len(g[j]) = Len(g[j - 1]) + Len(seqs[j])
  /\ Len(g[j - 1]) \in Nat

\* The parts of what is joined are in their places.
LEMMA PartOfJoined ==
  ASSUME NEW seqs \in Seq(Seq(Symbols)), NEW g, Parts(g, seqs, Symbols),
         NEW all, NEW p, PartOf(g[Len(seqs)], all, p), NEW j \in 1 .. Len(seqs)
  PROVE  PlacedAt(seqs, g, all, p, j)
<1> DEFINE x == seqs[j]
           a == g[j - 1]
           y == g[j]
           z == g[Len(seqs)]
<1>1. j - 1 \in 0 .. Len(seqs) /\ j \in 0 .. Len(seqs) /\ Len(seqs) \in 0 .. Len(seqs)
      /\ Len(seqs) \in j .. Len(seqs) /\ Len(seqs) \in Nat
  OBVIOUS
<1>2. x \in Seq(Symbols) /\ a \in Seq(Symbols) /\ y \in Seq(Symbols) /\ z \in Seq(Symbols)
  BY <1>1 DEF Parts
<1>3. Len(y) = Len(a) + Len(x) /\ \A q \in 1 .. Len(x) : y[Len(a) + q] = x[q]
  BY DEF Parts
<1>4. Len(y) <= Len(z) /\ \A q \in 1 .. Len(y) : z[q] = y[q]
  BY <1>1, PartsGrow
<1> HIDE DEF x, a, y, z
<1>5. Len(x) \in Nat /\ Len(a) \in Nat /\ Len(y) \in Nat /\ Len(z) \in Nat
  BY <1>2
<1>6. PartOf(x, z, Len(a))
  <2>1. Len(a) + Len(x) <= Len(z)
    BY <1>3, <1>4, <1>5
  <2>2. ASSUME NEW q \in 1 .. Len(x) PROVE x[q] = z[Len(a) + q]
    <3>1. Len(a) + q \in 1 .. Len(y)
      BY <1>3, <1>5
    <3>2. z[Len(a) + q] = y[Len(a) + q]
      BY <1>4, <3>1
    <3> QED
      BY <1>3, <3>2
  <2> QED
    BY <1>2, <1>5, <2>1, <2>2 DEF PartOf
<1>7. PartOf(z, all, p)
  BY DEF z
<1>8. PartOf(x, all, p + Len(a))
  BY <1>6, <1>7, PartOfPart
<1> QED
  BY <1>3, <1>5, <1>8 DEF x, a, y, PlacedAt

\* The first k of a sequence, and the next.
First(s, k) == SubSeq(s, 1, k)

\* One element more.
LEMMA FirstGrows ==
  ASSUME NEW S, NEW s \in Seq(S), NEW k \in Nat, k < Len(s)
  PROVE  /\ Append(First(s, k), s[k + 1]) = First(s, k + 1)
         /\ First(s, k) \in Seq(S) /\ Len(First(s, k)) = k
<1> DEFINE m == k + 1
           x == First(s, k)
           y == First(s, m)
<1>1. m \in Nat /\ m <= Len(s) /\ k <= Len(s) /\ m \in 1 .. Len(s)
  OBVIOUS
<1>2. x \in Seq(S) /\ Len(x) = k /\ \A j \in 1 .. k : x[j] = s[j]
  <2>1. \A i \in 1 .. k : s[i] \in S
    OBVIOUS
  <2>2. 1 \in Int /\ k \in Int
    OBVIOUS
  <2>3. /\ SubSeq(s, 1, k) \in Seq(S)
        /\ Len(SubSeq(s, 1, k)) = IF 1 <= k THEN k - 1 + 1 ELSE 0
        /\ \A i \in 1 .. k - 1 + 1 : SubSeq(s, 1, k)[i] = s[1 + i - 1]
    BY <2>1, <2>2, SubSeqProperties
  <2> QED
    BY <2>3 DEF First
<1> HIDE DEF m
<1>3. y \in Seq(S) /\ Len(y) = m /\ \A j \in 1 .. m : y[j] = s[j]
  <2>1. \A i \in 1 .. m : s[i] \in S
    BY <1>1
  <2>2. 1 \in Int /\ m \in Int
    BY <1>1
  <2>3. /\ SubSeq(s, 1, m) \in Seq(S)
        /\ Len(SubSeq(s, 1, m)) = IF 1 <= m THEN m - 1 + 1 ELSE 0
        /\ \A i \in 1 .. m - 1 + 1 : SubSeq(s, 1, m)[i] = s[1 + i - 1]
    BY <2>1, <2>2, SubSeqProperties
  <2> QED
    BY <1>1, <2>3 DEF First
<1> HIDE DEF x, y
<1> DEFINE z == Append(x, s[m])
<1>4. s[m] \in S
  BY <1>1
<1>5. z \in Seq(S) /\ Len(z) = k + 1 /\ z[k + 1] = s[m] /\ \A j \in 1 .. k : z[j] = x[j]
  BY <1>2, <1>4, AppendProperties
<1> HIDE DEF z
<1>6. \A j \in 1 .. m : z[j] = y[j]
  <2> TAKE j \in 1 .. m
  <2>1. j \in 1 .. k \/ j = k + 1
    BY DEF m
  <2>2. m = k + 1
    BY DEF m
  <2> QED
    BY <1>2, <1>3, <1>5, <2>1, <2>2
<1>7. Len(z) = Len(y)
  BY <1>3, <1>5 DEF m
<1>8. z = y
  BY <1>3, <1>5, <1>6, <1>7, SeqEqual
<1> QED
  BY <1>2, <1>8 DEF x, y, z, m

\* After some arguments of a request that is not complete with them.
ArgsRead(g, p, q, d, list2, args, k, list, size, made, stalled) ==
  /\ InRequest(d, list2, size, made)
  /\ Between(g, q, d)
  /\ Len(list2) = Len(list) + k
  /\ list = << >> => list2 = First(args, k)
  /\ \A i \in p .. q - 2 : Steady(g, i, made, stalled)

\* The next argument is read.
LEMMA ArgsStep ==
  ASSUME NEW all, NEW g, Scanned(g, all), NEW args \in Seq(Seq(Symbols)),
         NEW ga, Parts(ga, [i \in DOMAIN args |-> EncodeArg(args[i])], Symbols),
         NEW p, PartOf(ga[Len(args)], all, p),
         NEW d, NEW list, NEW size, NEW made, InRequest(d, list, size, made), Between(g, p, d),
         NEW k \in Nat, k <= Len(args),
         NEW stalled, Len(list) + k < size \/ (stalled /\ Len(list) >= size)
  PROVE  \E d2, list2 : ArgsRead(g, p, p + Len(ga[k]), d2, list2, args, k, list, size, made, stalled)
<1> DEFINE encs == [i \in DOMAIN args |-> EncodeArg(args[i])]
<1>1. /\ encs \in Seq(Seq(Symbols)) /\ Len(encs) = Len(args)
      /\ \A i \in 1 .. Len(args) : encs[i] = EncodeArg(args[i])
  BY EncodeRequestType
<1>2. Parts(ga, encs, Symbols) /\ PartOf(ga[Len(encs)], all, p)
  BY <1>1
<1> HIDE DEF encs
<1>3. p \in Nat
  BY DEF PartOf
<1>4. list \in Seq(Seq(Symbols)) /\ size \in Nat /\ Len(list) \in Nat /\ Len(args) \in Nat
  BY LenProperties DEF InRequest, WellFormed, Decodings, Contexts
<1> DEFINE SoFar(m, d2, list2) ==
             ArgsRead(g, p, p + Len(ga[m]), d2, list2, args, m, list, size, made, stalled)
           S == {m \in Nat : m <= k => \E d2, list2 : SoFar(m, d2, list2)}
<1>5. 0 \in S
  <2>1. Len(ga[0]) = 0 /\ p + Len(ga[0]) = p
    BY <1>2, <1>3 DEF Parts
  <2>2. list = << >> => list = First(args, 0)
    BY DEF First
  <2>3. Len(list) = Len(list) + 0 /\ \A i \in p .. p - 2 : FALSE
    BY <1>3, <1>4
  <2>4. SoFar(0, d, list)
    BY <2>1, <2>2, <2>3 DEF ArgsRead
  <2> QED
    BY <2>4
<1>6. ASSUME NEW m \in Nat, m \in S PROVE m + 1 \in S
  <2> SUFFICES ASSUME m + 1 <= k PROVE \E d2, list2 : SoFar(m + 1, d2, list2)
    OBVIOUS
  <2>1. PICK d2, list2 : SoFar(m, d2, list2)
    BY <1>6
  <2>2. PICK j \in 1 .. Len(args) : j = m + 1 /\ j - 1 = m
    BY <1>4
  <2> DEFINE arg == args[j]
             q == p + Len(ga[m])
             q2 == p + Len(ga[m + 1])
  <2>3. arg \in Seq(Symbols)
    OBVIOUS
  <2>4. PartOf(EncodeArg(arg), all, q) /\ q2 = q + Len(EncodeArg(arg)) /\ q \in Nat
    <3>0. PlacedAt(encs, ga, all, p, j)
      BY <1>1, <1>2, PartOfJoined
    <3>1. /\ PartOf(encs[j], all, p + Len(ga[j - 1]))
          /\ Len(ga[j]) = Len(ga[j - 1]) + Len(encs[j])
          /\ Len(ga[j - 1]) \in Nat
      BY <3>0 DEF PlacedAt
    <3>2. encs[j] = EncodeArg(arg) /\ Len(encs[j]) \in Nat
      BY <1>1, <3>1 DEF PartOf
    <3>3. ga[j - 1] = ga[m] /\ ga[j] = ga[m + 1]
      BY <2>2
    <3>4. PartOf(EncodeArg(arg), all, q)
      BY <3>1, <3>2, <3>3
    <3>5. Len(ga[m]) \in Nat /\ Len(ga[m + 1]) = Len(ga[m]) + Len(EncodeArg(arg))
          /\ Len(EncodeArg(arg)) \in Nat
      BY <3>1, <3>2, <3>3
    <3>6. \A x, y, z \in Nat : x + (y + z) = (x + y) + z /\ x + y \in Nat
      OBVIOUS
    <3>7. q2 = q + Len(EncodeArg(arg)) /\ q \in Nat
      <4>1. PICK x \in Nat, y \in Nat : x = Len(ga[m]) /\ y = Len(EncodeArg(arg))
        BY <3>5
      <4>2. q2 = p + (x + y) /\ q = p + x
        BY <3>5, <4>1
      <4>3. y = Len(EncodeArg(arg))
        BY <4>1
      <4> HIDE DEF q, q2, arg
      <4>4. q2 = q + y /\ q \in Nat
        BY <1>3, <4>2
      <4> QED
        BY <4>3, <4>4
    <3> QED
      BY <3>4, <3>7
  <2> HIDE DEF arg, q, q2
  <2>5. /\ InRequest(d2, list2, size, made) /\ Between(g, q, d2) /\ g[q] = At(d2, q + 1)
        /\ Len(list2) = Len(list) + m
        /\ \A i \in p .. q - 2 : Steady(g, i, made, stalled)
        /\ list = << >> => list2 = First(args, m)
    BY <2>1 DEF ArgsRead, Between, q
  <2>6. Len(list2) < size \/ stalled
    BY <1>4, <2>5
  <2>7. Len(list2) + 1 # size
    BY <1>4, <2>5
  <2>8. PICK d3 : ArgRead(g, q, q + Len(EncodeArg(arg)), d3, list2, size, made, arg, stalled)
    BY <2>3, <2>4, <2>5, <2>6, ArgStep
  <2>9. ArgRead(g, q, q2, d3, list2, size, made, arg, stalled)
    BY <2>4, <2>8
  <2> DEFINE list3 == Append(list2, arg)
  <2>10. InRequest(d3, list3, size, made) /\ Between(g, q2, d3)
         /\ \A i \in q .. q2 - 2 : Steady(g, i, made, stalled)
    BY <2>7, <2>9 DEF ArgRead, ArgEnd
  <2>11. Len(list3) = Len(list) + (m + 1)
    <3>1. list2 \in Seq(Seq(Symbols))
      BY <2>5 DEF InRequest, WellFormed, Decodings, Contexts
    <3>2. Len(list3) = Len(list2) + 1
      BY <2>3, <3>1
    <3> QED
      BY <1>4, <2>5, <3>2
  <2>12. list = << >> => list3 = First(args, m + 1)
    <3>1. m < Len(args)
      BY <1>4
    <3>2. Append(First(args, m), args[m + 1]) = First(args, m + 1)
      BY <3>1, FirstGrows
    <3>3. arg = args[m + 1]
      BY <2>2 DEF arg
    <3>4. ASSUME list = << >> PROVE list3 = First(args, m + 1)
      <4>1. list2 = First(args, m)
        BY <2>5, <3>4
      <4> QED
        BY <3>2, <3>3, <4>1, Zenon
    <3> QED
      BY <3>4
  <2> HIDE DEF list3
  <2>13. \A i \in p .. q2 - 2 : Steady(g, i, made, stalled)
    <3> TAKE i \in p .. q2 - 2
    <3>1. q2 \in Nat
      BY <2>4, <1>3 DEF PartOf
    <3>2. i \in p .. q - 2 \/ (i = q - 1 /\ q > 0) \/ i \in q .. q2 - 2
      BY <1>3, <2>4, <3>1
    <3>3. ASSUME i = q - 1, q > 0 PROVE Steady(g, i, made, stalled)
      <4>1. g[q - 1] = At(d2, q + 1)
        BY <2>5, <3>3 DEF Between
      <4>2. g[i] = At(d2, q + 1)
        BY <3>3, <4>1
      <4> QED
        BY <2>5, <2>6, <4>2, InRequestIsSteady
    <3>4. CASE i \in p .. q - 2
      BY <2>5, <3>4
    <3>5. CASE i \in q .. q2 - 2
      BY <2>10, <3>5
    <3> QED
      BY <3>2, <3>3, <3>4, <3>5, Zenon
  <2>14. SoFar(m + 1, d3, list3)
    BY <2>10, <2>11, <2>12, <2>13 DEF ArgsRead, q2
  <2> QED
    BY <2>14
<1> HIDE DEF S
<1>7. Nat \subseteq S
  BY <1>5, <1>6, NatSet
<1>8. k \in S /\ k <= k
  BY <1>7
<1> QED
  BY <1>8 DEF S

\* The header of a request and its arguments.
LEMMA RequestParts ==
  ASSUME NEW r \in Seq(Seq(Symbols)), NEW all, NEW p, PartOf(EncodeRequest(r), all, p)
  PROVE  \E ga : /\ Parts(ga, [i \in DOMAIN r |-> EncodeArg(r[i])], Symbols)
                 /\ TokenAt(all, p, <<Symbol("*", Len(r))>>)
                 /\ PartOf(ga[Len(r)], all, p + 3)
                 /\ Len(EncodeRequest(r)) = 3 + Len(ga[Len(r)])
<1> DEFINE encs == [i \in DOMAIN r |-> EncodeArg(r[i])]
           h == <<Symbol("*", Len(r))>>
           x == h \o <<CR, LF>>
           y == FlattenSeq(encs)
<1>1. encs \in Seq(Seq(Symbols)) /\ Len(encs) = Len(r)
  BY EncodeRequestType
<1>2. h \in Seq(Symbols) /\ Len(h) = 1
  BY DEF Symbol, Symbols
<1>3. x \in Seq(Symbols) /\ Len(x) = 3
  BY <1>2, WithEnd
<1>4. EncodeRequest(r) = x \o y
  <2>1. x = <<Symbol("*", Len(r)), CR, LF>>
    BY <1>2, HeaderIs
  <2> HIDE DEF x
  <2> QED
    BY <2>1 DEF EncodeRequest
<1> HIDE DEF encs, h, x
<1>5. PICK ga : Parts(ga, encs, Symbols) /\ y = ga[Len(encs)]
  BY <1>1, FlattenParts
<1>6. y \in Seq(Symbols)
  BY <1>1, FlattenType
<1> HIDE DEF y
<1>7. PartOf(x, x \o y, 0) /\ PartOf(y, x \o y, 3) /\ Len(x \o y) = 3 + Len(y)
  BY <1>3, <1>6, PartsOfConcat
<1>8. p \in Nat
  BY DEF PartOf
<1>9. PartOf(x, all, p) /\ PartOf(y, all, p + 3)
  <2>1. PartOf(x \o y, all, p)
    BY <1>4
  <2>2. PartOf(x, all, p + 0) /\ PartOf(y, all, p + 3)
    BY <1>7, <2>1, PartOfPart
  <2> QED
    BY <1>8, <2>2
<1>10. TokenAt(all, p, h)
  BY <1>2, <1>9, TokenInPart DEF x
<1> QED
  BY <1>1, <1>4, <1>5, <1>7, <1>9, <1>10 DEF encs, h

\* The decoder is in a request it will never find complete.
Stuck(d, made) == \E list, size : InRequest(d, list, size, made) /\ Len(list) >= size

\* Where a request leaves the decoder.
RequestEnd(d, made, r) ==
  IF Stalls(r) THEN Stuck(d, made)
  ELSE IF Last(r) = << >> THEN Thrown(d) ELSE Fresh(d, CallFor(made, r))

\* And on the way from place p to place q.
RequestRead(g, p, q, d, made, r, stalled) ==
  /\ RequestEnd(d, made, r)
  /\ Between(g, q, d)
  /\ \A i \in p .. q - 2 :
       /\ Calm(g, i, stalled)
       /\ r = << >> \/ Last(r) # << >> => Steady(g, i, made, stalled)

\* The header of a request, and where the decoder is then.
LEMMA RequestHeader ==
  ASSUME NEW all, NEW g, Scanned(g, all), NEW p, NEW n \in Nat, TokenAt(all, p, <<Symbol("*", n)>>),
         NEW d, d.outcome = "returned", d.ctx.state # "PARSE_BLUK_STRINGS", g[p] = At(d, p + 1)
  PROVE  /\ \A i \in p .. p + 1 : g[i] = At(d, p + 1)
         /\ Between(g, p + 3, HandleToken(d, <<Symbol("*", n)>>))
<1> DEFINE h == <<Symbol("*", n)>>
<1>1. Len(h) = 1 /\ h[1] # CR
  BY DEF CR, Symbol
<1> HIDE DEF h
<1>2. Expected(d, h)
  BY <1>1 DEF Expected
<1>3. TokenAt(all, p, h)
  BY DEF h
<1>4. /\ \A i \in p .. p + Len(h) : g[i] = At(d, p + 1)
      /\ Between(g, (p + Len(h)) + 2, HandleToken(d, h))
  BY <1>2, <1>3, TokenStep
<1>5. (p + Len(h)) + 2 = p + 3 /\ p + Len(h) = p + 1
  BY <1>1 DEF TokenAt
<1> QED
  BY <1>4, <1>5 DEF h

\* A request of the stalled kind that begins another.
LEMMA StuckRequest ==
  ASSUME NEW all, NEW g, Scanned(g, all), NEW r \in Seq(Seq(Symbols)),
         NEW p, PartOf(EncodeRequest(r), all, p),
         NEW d, NEW made, Stuck(d, made), Between(g, p, d), NEW stalled, stalled = TRUE
  PROVE  \E d2 : /\ Stuck(d2, made) /\ Between(g, p + Len(EncodeRequest(r)), d2)
                 /\ \A i \in p .. (p + Len(EncodeRequest(r))) - 2 : Steady(g, i, made, stalled)
<1> DEFINE n == Len(r)
           h == <<Symbol("*", n)>>
           encs == [i \in DOMAIN r |-> EncodeArg(r[i])]
<1>1. PICK ga : /\ Parts(ga, encs, Symbols) /\ TokenAt(all, p, h) /\ PartOf(ga[n], all, p + 3)
                /\ Len(EncodeRequest(r)) = 3 + Len(ga[n])
  BY RequestParts
<1>2. n \in Nat /\ p \in Nat /\ Len(ga[n]) \in Nat /\ p + 3 \in Nat
  BY <1>1 DEF PartOf
<1>l. PICK l \in Nat : l = Len(ga[n])
  BY <1>2
<1>3. PICK list, size : InRequest(d, list, size, made) /\ Len(list) >= size
  BY DEF Stuck
<1>4. list \in Seq(Seq(Symbols)) /\ size \in Nat /\ Len(list) \in Nat
  BY <1>3, LenProperties DEF InRequest, WellFormed, Decodings, Contexts
<1>5. g[p] = At(d, p + 1)
  BY DEF Between
<1>6. d.outcome = "returned" /\ d.ctx.state # "PARSE_BLUK_STRINGS"
  BY <1>3 DEF InRequest
<1>7. HandleToken(d, h) = d
  BY <1>2, <1>3, HandleNoElement
<1>8. (\A i \in p .. p + 1 : g[i] = At(d, p + 1)) /\ Between(g, p + 3, HandleToken(d, h))
  BY <1>1, <1>2, <1>5, <1>6, RequestHeader
<1>9. Between(g, p + 3, d)
  BY <1>7, <1>8
<1> HIDE DEF n, h, encs
<1> DEFINE m == p + 3
<1>10. PICK d2, list2 : ArgsRead(g, m, m + l, d2, list2, r, n, list, size, made, stalled)
  <2> HIDE DEF m
  <2>1. PartOf(ga[Len(r)], all, m) /\ Between(g, m, d) /\ n <= Len(r)
        /\ Parts(ga, [i \in DOMAIN r |-> EncodeArg(r[i])], Symbols)
    BY <1>1, <1>2, <1>9 DEF m, n, encs
  <2> QED
    BY <1>2, <1>3, <1>l, <2>1, ArgsStep
<1>11. p + Len(EncodeRequest(r)) = m + l
  <2>1. Len(EncodeRequest(r)) = 3 + l
    BY <1>1, <1>l
  <2>2. p + (3 + l) = (p + 3) + l
    BY <1>2
  <2> QED
    BY <2>1, <2>2
<1> DEFINE q == m + l
<1>12. /\ InRequest(d2, list2, size, made) /\ Between(g, q, d2) /\ Len(list2) = Len(list) + n
       /\ \A i \in m .. q - 2 : Steady(g, i, made, stalled)
  BY <1>10 DEF ArgsRead
<1>13. Stuck(d2, made)
  <2>1. Len(list2) >= size
    BY <1>2, <1>3, <1>4, <1>12
  <2> QED
    BY <1>12, <2>1 DEF Stuck
<1>14. g[p + 2] = At(d, (p + 3) + 1)
  <2>1. p + 3 > 0 /\ (p + 3) - 1 = p + 2
    BY <1>2
  <2> QED
    BY <1>9, <2>1 DEF Between
<1>15. \A i \in p .. q - 2 : Steady(g, i, made, stalled)
  <2> TAKE i \in p .. q - 2
  <2>1. i \in p .. p + 1 \/ i = p + 2 \/ i \in m .. q - 2
    BY <1>2
  <2>2. CASE i \in p .. p + 1
    <3>1. g[i] = At(d, p + 1)
      BY <1>8, <2>2
    <3> QED
      BY <1>3, <3>1, InRequestIsSteady
  <2>3. CASE i = p + 2
    <3>1. g[i] = At(d, (p + 3) + 1)
      BY <1>14, <2>3
    <3> DEFINE start == (p + 3) + 1
    <3> HIDE DEF start
    <3>2. g[i] = At(d, start)
      BY <3>1 DEF start
    <3> QED
      BY <1>3, <3>2, InRequestIsSteady
  <2>4. CASE i \in m .. q - 2
    BY <1>12, <2>4
  <2> QED
    BY <2>1, <2>2, <2>3, <2>4
<1> HIDE DEF q, m
<1>16. p + Len(EncodeRequest(r)) = q
  BY <1>11 DEF q
<1> QED
  BY <1>12, <1>13, <1>15, <1>16

\* All of a sequence.
LEMMA FirstIsAll ==
  ASSUME NEW S, NEW s \in Seq(S)
  PROVE  First(s, Len(s)) = s
<1> DEFINE n == Len(s)
           x == First(s, n)
<1>1. n \in Nat
  OBVIOUS
<1>2. x \in Seq(S) /\ Len(x) = n /\ \A j \in 1 .. n : x[j] = s[j]
  <2>1. \A i \in 1 .. n : s[i] \in S
    OBVIOUS
  <2>2. 1 \in Int /\ n \in Int
    BY <1>1
  <2>3. /\ SubSeq(s, 1, n) \in Seq(S)
        /\ Len(SubSeq(s, 1, n)) = IF 1 <= n THEN n - 1 + 1 ELSE 0
        /\ \A i \in 1 .. n - 1 + 1 : SubSeq(s, 1, n)[i] = s[1 + i - 1]
    BY <2>1, <2>2, SubSeqProperties
  <2> QED
    BY <1>1, <2>3 DEF First
<1> HIDE DEF x
<1>3. x = s
  BY <1>2, SeqEqual
<1> QED
  BY <1>3 DEF x

\* A request without arguments is its header.
LEMMA EmptyRequest ==
  ASSUME NEW all, NEW g, Scanned(g, all), NEW p, PartOf(EncodeRequest(<< >>), all, p),
         NEW d, NEW made, Fresh(d, made), Between(g, p, d), NEW stalled, stalled = TRUE
  PROVE  \E d2 : RequestRead(g, p, p + Len(EncodeRequest(<< >>)), d2, made, << >>, stalled)
<1> DEFINE r == << >>
           h == <<Symbol("*", 0)>>
           d2 == HandleToken(d, h)
<1>0. r \in Seq(Seq(Symbols)) /\ Len(r) = 0 /\ 0 \in Nat
  OBVIOUS
<1>1. PICK ga : /\ Parts(ga, [i \in DOMAIN r |-> EncodeArg(r[i])], Symbols)
                /\ TokenAt(all, p, <<Symbol("*", Len(r))>>)
                /\ PartOf(ga[Len(r)], all, p + 3)
                /\ Len(EncodeRequest(r)) = 3 + Len(ga[Len(r)])
  BY <1>0, RequestParts
<1>2. TokenAt(all, p, h) /\ Len(EncodeRequest(r)) = 3 /\ p \in Nat
  <2>1. ga[0] = << >> /\ Len(<< >>) = 0
    BY <1>1 DEF Parts
  <2>2. Len(ga[Len(r)]) = 0
    BY <1>0, <2>1
  <2> QED
    BY <1>0, <1>1, <2>2 DEF PartOf
<1>3. d.outcome = "returned" /\ d.ctx.state # "PARSE_BLUK_STRINGS" /\ g[p] = At(d, p + 1)
  BY DEF Fresh, Between
<1>4. (\A i \in p .. p + 1 : g[i] = At(d, p + 1)) /\ Between(g, p + 3, d2)
  BY <1>0, <1>2, <1>3, RequestHeader
<1>5. InRequest(d2, << >>, 0, made)
  BY <1>0, HandleRequestHeader
<1> HIDE DEF d2
<1>6. Stuck(d2, made) /\ Stalls(r)
  BY <1>5 DEF Stuck, Stalls
<1>7. \A i \in p .. (p + 3) - 2 : Steady(g, i, made, stalled)
  <2> TAKE i \in p .. (p + 3) - 2
  <2>1. g[i] = At(d, p + 1)
    BY <1>2, <1>4
  <2> QED
    BY <2>1, FreshIsSteady
<1> HIDE DEF r
<1>8. RequestRead(g, p, p + 3, d2, made, r, stalled)
  <2>1. \A i \in p .. (p + 3) - 2 : Calm(g, i, stalled)
    BY <1>7 DEF Steady
  <2> QED
    BY <1>4, <1>6, <1>7, <2>1 DEF RequestRead, RequestEnd
<1>9. p + Len(EncodeRequest(r)) = p + 3
  BY <1>2
<1>10. RequestRead(g, p, p + Len(EncodeRequest(r)), d2, made, r, stalled)
  BY <1>8, <1>9
<1> QED
  BY <1>10 DEF r

\* A request the decoder waits for.
LEMMA FreshRequest ==
  ASSUME NEW all, NEW g, Scanned(g, all), NEW r \in Seq(Seq(Symbols)), r # << >>,
         NEW p, PartOf(EncodeRequest(r), all, p),
         NEW d, NEW made, Fresh(d, made), Between(g, p, d), NEW stalled
  PROVE  \E d2 : RequestRead(g, p, p + Len(EncodeRequest(r)), d2, made, r, stalled)
<1> DEFINE n == Len(r)
           h == <<Symbol("*", n)>>
           encs == [i \in DOMAIN r |-> EncodeArg(r[i])]
           d1 == HandleToken(d, h)
           m == p + 3
<1>1. PICK ga : /\ Parts(ga, encs, Symbols) /\ TokenAt(all, p, h) /\ PartOf(ga[n], all, m)
                /\ Len(EncodeRequest(r)) = 3 + Len(ga[n])
  BY RequestParts
<1>2. n \in Nat \ {0} /\ n \in Nat /\ p \in Nat /\ m \in Nat
  BY <1>1, EmptySeq DEF PartOf
<1>3. d.outcome = "returned" /\ d.ctx.state # "PARSE_BLUK_STRINGS" /\ g[p] = At(d, p + 1)
  BY DEF Fresh, Between
<1>4. (\A i \in p .. p + 1 : g[i] = At(d, p + 1)) /\ Between(g, m, d1)
  BY <1>1, <1>2, <1>3, RequestHeader
<1>5. InRequest(d1, << >>, n, made)
  BY <1>2, HandleRequestHeader
<1>6. /\ encs \in Seq(Seq(Symbols)) /\ Len(encs) = n
      /\ \A i \in 1 .. n : encs[i] = EncodeArg(r[i])
  BY EncodeRequestType
<1> HIDE DEF encs, d1, h
<1>7. PICK k \in Nat : n = k + 1 /\ k = n - 1 /\ k <= n /\ k < n /\ n \in 1 .. n
  <2> HIDE DEF n
  <2>1. n - 1 \in Nat /\ n = (n - 1) + 1 /\ n - 1 <= n /\ n - 1 < n /\ n \in 1 .. n
    BY <1>2
  <2> QED
    BY <2>1
<1> DEFINE arg == r[n]
<1>8. arg \in Seq(Symbols) /\ arg = Last(r)
  BY <1>2 DEF Last
<1>9. /\ PartOf(EncodeArg(arg), all, m + Len(ga[k]))
      /\ Len(ga[n]) = Len(ga[k]) + Len(EncodeArg(arg))
      /\ Len(ga[k]) \in Nat
  <2>1. PartOf(ga[Len(encs)], all, m)
    BY <1>1, <1>6
  <2>2. n \in 1 .. Len(encs)
    BY <1>2, <1>6
  <2>3. PICK j \in 1 .. Len(encs) : j = n
    BY <2>2
  <2>5. Parts(ga, encs, Symbols)
    BY <1>1
  <2>6. encs[n] = EncodeArg(arg) /\ n - 1 = k
    BY <1>6, <1>7
  <2> HIDE DEF m, n
  <2>4. /\ PartOf(encs[j], all, m + Len(ga[j - 1])) /\ Len(ga[j]) = Len(ga[j - 1]) + Len(encs[j])
        /\ Len(ga[j - 1]) \in Nat
    <3>1. encs \in Seq(Seq(Symbols))
      BY <1>6
    <3>2. PlacedAt(encs, ga, all, m, j)
      BY <3>1, <2>1, <2>5, PartOfJoined
    <3> QED
      BY <3>2 DEF PlacedAt
  <2>7. j = n /\ j - 1 = k
    BY <2>3, <2>6
  <2> QED
    BY <2>4, <2>6, <2>7
<1>10. PICK l \in Nat : l = Len(ga[k])
  BY <1>9
<1>11. PICK a \in Nat : a = Len(EncodeArg(arg))
  BY <1>9 DEF PartOf
<1> HIDE DEF arg
<1> DEFINE q1 == m + l
           q == q1 + a
<1>12. PICK d2, list2 : ArgsRead(g, m, q1, d2, list2, r, k, << >>, n, made, stalled)
  <2> HIDE DEF m
  <2>1. /\ PartOf(ga[Len(r)], all, m) /\ Between(g, m, d1) /\ k <= Len(r)
        /\ Parts(ga, [i \in DOMAIN r |-> EncodeArg(r[i])], Symbols)
    BY <1>1, <1>4, <1>7 DEF encs
  <2>2. Len(<< >>) + k < n
    BY <1>7
  <2> DEFINE none == << >>
  <2>3. InRequest(d1, none, n, made) /\ Len(none) + k < n
    BY <1>5, <2>2
  <2> HIDE DEF none, n
  <2>4. \E d2, list2 : ArgsRead(g, m, m + Len(ga[k]), d2, list2, r, k, none, n, made, stalled)
    BY <2>1, <2>3, ArgsStep
  <2> QED
    BY <1>10, <2>4 DEF none
<1>13. /\ InRequest(d2, list2, n, made) /\ Between(g, q1, d2) /\ list2 = First(r, k)
       /\ \A i \in m .. q1 - 2 : Steady(g, i, made, stalled)
  BY <1>12 DEF ArgsRead
<1>14. Append(list2, arg) = r /\ Len(list2) = k /\ Len(list2) + 1 = n
  <2>1. k < Len(r)
    BY <1>7
  <2>2. Append(First(r, k), r[k + 1]) = First(r, k + 1) /\ Len(First(r, k)) = k
    BY <2>1, FirstGrows
  <2>3. First(r, Len(r)) = r
    BY FirstIsAll
  <2>4. k + 1 = n /\ r[k + 1] = arg
    BY <1>7 DEF arg
  <2>5. First(r, k + 1) = r
    BY <2>3, <2>4
  <2> QED
    BY <1>7, <1>13, <2>2, <2>4, <2>5, Zenon
<1>15. p + Len(EncodeRequest(r)) = q
  <2>1. Len(EncodeRequest(r)) = 3 + (l + a)
    BY <1>1, <1>9, <1>10, <1>11
  <2>2. p + (3 + (l + a)) = q
    BY <1>2
  <2> QED
    BY <2>1, <2>2
<1>16. PICK d3 : ArgRead(g, q1, q, d3, list2, n, made, arg, stalled)
  <2>1. g[q1] = At(d2, q1 + 1)
    BY <1>13 DEF Between
  <2>2. Len(list2) < n
    BY <1>7, <1>14
  <2>3. PartOf(EncodeArg(arg), all, q1)
    BY <1>9, <1>10
  <2> HIDE DEF q1, n
  <2>4. \E d3 : ArgRead(g, q1, q1 + Len(EncodeArg(arg)), d3, list2, n, made, arg, stalled)
    BY <1>8, <1>13, <2>1, <2>2, <2>3, ArgStep
  <2> QED
    BY <1>11, <2>4
<1>17. RequestEnd(d3, made, r)
  <2>1. ArgEnd(d3, list2, n, made, arg)
    BY <1>16 DEF ArgRead
  <2>2. CASE IsInteger(arg)
    <3>1. InRequest(d3, r, n, made)
      BY <1>14, <2>1, <2>2 DEF ArgEnd
    <3>2. Stuck(d3, made)
      <4>1. Len(r) >= n
        BY <1>2
      <4> QED
        BY <3>1, <4>1 DEF Stuck
    <3> QED
      BY <1>8, <2>2, <3>2 DEF RequestEnd, Stalls
  <2>3. CASE ~IsInteger(arg)
    <3>1. IF arg = << >> THEN Thrown(d3) ELSE Fresh(d3, CallFor(made, r))
      BY <1>14, <2>1, <2>3 DEF ArgEnd
    <3>2. ~Stalls(r)
      BY <1>8, <2>3 DEF Stalls
    <3> QED
      BY <1>8, <3>1, <3>2 DEF RequestEnd
  <2> QED
    BY <2>2, <2>3
<1>18. g[p + 2] = At(d1, m + 1)
  <2>1. m > 0 /\ m - 1 = p + 2
    BY <1>2
  <2> QED
    BY <1>4, <2>1 DEF Between
<1>19. \A i \in p .. m - 1 : Steady(g, i, made, stalled)
  <2> TAKE i \in p .. m - 1
  <2>1. i \in p .. p + 1 \/ i = p + 2
    BY <1>2
  <2>2. CASE i \in p .. p + 1
    <3>1. g[i] = At(d, p + 1)
      BY <1>4, <2>2
    <3> QED
      BY <3>1, FreshIsSteady
  <2>3. CASE i = p + 2
    <3> DEFINE start == m + 1
               none == << >>
    <3>1. Len(none) < n /\ InRequest(d1, none, n, made)
      BY <1>2, <1>5
    <3>2. g[i] = At(d1, start)
      BY <1>18, <2>3
    <3> HIDE DEF start, none
    <3> QED
      BY <3>1, <3>2, InRequestIsSteady
  <2> QED
    BY <2>1, <2>2, <2>3
<1>20. q1 > 0 => Steady(g, q1 - 1, made, stalled)
  <2> SUFFICES ASSUME q1 > 0 PROVE Steady(g, q1 - 1, made, stalled)
    OBVIOUS
  <2> DEFINE i == q1 - 1
             start == q1 + 1
  <2>1. g[i] = At(d2, start)
    BY <1>13 DEF Between
  <2>2. Len(list2) < n
    BY <1>7, <1>14
  <2> HIDE DEF start, i
  <2>3. Steady(g, i, made, stalled)
    BY <1>13, <2>1, <2>2, InRequestIsSteady
  <2> QED
    BY <2>3 DEF i
<1>21. ASSUME NEW i \in p .. q - 2
       PROVE  /\ Calm(g, i, stalled)
              /\ arg # << >> => Steady(g, i, made, stalled)
  <2>1. i \in p .. m - 1 \/ i \in m .. q1 - 2 \/ (i = q1 - 1 /\ q1 > 0) \/ i \in q1 .. q - 2
    BY <1>2
  <2>2. CASE i \in p .. m - 1
    BY <1>19, <2>2 DEF Steady
  <2>3. CASE i \in m .. q1 - 2
    BY <1>13, <2>3 DEF Steady
  <2>4. CASE i = q1 - 1 /\ q1 > 0
    BY <1>20, <2>4 DEF Steady
  <2>5. CASE i \in q1 .. q - 2
    BY <1>16, <2>5 DEF ArgRead
  <2> QED
    BY <2>1, <2>2, <2>3, <2>4, <2>5
<1>22. RequestRead(g, p, q, d3, made, r, stalled)
  <2>1. Between(g, q, d3)
    BY <1>16 DEF ArgRead
  <2> HIDE DEF q
  <2> QED
    BY <1>8, <1>17, <1>21, <2>1 DEF RequestRead
<1> QED
  BY <1>15, <1>22

(***************************************************************************)
(* The stream of requests.                                                 *)
(***************************************************************************)

\* Of the first m requests one is of the kind that stalls.
StallsWithin(s, m) == \E i \in 1 .. m : Stalls(s[i])

\* The calls that the first m requests are to cause.
Finished(s, m) ==
  [k \in {k \in 1 .. m : ~StallsWithin(s, k)} |-> [id |-> k - 1, args |-> s[k]]]

\* No request ends in an empty argument.
NoEmptyEnd(s) == \A i \in DOMAIN s : s[i] # << >> => Last(s[i]) # << >>

\* With a request more there is a call more, or none if it is never seen to be complete.
LEMMA FinishedGrows ==
  ASSUME NEW s \in Seq(Seq(Seq(Symbols))), NEW m \in Nat, m < Len(s)
  PROVE  /\ StallsWithin(s, m + 1) <=> StallsWithin(s, m) \/ Stalls(s[m + 1])
         /\ StallsWithin(s, m + 1) => Finished(s, m + 1) = Finished(s, m)
         /\ ~StallsWithin(s, m + 1) => CallFor(Finished(s, m), s[m + 1]) = Finished(s, m + 1)
<1> DEFINE n == m + 1
<1>1. n \in Nat /\ n \in 1 .. Len(s)
  OBVIOUS
<1>2. StallsWithin(s, n) <=> StallsWithin(s, m) \/ Stalls(s[n])
  <2>1. \A i \in 1 .. n : i \in 1 .. m \/ i = n
    OBVIOUS
  <2>2. \A i \in 1 .. m : i \in 1 .. n
    OBVIOUS
  <2>3. n \in 1 .. n
    OBVIOUS
  <2> HIDE DEF n
  <2> QED
    BY <2>1, <2>2, <2>3 DEF StallsWithin
<1>3. ASSUME StallsWithin(s, n) PROVE Finished(s, n) = Finished(s, m)
  <2>1. {k \in 1 .. n : ~StallsWithin(s, k)} = {k \in 1 .. m : ~StallsWithin(s, k)}
    <3>1. \A k \in 1 .. n : k \in 1 .. m \/ k = n
      OBVIOUS
    <3>2. \A k \in 1 .. m : k \in 1 .. n
      OBVIOUS
    <3> HIDE DEF n
    <3> QED
      BY <1>3, <3>1, <3>2
  <2> HIDE DEF n
  <2> QED
    BY <2>1 DEF Finished
<1>4. ASSUME ~StallsWithin(s, n) PROVE CallFor(Finished(s, m), s[n]) = Finished(s, n)
  <2>1. \A k \in 1 .. n : ~StallsWithin(s, k)
    <3> TAKE k \in 1 .. n
    <3>1. \A i \in 1 .. k : i \in 1 .. n
      OBVIOUS
    <3> QED
      BY <1>4, <3>1 DEF StallsWithin
  <2>2. {k \in 1 .. n : ~StallsWithin(s, k)} = 1 .. n /\ {k \in 1 .. m : ~StallsWithin(s, k)} = 1 .. m
    <3>1. \A k \in 1 .. m : k \in 1 .. n
      OBVIOUS
    <3> HIDE DEF n
    <3> QED
      BY <2>1, <3>1
  <2> DEFINE C == [id : Nat, args : Seq(Seq(Symbols))]
             F(k) == [id |-> k - 1, args |-> s[k]]
             x == Finished(s, m)
             y == Finished(s, n)
             z == CallFor(x, s[n])
  <2>3. \A k \in 1 .. n : F(k) \in C
    <3> TAKE k \in 1 .. n
    <3>1. k - 1 \in Nat /\ k \in 1 .. Len(s)
      BY <1>1
    <3>2. s[k] \in Seq(Seq(Symbols))
      BY <3>1
    <3> QED
      BY <3>1, <3>2
  <2>4. x = [k \in 1 .. m |-> F(k)] /\ y = [k \in 1 .. n |-> F(k)]
    <3> HIDE DEF n
    <3> QED
      BY <2>2 DEF Finished
  <2> HIDE DEF x, y, F, C
  <2>5. x \in Seq(C) /\ Len(x) = m /\ \A k \in 1 .. m : x[k] = F(k)
    <3>1. \A k \in 1 .. m : F(k) \in C
      BY <2>3
    <3> QED
      BY <2>4, <3>1, IsASeq
  <2> HIDE DEF n
  <2>6. y \in Seq(C) /\ Len(y) = n /\ \A k \in 1 .. n : y[k] = F(k)
    BY <1>1, <2>3, <2>4, IsASeq
  <2>7. z = Append(x, F(n))
    <3>1. F(n) = [id |-> Len(x), args |-> s[n]]
      BY <2>5 DEF F, n
    <3> QED
      BY <3>1 DEF CallFor
  <2>8. F(n) \in C /\ n = m + 1
    BY <1>1, <2>3 DEF n
  <2>9. z \in Seq(C) /\ Len(z) = m + 1 /\ z[m + 1] = F(n) /\ \A k \in 1 .. m : z[k] = x[k]
    BY <2>5, <2>7, <2>8, AppendProperties
  <2> HIDE DEF z
  <2>10. \A k \in 1 .. n : z[k] = y[k]
    <3> TAKE k \in 1 .. n
    <3>1. k \in 1 .. m \/ k = m + 1
      BY <2>8
    <3> QED
      BY <2>5, <2>6, <2>8, <2>9, <3>1
  <2>11. z = y
    BY <2>6, <2>8, <2>9, <2>10, SeqEqual
  <2> QED
    BY <2>11 DEF x, y, z
<1> QED
  BY <1>2, <1>3, <1>4

\* Nothing is done after an exception.
LEMMA ThrownStays ==
  ASSUME NEW all, NEW g, Scanned(g, all), NEW p \in Nat, Thrown(g[p].d)
  PROVE  \A i \in p .. Len(all) : g[i] = g[p]
<1> DEFINE S == {k \in Nat : p + k <= Len(all) => g[p + k] = g[p]}
<1>0. Len(all) \in Nat
  BY DEF Scanned
<1>1. 0 \in S
  OBVIOUS
<1>2. ASSUME NEW k \in Nat, k \in S PROVE k + 1 \in S
  <2> SUFFICES ASSUME p + (k + 1) <= Len(all) PROVE g[p + (k + 1)] = g[p]
    OBVIOUS
  <2>1. g[p + k] = g[p]
    BY <1>0, <1>2
  <2>2. PICK i \in 1 .. Len(all) : i = p + (k + 1) /\ i - 1 = p + k
    BY <1>0
  <2>3. g[i] = ScanAt(all, g[p], i)
    BY <2>1, <2>2 DEF Scanned
  <2>4. ScanAt(all, g[p], i) = g[p]
    BY Zenon DEF ScanAt, Thrown
  <2> QED
    BY <2>2, <2>3, <2>4
<1> HIDE DEF S
<1>3. Nat \subseteq S
  BY <1>1, <1>2, NatSet
<1>4. ASSUME NEW i \in p .. Len(all) PROVE g[i] = g[p]
  <2>1. PICK k \in Nat : k = i - p /\ p + k = i
    BY <1>0
  <2>2. k \in S /\ p + k <= Len(all)
    BY <1>0, <1>3, <2>1
  <2>3. p + k <= Len(all) => g[p + k] = g[p]
    BY <2>2 DEF S
  <2> QED
    BY <2>1, <2>2, <2>3
<1> QED
  BY <1>4

\* Between two requests.
Status(d, s, m) ==
  \/ ~StallsWithin(s, m) /\ Fresh(d, Finished(s, m))
  \/ StallsWithin(s, m) /\ Stuck(d, Finished(s, m))

\* What holds of a place when the first j requests have arrived.
Held(g, s, i, j, stalled) ==
  Calm(g, i, stalled) /\ (NoEmptyEnd(s) => g[i].d.calls = Finished(s, j))

\* At place i the first j requests have arrived, of the first m.
Arrives(gs, m, i, j) ==
  /\ Len(gs[j]) <= i + 1 /\ i + 1 <= Len(gs[m])
  /\ j < m => i + 1 < Len(gs[j + 1])

\* What holds of the stream of the first m requests.
StreamRead(g, gs, s, m, stalled) ==
  /\ \/ \E d : Status(d, s, m) /\ Between(g, Len(gs[m]), d)
     \/ ~NoEmptyEnd(s) /\ Thrown(g[Len(gs[m])].d)
  /\ \A j \in 0 .. m, i \in Nat : Arrives(gs, m, i, j) => Held(g, s, i, j, stalled)

\* What is to be shown of a place holds between two requests.
LEMMA StatusIsHeld ==
  ASSUME NEW g, NEW i, NEW d, NEW start, g[i] = At(d, start), NEW s, NEW m,
         Status(d, s, m), NEW stalled, StallsWithin(s, m) => stalled = TRUE
  PROVE  Held(g, s, i, m, stalled)
<1>1. CASE Fresh(d, Finished(s, m))
  <2>1. Steady(g, i, Finished(s, m), stalled)
    BY <1>1, FreshIsSteady
  <2> QED
    BY <2>1 DEF Steady, Held
<1>2. CASE StallsWithin(s, m) /\ Stuck(d, Finished(s, m))
  <2> DEFINE made == Finished(s, m)
  <2>1. PICK list, size : InRequest(d, list, size, made) /\ Len(list) >= size
    BY <1>2 DEF Stuck
  <2> HIDE DEF made
  <2>2. Len(list) < size \/ stalled
    BY <1>2
  <2>3. Steady(g, i, made, stalled)
    BY <2>1, <2>2, InRequestIsSteady
  <2> QED
    BY <2>3 DEF Steady, Held, made
<1> QED
  BY <1>1, <1>2 DEF Status

\* The next request.
LEMMA StreamStep ==
  ASSUME NEW all, NEW g, Scanned(g, all), NEW s \in Seq(Seq(Seq(Symbols))),
         NEW gs, Parts(gs, [i \in DOMAIN s |-> EncodeRequest(s[i])], Symbols),
         PartOf(gs[Len(s)], all, 0),
         NEW stalled, StallsWithin(s, Len(s)) => stalled = TRUE,
         NEW m \in Nat, m < Len(s), StreamRead(g, gs, s, m, stalled)
  PROVE  StreamRead(g, gs, s, m + 1, stalled)
<1> DEFINE encs == [i \in DOMAIN s |-> EncodeRequest(s[i])]
           n == m + 1
           r == s[n]
           made == Finished(s, m)
<1>1. /\ encs \in Seq(Seq(Symbols)) /\ Len(encs) = Len(s)
      /\ \A i \in 1 .. Len(s) : encs[i] = EncodeRequest(s[i])
  <2>1. encs \in Seq(Seq(Symbols))
    BY StreamType
  <2>2. DOMAIN s = 1 .. Len(s) /\ Len(s) \in Nat
    OBVIOUS
  <2>3. \A i \in 1 .. Len(s) : encs[i] = EncodeRequest(s[i])
    BY <2>2
  <2>4. DOMAIN encs = 1 .. Len(s)
    BY <2>2
  <2> HIDE DEF encs
  <2>5. Len(encs) = Len(s)
    BY <2>1, <2>2, <2>4
  <2> QED
    BY <2>1, <2>3, <2>5
<1>2. n \in Nat /\ n \in 1 .. Len(s) /\ n - 1 = m /\ Len(s) \in Nat /\ r \in Seq(Seq(Symbols))
  OBVIOUS
<1>3. Parts(gs, encs, Symbols)
  OBVIOUS
<1>5. PartOf(gs[Len(encs)], all, 0)
  BY <1>1
<1> HIDE DEF encs, n, r
<1>6. /\ PartOf(EncodeRequest(r), all, Len(gs[m])) /\ Len(gs[m]) \in Nat
      /\ Len(gs[n]) = Len(gs[m]) + Len(EncodeRequest(r))
  <2>1. n \in 1 .. Len(encs) /\ encs \in Seq(Seq(Symbols))
    BY <1>1, <1>2
  <2>2. PICK j \in 1 .. Len(encs) : j = n
    BY <2>1
  <2>3. PlacedAt(encs, gs, all, 0, j)
    BY <1>3, <1>5, <2>1, PartOfJoined
  <2>4. j - 1 = m /\ encs[j] = EncodeRequest(r) /\ gs[j] = gs[n]
    BY <1>1, <1>2, <2>2 DEF r
  <2>5. PartOf(encs[j], all, 0 + Len(gs[j - 1])) /\ Len(gs[j]) = Len(gs[j - 1]) + Len(encs[j])
        /\ Len(gs[j - 1]) \in Nat
    BY <2>3 DEF PlacedAt
  <2>6. PICK l \in Nat : l = Len(gs[j - 1])
    BY <2>5
  <2>7. 0 + l = l
    BY <2>6
  <2> QED
    BY <2>4, <2>5, <2>6, <2>7
<1>7. PICK p \in Nat : p = Len(gs[m])
  BY <1>6
<1>8. PICK a \in Nat : a = Len(EncodeRequest(r))
  BY <1>6 DEF PartOf
<1> DEFINE q == p + a
<1>9. q = Len(gs[n]) /\ q \in Nat /\ q <= Len(all) /\ Len(all) \in Nat /\ p <= q
  <2>1. p + a <= Len(all) /\ Len(all) \in Nat
    BY <1>6, <1>7, <1>8 DEF PartOf
  <2>2. q = Len(gs[n])
    BY <1>6, <1>7, <1>8
  <2>3. p <= p + a /\ p + a \in Nat
    OBVIOUS
  <2> QED
    BY <2>1, <2>2, <2>3
<1>10. PartOf(EncodeRequest(r), all, p)
  BY <1>6, <1>7
<1>11. /\ StallsWithin(s, n) <=> StallsWithin(s, m) \/ Stalls(r)
       /\ StallsWithin(s, n) => Finished(s, n) = made
       /\ ~StallsWithin(s, n) => CallFor(made, r) = Finished(s, n)
  BY FinishedGrows DEF n, r
<1>12. StallsWithin(s, n) => stalled = TRUE
  <2>1. \A i \in 1 .. n : i \in 1 .. Len(s)
    BY <1>2
  <2> QED
    BY <2>1 DEF StallsWithin
<1> HIDE DEF q, made
(* The end of the new request, and the places in it. *)
<1>13. /\ \/ \E d : Status(d, s, n) /\ Between(g, q, d)
          \/ ~NoEmptyEnd(s) /\ Thrown(g[q].d)
       /\ \A i \in p .. q - 2 : Held(g, s, i, m, stalled)
       /\ ~NoEmptyEnd(s) /\ Thrown(g[q].d) => \A i \in {q - 1} : i >= p => Calm(g, i, stalled)
  <2>1. CASE ~NoEmptyEnd(s) /\ Thrown(g[p].d)
    <3>1. \A i \in p .. Len(all) : g[i] = g[p]
      BY <2>1, ThrownStays
    <3>2. \A i \in p .. q : g[i] = g[p]
      BY <1>9, <3>1
    <3>3. \A i \in p .. q : Calm(g, i, stalled)
      <4> TAKE i \in p .. q
      <4>1. Thrown(g[i].d)
        BY <2>1, <3>2
      <4> QED
        BY <4>1, ThrownIsCalm
    <3>4. \A i \in p .. q - 2 : Held(g, s, i, m, stalled)
      <4> TAKE i \in p .. q - 2
      <4>1. i \in p .. q
        BY <1>9
      <4> QED
        BY <2>1, <3>3, <4>1 DEF Held
    <3>5. Thrown(g[q].d)
      <4>1. q \in p .. q
        BY <1>9
      <4> QED
        BY <2>1, <3>2, <4>1
    <3>6. \A i \in {q - 1} : i >= p => Calm(g, i, stalled)
      BY <1>9, <3>3
    <3> QED
      BY <2>1, <3>4, <3>5, <3>6
  <2>2. CASE \E d : Status(d, s, m) /\ Between(g, p, d)
    <3>1. PICK d : Status(d, s, m) /\ Between(g, p, d)
      BY <2>2
    <3>2. CASE StallsWithin(s, m)
      <4>1. Stuck(d, made) /\ stalled = TRUE /\ StallsWithin(s, n) /\ Finished(s, n) = made
        BY <1>11, <1>12, <3>1, <3>2 DEF Status, made
      <4>2. PICK d2 : /\ Stuck(d2, made) /\ Between(g, p + Len(EncodeRequest(r)), d2)
                      /\ \A i \in p .. (p + Len(EncodeRequest(r))) - 2 : Steady(g, i, made, stalled)
        <5>1. r \in Seq(Seq(Symbols))
          BY <1>2
        <5> QED
          BY <1>10, <3>1, <4>1, <5>1, StuckRequest
      <4>3. Status(d2, s, n) /\ Between(g, q, d2)
        BY <1>8, <4>1, <4>2 DEF Status, q
      <4>4. \A i \in p .. q - 2 : Held(g, s, i, m, stalled)
        BY <1>8, <4>2 DEF q, Steady, Held, made
      <4>5. ~Thrown(g[q].d)
        BY <4>2, <4>3 DEF Between, At, Stuck, InRequest, Thrown
      <4> QED
        BY <4>3, <4>4, <4>5
    <3>3. CASE ~StallsWithin(s, m)
      <4>1. Fresh(d, made)
        BY <3>1, <3>3 DEF Status, made
      <4>2. PICK d2 : RequestRead(g, p, q, d2, made, r, stalled)
        <5>1. CASE r = << >>
          <6>1. stalled = TRUE
            BY <1>11, <1>12, <5>1 DEF Stalls
          <6>2. PartOf(EncodeRequest(<< >>), all, p)
            BY <1>10, <5>1
          <6>3. \E d2 : RequestRead(g, p, p + Len(EncodeRequest(<< >>)), d2, made, << >>, stalled)
            BY <3>1, <4>1, <6>1, <6>2, EmptyRequest
          <6> QED
            BY <1>8, <5>1, <6>3 DEF q
        <5>2. CASE r # << >>
          <6>1. \E d2 : RequestRead(g, p, p + Len(EncodeRequest(r)), d2, made, r, stalled)
            BY <1>2, <1>10, <3>1, <4>1, <5>2, FreshRequest
          <6> QED
            BY <1>8, <6>1 DEF q
        <5> QED
          BY <5>1, <5>2
      <4>3. Between(g, q, d2) /\ RequestEnd(d2, made, r)
        BY <4>2 DEF RequestRead
      <4>4. NoEmptyEnd(s) => r = << >> \/ Last(r) # << >>
        <5>1. n \in DOMAIN s
          BY <1>2
        <5> QED
          BY <5>1 DEF NoEmptyEnd, r
      <4>5. \A i \in p .. q - 2 : Held(g, s, i, m, stalled)
        BY <4>2, <4>4 DEF RequestRead, Held, Steady, made
      <4>6. g[q].d = d2 /\ (q > 0 => g[q - 1].d = d2)
        BY <4>3 DEF Between, At
      <4>7. CASE Stalls(r)
        <5>1. Stuck(d2, made) /\ StallsWithin(s, n) /\ Finished(s, n) = made
          BY <1>11, <4>3, <4>7 DEF RequestEnd
        <5>2. Status(d2, s, n)
          BY <5>1 DEF Status
        <5>3. ~Thrown(g[q].d)
          BY <4>6, <5>1 DEF Stuck, InRequest, Thrown
        <5> QED
          BY <4>3, <4>5, <5>2, <5>3
      <4>8. CASE ~Stalls(r) /\ Last(r) # << >>
        <5>1. Fresh(d2, CallFor(made, r)) /\ ~StallsWithin(s, n) /\ Finished(s, n) = CallFor(made, r)
          BY <1>11, <3>3, <4>3, <4>8 DEF RequestEnd
        <5>2. Status(d2, s, n)
          BY <5>1 DEF Status
        <5>3. ~Thrown(g[q].d)
          BY <4>6, <5>1 DEF Fresh, Thrown
        <5> QED
          BY <4>3, <4>5, <5>2, <5>3
      <4>9. CASE ~Stalls(r) /\ Last(r) = << >>
        <5>1. Thrown(d2)
          BY <4>3, <4>9 DEF RequestEnd
        <5>2. ~NoEmptyEnd(s)
          BY <4>4, <4>9 DEF Stalls
        <5>3. \A i \in {q - 1} : i >= p => Calm(g, i, stalled)
          <6> SUFFICES ASSUME q - 1 >= p PROVE Calm(g, q - 1, stalled)
            OBVIOUS
          <6>1. q > 0
            BY <1>9
          <6>2. Thrown(g[q - 1].d)
            BY <4>6, <5>1, <6>1
          <6> QED
            BY <6>2, ThrownIsCalm
        <5> QED
          BY <4>5, <4>6, <5>1, <5>2, <5>3
      <4> QED
        BY <4>7, <4>8, <4>9
    <3> QED
      BY <3>2, <3>3
  <2> QED
    BY <1>7, <2>1, <2>2 DEF StreamRead
<1>14. ASSUME NEW j \in 0 .. n, NEW i \in Nat, Arrives(gs, n, i, j)
       PROVE  Held(g, s, i, j, stalled)
  <2>1. CASE j = n
    <3>1. i + 1 = q /\ i = q - 1 /\ q > 0
      BY <1>9, <1>14, <2>1 DEF Arrives
    <3>2. CASE \E d : Status(d, s, n) /\ Between(g, q, d)
      <4>1. PICK d : Status(d, s, n) /\ Between(g, q, d)
        BY <3>2
      <4>2. g[i] = At(d, q + 1)
        BY <3>1, <4>1 DEF Between
      <4>3. Held(g, s, i, n, stalled)
        BY <1>12, <4>1, <4>2, StatusIsHeld
      <4> QED
        BY <2>1, <4>3
    <3>3. CASE ~NoEmptyEnd(s) /\ Thrown(g[q].d)
      <4>1. CASE i >= p
        <5>1. Calm(g, i, stalled)
          BY <1>13, <3>1, <3>3, <4>1
        <5> QED
          BY <3>3, <5>1 DEF Held
      <4>2. CASE ~(i >= p)
        <5>1. p = q /\ i + 1 = p
          BY <1>9, <3>1, <4>2
        <5>2. Arrives(gs, m, i, m) /\ m \in 0 .. m
          BY <1>7, <5>1 DEF Arrives
        <5>3. Held(g, s, i, m, stalled)
          BY <5>2 DEF StreamRead
        <5> QED
          BY <3>3, <5>3 DEF Held
      <4> QED
        BY <4>1, <4>2
    <3> QED
      BY <1>13, <3>2, <3>3
  <2>2. CASE j = m
    <3>1. p <= i + 1 /\ i + 1 < q
      <4>1. j < n /\ j + 1 = n
        BY <1>2, <2>2 DEF n
      <4> QED
        BY <1>7, <1>9, <1>14, <2>2, <4>1 DEF Arrives
    <3>2. CASE i + 1 = p
      <4>1. Arrives(gs, m, i, m) /\ m \in 0 .. m
        BY <1>7, <3>2 DEF Arrives
      <4> QED
        BY <2>2, <4>1 DEF StreamRead
    <3>3. CASE i + 1 # p
      <4>1. i \in p .. q - 2
        BY <1>9, <3>1, <3>3
      <4> QED
        BY <1>13, <2>2, <4>1
    <3> QED
      BY <3>2, <3>3
  <2>3. CASE j # n /\ j # m
    <3>1. j \in 0 .. m /\ j < m /\ j < n /\ j + 1 \in 0 .. m /\ m \in j + 1 .. Len(s)
      BY <1>2, <2>3 DEF n
    <3>2. i + 1 < Len(gs[j + 1]) /\ Len(gs[j]) <= i + 1
      BY <1>14, <3>1 DEF Arrives
    <3>3. Len(gs[j + 1]) <= Len(gs[m])
      <4> DEFINE k == j + 1
      <4>1. k \in 0 .. Len(encs) /\ m \in k .. Len(encs) /\ encs \in Seq(Seq(Symbols))
        BY <1>1, <3>1
      <4> HIDE DEF k
      <4>2. Len(gs[k]) <= Len(gs[m])
        BY <1>3, <4>1, PartsGrow
      <4> QED
        BY <4>2 DEF k
    <3>4. i + 1 <= Len(gs[m])
      <4>1. PICK l \in Nat : l = Len(gs[j + 1])
        <5> DEFINE k == j + 1
        <5>1. k \in 0 .. Len(encs)
          BY <1>1, <3>1
        <5> HIDE DEF k
        <5>2. gs[k] \in Seq(Symbols)
          BY <1>3, <5>1 DEF Parts
        <5>3. Len(gs[k]) \in Nat
          BY <5>2
        <5> QED
          BY <5>3 DEF k
      <4> QED
        BY <1>7, <3>2, <3>3, <4>1
    <3>5. Arrives(gs, m, i, j)
      BY <3>1, <3>2, <3>4 DEF Arrives
    <3> QED
      BY <3>1, <3>5 DEF StreamRead
  <2> QED
    BY <2>1, <2>2, <2>3
<1>15. StreamRead(g, gs, s, n, stalled)
  BY <1>9, <1>13, <1>14 DEF StreamRead
<1> QED
  BY <1>15 DEF n

\* Before the first request.
LEMMA StreamBegins ==
  ASSUME NEW g, g[0] = At(Decoding(NewContext, << >>), 1), NEW s \in Seq(Seq(Seq(Symbols))),
         NEW gs, gs[0] = << >>, NEW stalled
  PROVE  StreamRead(g, gs, s, 0, stalled)
<1> DEFINE new == Decoding(NewContext, << >>)
<1>1. Len(gs[0]) = 0
  OBVIOUS
<1>2. ~StallsWithin(s, 0) /\ Finished(s, 0) = << >>
  <2>1. 1 .. 0 = {}
    OBVIOUS
  <2>2. ~StallsWithin(s, 0)
    BY <2>1 DEF StallsWithin
  <2>3. {k \in 1 .. 0 : ~StallsWithin(s, k)} = {}
    BY <2>1
  <2>4. Finished(s, 0) = [k \in {} |-> [id |-> k - 1, args |-> s[k]]]
    BY <2>3 DEF Finished
  <2> QED
    BY <2>2, <2>4
<1>3. WellFormed(new) /\ new.outcome = "returned" /\ new.ctx.state = "INIT" /\ new.calls = << >>
  <2>1. WellFormed(new)
    BY NewIsWellFormed
  <2> QED
    BY <2>1 DEF Decoding, NewContext, Context
<1> HIDE DEF new
<1>4. Status(new, s, 0)
  BY <1>2, <1>3 DEF Status, Fresh
<1>5. Between(g, 0, new)
  BY DEF Between, new
<1>6. ASSUME NEW j \in 0 .. 0, NEW i \in Nat PROVE ~Arrives(gs, 0, i, j)
  BY <1>1 DEF Arrives
<1>7. \E d : Status(d, s, 0) /\ Between(g, Len(gs[0]), d)
  BY <1>1, <1>4, <1>5
<1> QED
  BY <1>6, <1>7 DEF StreamRead

\* All requests.
LEMMA StreamIsRead ==
  ASSUME NEW all, NEW g, Scanned(g, all), g[0] = At(Decoding(NewContext, << >>), 1),
         NEW s \in Seq(Seq(Seq(Symbols))),
         NEW gs, Parts(gs, [i \in DOMAIN s |-> EncodeRequest(s[i])], Symbols),
         PartOf(gs[Len(s)], all, 0),
         NEW stalled, StallsWithin(s, Len(s)) => stalled = TRUE
  PROVE  StreamRead(g, gs, s, Len(s), stalled)
<1> DEFINE S == {m \in Nat : m <= Len(s) => StreamRead(g, gs, s, m, stalled)}
<1>1. 0 \in S
  <2>1. gs[0] = << >>
    BY DEF Parts
  <2>2. StreamRead(g, gs, s, 0, stalled)
    BY <2>1, StreamBegins
  <2> QED
    BY <2>2
<1>2. ASSUME NEW m \in Nat, m \in S PROVE m + 1 \in S
  <2> SUFFICES ASSUME m + 1 <= Len(s) PROVE StreamRead(g, gs, s, m + 1, stalled)
    OBVIOUS
  <2>1. m < Len(s) /\ m <= Len(s)
    OBVIOUS
  <2>2. StreamRead(g, gs, s, m, stalled)
    BY <1>2, <2>1
  <2> QED
    BY <2>1, <2>2, StreamStep
<1> HIDE DEF S
<1>3. Nat \subseteq S
  BY <1>1, <1>2, NatSet
<1>4. Len(s) \in Nat /\ Len(s) <= Len(s)
  OBVIOUS
<1> QED
  BY <1>3, <1>4 DEF S

\* Where the requests of the stream end.
Cuts(gs, s) ==
  /\ Parts(gs, [i \in DOMAIN s |-> EncodeRequest(s[i])], Symbols)
  /\ Stream(s) = gs[Len(s)]
  /\ \A k \in 0 .. Len(s) :
       Stream(First(s, k)) = gs[k] /\ gs[k] \in Seq(Symbols) /\ Len(gs[k]) \in Nat

\* A stream is cut into its requests.
LEMMA CutsExist ==
  ASSUME NEW s \in Seq(Seq(Seq(Symbols)))
  PROVE  \E gs : Cuts(gs, s)
<1> DEFINE encs == [i \in DOMAIN s |-> EncodeRequest(s[i])]
<1>1. encs \in Seq(Seq(Symbols))
  BY StreamType
<1>2. DOMAIN s = 1 .. Len(s) /\ Len(s) \in Nat
  OBVIOUS
<1>3. \A i \in 1 .. Len(s) : encs[i] = EncodeRequest(s[i])
  BY <1>2
<1>4. DOMAIN encs = 1 .. Len(s)
  BY <1>2
<1>5. Stream(s) = FlattenSeq(encs)
  BY DEF Stream
<1> HIDE DEF encs
<1>6. Len(encs) = Len(s)
  BY <1>1, <1>2, <1>4
<1>7. PICK gs : /\ Parts(gs, encs, Symbols)
                /\ FlattenSeq(encs) = gs[Len(encs)]
                /\ \A k \in 0 .. Len(encs) : FlattenSeq(SubSeq(encs, 1, k)) = gs[k]
  BY <1>1, FlattenParts
<1>8. ASSUME NEW k \in 0 .. Len(s)
      PROVE  Stream(First(s, k)) = gs[k] /\ gs[k] \in Seq(Symbols) /\ Len(gs[k]) \in Nat
  <2> DEFINE x == First(s, k)
             y == SubSeq(encs, 1, k)
             z == [i \in DOMAIN x |-> EncodeRequest(x[i])]
  <2>1. x \in Seq(Seq(Seq(Symbols))) /\ Len(x) = k /\ \A i \in 1 .. k : x[i] = s[i]
    <3>1. \A i \in 1 .. k : s[i] \in Seq(Seq(Symbols))
      BY <1>2
    <3>2. 1 \in Int /\ k \in Int
      OBVIOUS
    <3>3. /\ SubSeq(s, 1, k) \in Seq(Seq(Seq(Symbols)))
          /\ Len(SubSeq(s, 1, k)) = IF 1 <= k THEN k - 1 + 1 ELSE 0
          /\ \A i \in 1 .. k - 1 + 1 : SubSeq(s, 1, k)[i] = s[1 + i - 1]
      BY <3>1, <3>2, SubSeqProperties
    <3> QED
      BY <3>3 DEF First
  <2>2. y \in Seq(Seq(Symbols)) /\ Len(y) = k /\ \A i \in 1 .. k : y[i] = encs[i]
    <3>1. \A i \in 1 .. k : encs[i] \in Seq(Symbols)
      BY <1>1, <1>2, <1>6
    <3>2. 1 \in Int /\ k \in Int
      OBVIOUS
    <3>3. /\ SubSeq(encs, 1, k) \in Seq(Seq(Symbols))
          /\ Len(SubSeq(encs, 1, k)) = IF 1 <= k THEN k - 1 + 1 ELSE 0
          /\ \A i \in 1 .. k - 1 + 1 : SubSeq(encs, 1, k)[i] = encs[1 + i - 1]
      BY <3>1, <3>2, SubSeqProperties
    <3> QED
      BY <3>3
  <2>3. z \in Seq(Seq(Symbols))
    BY <2>1, StreamType
  <2> HIDE DEF x, y
  <2>4. DOMAIN x = 1 .. k /\ k \in Nat
    BY <2>1
  <2>5. DOMAIN z = 1 .. k /\ \A i \in 1 .. k : z[i] = EncodeRequest(x[i])
    BY <2>4
  <2>6. Stream(x) = FlattenSeq(z)
    BY DEF Stream
  <2> HIDE DEF z
  <2>7. Len(z) = k
    <3>1. \A a, b \in Nat : 1 .. a = 1 .. b => a = b
      OBVIOUS
    <3>2. DOMAIN z = 1 .. Len(z) /\ Len(z) \in Nat
      BY <2>3
    <3> QED
      BY <2>4, <2>5, <3>1, <3>2
  <2>8. \A i \in 1 .. k : z[i] = y[i]
    <3> TAKE i \in 1 .. k
    <3>1. i \in 1 .. Len(s)
      BY <1>2
    <3>2. z[i] = EncodeRequest(x[i]) /\ x[i] = s[i]
      BY <2>1, <2>5
    <3>3. y[i] = encs[i]
      BY <2>2
    <3>4. encs[i] = EncodeRequest(s[i])
      BY <1>3, <3>1
    <3> QED
      BY <3>2, <3>3, <3>4
  <2>9. z = y
    <3>1. z \in Seq(Seq(Symbols)) /\ y \in Seq(Seq(Symbols)) /\ Len(z) = Len(y)
          /\ \A i \in 1 .. Len(z) : z[i] = y[i]
      BY <2>2, <2>3, <2>7, <2>8
    <3> HIDE DEF z
    <3> QED
      BY <3>1, SeqEqual
  <2>10. FlattenSeq(y) = gs[k]
    BY <1>6, <1>7 DEF y
  <2>11. gs[k] \in Seq(Symbols)
    BY <1>6, <1>7 DEF Parts
  <2>12. Len(gs[k]) \in Nat
    BY <2>11
  <2> QED
    BY <2>6, <2>9, <2>10, <2>11, <2>12 DEF x
<1> QED
  BY <1>5, <1>6, <1>7, <1>8 DEF Cuts, encs

\* n symbols are the first j requests, and some of the next.
Within(gs, s, n, j) ==
  j \in 0 .. Len(s) /\ Len(gs[j]) <= n /\ (j < Len(s) => n < Len(gs[j + 1]))

\* Any number of symbols is.
LEMMA WithinExists ==
  ASSUME NEW s \in Seq(Seq(Seq(Symbols))), NEW gs, Cuts(gs, s), NEW n \in Nat
  PROVE  \E j : Within(gs, s, n, j)
<1> DEFINE W(k, j) == j \in 0 .. k /\ Len(gs[j]) <= n /\ (j < k => n < Len(gs[j + 1]))
           S == {k \in Nat : k <= Len(s) => \E j : W(k, j)}
<1>1. 0 \in S
  <2>1. gs[0] = << >>
    BY DEF Cuts, Parts
  <2>2. W(0, 0)
    BY <2>1
  <2> QED
    BY <2>2
<1>2. ASSUME NEW k \in Nat, k \in S PROVE k + 1 \in S
  <2> SUFFICES ASSUME k + 1 <= Len(s) PROVE \E j : W(k + 1, j)
    OBVIOUS
  <2>1. PICK j : W(k, j)
    BY <1>2
  <2>2. j \in 0 .. k + 1 /\ Len(gs[j]) <= n
    BY <2>1
  <2>3. CASE j < k
    <3>1. W(k + 1, j)
      BY <2>1, <2>2, <2>3
    <3> QED
      BY <3>1
  <2>4. CASE j = k
    <3>1. k + 1 \in 0 .. Len(s)
      OBVIOUS
    <3>2. Len(gs[k + 1]) \in Nat
      BY <3>1 DEF Cuts
    <3>3. CASE Len(gs[k + 1]) <= n
      <4>1. W(k + 1, k + 1)
        BY <3>3
      <4> QED
        BY <4>1
    <3>4. CASE n < Len(gs[k + 1])
      <4>1. W(k + 1, j)
        BY <2>2, <2>4, <3>4
      <4> QED
        BY <4>1
    <3> QED
      BY <3>2, <3>3, <3>4
  <2>5. j < k \/ j = k
    BY <2>1
  <2> QED
    BY <2>3, <2>4, <2>5
<1> HIDE DEF S
<1>3. Nat \subseteq S
  BY <1>1, <1>2, NatSet
<1>4. \E j : W(Len(s), j)
  <2>1. Len(s) \in Nat /\ Len(s) <= Len(s)
    OBVIOUS
  <2>2. Len(s) \in S
    BY <1>3, <2>1
  <2> QED
    BY <2>1, <2>2 DEF S
<1> QED
  BY <1>4 DEF Within

\* A request is not empty.
LEMMA RequestLength ==
  ASSUME NEW r \in Seq(Seq(Symbols))
  PROVE  Len(EncodeRequest(r)) \in Nat /\ Len(EncodeRequest(r)) > 0
<1> DEFINE h == <<Symbol("*", Len(r)), CR, LF>>
           y == FlattenSeq([i \in DOMAIN r |-> EncodeArg(r[i])])
<1>1. h \in Seq(Symbols) /\ Len(h) = 3
  BY DEF CR, LF, Symbol, Symbols
<1>2. y \in Seq(Symbols)
  BY EncodeRequestType, FlattenType
<1> HIDE DEF h, y
<1>3. Len(h \o y) = Len(h) + Len(y)
  <2>1. h \in Seq(Symbols)
    BY <1>1
  <2> QED
    BY <1>2, <2>1, ConcatProperties
<1>4. Len(y) \in Nat
  BY <1>2
<1>5. Len(h \o y) \in Nat /\ Len(h \o y) > 0
  BY <1>1, <1>3, <1>4
<1> QED
  BY <1>5 DEF EncodeRequest, h, y

\* The state that the first n symbols lead to, all read at once.
Come(e, s, n, j, stalled) ==
  /\ e.d.ctx.state # "INIT" => Len(e.d.ctx.req_list) < e.d.ctx.reading_list_size \/ stalled
  /\ e.d.outcome = "returned" /\ e.d.ctx.state = "PARSE_BLUK_STRINGS" =>
       (n + 1) - e.start <= e.d.ctx.reading_str_size + 1
  /\ NoEmptyEnd(s) => e.d.calls = Finished(s, j)

\* The first n symbols are read.
LEMMA StreamPrefix ==
  ASSUME NEW s \in Seq(Seq(Seq(Symbols))), NEW gs, Cuts(gs, s),
         NEW n \in Nat, n <= Len(Stream(s)), NEW j, Within(gs, s, n, j),
         NEW stalled, StallsWithin(s, Len(s)) => stalled = TRUE
  PROVE  Come(Parse(Decoding(NewContext, << >>), Piece(Stream(s), 1, n)), s, n, j, stalled)
<1> DEFINE all == Stream(s)
           new == Decoding(NewContext, << >>)
           e == Parse(new, Piece(all, 1, n))
           l == Len(all)
<1>1. all \in Seq(Symbols) /\ l \in Nat /\ n \in 0 .. l
  <2>1. all \in Seq(Symbols)
    BY StreamType
  <2> HIDE DEF all
  <2> QED
    BY <2>1 DEF all
<1>2. PartOf(gs[Len(s)], all, 0)
  <2>1. all = gs[Len(s)]
    BY DEF Cuts
  <2> HIDE DEF all
  <2> QED
    BY <1>1, <2>1 DEF PartOf
<1>3. Parts(gs, [i \in DOMAIN s |-> EncodeRequest(s[i])], Symbols)
  BY DEF Cuts
<1>4. l = Len(gs[Len(s)])
  BY DEF Cuts
<1> HIDE DEF all, new, l
<1>5. PICK g : ScannedTo(g, new, all, Len(all))
  BY <1>1, ScanExists DEF l
<1>6. g[0] = At(new, 1) /\ Scanned(g, all)
  BY <1>1, <1>5, ScanSteps DEF Scanned, l
<1>7. StreamRead(g, gs, s, Len(s), stalled)
  BY <1>2, <1>3, <1>6, StreamIsRead DEF new
<1>8. Len(Piece(all, 1, n)) = n
  BY <1>1, BeginningIs DEF l
<1>9. PICK f : ScannedTo(f, new, Piece(all, 1, n), n) /\ e = f[n]
  BY <1>8, ParseIs
<1>10. /\ n # 0 => f[n] = g[n - 1]
       /\ n = 0 => f[n] = g[0]
  BY <1>1, <1>5, <1>9, ScanOfBeginning DEF Piece, l
<1> HIDE DEF e
<1>11. CASE n = 0
  <2>1. e = At(new, 1)
    BY <1>6, <1>9, <1>10, <1>11
  <2>2. e.d = new
    BY <2>1 DEF At
  <2>3. e.d.ctx.state = "INIT" /\ e.d.calls = << >>
    BY <2>2 DEF new, Decoding, NewContext, Context
  <2>4. j = 0
    <3> SUFFICES ASSUME j # 0 PROVE FALSE
      OBVIOUS
    <3>1. j \in 1 .. Len(s) /\ Len(gs[j]) <= 0
      BY <1>11 DEF Within
    <3>2. Len(gs[j]) = Len(gs[j - 1]) + Len(EncodeRequest(s[j]))
      <4> DEFINE encs == [i \in DOMAIN s |-> EncodeRequest(s[i])]
      <4>1. encs \in Seq(Seq(Symbols))
        BY StreamType
      <4>2. DOMAIN s = 1 .. Len(s) /\ Len(s) \in Nat
        OBVIOUS
      <4>3. encs[j] = EncodeRequest(s[j]) /\ DOMAIN encs = 1 .. Len(s)
        BY <3>1, <4>2
      <4> HIDE DEF encs
      <4>4. j \in 1 .. Len(encs)
        BY <3>1, <4>1, <4>2, <4>3
      <4>5. Len(gs[j]) = Len(gs[j - 1]) + Len(encs[j])
        BY <1>3, <4>4 DEF Parts, encs
      <4> QED
        BY <4>3, <4>5
    <3>3. s[j] \in Seq(Seq(Symbols)) /\ j - 1 \in 0 .. Len(s)
      BY <3>1
    <3>4. Len(EncodeRequest(s[j])) \in Nat /\ Len(EncodeRequest(s[j])) > 0
      BY <3>3, RequestLength
    <3>5. Len(gs[j - 1]) \in Nat
      BY <3>3 DEF Cuts
    <3>6. PICK a, b \in Nat : a = Len(gs[j - 1]) /\ b = Len(EncodeRequest(s[j]))
      BY <3>4, <3>5
    <3>7. b > 0 /\ a + b <= 0
      BY <3>1, <3>2, <3>4, <3>6
    <3>8. \A u, v \in Nat : v > 0 => ~(u + v <= 0)
      OBVIOUS
    <3> QED
      BY <3>7, <3>8
  <2>5. Finished(s, 0) = << >>
    <3>1. {k \in 1 .. 0 : ~StallsWithin(s, k)} = {}
      OBVIOUS
    <3>2. Finished(s, 0) = [k \in {} |-> [id |-> k - 1, args |-> s[k]]]
      BY <3>1 DEF Finished
    <3> QED
      BY <3>2
  <2>6. Come(e, s, n, j, stalled)
    BY <2>3, <2>4, <2>5 DEF Come
  <2> QED
    BY <2>6 DEF e, new, all
<1>12. CASE n # 0
  <2>1. PICK i \in Nat : i = n - 1 /\ i + 1 = n /\ i + 2 = n + 1
    BY <1>12
  <2>2. j \in 0 .. Len(s) /\ Arrives(gs, Len(s), i, j)
    BY <1>1, <1>4, <2>1 DEF Within, Arrives
  <2>3. Held(g, s, i, j, stalled)
    BY <1>7, <2>2 DEF StreamRead
  <2>4. e = g[i]
    BY <1>9, <1>10, <1>12, <2>1
  <2>5. Come(e, s, n, j, stalled)
    BY <2>1, <2>3, <2>4 DEF Held, Calm, Come
  <2> QED
    BY <2>5 DEF e, new, all
<1> QED
  BY <1>11, <1>12

(***************************************************************************)
(* The states of the decoder.                                              *)
(***************************************************************************)

\* What is known of a state in which n symbols have been read.
StateIs(n, gs, j, e, stalled) ==
  /\ Cuts(gs, script) /\ Within(gs, script, n, j)
  /\ Consumed \in Seq(Symbols) /\ Len(Consumed) = n
  /\ e.d = [ctx |-> ctx, calls |-> calls, outcome |-> outcome]
  /\ e.start \in 1 .. n + 1
  /\ WellFormed(e.d)
  /\ \A i \in 1 .. n : Idle(Consumed, e, i)
  /\ outcome = "returned" => buffered_input = Piece(Consumed, e.start, n)
  /\ Come(e, script, n, j, stalled)

\* It is what reading the same symbols at once leads to.
LEMMA StateExists ==
  ASSUME FragInv, NEW stalled, StallsWithin(script, Len(script)) => stalled = TRUE
  PROVE  \E n \in Nat : \E gs, j, e : StateIs(n, gs, j, e, stalled)
<1> DEFINE all == Stream(script)
           new == Decoding(NewContext, << >>)
           e == Parse(new, Consumed)
<1>1. script \in Scripts /\ FragmentationIrrelevant
  BY DEF FragInv
<1>2. script \in Seq(Seq(Seq(Symbols))) /\ all \in Seq(Symbols)
  BY <1>1, ScriptType
<1>3. PICK n \in Nat : ReadTo(n)
  BY DEF FragInv
<1>4. Consumed = Piece(all, 1, n) /\ n <= Len(all)
  BY <1>1, <1>3, ConsumedIs
<1>5. PICK gs : Cuts(gs, script)
  BY <1>2, CutsExist
<1>6. PICK j : Within(gs, script, n, j)
  BY <1>2, <1>5, WithinExists
<1>7. Come(Parse(new, Piece(all, 1, n)), script, n, j, stalled)
  BY <1>2, <1>4, <1>5, <1>6, StreamPrefix
<1> HIDE DEF all
<1>8. Come(e, script, n, j, stalled)
  BY <1>4, <1>7
<1>9. Consumed \in Seq(Symbols) /\ Len(Consumed) = n
  BY <1>2, <1>4, BeginningIs
<1>10. WellFormed(new)
  BY NewIsWellFormed
<1> HIDE DEF new
<1>11. /\ e.start \in 1 .. Len(Consumed) + 1 /\ WellFormed(e.d)
       /\ \A i \in 1 .. Len(Consumed) : Idle(Consumed, e, i)
  BY <1>9, <1>10, ParseEnds
<1>12. /\ e.d = [ctx |-> ctx, calls |-> calls, outcome |-> outcome]
       /\ outcome = "returned" => buffered_input = SubSeq(Consumed, e.start, Len(Consumed))
  BY <1>1 DEF FragmentationIrrelevant, new
<1> HIDE DEF e
<1>13. StateIs(n, gs, j, e, stalled)
  BY <1>5, <1>6, <1>8, <1>9, <1>11, <1>12 DEF StateIs, Piece
<1> QED
  BY <1>13

\* Stalled and Arrived, of the script of the state.
LEMMA StalledIs ==
  ASSUME NEW m
  PROVE  Stalled(m) <=> StallsWithin(script, m)
BY DEF Stalled, StallsWithin

\* The state has its shape.
LEMMA TypeFromFrag == FragInv => TypeOK
<1> SUFFICES ASSUME FragInv PROVE TypeOK
  OBVIOUS
<1>1. PICK stalled \in BOOLEAN : stalled <=> StallsWithin(script, Len(script))
  <2>1. CASE StallsWithin(script, Len(script))
    BY <2>1
  <2>2. CASE ~StallsWithin(script, Len(script))
    BY <2>2
  <2> QED
    BY <2>1, <2>2
<1>2. StallsWithin(script, Len(script)) => stalled = TRUE
  BY <1>1
<1>n. PICK n \in Nat : \E gs, j, e : StateIs(n, gs, j, e, stalled)
  BY <1>2, StateExists
<1>3. PICK gs, j, e : StateIs(n, gs, j, e, stalled)
  BY <1>n
<1>4. WellFormed(e.d) /\ e.d.ctx = ctx /\ e.d.calls = calls /\ e.d.outcome = outcome
  BY <1>3 DEF StateIs
<1>5. /\ ctx \in Contexts /\ outcome \in {"returned", "threw"}
      /\ ctx.last_command_id = Len(calls)
      /\ ctx.state = "INIT" => ctx.req_list = << >>
  BY <1>4 DEF WellFormed, Decodings
<1>6. ctx.state # "INIT" => Len(ctx.req_list) < ctx.reading_list_size \/ Stalled(Len(script))
  <2>1. ctx.state # "INIT" => Len(ctx.req_list) < ctx.reading_list_size \/ stalled
    BY <1>3, <1>4 DEF StateIs, Come
  <2> QED
    BY <1>1, <2>1, StalledIs
<1>7. script \in Scripts
  BY DEF FragInv
<1> QED
  BY <1>5, <1>6, <1>7 DEF TypeOK, Contexts

\* No token that is complete is left in the buffer.
LEMMA BufferFromFrag == FragInv => OnlyUnfinishedTokenBuffered
<1> SUFFICES ASSUME FragInv, outcome = "returned"
             PROVE  IF ctx.state = "PARSE_BLUK_STRINGS"
                    THEN Len(buffered_input) <= ctx.reading_str_size + 1
                    ELSE \A i \in DOMAIN buffered_input : ~EndsToken(buffered_input, i)
  BY DEF OnlyUnfinishedTokenBuffered
<1>n. PICK n \in Nat : \E gs, j, e : StateIs(n, gs, j, e, TRUE)
  BY StateExists
<1>1. PICK gs, j, e : StateIs(n, gs, j, e, TRUE)
  BY <1>n
<1>2. PICK a \in Nat \ {0} : a = e.start /\ a <= n + 1
  BY <1>1 DEF StateIs
<1>3. Consumed \in Seq(Symbols) /\ Len(Consumed) = n /\ buffered_input = Piece(Consumed, a, n)
  BY <1>1, <1>2 DEF StateIs
<1> DEFINE all == Consumed
<1> HIDE DEF all
<1>4. /\ buffered_input \in Seq(Symbols) /\ Len(buffered_input) = (n - a) + 1
      /\ \A i \in 1 .. (n - a) + 1 : buffered_input[i] = all[(a + i) - 1]
  <2>1. all \in Seq(Symbols) /\ n <= Len(all)
    BY <1>3 DEF all
  <2>2. /\ Piece(all, a, n) \in Seq(Symbols) /\ Len(Piece(all, a, n)) = (n - a) + 1
        /\ \A i \in 1 .. (n - a) + 1 : Piece(all, a, n)[i] = all[(a + i) - 1]
    BY <1>2, <2>1, PieceIs
  <2> QED
    BY <1>3, <2>2 DEF all
<1>5. e.d.ctx = ctx /\ e.d.outcome = outcome
  BY <1>1 DEF StateIs
<1>6. CASE ctx.state = "PARSE_BLUK_STRINGS"
  <2>1. (n + 1) - a <= ctx.reading_str_size + 1
    BY <1>1, <1>2, <1>5, <1>6 DEF StateIs, Come
  <2>2. (n - a) + 1 = (n + 1) - a
    OBVIOUS
  <2> QED
    BY <1>4, <1>6, <2>1, <2>2
<1>7. CASE ctx.state # "PARSE_BLUK_STRINGS"
  <2>1. ASSUME NEW i \in DOMAIN buffered_input, EndsToken(buffered_input, i) PROVE FALSE
    <3>1. i \in 1 .. (n - a) + 1 /\ i < (n - a) + 1 /\ buffered_input[i] = CR
          /\ buffered_input[i + 1] = LF
      BY <1>4, <2>1 DEF EndsToken
    <3>2. PICK k \in 1 .. n : k = (a + i) - 1 /\ k + 1 = (a + (i + 1)) - 1 /\ k >= a /\ k < n
      BY <3>1
    <3>3. all[k] = CR /\ all[k + 1] = LF
      <4>1. i \in 1 .. (n - a) + 1 /\ i + 1 \in 1 .. (n - a) + 1
        BY <3>1
      <4>2. buffered_input[i] = all[(a + i) - 1] /\ buffered_input[i + 1] = all[(a + (i + 1)) - 1]
        BY <1>4, <4>1
      <4> QED
        BY <3>1, <3>2, <4>2
    <3>4. EndsToken(Consumed, k)
      BY <1>3, <3>2, <3>3 DEF EndsToken, all
    <3>5. TokenDone(e.d, Piece(Consumed, e.start, k - 1))
      BY <1>5, <1>7 DEF TokenDone
    <3>6. Idle(Consumed, e, k)
      BY <1>1 DEF StateIs
    <3>7. e.d.outcome # "threw" /\ ~(k < e.start)
      BY <1>2, <1>5, <3>2
    <3> QED
      BY <3>4, <3>5, <3>6, <3>7 DEF Idle
  <2> QED
    BY <1>7, <2>1
<1> QED
  BY <1>6, <1>7

\* What has been called is what has arrived.
LEMMA DeliveredFromFrag ==
  ASSUME FragInv, NoEmptyEnd(script)
  PROVE  DeliveredWhenComplete
<1> DEFINE l == Len(script)
<1>0. script \in Seq(Seq(Seq(Symbols))) /\ l \in Nat /\ DOMAIN script = 1 .. l
  BY ScriptType DEF FragInv
<1>n. PICK n \in Nat : \E gs, j, e : StateIs(n, gs, j, e, TRUE)
  BY StateExists
<1>1. PICK gs, j, e : StateIs(n, gs, j, e, TRUE)
  BY <1>n
<1>2. calls = Finished(script, j)
  BY <1>1 DEF StateIs, Come
<1>3. /\ j \in 0 .. l /\ Len(gs[j]) <= n /\ (j < l => n < Len(gs[j + 1]))
      /\ Len(Consumed) = n
      /\ \A k \in 0 .. l : Stream(First(script, k)) = gs[k] /\ Len(gs[k]) \in Nat
  BY <1>1 DEF StateIs, Cuts, Within
<1>4. \A i \in 0 .. l : \A k \in i .. l : Len(gs[i]) <= Len(gs[k])
  <2> DEFINE encs == [i \in DOMAIN script |-> EncodeRequest(script[i])]
  <2>1. encs \in Seq(Seq(Symbols))
    BY <1>0, StreamType
  <2>2. DOMAIN encs = 1 .. l
    BY <1>0
  <2>3. Parts(gs, encs, Symbols)
    BY <1>1 DEF StateIs, Cuts
  <2> HIDE DEF encs, l
  <2>4. Len(encs) = l
    <3>1. \A a, b \in Nat : 1 .. a = 1 .. b => a = b
      OBVIOUS
    <3>2. DOMAIN encs = 1 .. Len(encs) /\ Len(encs) \in Nat
      BY <2>1
    <3> QED
      BY <1>0, <2>2, <3>1, <3>2
  <2>5. \A i \in 0 .. Len(encs) : \A k \in i .. Len(encs) : Len(gs[i]) <= Len(gs[k])
    BY <2>1, <2>3, PartsGrow
  <2> QED
    BY <2>4, <2>5
<1> HIDE DEF l
<1>5. ASSUME NEW m \in 1 .. l PROVE Arrived(m) <=> m <= j
  <2>1. Stream(First(script, m)) = gs[m] /\ m \in 0 .. l
    BY <1>0, <1>3
  <2>2. Arrived(m) <=> Len(gs[m]) <= n
    BY <1>3, <2>1 DEF Arrived, First
  <2>3. PICK a, b \in Nat : a = Len(gs[m]) /\ b = Len(gs[j])
    BY <1>3, <2>1
  <2>4. CASE m <= j
    <3>1. Len(gs[m]) <= Len(gs[j])
      BY <1>0, <1>3, <1>4, <2>1, <2>4
    <3>2. a <= b /\ b <= n
      BY <1>3, <2>3, <3>1
    <3>3. a <= n
      BY <3>2
    <3> QED
      BY <2>2, <2>3, <2>4, <3>3
  <2>5. CASE ~(m <= j)
    <3>1. PICK k \in 0 .. l : k = j + 1 /\ m \in k .. l /\ j < l
      BY <1>0, <1>3, <2>5
    <3>2. n < Len(gs[k]) /\ Len(gs[k]) <= Len(gs[m])
      BY <1>3, <1>4, <3>1
    <3>3. PICK c \in Nat : c = Len(gs[k])
      BY <1>3
    <3>4. n < c /\ c <= a
      BY <2>3, <3>2, <3>3
    <3>5. ~(a <= n)
      BY <3>4
    <3> QED
      BY <2>2, <2>3, <2>5, <3>5
  <2> QED
    BY <2>4, <2>5
<1>6. {m \in DOMAIN script : Arrived(m) /\ ~Stalled(m)} = {k \in 1 .. j : ~StallsWithin(script, k)}
  <2>1. \A m \in 1 .. l : Stalled(m) <=> StallsWithin(script, m)
    BY StalledIs
  <2>2. \A m : m \in 1 .. j <=> m \in 1 .. l /\ m <= j
    BY <1>0, <1>3
  <2> QED
    BY <1>0, <1>5, <2>1, <2>2
<1> QED
  BY <1>2, <1>6 DEF Finished, DeliveredWhenComplete

(***************************************************************************)
(* The theorems.                                                           *)
(***************************************************************************)

\* FragInv holds.
LEMMA FragHolds == Spec => []FragInv
<1>1. Init => FragInv
  BY InitFrag
<1>2. FragInv /\ [Next]_vars => FragInv'
  <2> SUFFICES ASSUME FragInv, [Next]_vars PROVE FragInv'
    OBVIOUS
  <2>1. ASSUME NEW k \in 1 .. ReadSize, Read(k) PROVE FragInv'
    BY <2>1, ReadFrag
  <2>2. CASE UNCHANGED vars
    BY <2>2 DEF vars, FragInv, ReadTo, FragmentationIrrelevant, Consumed
  <2> QED
    BY <2>1, <2>2 DEF Next
<1> QED
  BY <1>1, <1>2, PTL DEF Spec

\* However the stream is cut, the decoder is where reading it at once would leave it
\* (decoder::decode keeps in decode_context all that one call leaves to the next).
THEOREM FragmentationHolds == Spec => []FragmentationIrrelevant
<1>1. FragInv => FragmentationIrrelevant
  BY DEF FragInv
<1> QED
  BY <1>1, FragHolds, PTL

\* The state keeps its shape, whatever the client sends: the calls are numbered as they
\* are made, and a request whose list has all its elements has been handed over, or stalls.
THEOREM TypeHolds == Spec => []TypeOK
BY TypeFromFrag, FragHolds, PTL

\* No complete token waits in the buffer, whatever the client sends and however it is
\* cut, so that the buffer is bounded by the token that is being read.
THEOREM BufferHolds == Spec => []OnlyUnfinishedTokenBuffered
BY BufferFromFrag, FragHolds, PTL

\* The handler is called once for every request that has arrived, in order, with its
\* arguments, until one stalls.  A request that ends in an empty argument throws, which
\* the run EmptyArgument shows; there must be none.
THEOREM DeliveredHolds ==
  ASSUME \A s \in Scripts : NoEmptyEnd(s)
  PROVE  Spec => []DeliveredWhenComplete
<1>1. FragInv => DeliveredWhenComplete
  <2> SUFFICES ASSUME FragInv PROVE DeliveredWhenComplete
    OBVIOUS
  <2>1. NoEmptyEnd(script)
    BY DEF FragInv
  <2> QED
    BY <2>1, DeliveredFromFrag
<1> QED
  BY <1>1, FragHolds, PTL
=============================================================================
