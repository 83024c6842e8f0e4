--------------------------- MODULE HandlersProofs ---------------------------
(* Theorems about Handlers for any workers, any requests and any failures  *)
(* of the cluster.                                                         *)
EXTENDS Handlers, SequenceLemmas, FiniteSetTheorems

(***************************************************************************)
(* The inductive invariant.                                                *)
(***************************************************************************)

\* The requests PushAppliesPrefix is about.
Pushes(r) == Command(r) \in {"RPUSH", "LPUSH"}

\* The shape of the state: a worker has calls left while it has a request.
ShapeInv ==
  /\ script \in Scripts
  /\ taken \in 0 .. Len(script)
  /\ job = [w \in Workers |-> job[w]]
  /\ \A w \in Workers : job[w] # NoJob =>
       /\ job[w] = [n |-> job[w].n, made |-> job[w].made, read |-> job[w].read]
       /\ job[w].n \in 1 .. taken /\ ArgumentsOk(script[job[w].n])
       /\ job[w].made \in 0 .. Len(Calls(script[job[w].n])) - 1
       /\ IsSequence(job[w].read) /\ Len(job[w].read) = job[w].made
  /\ ptree_counter \in 0 .. NumTrees - 1
  /\ expiring \subseteq Keys
  /\ IsSequence(applied)
  /\ \A i \in DOMAIN applied : applied[i].n \in 1 .. taken /\ ArgumentsOk(script[applied[i].n])
  /\ DOMAIN replies \subseteq 1 .. taken

\* A request that was taken is answered or with a worker, and with one only.
HeldInv ==
  /\ \A n \in 1 .. taken : n \in DOMAIN replies \/ \E w \in Workers : job[w].n = n
  /\ \A w \in Workers : job[w].n \notin DOMAIN replies
  /\ \A v, w \in Workers : job[v].n = job[w].n /\ job[w] # NoJob => v = w

\* A worker that has a push has applied its first elements, and all of them when
\* it answers with no error.
PushInv ==
  /\ \A w \in Workers : job[w] # NoJob /\ Pushes(script[job[w].n]) =>
       Cardinality(AppliedBy(job[w].n)) = job[w].made
  /\ PushAppliesPrefix

\* The inductive invariant.
IInv == ShapeInv /\ HeldInv /\ PushInv

(***************************************************************************)
(* Sequences, requests and replies.                                        *)
(***************************************************************************)

\* A sequence has a length, and places from 1 on.
LEMMA SequenceIs ==
  ASSUME NEW s, IsSequence(s)
  PROVE  Len(s) \in Nat /\ DOMAIN s = 1 .. Len(s)
BY DEF IsSequence

\* A sequence with one more element.
LEMMA AppendIs ==
  ASSUME NEW s, NEW x, IsSequence(s)
  PROVE  /\ IsSequence(Append(s, x)) /\ Len(Append(s, x)) = Len(s) + 1
         /\ DOMAIN Append(s, x) = 1 .. Len(s) + 1
         /\ \A i \in 1 .. Len(s) : Append(s, x)[i] = s[i]
         /\ Append(s, x)[Len(s) + 1] = x
<1> DEFINE S == ToSet(s) \cup {x}
<1> DEFINE t == Append(s, x)
<1>1. s \in Seq(S) /\ x \in S /\ Len(s) \in Nat
  <2>1. s \in Seq(ToSet(s)) /\ ToSet(s) \subseteq S
    BY DEF IsSequence
  <2> HIDE DEF S
  <2>2. DOMAIN s = 1 .. Len(s) /\ Len(s) \in Nat /\ \A i \in 1 .. Len(s) : s[i] \in S
    BY <2>1
  <2>3. s = [i \in 1 .. Len(s) |-> s[i]]
    BY <2>1
  <2>4. s \in Seq(S)
    BY <2>2, <2>3
  <2>5. x \in S
    BY DEF S
  <2> QED
    BY <2>2, <2>4, <2>5
<1> HIDE DEF S
<1>2. t \in Seq(S) /\ Len(t) = Len(s) + 1 /\ DOMAIN t = 1 .. Len(s) + 1
  BY <1>1
<1>3. (\A i \in 1 .. Len(s) : t[i] = s[i]) /\ t[Len(s) + 1] = x
  BY <1>1
<1>4. t \in Seq(ToSet(t))
  <2>1. \A i \in 1 .. Len(t) : t[i] \in ToSet(t)
    BY <1>1, <1>2 DEF ToSet
  <2> HIDE DEF t
  <2>2. t = [i \in 1 .. Len(t) |-> t[i]] /\ Len(t) \in Nat
    BY <1>2
  <2> QED
    BY <2>1, <2>2
<1> QED
  BY <1>2, <1>3, <1>4 DEF IsSequence

\* A request that is not refused makes at least one call; a push makes one for
\* each element.
LEMMA CallsIs ==
  ASSUME NEW r, IsSequence(r), ArgumentsOk(r)
  PROVE  /\ Len(Calls(r)) \in Nat \ {0} /\ DOMAIN Calls(r) = 1 .. Len(Calls(r))
         /\ Pushes(r) => /\ Len(Calls(r)) = Len(r) - 2 /\ Len(r) \in Nat
                         /\ \A i \in 1 .. Len(r) - 2 :
                              /\ Calls(r)[i].op = Command(r)
                              /\ Calls(r)[i].args[1] = r[i + 2]
         /\ Command(r) \in {"LTRIM", "EXPIRE"} => Len(Calls(r)) = 1
<1>1. Len(r) \in Nat
  BY SequenceIs
<1>2. CASE Pushes(r)
  <2>1. Len(r) >= 3
    <3>1. Command(r) \in {"RPUSH", "LPUSH", "SADD", "SET"}
      BY <1>2 DEF Pushes
    <3> QED
      BY <3>1, Zenon DEF ArgumentsOk
  <2>2. Calls(r) = [i \in 1 .. Len(r) - 2 |-> [op |-> Command(r), key |-> r[2], args |-> <<r[i + 2]>>]]
    BY <1>2, Zenon DEF Calls, Pushes
  <2>3. Len(Calls(r)) = Len(r) - 2
    BY <1>1, <2>1, <2>2
  <2>4. Command(r) \notin {"LTRIM", "EXPIRE"}
    BY <1>2 DEF Pushes
  <2>5. Len(Calls(r)) \in Nat \ {0} /\ DOMAIN Calls(r) = 1 .. Len(Calls(r))
    BY <1>1, <2>1, <2>2, <2>3
  <2>6. \A i \in 1 .. Len(r) - 2 :
          Calls(r)[i] = [op |-> Command(r), key |-> r[2], args |-> <<r[i + 2]>>]
    BY <2>2
  <2>7. \A i \in 1 .. Len(r) - 2 :
          Calls(r)[i].op = Command(r) /\ Calls(r)[i].args[1] = r[i + 2]
    <3>1. \A x : <<x>>[1] = x
      OBVIOUS
    <3>2. \A a, b, c : [op |-> a, key |-> b, args |-> c].op = a
      OBVIOUS
    <3>3. \A a, b, c : [op |-> a, key |-> b, args |-> c].args = c
      OBVIOUS
    <3>4. ASSUME NEW i \in 1 .. Len(r) - 2
          PROVE  Calls(r)[i].op = Command(r) /\ Calls(r)[i].args[1] = r[i + 2]
      <4>1. Calls(r)[i] = [op |-> Command(r), key |-> r[2], args |-> <<r[i + 2]>>]
        BY <2>6
      <4>2. Calls(r)[i].op = Command(r) /\ Calls(r)[i].args = <<r[i + 2]>>
        <5> DEFINE c == <<r[i + 2]>>
        <5>1. Calls(r)[i] = [op |-> Command(r), key |-> r[2], args |-> c]
          BY <4>1
        <5> HIDE DEF c
        <5>2. Calls(r)[i].op = Command(r) /\ Calls(r)[i].args = c
          BY <5>1
        <5> QED
          BY <5>2 DEF c
      <4> QED
        BY <3>1, <4>2, Zenon
    <3> QED
      BY <3>4
  <2> QED
    BY <1>1, <2>3, <2>4, <2>5, <2>7
<1>3. CASE Command(r) = "MGET"
  <2>1. Len(r) >= 2
    BY <1>3, Zenon DEF ArgumentsOk
  <2>2. Calls(r) = [i \in 1 .. Len(r) - 1 |-> [op |-> "GET", key |-> r[i + 1], args |-> << >>]]
    BY <1>3, Zenon DEF Calls
  <2>3. Len(Calls(r)) = Len(r) - 1
    BY <1>1, <2>1, <2>2
  <2> QED
    BY <1>1, <1>3, <2>1, <2>2, <2>3 DEF Pushes
<1>4. CASE ~Pushes(r) /\ Command(r) # "MGET"
  <2>1. Calls(r) = <<[op |-> Command(r), key |-> r[2], args |-> SubSeq(r, 3, Len(r))]>>
    BY <1>4, Zenon DEF Calls, Pushes
  <2> QED
    BY <1>4, <2>1
<1> QED
  BY <1>2, <1>3, <1>4

\* The elements of a push are its arguments behind the key.
LEMMA ElementsIs ==
  ASSUME NEW r, IsSequence(r), Len(r) >= 3
  PROVE  /\ Len(Elements(r)) = Len(r) - 2 /\ DOMAIN Elements(r) = 1 .. Len(r) - 2
         /\ \A i \in 1 .. Len(r) - 2 : Elements(r)[i] = r[i + 2]
<1>1. Len(r) \in Nat /\ DOMAIN r = 1 .. Len(r) /\ \A i \in 3 .. Len(r) : r[i] \in ToSet(r)
  BY SequenceIs DEF ToSet
<1>2. Len(Elements(r)) = Len(r) - 2 /\ DOMAIN Elements(r) = 1 .. Len(r) - 2
  BY <1>1 DEF Elements
<1>3. \A i \in 1 .. Len(r) - 2 : Elements(r)[i] = r[i + 2]
  BY <1>1 DEF Elements
<1> QED
  BY <1>2, <1>3

\* An encoded error is one.
LEMMA ErrorIs ==
  ASSUME NEW text
  PROVE  EncodeValue("ERRORS", <<text>>)[1].t = "-"
<1>1. EncodeValue("ERRORS", <<text>>) = Line("-", <<text>>)
  BY Zenon DEF EncodeValue
<1>2. Tail(<<text>>) = << >> /\ Head(<<text>>) = text
  OBVIOUS
<1>3. BareLines(<< >>) = << >>
  BY DEF BareLines
<1>4. Line("-", <<text>>) = <<Header("-", 0, text)>> \o << >>
  BY <1>2, <1>3 DEF Line
<1>5. (<<Header("-", 0, text)>> \o << >>)[1] = Header("-", 0, text)
  OBVIOUS
<1>6. Header("-", 0, text).t = "-"
  BY DEF Header
<1> QED
  BY <1>1, <1>4, <1>5, <1>6

(***************************************************************************)
(* The parts of a step.                                                    *)
(***************************************************************************)

\* The requests of a script are sequences.
LEMMA ScriptIs ==
  ASSUME ShapeInv
  PROVE  /\ Len(script) \in Nat /\ DOMAIN script = 1 .. Len(script) /\ taken \in Nat
         /\ \A n \in 1 .. Len(script) : IsSequence(script[n])
         /\ 1 .. taken \subseteq 1 .. Len(script)
<1>1. IsSequence(script) /\ \A n \in DOMAIN script : IsSequence(script[n])
  BY HandlersAssumption DEF ShapeInv
<1>2. Len(script) \in Nat /\ DOMAIN script = 1 .. Len(script)
  BY <1>1, SequenceIs
<1> QED
  BY <1>1, <1>2 DEF ShapeInv

\* A worker's request, and the call that is next.
LEMMA JobIs ==
  ASSUME ShapeInv, NEW w \in Workers, job[w] # NoJob
  PROVE  LET j == job[w]  r == script[j.n] IN
         /\ j.n \in Nat /\ j.n \in 1 .. taken /\ j.n \in DOMAIN script /\ j.made \in Nat
         /\ IsSequence(r) /\ ArgumentsOk(r) /\ j.made < Len(Calls(r))
         /\ Calls(r)[j.made + 1].key \in Keys
<1> DEFINE j == job[w]
<1> DEFINE r == script[j.n]
<1>1. j.n \in 1 .. taken /\ ArgumentsOk(r) /\ j.made \in 0 .. Len(Calls(r)) - 1
  BY DEF ShapeInv
<1>2. j.n \in Nat /\ j.n \in DOMAIN script /\ IsSequence(r)
  BY <1>1, ScriptIs
<1>3. Len(Calls(r)) \in Nat /\ DOMAIN Calls(r) = 1 .. Len(Calls(r))
  BY <1>1, <1>2, CallsIs
<1>4. j.made \in Nat /\ j.made < Len(Calls(r)) /\ j.made + 1 \in DOMAIN Calls(r)
  BY <1>1, <1>3
<1>5. \A i \in DOMAIN Calls(r) : Calls(r)[i].key \in Keys
  BY <1>1, <1>2, HandlersAssumption DEF ShapeInv
<1> QED
  BY <1>1, <1>2, <1>4, <1>5

\* The trees are used in turn.
LEMMA NextTreeIs ==
  ASSUME ShapeInv, NextTree
  PROVE  ptree_counter' \in 0 .. NumTrees - 1
<1>1. ptree_counter + 1 \in Nat /\ NumTrees \in Nat /\ NumTrees > 0
  BY HandlersAssumption DEF ShapeInv
<1> HIDE DEF ShapeInv
<1>2. \A x \in Nat : x % NumTrees \in 0 .. NumTrees - 1
  BY <1>1
<1> QED
  BY <1>1, <1>2 DEF NextTree

\* A reply is added to those there are.
LEMMA ReplyIs ==
  ASSUME NEW n, NEW reply, Reply(n, reply)
  PROVE  /\ DOMAIN replies' = DOMAIN replies \cup {n} /\ replies'[n] = reply
         /\ \A m \in DOMAIN replies : m # n => replies'[m] = replies[m]
BY DEF Reply

\* The call of worker w that is next is added to those that took effect.
Applies(w) ==
  applied' = Append(applied, [n |-> job[w].n,
                              call |-> Calls(script[job[w].n])[job[w].made + 1]])

\* A call takes effect if it writes; all calls of a push do.
LEMMA ApplyIs ==
  ASSUME ShapeInv, NEW w \in Workers, job[w] # NoJob,
         Apply(w, Calls(script[job[w].n])[job[w].made + 1])
  PROVE  /\ expiring' \subseteq Keys
         /\ Applies(w) \/ applied' = applied
         /\ Pushes(script[job[w].n]) => Applies(w)
<1> DEFINE r == script[job[w].n]
<1> DEFINE call == Calls(r)[job[w].made + 1]
<1>1. call.key \in Keys /\ IsSequence(r) /\ ArgumentsOk(r) /\ job[w].made \in Nat
      /\ job[w].made < Len(Calls(r))
  BY JobIs
<1>2. expiring \subseteq Keys
  BY DEF ShapeInv
<1>3. Pushes(r) => call.op \in Writes
  <2> SUFFICES ASSUME Pushes(r) PROVE call.op \in Writes
    OBVIOUS
  <2>1. /\ Len(Calls(r)) = Len(r) - 2 /\ Len(r) \in Nat
        /\ \A i \in 1 .. Len(r) - 2 : Calls(r)[i].op = Command(r)
    BY <1>1, CallsIs
  <2>2. job[w].made + 1 \in 1 .. Len(r) - 2
    BY <1>1, <2>1
  <2>3. call.op = Command(r)
    BY <2>1, <2>2
  <2> QED
    BY <2>3 DEF Pushes, Writes
<1> HIDE DEF call
<1>4. Apply(w, call)
  BY DEF call
<1>5. CASE call.op \in Writes
  <2>1. applied' = Append(applied, [n |-> job[w].n, call |-> call])
    BY <1>4, <1>5 DEF Apply
  <2>2. expiring' \subseteq Keys
    BY <1>1, <1>2, <1>4, <1>5 DEF Apply
  <2> QED
    BY <2>1, <2>2 DEF Applies, call
<1>6. CASE call.op \notin Writes
  BY <1>2, <1>3, <1>4, <1>6 DEF Apply
<1> QED
  BY <1>5, <1>6

\* The calls of a request are finitely many.
LEMMA AppliedByIs ==
  ASSUME IsSequence(applied), NEW n
  PROVE  /\ IsFiniteSet(AppliedBy(n)) /\ Cardinality(AppliedBy(n)) \in Nat
         /\ AppliedBy(n) \subseteq 1 .. Len(applied)
<1>1. Len(applied) \in Nat /\ AppliedBy(n) \subseteq 1 .. Len(applied)
  BY SequenceIs DEF AppliedBy
<1>2. IsFiniteSet(1 .. Len(applied))
  BY <1>1, FS_Interval
<1>3. IsFiniteSet(AppliedBy(n))
  BY <1>1, <1>2, FS_Subset
<1> QED
  BY <1>1, <1>3, FS_CardinalityType

\* A call that takes effect is the last of its request; the calls of others are
\* what they were.
LEMMA RankIs ==
  ASSUME IsSequence(applied), NEW m, NEW c, NEW last, last = Len(applied) + 1,
         applied' = Append(applied, [n |-> m, call |-> c])
  PROVE  /\ IsSequence(applied') /\ DOMAIN applied' = 1 .. last /\ Len(applied) \in Nat
         /\ applied'[last] = [n |-> m, call |-> c]
         /\ \A i \in DOMAIN applied : i # last /\ applied'[i] = applied[i]
         /\ AppliedBy(m)' = AppliedBy(m) \cup {last}
         /\ \A n : n # m => AppliedBy(n)' = AppliedBy(n)
         /\ \A n : \A i \in AppliedBy(n) : Rank(n, i)' = Rank(n, i)
         /\ Rank(m, last)' = Cardinality(AppliedBy(m)) + 1
         /\ Cardinality(AppliedBy(m))' = Cardinality(AppliedBy(m)) + 1
<1> DEFINE x == [n |-> m, call |-> c]
<1>1. Len(applied) \in Nat /\ DOMAIN applied = 1 .. Len(applied)
  BY SequenceIs
<1>2. x.n = m
  OBVIOUS
<1> HIDE DEF x
<1>3. /\ IsSequence(applied') /\ DOMAIN applied' = 1 .. last
      /\ \A i \in 1 .. Len(applied) : applied'[i] = applied[i]
      /\ applied'[last] = x
  BY AppendIs DEF x
<1>4. \A i \in DOMAIN applied : i # last /\ applied'[i] = applied[i]
  BY <1>1, <1>3
<1>5. DOMAIN applied' = DOMAIN applied \cup {last}
  BY <1>1, <1>3
<1>6. AppliedBy(m)' = AppliedBy(m) \cup {last}
  BY <1>2, <1>3, <1>4, <1>5 DEF AppliedBy
<1>7. \A n : n # m => AppliedBy(n)' = AppliedBy(n)
  BY <1>2, <1>3, <1>4, <1>5 DEF AppliedBy
<1>8. \A n : \A i \in AppliedBy(n) : Rank(n, i)' = Rank(n, i)
  <2> TAKE n
  <2> TAKE i \in AppliedBy(n)
  <2>1. i \in 1 .. Len(applied) /\ ~(last <= i)
    BY <1>1 DEF AppliedBy
  <2>2. {j \in AppliedBy(n)' : j <= i} = {j \in AppliedBy(n) : j <= i}
    BY <1>6, <1>7, <2>1
  <2> QED
    BY <2>2 DEF Rank
<1>9. Cardinality(AppliedBy(m))' = Cardinality(AppliedBy(m)) + 1
  <2>1. last \notin AppliedBy(m)
    BY <1>1 DEF AppliedBy
  <2>2. IsFiniteSet(AppliedBy(m))
    BY AppliedByIs
  <2> QED
    BY <1>6, <2>1, <2>2, FS_AddElement
<1>10. Rank(m, last)' = Cardinality(AppliedBy(m)) + 1
  <2>1. \A j \in AppliedBy(m)' : j <= Len(applied) + 1
    BY <1>1, <1>6 DEF AppliedBy
  <2>2. {j \in AppliedBy(m)' : j <= last} = AppliedBy(m)'
    BY <2>1
  <2> QED
    BY <1>9, <2>2 DEF Rank
<1> QED
  BY <1>1, <1>3, <1>4, <1>6, <1>7, <1>8, <1>9, <1>10 DEF x

\* The two halves of PushAppliesPrefix for request n.
InOrder(n) ==
  \A i \in AppliedBy(n) :
    /\ Rank(n, i) \in DOMAIN Elements(script[n])
    /\ applied[i].call.args[1] = Elements(script[n])[Rank(n, i)]
Whole(n) ==
  n \in DOMAIN replies /\ replies[n][1].t # "-" =>
    Cardinality(AppliedBy(n)) = Len(Elements(script[n]))

\* PushAppliesPrefix is both halves for every push.
LEMMA PrefixIs ==
  PushAppliesPrefix <=> \A n \in DOMAIN script : Pushes(script[n]) => InOrder(n) /\ Whole(n)
BY DEF PushAppliesPrefix, Pushes, InOrder, Whole

\* The same after a step.
LEMMA PrefixNextIs ==
  ASSUME script' = script
  PROVE  PushAppliesPrefix' <=>
           \A n \in DOMAIN script : Pushes(script[n]) => InOrder(n)' /\ Whole(n)'
BY DEF PushAppliesPrefix, Pushes, InOrder, Whole

\* The calls of a push are as many as its elements.
LEMMA PushIs ==
  ASSUME NEW r, IsSequence(r), ArgumentsOk(r), Pushes(r)
  PROVE  /\ Len(Calls(r)) = Len(Elements(r)) /\ DOMAIN Elements(r) = 1 .. Len(Calls(r))
         /\ Len(Calls(r)) \in Nat
         /\ \A i \in 1 .. Len(Calls(r)) : Calls(r)[i].args[1] = Elements(r)[i]
<1>1. /\ Len(Calls(r)) \in Nat \ {0} /\ Len(Calls(r)) = Len(r) - 2 /\ Len(r) \in Nat
      /\ \A i \in 1 .. Len(r) - 2 : Calls(r)[i].args[1] = r[i + 2]
  BY CallsIs
<1>2. Len(r) >= 3
  BY <1>1
<1> QED
  BY <1>1, <1>2, ElementsIs

\* When a call of worker w's request takes effect, or none does, every push has
\* still applied its first elements.
LEMMA AppliedStep ==
  ASSUME IInv, NEW w \in Workers, job[w] # NoJob, NEW m, m = job[w].n,
         Applies(w) \/ applied' = applied, script' = script, taken' = taken
  PROVE  /\ IsSequence(applied')
         /\ \A i \in DOMAIN applied' : applied'[i].n \in 1 .. taken
                                       /\ ArgumentsOk(script[applied'[i].n])
         /\ \A n \in DOMAIN script : Pushes(script[n]) => InOrder(n)'
         /\ \A n : n # m => AppliedBy(n)' = AppliedBy(n)
         /\ Pushes(script[m]) /\ Applies(w) =>
              Cardinality(AppliedBy(m))' = job[w].made + 1
<1>1. /\ IsSequence(applied) /\ ShapeInv
      /\ \A i \in DOMAIN applied : applied[i].n \in 1 .. taken
                                   /\ ArgumentsOk(script[applied[i].n])
      /\ \A n \in DOMAIN script : Pushes(script[n]) => InOrder(n)
      /\ Pushes(script[m]) => Cardinality(AppliedBy(m)) = job[w].made
  BY PrefixIs DEF IInv, ShapeInv, PushInv
<1>2. CASE applied' = applied /\ ~Applies(w)
  BY <1>1, <1>2 DEF AppliedBy, InOrder, Rank
<1>3. CASE Applies(w)
  <2>1. PICK c : c = Calls(script[m])[job[w].made + 1]
    OBVIOUS
  <2>2. PICK last : last = Len(applied) + 1
    OBVIOUS
  <2>3. applied' = Append(applied, [n |-> m, call |-> c])
    BY <1>3, <2>1 DEF Applies
  <2>4. /\ IsSequence(applied') /\ DOMAIN applied' = 1 .. last /\ Len(applied) \in Nat
        /\ applied'[last] = [n |-> m, call |-> c]
        /\ \A i \in DOMAIN applied : i # last /\ applied'[i] = applied[i]
        /\ AppliedBy(m)' = AppliedBy(m) \cup {last}
        /\ \A n : n # m => AppliedBy(n)' = AppliedBy(n)
        /\ \A n : \A i \in AppliedBy(n) : Rank(n, i)' = Rank(n, i)
        /\ Rank(m, last)' = Cardinality(AppliedBy(m)) + 1
        /\ Cardinality(AppliedBy(m))' = Cardinality(AppliedBy(m)) + 1
    BY <1>1, <2>2, <2>3, RankIs
  <2>5. /\ m \in 1 .. taken /\ IsSequence(script[m]) /\ ArgumentsOk(script[m])
        /\ job[w].made \in Nat /\ job[w].made < Len(Calls(script[m]))
    BY <1>1, JobIs
  <2>6. applied'[last].n = m /\ applied'[last].call = c
    BY <2>4
  <2>7. \A i \in DOMAIN applied' : applied'[i].n \in 1 .. taken
                                   /\ ArgumentsOk(script[applied'[i].n])
    <3> TAKE i \in DOMAIN applied'
    <3>1. i \in DOMAIN applied \/ i = last
      BY <1>1, <2>2, <2>4, SequenceIs
    <3> QED
      BY <1>1, <2>4, <2>5, <2>6, <3>1
  <2>8. ASSUME NEW n \in DOMAIN script, Pushes(script[n]) PROVE InOrder(n)'
    <3>1. ASSUME NEW i \in AppliedBy(n)
          PROVE  /\ Rank(n, i)' \in DOMAIN Elements(script[n])
                 /\ applied'[i].call.args[1] = Elements(script[n])[Rank(n, i)']
      <4>1. i \in DOMAIN applied /\ applied'[i] = applied[i]
        BY <2>4 DEF AppliedBy
      <4>2. Rank(n, i)' = Rank(n, i)
        BY <2>4
      <4> QED
        BY <1>1, <2>8, <4>1, <4>2 DEF InOrder
    <3>2. CASE n = m
      <4>1. Rank(m, last)' = job[w].made + 1
        BY <1>1, <2>4, <2>8, <3>2
      <4>2. /\ DOMAIN Elements(script[m]) = 1 .. Len(Calls(script[m]))
            /\ Len(Calls(script[m])) \in Nat
            /\ \A i \in 1 .. Len(Calls(script[m])) :
                 Calls(script[m])[i].args[1] = Elements(script[m])[i]
        BY <2>5, <2>8, <3>2, PushIs
      <4>3. job[w].made + 1 \in 1 .. Len(Calls(script[m]))
        BY <2>5, <4>2
      <4>4. c.args[1] = Elements(script[m])[job[w].made + 1]
        BY <2>1, <4>2, <4>3
      <4>5. /\ Rank(m, last)' \in DOMAIN Elements(script[m])
            /\ applied'[last].call.args[1] = Elements(script[m])[Rank(m, last)']
        BY <2>6, <4>1, <4>2, <4>3, <4>4
      <4> QED
        BY <2>4, <3>1, <3>2, <4>5 DEF InOrder
    <3>3. CASE n # m
      BY <2>4, <3>1, <3>3 DEF InOrder
    <3> QED
      BY <3>2, <3>3
  <2> QED
    BY <1>1, <2>4, <2>7, <2>8
<1> QED
  BY <1>2, <1>3

(***************************************************************************)
(* The invariant, action by action.                                        *)
(***************************************************************************)

\* A worker answers its request, with an error or after its last call.
LEMMA AnswerInv ==
  ASSUME IInv, NEW w \in Workers, job[w] # NoJob, NEW m, m = job[w].n,
         script' = script, taken' = taken, NextTree, expiring' \subseteq Keys,
         Applies(w) \/ applied' = applied,
         job' = [job EXCEPT ![w] = NoJob],
         DOMAIN replies' = DOMAIN replies \cup {m},
         \A n \in DOMAIN replies : n # m => replies'[n] = replies[n],
         Pushes(script[m]) => \/ replies'[m][1].t = "-"
                              \/ Applies(w) /\ job[w].made + 1 = Len(Calls(script[m]))
  PROVE  IInv'
<1>1. /\ m \in 1 .. taken /\ m \in DOMAIN script /\ IsSequence(script[m])
      /\ ArgumentsOk(script[m]) /\ ShapeInv /\ m # 0
  BY JobIs, ScriptIs DEF IInv
<1>2. /\ DOMAIN job = Workers /\ job'[w] = NoJob /\ \A v \in Workers : v # w => job'[v] = job[v]
      /\ job' = [v \in Workers |-> job'[v]]
  BY <1>1 DEF ShapeInv
<1>3. /\ IsSequence(applied')
      /\ \A i \in DOMAIN applied' : applied'[i].n \in 1 .. taken
                                    /\ ArgumentsOk(script[applied'[i].n])
      /\ \A n \in DOMAIN script : Pushes(script[n]) => InOrder(n)'
      /\ \A n : n # m => AppliedBy(n)' = AppliedBy(n)
      /\ Pushes(script[m]) /\ Applies(w) => Cardinality(AppliedBy(m))' = job[w].made + 1
  BY AppliedStep
<1>4. NoJob.n = 0
  BY DEF NoJob
<1>5. \A v \in Workers : v # w => job[v].n # m
  BY <1>1, <1>4 DEF IInv, HeldInv
<1>6. ShapeInv'
  <2>1. \A v \in Workers : job'[v] # NoJob => v # w /\ job'[v] = job[v]
    BY <1>2
  <2>2. \A v \in Workers : job'[v] # NoJob =>
          /\ job'[v] = [n |-> job'[v].n, made |-> job'[v].made, read |-> job'[v].read]
          /\ job'[v].n \in 1 .. taken /\ ArgumentsOk(script[job'[v].n])
          /\ job'[v].made \in 0 .. Len(Calls(script[job'[v].n])) - 1
          /\ IsSequence(job'[v].read) /\ Len(job'[v].read) = job'[v].made
    BY <1>1, <2>1 DEF ShapeInv
  <2>3. ptree_counter' \in 0 .. NumTrees - 1
    BY <1>1, NextTreeIs
  <2>4. DOMAIN replies' \subseteq 1 .. taken /\ script \in Scripts /\ taken \in 0 .. Len(script)
    BY <1>1 DEF ShapeInv
  <2> QED
    BY <1>2, <1>3, <2>2, <2>3, <2>4 DEF ShapeInv
<1>7. HeldInv'
  <2>1. \A n \in 1 .. taken : n \in DOMAIN replies' \/ \E v \in Workers : job'[v].n = n
    <3> TAKE n \in 1 .. taken
    <3>1. CASE n = m
      BY <3>1
    <3>2. CASE n # m
      <4>1. n \in DOMAIN replies \/ \E v \in Workers : job[v].n = n
        BY DEF IInv, HeldInv
      <4> QED
        BY <1>2, <3>2, <4>1
    <3> QED
      BY <3>1, <3>2
  <2>2. \A v \in Workers : job'[v].n \notin DOMAIN replies'
    <3>1. 0 \notin DOMAIN replies'
      BY <1>1 DEF ShapeInv
    <3> QED
      BY <1>2, <1>4, <1>5, <3>1 DEF IInv, HeldInv
  <2>3. \A u, v \in Workers : job'[u].n = job'[v].n /\ job'[v] # NoJob => u = v
    <3> TAKE u, v \in Workers
    <3> HAVE job'[u].n = job'[v].n /\ job'[v] # NoJob
    <3>1. job'[v] = job[v] /\ job[v] # NoJob /\ job[v].n # 0
      BY <1>1, <1>2 DEF ShapeInv
    <3>2. job'[u] = job[u]
      BY <1>2, <1>4, <3>1
    <3> QED
      BY <3>1, <3>2 DEF IInv, HeldInv
  <2> QED
    BY <2>1, <2>2, <2>3 DEF HeldInv
<1>8. PushInv'
  <2>1. ASSUME NEW v \in Workers, NEW n, n = job'[v].n, job'[v] # NoJob, Pushes(script[n])
        PROVE  Cardinality(AppliedBy(n))' = job'[v].made
    <3>1. v # w /\ job'[v] = job[v] /\ n = job[v].n
      BY <1>2, <2>1
    <3>2. Cardinality(AppliedBy(n)) = job[v].made
      BY <2>1, <3>1 DEF IInv, PushInv
    <3>3. AppliedBy(n)' = AppliedBy(n)
      BY <1>3, <1>5, <3>1
    <3> QED
      BY <3>1, <3>2, <3>3
  <2>2. \A n \in DOMAIN script : Pushes(script[n]) => Whole(n)'
    <3> TAKE n \in DOMAIN script
    <3> HAVE Pushes(script[n])
    <3>1. CASE n = m
      <4> SUFFICES ASSUME replies'[m][1].t # "-"
                   PROVE  Cardinality(AppliedBy(m))' = Len(Elements(script[m]))
        BY <3>1 DEF Whole
      <4>1. Cardinality(AppliedBy(m))' = Len(Calls(script[m]))
        BY <1>3, <3>1
      <4> QED
        BY <1>1, <3>1, <4>1, PushIs
    <3>2. CASE n # m
      <4>1. Whole(n)
        BY PrefixIs DEF IInv, PushInv
      <4>2. AppliedBy(n)' = AppliedBy(n)
        BY <1>3, <3>2
      <4>3. n \in DOMAIN replies' => n \in DOMAIN replies /\ replies'[n] = replies[n]
        BY <3>2
      <4> QED
        BY <4>1, <4>2, <4>3 DEF Whole
    <3> QED
      BY <3>1, <3>2
  <2>3. PushAppliesPrefix'
    BY <1>3, <2>2, PrefixNextIs
  <2>4. ASSUME NEW v \in Workers, job'[v] # NoJob, Pushes(script[job'[v].n])
        PROVE  Cardinality({i \in DOMAIN applied' : applied'[i].n = job'[v].n}) = job'[v].made
    <3>1. PICK n : n = job'[v].n
      OBVIOUS
    <3>2. Cardinality(AppliedBy(n))' = job'[v].made
      BY <2>1, <2>4, <3>1
    <3> QED
      BY <3>1, <3>2 DEF AppliedBy
  <2>5. \A v \in Workers : job'[v] # NoJob /\ Pushes(script'[job'[v].n]) =>
          Cardinality({i \in DOMAIN applied' : applied'[i].n = job'[v].n}) = job'[v].made
    BY <2>4
  <2> QED
    BY <2>3, <2>5 DEF PushInv, AppliedBy
<1> QED
  BY <1>6, <1>7, <1>8 DEF IInv

\* A worker goes on with the next call of its request.
LEMMA GoOnInv ==
  ASSUME IInv, NEW w \in Workers, job[w] # NoJob, NEW m, m = job[w].n, NEW read,
         script' = script, taken' = taken, NextTree, expiring' \subseteq Keys,
         Applies(w) \/ applied' = applied, Pushes(script[m]) => Applies(w),
         IsSequence(read), Len(read) = job[w].made + 1,
         job' = [job EXCEPT ![w] = [job[w] EXCEPT !.made = job[w].made + 1, !.read = read]],
         job[w].made + 1 < Len(Calls(script[m])), replies' = replies
  PROVE  IInv'
<1>1. /\ m \in 1 .. taken /\ m \in DOMAIN script /\ IsSequence(script[m])
      /\ ArgumentsOk(script[m]) /\ ShapeInv /\ m # 0 /\ job[w].made \in Nat
  BY JobIs, ScriptIs DEF IInv
<1>2. job[w] = [n |-> m, made |-> job[w].made, read |-> job[w].read]
  BY <1>1 DEF ShapeInv
<1>3. /\ DOMAIN job = Workers /\ \A v \in Workers : v # w => job'[v] = job[v]
      /\ job' = [v \in Workers |-> job'[v]]
      /\ job'[w] = [job[w] EXCEPT !.made = job[w].made + 1, !.read = read]
  <2>1. DOMAIN job = Workers
    BY <1>1 DEF ShapeInv
  <2>2. job' = [v \in Workers |-> IF v = w THEN [job[w] EXCEPT !.made = job[w].made + 1, !.read = read]
                                  ELSE job[v]]
    BY <2>1
  <2> QED
    BY <2>1, <2>2, Zenon
<1>4. job'[w] = [n |-> m, made |-> job[w].made + 1, read |-> read]
  BY <1>2, <1>3
<1>5. /\ job'[w].n = m /\ job'[w].made = job[w].made + 1 /\ job'[w].read = read
      /\ job'[w] # NoJob /\ \A v \in Workers : job'[v].n = job[v].n
      /\ \A v \in Workers : job'[v] # NoJob <=> job[v] # NoJob
  BY <1>1, <1>3, <1>4 DEF NoJob
<1>6. /\ IsSequence(applied')
      /\ \A i \in DOMAIN applied' : applied'[i].n \in 1 .. taken
                                    /\ ArgumentsOk(script[applied'[i].n])
      /\ \A n \in DOMAIN script : Pushes(script[n]) => InOrder(n)'
      /\ \A n : n # m => AppliedBy(n)' = AppliedBy(n)
      /\ Pushes(script[m]) /\ Applies(w) => Cardinality(AppliedBy(m))' = job[w].made + 1
  BY AppliedStep
<1>7. \A v \in Workers : v # w => job[v].n # m
  BY <1>1 DEF IInv, HeldInv
<1>8. ShapeInv'
  <2>1. Len(Calls(script[m])) \in Nat
    BY <1>1, CallsIs
  <2>2. ASSUME NEW v \in Workers, job'[v] # NoJob
        PROVE  /\ job'[v] = [n |-> job'[v].n, made |-> job'[v].made, read |-> job'[v].read]
               /\ job'[v].n \in 1 .. taken /\ ArgumentsOk(script[job'[v].n])
               /\ job'[v].made \in 0 .. Len(Calls(script[job'[v].n])) - 1
               /\ IsSequence(job'[v].read) /\ Len(job'[v].read) = job'[v].made
    <3>1. CASE v = w
      BY <1>1, <1>4, <1>5, <2>1, <3>1
    <3>2. CASE v # w
      BY <1>1, <1>3, <2>2, <3>2 DEF ShapeInv
    <3> QED
      BY <3>1, <3>2
  <2>3. ptree_counter' \in 0 .. NumTrees - 1
    BY <1>1, NextTreeIs
  <2>4. DOMAIN replies' \subseteq 1 .. taken /\ script \in Scripts /\ taken \in 0 .. Len(script)
    BY <1>1 DEF ShapeInv
  <2> QED
    BY <1>3, <1>6, <2>2, <2>3, <2>4 DEF ShapeInv
<1>9. HeldInv'
  BY <1>5 DEF IInv, HeldInv
<1>10. PushInv'
  <2>1. ASSUME NEW v \in Workers, NEW n, n = job'[v].n, job'[v] # NoJob, Pushes(script[n])
        PROVE  Cardinality(AppliedBy(n))' = job'[v].made
    <3>1. CASE v = w
      BY <1>5, <1>6, <2>1, <3>1
    <3>2. CASE v # w
      <4>1. job'[v] = job[v] /\ n = job[v].n
        BY <1>3, <2>1, <3>2
      <4>2. Cardinality(AppliedBy(n)) = job[v].made
        BY <2>1, <4>1 DEF IInv, PushInv
      <4>3. AppliedBy(n)' = AppliedBy(n)
        BY <1>6, <1>7, <3>2, <4>1
      <4> QED
        BY <4>1, <4>2, <4>3
    <3> QED
      BY <3>1, <3>2
  <2>2. ASSUME NEW v \in Workers, job'[v] # NoJob, Pushes(script[job'[v].n])
        PROVE  Cardinality({i \in DOMAIN applied' : applied'[i].n = job'[v].n}) = job'[v].made
    <3>1. PICK n : n = job'[v].n
      OBVIOUS
    <3>2. Cardinality(AppliedBy(n))' = job'[v].made
      BY <2>1, <2>2, <3>1
    <3> QED
      BY <3>1, <3>2 DEF AppliedBy
  <2>3. \A v \in Workers : job'[v] # NoJob /\ Pushes(script'[job'[v].n]) =>
          Cardinality({i \in DOMAIN applied' : applied'[i].n = job'[v].n}) = job'[v].made
    BY <2>2
  <2>4. \A n \in DOMAIN script : Pushes(script[n]) => Whole(n)'
    <3> TAKE n \in DOMAIN script
    <3> HAVE Pushes(script[n])
    <3>1. CASE n = m
      <4>1. m \notin DOMAIN replies
        BY DEF IInv, HeldInv
      <4> QED
        BY <3>1, <4>1 DEF Whole
    <3>2. CASE n # m
      <4>1. Whole(n)
        BY PrefixIs DEF IInv, PushInv
      <4>2. AppliedBy(n)' = AppliedBy(n)
        BY <1>6, <3>2
      <4> QED
        BY <4>1, <4>2 DEF Whole
    <3> QED
      BY <3>1, <3>2
  <2>5. PushAppliesPrefix'
    BY <1>6, <2>4, PrefixNextIs
  <2> QED
    BY <2>3, <2>5 DEF PushInv, AppliedBy
<1> QED
  BY <1>8, <1>9, <1>10 DEF IInv

\* A call that returns.
LEMMA CallReturnsInv ==
  ASSUME IInv, NEW w \in Workers, CallReturns(w)
  PROVE  IInv'
<1> DEFINE r == script[job[w].n]
<1> DEFINE call == Calls(r)[job[w].made + 1]
<1> DEFINE read == Append(job[w].read, store[call.key])
<1>1. /\ job[w] # NoJob /\ NextTree /\ Apply(w, call) /\ script' = script /\ taken' = taken
      /\ IF job[w].made + 1 < Len(Calls(r))
         THEN /\ job' = [job EXCEPT ![w] = [job[w] EXCEPT !.made = job[w].made + 1, !.read = read]]
              /\ replies' = replies
         ELSE Answer(w, ReplyTo(r, read))
  BY DEF CallReturns
<1>2. ShapeInv
  BY DEF IInv
<1>3. expiring' \subseteq Keys /\ (Applies(w) \/ applied' = applied)
      /\ (Pushes(r) => Applies(w))
  BY <1>1, <1>2, ApplyIs
<1>4. job[w].made \in Nat /\ job[w].made < Len(Calls(r)) /\ IsSequence(r) /\ ArgumentsOk(r)
  BY <1>1, <1>2, JobIs
<1>5. Len(Calls(r)) \in Nat
  BY <1>4, CallsIs
<1>6. IsSequence(job[w].read) /\ Len(job[w].read) = job[w].made
  BY <1>1, <1>2 DEF ShapeInv
<1>7. CASE job[w].made + 1 < Len(Calls(r))
  <2>1. PICK x : x = read
    OBVIOUS
  <2>2. IsSequence(x) /\ Len(x) = job[w].made + 1
    BY <1>6, <2>1, AppendIs
  <2>3. job' = [job EXCEPT ![w] = [job[w] EXCEPT !.made = job[w].made + 1, !.read = x]] /\ replies' = replies
    BY <1>1, <1>7, <2>1
  <2> QED
    BY <1>1, <1>3, <1>7, <2>2, <2>3, GoOnInv
<1>8. CASE ~(job[w].made + 1 < Len(Calls(r)))
  <2>1. job[w].made + 1 = Len(Calls(r))
    BY <1>4, <1>5, <1>8
  <2>2. Answer(w, ReplyTo(r, read))
    BY <1>1, <1>8
  <2>3. job' = [job EXCEPT ![w] = NoJob] /\ \E x : Reply(job[w].n, x)
    BY <2>2 DEF Answer
  <2>4. /\ DOMAIN replies' = DOMAIN replies \cup {job[w].n}
        /\ \A n \in DOMAIN replies : n # job[w].n => replies'[n] = replies[n]
    BY <2>3, ReplyIs
  <2> QED
    BY <1>1, <1>3, <2>1, <2>3, <2>4, AnswerInv
<1> QED
  BY <1>7, <1>8

\* A call that throws; a request that has only just begun its calls may have
\* applied none, one that is in the midst of them the first few.
LEMMA CallThrowsInv ==
  ASSUME IInv, NEW w \in Workers, CallThrows(w)
  PROVE  IInv'
<1> DEFINE call == Calls(script[job[w].n])[job[w].made + 1]
<1>1. /\ job[w] # NoJob /\ NextTree /\ script' = script /\ taken' = taken
      /\ (applied' = applied /\ expiring' = expiring) \/ Apply(w, call)
      /\ Answer(w, InternalError)
  BY DEF CallThrows
<1>2. ShapeInv
  BY DEF IInv
<1>3. expiring' \subseteq Keys /\ (Applies(w) \/ applied' = applied)
  <2>1. CASE applied' = applied /\ expiring' = expiring
    BY <1>2, <2>1 DEF ShapeInv
  <2>2. CASE Apply(w, call)
    BY <1>1, <1>2, <2>2, ApplyIs
  <2> QED
    BY <1>1, <2>1, <2>2
<1>4. job' = [job EXCEPT ![w] = NoJob] /\ Reply(job[w].n, InternalError)
  BY <1>1 DEF Answer
<1>5. /\ DOMAIN replies' = DOMAIN replies \cup {job[w].n}
      /\ \A n \in DOMAIN replies : n # job[w].n => replies'[n] = replies[n]
      /\ replies'[job[w].n] = InternalError
  BY <1>4, ReplyIs
<1>6. replies'[job[w].n][1].t = "-"
  BY <1>5, ErrorIs DEF InternalError
<1> QED
  BY <1>1, <1>3, <1>4, <1>5, <1>6, AnswerInv

\* A call that reports a failure by its status.
LEMMA CallFailsInv ==
  ASSUME IInv, NEW w \in Workers, CallFails(w)
  PROVE  IInv'
<1> DEFINE r == script[job[w].n]
<1>1. PICK status :
        /\ job[w] # NoJob /\ Command(r) \in {"LTRIM", "EXPIRE"} /\ NextTree
        /\ script' = script /\ taken' = taken
        /\ Answer(w, StatusError(status))
        /\ (applied' = applied /\ expiring' = expiring) \/ Apply(w, Calls(r)[1])
  BY DEF CallFails
<1>2. ShapeInv
  BY DEF IInv
<1>3. expiring' \subseteq Keys /\ (Applies(w) \/ applied' = applied)
  <2>1. CASE applied' = applied /\ expiring' = expiring
    BY <1>2, <2>1 DEF ShapeInv
  <2>2. CASE Apply(w, Calls(r)[1])
    <3>1. job[w].made \in Nat /\ job[w].made < Len(Calls(r)) /\ IsSequence(r) /\ ArgumentsOk(r)
      BY <1>1, <1>2, JobIs
    <3>2. Len(Calls(r)) = 1
      BY <1>1, <3>1, CallsIs
    <3>3. job[w].made + 1 = 1
      BY <3>1, <3>2
    <3>4. Apply(w, Calls(r)[job[w].made + 1])
      BY <2>2, <3>3
    <3> QED
      BY <1>1, <1>2, <3>4, ApplyIs
  <2> QED
    BY <1>1, <2>1, <2>2
<1>4. job' = [job EXCEPT ![w] = NoJob] /\ Reply(job[w].n, StatusError(status))
  BY <1>1 DEF Answer
<1>5. /\ DOMAIN replies' = DOMAIN replies \cup {job[w].n}
      /\ \A n \in DOMAIN replies : n # job[w].n => replies'[n] = replies[n]
      /\ replies'[job[w].n] = StatusError(status)
  BY <1>4, ReplyIs
<1>6. replies'[job[w].n][1].t = "-"
  BY <1>5, ErrorIs DEF StatusError
<1> QED
  BY <1>1, <1>3, <1>4, <1>5, <1>6, AnswerInv

\* A worker takes the next request, and has it or answers it at once.
LEMMA TakeInv ==
  ASSUME IInv, NEW w \in Workers, Take(w)
  PROVE  IInv'
<1>1. PICK n : n = taken + 1
  OBVIOUS
<1>2. /\ job[w] = NoJob /\ n \in DOMAIN script /\ taken' = n /\ script' = script
      /\ ptree_counter' = ptree_counter /\ expiring' = expiring /\ applied' = applied
      /\ \/ /\ ArgumentsOk(script[n])
            /\ job' = [job EXCEPT ![w] = [NoJob EXCEPT !.n = n]]
            /\ replies' = replies
         \/ /\ ~ArgumentsOk(script[n])
            /\ Reply(n, UsageError)
            /\ job' = job
  BY <1>1 DEF Take
<1>3. /\ ShapeInv /\ taken \in Nat /\ Len(script) \in Nat /\ n \in 1 .. Len(script)
      /\ IsSequence(script[n]) /\ 1 .. n = 1 .. taken \cup {n} /\ n # 0
  <2>1. ShapeInv
    BY DEF IInv
  <2>2. /\ taken \in Nat /\ Len(script) \in Nat /\ DOMAIN script = 1 .. Len(script)
        /\ \A m \in 1 .. Len(script) : IsSequence(script[m])
    BY <2>1, ScriptIs
  <2> QED
    BY <1>1, <1>2, <2>1, <2>2
<1>4. /\ \A i \in DOMAIN applied : applied[i].n # n
      /\ n \notin DOMAIN replies /\ \A v \in Workers : job[v].n # n
      /\ NoJob.n = 0
  <2>1. \A i \in DOMAIN applied : applied[i].n \in 1 .. taken
    BY <1>3 DEF ShapeInv
  <2>2. DOMAIN replies \subseteq 1 .. taken /\ NoJob.n = 0
    BY <1>3 DEF ShapeInv, NoJob
  <2>3. \A v \in Workers : job[v] = NoJob \/ job[v].n \in 1 .. taken
    BY <1>3 DEF ShapeInv
  <2>4. n \notin 1 .. taken
    BY <1>1, <1>3
  <2> QED
    BY <1>3, <2>1, <2>2, <2>3, <2>4
<1>5. AppliedBy(n) = {} /\ Cardinality(AppliedBy(n)) = 0
  BY <1>4, FS_EmptySet DEF AppliedBy
<1>6. /\ DOMAIN job = Workers
      /\ \A v \in Workers : v # w => job'[v] = job[v]
      /\ job' = [v \in Workers |-> job'[v]]
      /\ \/ ArgumentsOk(script[n]) /\ job'[w] = [n |-> n, made |-> 0, read |-> << >>]
         \/ job'[w] = NoJob
  <2>1. DOMAIN job = Workers /\ job = [v \in Workers |-> job[v]]
    BY <1>3 DEF ShapeInv
  <2>2. [NoJob EXCEPT !.n = n] = [n |-> n, made |-> 0, read |-> << >>]
    BY DEF NoJob
  <2> QED
    BY <1>2, <2>1, <2>2
<1>7. /\ \/ n \in DOMAIN replies' /\ job'[w] = NoJob /\ replies'[n][1].t = "-"
         \/ n \notin DOMAIN replies' /\ job'[w].n = n
      /\ DOMAIN replies' \subseteq DOMAIN replies \cup {n}
      /\ \A m \in DOMAIN replies : m \in DOMAIN replies' /\ replies'[m] = replies[m]
  <2>1. CASE ~ArgumentsOk(script[n])
    <3>1. DOMAIN replies' = DOMAIN replies \cup {n} /\ replies'[n] = UsageError
          /\ \A m \in DOMAIN replies : m # n => replies'[m] = replies[m]
      BY <1>2, <2>1, ReplyIs
    <3>2. replies'[n][1].t = "-"
      BY <3>1, ErrorIs DEF UsageError
    <3> QED
      BY <1>2, <1>4, <2>1, <3>1, <3>2
  <2>2. CASE ArgumentsOk(script[n])
    <3>1. replies' = replies /\ DOMAIN job = Workers /\ job'[w] = [NoJob EXCEPT !.n = n]
      BY <1>2, <1>6, <2>2
    <3>2. job'[w].n = n
      BY <3>1 DEF NoJob
    <3> QED
      BY <1>4, <3>1, <3>2
  <2> QED
    BY <2>1, <2>2
<1>8. ShapeInv'
  <2>1. ASSUME NEW v \in Workers, job'[v] # NoJob
        PROVE  /\ job'[v] = [n |-> job'[v].n, made |-> job'[v].made, read |-> job'[v].read]
               /\ job'[v].n \in 1 .. n /\ ArgumentsOk(script[job'[v].n])
               /\ job'[v].made \in 0 .. Len(Calls(script[job'[v].n])) - 1
               /\ IsSequence(job'[v].read) /\ Len(job'[v].read) = job'[v].made
    <3>1. CASE v = w
      <4>1. ArgumentsOk(script[n]) /\ job'[v] = [n |-> n, made |-> 0, read |-> << >>]
        BY <1>6, <2>1, <3>1
      <4>2. job'[v].n = n /\ job'[v].made = 0 /\ job'[v].read = << >>
        BY <4>1
      <4>3. Len(Calls(script[n])) \in Nat \ {0}
        BY <1>3, <4>1, CallsIs
      <4>4. 0 \in 0 .. Len(Calls(script[n])) - 1
        BY <4>3
      <4>5. IsSequence(<< >>) /\ Len(<< >>) = 0
        BY DEF IsSequence, ToSet
      <4>6. n \in 1 .. n
        BY <1>3
      <4> QED
        BY <4>1, <4>2, <4>4, <4>5, <4>6
    <3>2. CASE v # w
      BY <1>3, <1>6, <2>1, <3>2 DEF ShapeInv
    <3> QED
      BY <3>1, <3>2
  <2>2. \A i \in DOMAIN applied' : applied'[i].n \in 1 .. n /\ ArgumentsOk(script[applied'[i].n])
    BY <1>2, <1>3 DEF ShapeInv
  <2>3. DOMAIN replies' \subseteq 1 .. n /\ n \in 0 .. Len(script)
    BY <1>3, <1>7 DEF ShapeInv
  <2>4. script \in Scripts /\ ptree_counter \in 0 .. NumTrees - 1 /\ expiring \subseteq Keys
        /\ IsSequence(applied)
    BY <1>3 DEF ShapeInv
  <2> QED
    BY <1>2, <1>6, <2>1, <2>2, <2>3, <2>4 DEF ShapeInv
<1>9. HeldInv'
  <2>1. \A m \in 1 .. n : m \in DOMAIN replies' \/ \E v \in Workers : job'[v].n = m
    <3> TAKE m \in 1 .. n
    <3>1. CASE m = n
      BY <1>7, <3>1
    <3>2. CASE m # n
      <4>1. m \in 1 .. taken
        BY <1>3, <3>2
      <4>2. m # 0 /\ (m \in DOMAIN replies \/ \E v \in Workers : job[v].n = m)
        BY <1>3, <4>1 DEF IInv, HeldInv
      <4> QED
        BY <1>2, <1>4, <1>6, <1>7, <4>2
    <3> QED
      BY <3>1, <3>2
  <2>2. \A v \in Workers : job'[v].n \notin DOMAIN replies'
    <3>1. 0 \notin DOMAIN replies /\ \A v \in Workers : job[v].n \notin DOMAIN replies
      BY <1>3 DEF ShapeInv, IInv, HeldInv
    <3> QED
      BY <1>3, <1>4, <1>6, <1>7, <3>1
  <2>3. \A u, v \in Workers : job'[u].n = job'[v].n /\ job'[v] # NoJob => u = v
    <3> TAKE u, v \in Workers
    <3> HAVE job'[u].n = job'[v].n /\ job'[v] # NoJob
    <3>1. CASE v = w
      <4>1. job'[v].n = n
        BY <1>6, <3>1
      <4> QED
        BY <1>4, <1>6, <3>1, <4>1
    <3>2. CASE v # w
      <4>1. job'[v] = job[v] /\ job[v] # NoJob /\ job[v].n # n /\ job[v].n # 0
        BY <1>3, <1>4, <1>6, <3>2 DEF ShapeInv
      <4>2. u # w
        BY <1>4, <1>6, <4>1
      <4>3. job'[u] = job[u]
        BY <1>6, <4>2
      <4> QED
        BY <4>1, <4>3 DEF IInv, HeldInv
    <3> QED
      BY <3>1, <3>2
  <2> QED
    BY <1>2, <2>1, <2>2, <2>3 DEF HeldInv
<1>10. \A m : AppliedBy(m)' = AppliedBy(m)
  BY <1>2 DEF AppliedBy
<1>11. PushInv'
  <2>1. ASSUME NEW v \in Workers, NEW m, m = job'[v].n, job'[v] # NoJob, Pushes(script[m])
        PROVE  Cardinality(AppliedBy(m))' = job'[v].made
    <3>1. CASE v = w
      <4>1. m = n /\ job'[v].made = 0
        BY <1>6, <2>1, <3>1
      <4> QED
        BY <1>5, <1>10, <4>1
    <3>2. CASE v # w
      <4>1. job'[v] = job[v]
        BY <1>6, <3>2
      <4> QED
        BY <1>10, <2>1, <4>1 DEF IInv, PushInv
    <3> QED
      BY <3>1, <3>2
  <2>2. ASSUME NEW v \in Workers, job'[v] # NoJob, Pushes(script[job'[v].n])
        PROVE  Cardinality({i \in DOMAIN applied' : applied'[i].n = job'[v].n}) = job'[v].made
    <3>1. PICK m : m = job'[v].n
      OBVIOUS
    <3>2. Cardinality(AppliedBy(m))' = job'[v].made
      BY <2>1, <2>2, <3>1
    <3> QED
      BY <3>1, <3>2 DEF AppliedBy
  <2>3. \A v \in Workers : job'[v] # NoJob /\ Pushes(script'[job'[v].n]) =>
          Cardinality({i \in DOMAIN applied' : applied'[i].n = job'[v].n}) = job'[v].made
    BY <1>2, <2>2
  <2>4. ASSUME NEW m \in DOMAIN script, Pushes(script[m])
        PROVE  InOrder(m)' /\ Whole(m)'
    <3>1. InOrder(m) /\ Whole(m)
      BY <2>4, PrefixIs DEF IInv, PushInv
    <3>2. InOrder(m)'
      BY <1>2, <1>10, <3>1 DEF InOrder, Rank
    <3>3. Whole(m)'
      <4>1. CASE m = n
        <5>1. m \in DOMAIN replies' => replies'[m][1].t = "-"
          BY <1>7, <4>1
        <5> QED
          BY <5>1 DEF Whole
      <4>2. CASE m # n
        <5>1. m \in DOMAIN replies' => m \in DOMAIN replies /\ replies'[m] = replies[m]
          BY <1>7, <4>2
        <5> QED
          BY <1>2, <1>10, <3>1, <5>1 DEF Whole
      <4> QED
        BY <4>1, <4>2
    <3> QED
      BY <3>2, <3>3
  <2>5. PushAppliesPrefix'
    BY <1>2, <2>4, PrefixNextIs
  <2> QED
    BY <2>3, <2>5 DEF PushInv, AppliedBy
<1> QED
  BY <1>8, <1>9, <1>11 DEF IInv

\* No worker has a request to begin with, and nothing has been applied.
LEMMA InitInv ==
  ASSUME Init
  PROVE  IInv
<1>1. /\ script \in Scripts /\ taken = 0 /\ job = [w \in Workers |-> NoJob]
      /\ ptree_counter = 0 /\ expiring = {} /\ applied = << >> /\ replies = << >>
  BY DEF Init
<1>2. IsSequence(script) /\ NumTrees \in Nat \ {0}
  BY <1>1, HandlersAssumption
<1>3. /\ \A w \in Workers : job[w] = NoJob /\ job[w].n = 0
      /\ NoJob.n = 0 /\ DOMAIN applied = {} /\ DOMAIN replies = {}
      /\ job = [w \in Workers |-> job[w]]
  BY <1>1 DEF NoJob
<1>4. ShapeInv
  <2>1. Len(script) \in Nat
    BY <1>2, SequenceIs
  <2>2. IsSequence(applied)
    BY <1>1 DEF IsSequence, ToSet
  <2> QED
    BY <1>1, <1>2, <1>3, <2>1, <2>2 DEF ShapeInv
<1>5. HeldInv
  BY <1>1, <1>3 DEF HeldInv
<1>6. PushInv
  <2>1. \A n : AppliedBy(n) = {}
    BY <1>3 DEF AppliedBy
  <2> QED
    BY <1>3, <2>1 DEF PushInv, PushAppliesPrefix
<1> QED
  BY <1>4, <1>5, <1>6 DEF IInv

\* A key expires, or nothing happens.
LEMMA KeysInv ==
  ASSUME IInv, UNCHANGED <<script, taken, job, ptree_counter, applied, replies>>,
         expiring' \subseteq Keys
  PROVE  IInv'
<1>1. ShapeInv'
  BY DEF IInv, ShapeInv
<1>2. HeldInv'
  BY DEF IInv, HeldInv
<1>3. PushInv'
  BY DEF IInv, PushInv, PushAppliesPrefix, AppliedBy, Rank
<1> QED
  BY <1>1, <1>2, <1>3 DEF IInv

\* Every step preserves the invariant.
LEMMA StepInv ==
  ASSUME IInv, [Next]_vars
  PROVE  IInv'
<1>1. ASSUME NEW w \in Workers, WorkerStep(w)
      PROVE  IInv'
  <2>1. CASE Take(w)
    BY <2>1, TakeInv
  <2>2. CASE CallReturns(w)
    BY <2>2, CallReturnsInv
  <2>3. CASE CallThrows(w)
    BY <2>3, CallThrowsInv
  <2>4. CASE CallFails(w)
    BY <2>4, CallFailsInv
  <2> QED
    BY <1>1, <2>1, <2>2, <2>3, <2>4 DEF WorkerStep
<1>2. ASSUME NEW k \in Keys, Expire(k)
      PROVE  IInv'
  <2>1. expiring \subseteq Keys
    BY DEF IInv, ShapeInv
  <2> QED
    BY <1>2, <2>1, KeysInv DEF Expire
<1>3. CASE UNCHANGED vars
  <2>1. expiring \subseteq Keys
    BY DEF IInv, ShapeInv
  <2> QED
    BY <1>3, <2>1, KeysInv DEF vars
<1> QED
  BY <1>1, <1>2, <1>3 DEF Next

(***************************************************************************)
(* What a client takes for one reply.                                      *)
(***************************************************************************)

\* f is what the client has taken after each of n values of an array.
TakenTo(f, lines, n) ==
  f = [i \in 0 .. n |-> IF i = 0 THEN 1 ELSE NextValue(lines, f[i - 1])]

\* There is such a function.
LEMMA TakenExists ==
  ASSUME NEW lines
  PROVE  \A n \in Nat : \E f : TakenTo(f, lines, n)
<1> DEFINE S == {n \in Nat : \E f : TakenTo(f, lines, n)}
<1>1. 0 \in S
  <2> DEFINE f == [i \in 0 .. 0 |-> 1]
  <2>1. f = [i \in 0 .. 0 |-> IF i = 0 THEN 1 ELSE NextValue(lines, f[i - 1])]
    OBVIOUS
  <2> HIDE DEF f
  <2>2. TakenTo(f, lines, 0)
    BY <2>1 DEF TakenTo
  <2> QED
    BY <2>2
<1>2. ASSUME NEW n \in Nat, n \in S PROVE n + 1 \in S
  <2>1. PICK f : TakenTo(f, lines, n)
    BY <1>2
  <2> DEFINE h(i) == IF i = n + 1 THEN NextValue(lines, f[n]) ELSE f[i]
  <2> DEFINE g == [i \in 0 .. n + 1 |-> h(i)]
  <2>2. \A i \in 0 .. n : g[i] = f[i]
    OBVIOUS
  <2>3. \A i \in 0 .. n : f[i] = IF i = 0 THEN 1 ELSE NextValue(lines, f[i - 1])
    BY <2>1 DEF TakenTo
  <2>4. g[n + 1] = NextValue(lines, g[n])
    BY <2>2
  <2>5. g = [i \in 0 .. n + 1 |-> g[i]]
    OBVIOUS
  <2> HIDE DEF g, h
  <2>6. ASSUME NEW i \in 0 .. n + 1
        PROVE  g[i] = IF i = 0 THEN 1 ELSE NextValue(lines, g[i - 1])
    <3>1. CASE i = n + 1
      BY <2>4, <3>1
    <3>2. CASE i = 0
      BY <2>2, <2>3, <3>2
    <3>3. CASE i \in 1 .. n
      <4>1. g[i] = f[i] /\ g[i - 1] = f[i - 1]
        BY <2>2, <3>3
      <4>2. f[i] = NextValue(lines, f[i - 1])
        BY <2>3, <3>3
      <4> QED
        BY <4>1, <4>2, <3>3
    <3> QED
      BY <3>1, <3>2, <3>3
  <2>7. g = [i \in 0 .. n + 1 |-> IF i = 0 THEN 1 ELSE NextValue(lines, g[i - 1])]
    BY <2>5, <2>6
  <2>8. TakenTo(g, lines, n + 1)
    BY <2>7 DEF TakenTo
  <2> QED
    BY <2>8
<1> HIDE DEF S
<1>3. Nat \subseteq S
  BY <1>1, <1>2, NatSet
<1> QED
  BY <1>3 DEF S

\* An array is read value by value.
LEMMA ArrayIsRead ==
  ASSUME NEW lines, lines # << >>, lines[1].t = "*", lines[1].n \in Nat
  PROVE  \E f : TakenTo(f, lines, lines[1].n) /\ LinesOfReply(lines) = f[lines[1].n]
<1>1. \E f : TakenTo(f, lines, lines[1].n)
  BY TakenExists
<1> DEFINE f == CHOOSE f : TakenTo(f, lines, lines[1].n)
<1>2. TakenTo(f, lines, lines[1].n)
  BY <1>1
<1>3. LinesOfReply(lines) = f[lines[1].n]
  BY Zenon DEF LinesOfReply, TakenTo
<1> QED
  BY <1>2, <1>3

\* The kinds of lines, and those whose text is not measured.
LineKinds == {"+", "-", "$", "*", "bare"}
TextKinds == {"+", "-"}

\* The lines of a reply whose texts have their pieces in P; the empty piece, which
\* headers carry, is one of them.
Lines(P) == [t : LineKinds, n : Int, piece : P]
HasEmpty(P) == "" \in P

\* e is one value, read whole by its first line.
OneValue(e) == Len(e) > 0 /\ LinesOfValue(e[1]) = Len(e)

\* An array of the values encs, under its header.
Values(encs, S) == encs \in Seq(Seq(S)) /\ \A i \in 1 .. Len(encs) : OneValue(encs[i])
ArrayHeader(head, n, S) == head \in S /\ head.t = "*" /\ head.n = n

\* It is read whole.
LEMMA ValuesAreRead ==
  ASSUME NEW S, NEW encs, Values(encs, S), NEW head, ArrayHeader(head, Len(encs), S)
  PROVE  LinesOfReply(<<head>> \o FlattenSeq(encs)) = Len(<<head>> \o FlattenSeq(encs))
<1> DEFINE n == Len(encs)
<1>v. encs \in Seq(Seq(S))
  BY DEF Values
<1>0. n \in Nat /\ \A i \in 1 .. n : encs[i] \in Seq(S)
  BY <1>v
<1>o. \A i \in 1 .. n : OneValue(encs[i])
  BY DEF Values
<1>h. head \in S /\ head.t = "*" /\ head.n = n
  BY DEF ArrayHeader
<1>r. PICK reply : reply = <<head>> \o FlattenSeq(encs)
  OBVIOUS
<1>1. PICK g : Parts(g, encs, S) /\ FlattenSeq(encs) = g[n]
  BY <1>v, FlattenParts
<1>2. \A i \in 0 .. n : g[i] \in Seq(S) /\ Len(g[i]) \in Nat
  BY <1>1 DEF Parts
<1>3. PICK all : all = g[n]
  OBVIOUS
<1>4. PICK one : one = <<head>> /\ one \in Seq(S) /\ Len(one) = 1 /\ one[1] = head
  <2>1. head \in S
    BY <1>h
  <2>2. <<head>> \in Seq(S)
    BY <2>1
  <2>3. Len(<<head>>) = 1 /\ <<head>>[1] = head
    OBVIOUS
  <2> QED
    BY <2>2, <2>3
<1>5. all \in Seq(S) /\ reply = one \o all
  <2>1. n \in 0 .. n
    BY <1>0
  <2>2. all \in Seq(S)
    BY <1>2, <1>3, <2>1
  <2>3. reply = one \o all
    BY <1>1, <1>3, <1>4, <1>r, Zenon
  <2> QED
    BY <2>2, <2>3
<1>l. PICK l \in Nat : l = Len(all)
  BY <1>5
<1>6. /\ Len(reply) = 1 + l /\ reply[1] = head /\ reply # << >>
      /\ \A p \in 1 .. l : reply[1 + p] = all[p]
  <2>1. /\ Len(one \o all) = Len(one) + Len(all)
        /\ \A p \in 1 .. Len(one) + Len(all) :
             (one \o all)[p] = IF p <= Len(one) THEN one[p] ELSE all[p - Len(one)]
    BY <1>4, <1>5, ConcatProperties
  <2>2. /\ Len(reply) = 1 + l
        /\ \A p \in 1 .. 1 + l : reply[p] = IF p <= 1 THEN one[p] ELSE all[p - 1]
    BY <1>4, <1>5, <1>l, <2>1
  <2>3. reply[1] = head
    <3>1. 1 \in 1 .. 1 + l
      OBVIOUS
    <3> QED
      BY <1>4, <2>2, <3>1
  <2>4. reply # << >>
    <3>1. 1 + l # 0
      OBVIOUS
    <3> QED
      BY <2>2, <3>1
  <2>5. ASSUME NEW p \in 1 .. l PROVE reply[1 + p] = all[p]
    <3>1. 1 + p \in 1 .. 1 + l /\ ~(1 + p <= 1) /\ (1 + p) - 1 = p
      OBVIOUS
    <3> QED
      BY <2>2, <3>1
  <2> QED
    BY <2>2, <2>3, <2>4, <2>5
<1>7. PICK f : TakenTo(f, reply, n) /\ LinesOfReply(reply) = f[n]
  BY <1>0, <1>h, <1>6, ArrayIsRead
<1>8. f[0] = 1 /\ \A i \in 1 .. n : f[i] = NextValue(reply, f[i - 1])
  BY <1>0, <1>7 DEF TakenTo
<1> DEFINE T == {i \in Nat : i <= n => f[i] = 1 + Len(g[i])}
<1>9. 0 \in T
  <2>1. Len(g[0]) = 0
    BY <1>1 DEF Parts
  <2> QED
    BY <1>8, <2>1
<1>10. ASSUME NEW i \in Nat, i \in T PROVE i + 1 \in T
  <2> SUFFICES ASSUME i + 1 <= n PROVE f[i + 1] = 1 + Len(g[i + 1])
    OBVIOUS
  <2>1. PICK m \in 1 .. n : m = i + 1 /\ m - 1 = i /\ i \in 0 .. n
    BY <1>0
  <2>2. PICK a \in Nat : a = Len(g[i])
    BY <1>2, <2>1
  <2>3. PICK b \in Nat : b = Len(encs[m]) /\ b > 0
    <3>1. encs[m] \in Seq(S) /\ OneValue(encs[m])
      BY <1>0, <1>o
    <3> QED
      BY <3>1 DEF OneValue
  <2>4. Len(g[m]) = a + b /\ g[m][a + 1] = encs[m][1]
    <3>1. Len(g[m]) = Len(g[m - 1]) + Len(encs[m])
          /\ \A p \in 1 .. Len(encs[m]) : g[m][Len(g[m - 1]) + p] = encs[m][p]
      BY <1>1 DEF Parts
    <3>2. 1 \in 1 .. Len(encs[m])
      BY <2>3
    <3> QED
      BY <2>1, <2>2, <2>3, <3>1, <3>2
  <2>5. a + b <= l /\ \A p \in 1 .. a + b : all[p] = g[m][p]
    <3>1. m \in 0 .. n /\ n \in m .. n
      BY <1>0
    <3>2. Len(g[m]) <= Len(g[n]) /\ \A p \in 1 .. Len(g[m]) : g[n][p] = g[m][p]
      BY <1>v, <1>1, <3>1, PartsGrow
    <3> QED
      BY <1>3, <1>l, <2>4, <3>2
  <2>6. a + 1 \in 1 .. a + b /\ a + 1 \in 1 .. l /\ 1 + (a + 1) = (1 + a) + 1
    BY <2>3, <2>5
  <2>7. reply[(1 + a) + 1] = encs[m][1]
    BY <1>6, <2>4, <2>5, <2>6
  <2>8. LinesOfValue(reply[(1 + a) + 1]) = b
    <3>1. LinesOfValue(encs[m][1]) = Len(encs[m])
      BY <1>o DEF OneValue
    <3> QED
      BY <2>3, <2>7, <3>1
  <2>9. f[m - 1] = 1 + a
    BY <1>0, <1>10, <2>1, <2>2
  <2>10. PICK t : t = 1 + a
    OBVIOUS
  <2>11. NextValue(reply, t) = t + b
    <3>1. t # 0 /\ ~(t >= Len(reply)) /\ b # 0 /\ LinesOfValue(reply[t + 1]) = b
      <4>1. t # 0 /\ ~(t >= 1 + l) /\ b # 0
        BY <2>3, <2>5, <2>10
      <4> QED
        BY <1>6, <2>8, <2>10, <4>1
    <3> QED
      BY <3>1 DEF NextValue
  <2>12. f[m] = t + b
    BY <1>8, <2>9, <2>10, <2>11
  <2> QED
    BY <2>1, <2>4, <2>10, <2>12
<1> HIDE DEF T
<1>11. Nat \subseteq T
  BY <1>9, <1>10, NatSet
<1>12. f[n] = 1 + Len(g[n])
  BY <1>0, <1>11 DEF T
<1> QED
  BY <1>3, <1>l, <1>6, <1>7, <1>12, <1>r

\* A line and its parts.
LEMMA HeaderIs ==
  ASSUME NEW P, NEW t \in LineKinds, NEW n \in Int, NEW piece \in P
  PROVE  /\ Header(t, n, piece) \in Lines(P)
         /\ Header(t, n, piece).t = t /\ Header(t, n, piece).n = n
BY DEF Header, Lines

\* The lines of the pieces of a text.
LEMMA BareLinesIs ==
  ASSUME NEW P, NEW pieces \in Seq(P)
  PROVE  /\ BareLines(pieces) \in Seq(Lines(P)) /\ Len(BareLines(pieces)) = Len(pieces)
         /\ \A i \in 1 .. Len(pieces) : BareLines(pieces)[i].t = "bare"
<1>1. Len(pieces) \in Nat /\ DOMAIN pieces = 1 .. Len(pieces)
      /\ \A i \in 1 .. Len(pieces) : pieces[i] \in P
  OBVIOUS
<1>2. \A x \in P : Bare(x) \in Lines(P) /\ Bare(x).t = "bare"
  <2> TAKE x \in P
  <2>1. "bare" \in LineKinds
    BY DEF LineKinds
  <2>2. Header("bare", 0, x) \in Lines(P) /\ Header("bare", 0, x).t = "bare"
    BY <2>1, HeaderIs
  <2> QED
    BY <2>2 DEF Bare
<1>3. BareLines(pieces) = [i \in 1 .. Len(pieces) |-> Bare(pieces[i])]
  BY <1>1 DEF BareLines
<1>4. \A i \in 1 .. Len(pieces) : Bare(pieces[i]) \in Lines(P) /\ Bare(pieces[i]).t = "bare"
  BY <1>1, <1>2
<1>5. BareLines(pieces) \in Seq(Lines(P)) /\ Len(BareLines(pieces)) = Len(pieces)
  BY <1>1, <1>3, <1>4
<1>6. \A i \in 1 .. Len(pieces) : BareLines(pieces)[i].t = "bare"
  BY <1>3, <1>4
<1> QED
  BY <1>5, <1>6

\* A header in front of other lines.
LEMMA InFront ==
  ASSUME NEW S, NEW head \in S, NEW rest \in Seq(S)
  PROVE  /\ <<head>> \o rest \in Seq(S) /\ Len(<<head>> \o rest) = 1 + Len(rest)
         /\ (<<head>> \o rest)[1] = head
         /\ \A i \in 1 .. Len(rest) : (<<head>> \o rest)[1 + i] = rest[i]
<1>1. PICK one : one = <<head>> /\ one \in Seq(S) /\ Len(one) = 1 /\ one[1] = head
  <2>1. <<head>> \in Seq(S)
    OBVIOUS
  <2>2. Len(<<head>>) = 1 /\ <<head>>[1] = head
    OBVIOUS
  <2> QED
    BY <2>1, <2>2
<1>2. PICK l \in Nat : l = Len(rest)
  OBVIOUS
<1>3. /\ one \o rest \in Seq(S) /\ Len(one \o rest) = Len(one) + Len(rest)
      /\ \A p \in 1 .. Len(one) + Len(rest) :
           (one \o rest)[p] = IF p <= Len(one) THEN one[p] ELSE rest[p - Len(one)]
  BY <1>1, ConcatProperties
<1>4. \A p \in 1 .. 1 + l : (one \o rest)[p] = IF p <= 1 THEN one[p] ELSE rest[p - 1]
  BY <1>1, <1>2, <1>3
<1>5. (one \o rest)[1] = head
  <2>1. 1 \in 1 .. 1 + l
    OBVIOUS
  <2> QED
    BY <1>1, <1>4, <2>1
<1>6. ASSUME NEW i \in 1 .. l PROVE (one \o rest)[1 + i] = rest[i]
  <2>1. 1 + i \in 1 .. 1 + l /\ ~(1 + i <= 1) /\ (1 + i) - 1 = i
    OBVIOUS
  <2> QED
    BY <1>4, <2>1
<1> QED
  BY <1>1, <1>2, <1>3, <1>5, <1>6

\* A bulk string takes as many lines as it announces.
LEMMA BulkIs ==
  ASSUME NEW P, HasEmpty(P), NEW value \in Seq(P)
  PROVE  /\ Bulk(value) \in Seq(Lines(P)) /\ Bulk(value) # << >>
         /\ OneValue(Bulk(value)) /\ Bulk(value)[1].t = "$"
<1>1. PICK l \in Nat : l = Len(value)
  OBVIOUS
<1>2. PICK head : head = Header("$", l, "") /\ head \in Lines(P) /\ head.t = "$" /\ head.n = l
  <2>1. "$" \in LineKinds
    BY DEF LineKinds
  <2>2. "" \in P
    BY DEF HasEmpty
  <2>3. l \in Int
    OBVIOUS
  <2>4. \A t \in LineKinds, n \in Int, piece \in P :
          /\ Header(t, n, piece) \in Lines(P)
          /\ Header(t, n, piece).t = t /\ Header(t, n, piece).n = n
    BY HeaderIs
  <2>5. /\ Header("$", l, "") \in Lines(P)
        /\ Header("$", l, "").t = "$" /\ Header("$", l, "").n = l
    BY <2>1, <2>2, <2>3, <2>4, Zenon
  <2> QED
    BY <2>5
<1>3. PICK rest : rest = BareLines(value) /\ rest \in Seq(Lines(P)) /\ Len(rest) = l
  BY <1>1, BareLinesIs
<1>4. Bulk(value) = <<head>> \o rest
  BY <1>1, <1>2, <1>3 DEF Bulk
<1>5. PICK b : b = <<head>> \o rest /\ b \in Seq(Lines(P)) /\ Len(b) = 1 + l /\ b[1] = head
  <2>1. head \in Lines(P) /\ rest \in Seq(Lines(P))
    BY <1>2, <1>3
  <2>2. /\ <<head>> \o rest \in Seq(Lines(P)) /\ Len(<<head>> \o rest) = 1 + Len(rest)
        /\ (<<head>> \o rest)[1] = head
    BY <2>1, InFront
  <2> QED
    BY <1>3, <2>2
<1>6. 1 + l > 0 /\ 1 + l # 0 /\ l >= 0
  OBVIOUS
<1>7. LinesOfValue(head) = 1 + l
  BY <1>2, <1>6 DEF LinesOfValue
<1>8. b # << >>
  <2>1. Len(b) # 0
    BY <1>5, <1>6
  <2> QED
    BY <2>1
<1>9. OneValue(b)
  BY <1>5, <1>6, <1>7 DEF OneValue
<1> QED
  BY <1>2, <1>4, <1>5, <1>8, <1>9

\* A nil is one line.
LEMMA NilIs ==
  ASSUME NEW P, HasEmpty(P)
  PROVE  Nil \in Seq(Lines(P)) /\ Nil # << >> /\ OneValue(Nil) /\ Nil[1].t = "$"
<1>1. PICK head : head = Header("$", -1, "") /\ head \in Lines(P) /\ head.t = "$" /\ head.n = -1
  <2>1. "$" \in LineKinds
    BY DEF LineKinds
  <2>2. "" \in P
    BY DEF HasEmpty
  <2>3. -1 \in Int
    OBVIOUS
  <2>4. \A t \in LineKinds, n \in Int, piece \in P :
          /\ Header(t, n, piece) \in Lines(P)
          /\ Header(t, n, piece).t = t /\ Header(t, n, piece).n = n
    BY HeaderIs
  <2>5. /\ Header("$", -1, "") \in Lines(P)
        /\ Header("$", -1, "").t = "$" /\ Header("$", -1, "").n = -1
    BY <2>1, <2>2, <2>3, <2>4, Zenon
  <2> QED
    BY <2>5
<1>2. Nil = <<head>>
  BY <1>1 DEF Nil
<1>3. <<head>> \in Seq(Lines(P)) /\ Len(<<head>>) = 1 /\ <<head>>[1] = head /\ <<head>> # << >>
  <2>1. head \in Lines(P)
    BY <1>1
  <2>2. <<head>> \in Seq(Lines(P))
    BY <2>1
  <2>3. Len(<<head>>) = 1 /\ <<head>>[1] = head /\ <<head>> # << >>
    OBVIOUS
  <2> QED
    BY <2>2, <2>3
<1>4. LinesOfValue(head) = 1
  <2>1. ~(-1 >= 0)
    OBVIOUS
  <2> QED
    BY <1>1, <2>1 DEF LinesOfValue
<1>5. OneValue(<<head>>)
  BY <1>3, <1>4 DEF OneValue
<1> QED
  BY <1>1, <1>2, <1>3, <1>5

\* A text that is not measured takes one line if it has one piece; if it has more
\* the others are left behind.
LEMMA LineIs ==
  ASSUME NEW P, NEW value \in Seq(P), value # << >>, NEW t \in TextKinds
  PROVE  /\ Line(t, value) \in Seq(Lines(P)) /\ Line(t, value) # << >>
         /\ Line(t, value)[1].t = t
         /\ Len(Line(t, value)) = Len(value)
         /\ Len(value) = 1 => OneValue(Line(t, value))
         /\ Len(value) # 1 => Len(value) >= 2 /\ Line(t, value)[2].t = "bare"
<1>1. PICK l \in Nat : l = Len(value) /\ l >= 1
  <2>1. Len(value) \in Nat /\ Len(value) # 0
    OBVIOUS
  <2> QED
    BY <2>1
<1>2. PICK tail : tail = Tail(value) /\ tail \in Seq(P) /\ Len(tail) = l - 1
  <2>1. Tail(value) \in Seq(P) /\ Len(Tail(value)) = Len(value) - 1
    OBVIOUS
  <2> QED
    BY <1>1, <2>1
<1>3. Head(value) \in P
  OBVIOUS
<1>4. PICK head : head = Header(t, 0, Head(value)) /\ head \in Lines(P) /\ head.t = t
  <2>1. t \in LineKinds
    BY DEF LineKinds, TextKinds
  <2> DEFINE h == Head(value)
  <2>2. h \in P
    BY <1>3
  <2> HIDE DEF h
  <2>3. Header(t, 0, h) \in Lines(P) /\ Header(t, 0, h).t = t
    BY <2>1, <2>2, HeaderIs
  <2> QED
    BY <2>3 DEF h
<1>5. PICK rest : /\ rest = BareLines(tail) /\ rest \in Seq(Lines(P)) /\ Len(rest) = l - 1
                  /\ \A i \in 1 .. l - 1 : rest[i].t = "bare"
  <2>1. /\ BareLines(tail) \in Seq(Lines(P)) /\ Len(BareLines(tail)) = Len(tail)
        /\ \A i \in 1 .. Len(tail) : BareLines(tail)[i].t = "bare"
    BY <1>2, BareLinesIs
  <2> QED
    BY <1>2, <2>1
<1>6. Line(t, value) = <<head>> \o rest
  BY <1>2, <1>4, <1>5 DEF Line
<1>7. PICK b : /\ b = <<head>> \o rest /\ b \in Seq(Lines(P)) /\ Len(b) = l /\ b[1] = head
               /\ \A i \in 1 .. l - 1 : b[1 + i] = rest[i]
  <2>1. head \in Lines(P) /\ rest \in Seq(Lines(P))
    BY <1>4, <1>5
  <2>2. /\ <<head>> \o rest \in Seq(Lines(P)) /\ Len(<<head>> \o rest) = 1 + Len(rest)
        /\ (<<head>> \o rest)[1] = head
        /\ \A i \in 1 .. Len(rest) : (<<head>> \o rest)[1 + i] = rest[i]
    BY <2>1, InFront
  <2>3. 1 + (l - 1) = l
    OBVIOUS
  <2>4. Len(rest) = l - 1
    BY <1>5
  <2> QED
    BY <2>2, <2>3, <2>4
<1>8. b # << >>
  <2>1. Len(b) # 0
    BY <1>1, <1>7
  <2> QED
    BY <2>1
<1>9. LinesOfValue(head) = 1
  BY <1>4 DEF LinesOfValue, TextKinds
<1>10. l = 1 => OneValue(b)
  BY <1>7, <1>9 DEF OneValue
<1>11. l # 1 => l >= 2 /\ b[2].t = "bare"
  <2> SUFFICES ASSUME l # 1 PROVE l >= 2 /\ b[2].t = "bare"
    OBVIOUS
  <2>1. l >= 2 /\ 1 \in 1 .. l - 1 /\ 1 + 1 = 2
    BY <1>1
  <2> QED
    BY <1>5, <1>7, <2>1
<1> QED
  BY <1>1, <1>4, <1>6, <1>7, <1>8, <1>10, <1>11

\* A reply that is one value, and not an array, is read whole.
LEMMA ValueIsRead ==
  ASSUME NEW e, OneValue(e), e # << >>, e[1].t # "*"
  PROVE  LinesOfReply(e) = Len(e)
BY DEF LinesOfReply, OneValue

\* The header of an array.
LEMMA ArrayHeaderIs ==
  ASSUME NEW P, HasEmpty(P), NEW n \in Nat
  PROVE  ArrayHeader(Header("*", n, ""), n, Lines(P))
<1>1. "*" \in LineKinds
  BY DEF LineKinds
<1>2. "" \in P
  BY DEF HasEmpty
<1>3. n \in Int
  OBVIOUS
<1>4. ASSUME NEW t \in LineKinds, NEW k \in Int, NEW piece \in P
      PROVE  /\ Header(t, k, piece) \in Lines(P)
             /\ Header(t, k, piece).t = t /\ Header(t, k, piece).n = k
  BY DEF Header, Lines
<1>5. /\ Header("*", n, "") \in Lines(P)
      /\ Header("*", n, "").t = "*" /\ Header("*", n, "").n = n
  BY <1>1, <1>2, <1>3, <1>4, Zenon
<1> QED
  BY <1>5 DEF ArrayHeader

\* Every line of the values of an array is a line of the reply.
LEMMA LineOfArray ==
  ASSUME NEW S, NEW encs \in Seq(Seq(S)), NEW head \in S, NEW i \in 1 .. Len(encs),
         NEW q \in 1 .. Len(encs[i])
  PROVE  LET reply == <<head>> \o FlattenSeq(encs) IN
         \E p \in DOMAIN reply : reply[p] = encs[i][q]
<1> DEFINE n == Len(encs)
<1>1. PICK g : Parts(g, encs, S) /\ FlattenSeq(encs) = g[n]
  BY FlattenParts
<1>2. n \in Nat /\ i \in 0 .. n /\ i - 1 \in 0 .. n /\ n \in i .. n /\ n \in 0 .. n
  OBVIOUS
<1>3. \A k \in 0 .. n : g[k] \in Seq(S)
  BY <1>1 DEF Parts
<1>4. PICK a \in Nat : a = Len(g[i - 1])
  BY <1>2, <1>3
<1>5. PICK b \in Nat : b = Len(encs[i])
  <2>1. encs[i] \in Seq(S)
    OBVIOUS
  <2> QED
    BY <2>1
<1>6. Len(g[i]) = a + b /\ g[i][a + q] = encs[i][q]
  <2>1. /\ Len(g[i]) = Len(g[i - 1]) + Len(encs[i])
        /\ \A p \in 1 .. Len(encs[i]) : g[i][Len(g[i - 1]) + p] = encs[i][p]
    BY <1>1 DEF Parts
  <2> QED
    BY <1>4, <1>5, <2>1
<1>7. PICK all \in Seq(S) : all = g[n]
  BY <1>2, <1>3
<1>8. PICK l \in Nat : l = Len(all)
  OBVIOUS
<1>9. a + b <= l /\ \A p \in 1 .. a + b : all[p] = g[i][p]
  <2>1. Len(g[i]) <= Len(g[n]) /\ \A p \in 1 .. Len(g[i]) : g[n][p] = g[i][p]
    BY <1>1, <1>2, PartsGrow
  <2> QED
    BY <1>6, <1>7, <1>8, <2>1
<1>10. q \in 1 .. b
  BY <1>5
<1>11. a + q \in 1 .. a + b /\ a + q \in 1 .. l /\ 1 + (a + q) \in 1 .. 1 + l
  BY <1>9, <1>10
<1>12. PICK reply : reply = <<head>> \o all /\ reply \in Seq(S) /\ Len(reply) = 1 + l
                    /\ \A p \in 1 .. l : reply[1 + p] = all[p]
  <2>1. /\ <<head>> \o all \in Seq(S) /\ Len(<<head>> \o all) = 1 + Len(all)
        /\ \A p \in 1 .. Len(all) : (<<head>> \o all)[1 + p] = all[p]
    BY InFront
  <2> QED
    BY <1>8, <2>1
<1>13. DOMAIN reply = 1 .. 1 + l /\ reply[1 + (a + q)] = encs[i][q]
  <2>1. DOMAIN reply = 1 .. 1 + l
    BY <1>12
  <2>2. reply[1 + (a + q)] = all[a + q]
    BY <1>11, <1>12
  <2>3. all[a + q] = encs[i][q]
    BY <1>6, <1>9, <1>11
  <2> QED
    BY <2>1, <2>2, <2>3
<1>14. reply = <<head>> \o FlattenSeq(encs)
  BY <1>1, <1>7, <1>12, Zenon
<1>15. \E p \in DOMAIN reply : reply[p] = encs[i][q]
  BY <1>11, <1>13
<1> QED
  BY <1>14, <1>15

\* The array a client reads whole; a nil and a text of one piece are one value.
LEMMA ArrayIsWhole ==
  ASSUME NEW P, HasEmpty(P), NEW values \in Seq(Seq(P))
  PROVE  LinesOfReply(EncodeArray(values)) = Len(EncodeArray(values))
<1> DEFINE n == Len(values)
           encs == [i \in 1 .. n |-> Bulk(values[i])]
<1>1. n \in Nat /\ DOMAIN values = 1 .. n /\ \A i \in 1 .. n : values[i] \in Seq(P)
  OBVIOUS
<1>2. \A i \in 1 .. n : Bulk(values[i]) \in Seq(Lines(P)) /\ OneValue(Bulk(values[i]))
  <2>1. \A x \in Seq(P) : Bulk(x) \in Seq(Lines(P)) /\ OneValue(Bulk(x))
    BY BulkIs
  <2> QED
    BY <1>1, <2>1
<1>3. encs \in Seq(Seq(Lines(P))) /\ Len(encs) = n /\ \A i \in 1 .. n : OneValue(encs[i])
  BY <1>1, <1>2
<1>4. Values(encs, Lines(P)) /\ Len(encs) = n
  BY <1>3 DEF Values
<1>5. PICK head : head = Header("*", n, "") /\ ArrayHeader(head, n, Lines(P))
  BY <1>1, ArrayHeaderIs
<1>6. EncodeArray(values) = <<head>> \o FlattenSeq(encs)
  BY <1>1, <1>5, Zenon DEF EncodeArray
<1> HIDE DEF encs
<1>7. LinesOfReply(<<head>> \o FlattenSeq(encs)) = Len(<<head>> \o FlattenSeq(encs))
  BY <1>4, <1>5, ValuesAreRead
<1> QED
  BY <1>6, <1>7

\* A reply is read whole.
Proper(reply) == LinesOfReply(reply) = Len(reply)

\* It is, but for the values of MGET with a CR LF in them.
Answers(r, reply) == Proper(reply) \/ (Command(r) = "MGET" /\ BrokenString(reply))

\* What MGET lists: a nil, or a text as a simple string.
IsPair(x, P) ==
  \/ x.type = "BULK_NIL"
  \/ x.type = "SIMPLE_STRINGS" /\ x.value \in Seq(P) /\ x.value # << >>
\* The lines of a simple string with a CR LF in it.
Broken(e) == Len(e) >= 2 /\ e[1].t = "+" /\ e[2].t = "bare"

\* Each is one value, unless there is a CR LF in it.
LEMMA PairIs ==
  ASSUME NEW P, HasEmpty(P), NEW x, IsPair(x, P)
  PROVE  /\ EncodeValue(x.type, x.value) \in Seq(Lines(P))
         /\ OneValue(EncodeValue(x.type, x.value)) \/ Broken(EncodeValue(x.type, x.value))
<1>1. CASE x.type = "BULK_NIL"
  <2>1. EncodeValue(x.type, x.value) = Nil
    BY <1>1, Zenon DEF EncodeValue
  <2> QED
    BY <2>1, NilIs
<1>2. CASE x.type = "SIMPLE_STRINGS" /\ x.value \in Seq(P) /\ x.value # << >>
  <2>1. EncodeValue(x.type, x.value) = Line("+", x.value)
    BY <1>2, Zenon DEF EncodeValue
  <2>2. PICK v \in Seq(P) : v = x.value /\ v # << >>
    BY <1>2
  <2>3. PICK t \in TextKinds : t = "+"
    BY DEF TextKinds
  <2>4. /\ Line(t, v) \in Seq(Lines(P)) /\ Line(t, v)[1].t = t
        /\ Len(Line(t, v)) = Len(v)
        /\ Len(v) = 1 => OneValue(Line(t, v))
        /\ Len(v) # 1 => Len(v) >= 2 /\ Line(t, v)[2].t = "bare"
    BY <2>2, LineIs
  <2>5. Len(v) # 1 => Broken(Line(t, v))
    BY <2>3, <2>4 DEF Broken
  <2>6. EncodeValue(x.type, x.value) = Line(t, v)
    BY <2>1, <2>2, <2>3, Zenon
  <2> QED
    BY <2>4, <2>5, <2>6
<1> QED
  BY <1>1, <1>2 DEF IsPair

\* An array of a value that is broken is a broken string itself.
LEMMA BrokenIs ==
  ASSUME NEW S, NEW encs \in Seq(Seq(S)), NEW head \in S, NEW i \in 1 .. Len(encs),
         Broken(encs[i])
  PROVE  BrokenString(<<head>> \o FlattenSeq(encs))
<1>1. PICK e : e = encs[i] /\ e \in Seq(S)
  OBVIOUS
<1>2. 1 \in 1 .. Len(e) /\ 2 \in 1 .. Len(e) /\ e[1].t = "+" /\ e[2].t = "bare"
  BY <1>1 DEF Broken
<1>3. PICK reply : reply = <<head>> \o FlattenSeq(encs)
  OBVIOUS
<1>4. \A q \in 1 .. Len(encs[i]) : \E p \in DOMAIN reply : reply[p] = encs[i][q]
  BY <1>3, LineOfArray
<1>5. (\E p \in DOMAIN reply : reply[p].t = "+") /\ (\E p \in DOMAIN reply : reply[p].t = "bare")
  BY <1>1, <1>2, <1>4
<1> QED
  BY <1>3, <1>5 DEF BrokenString

\* The reply to MGET is read whole, but for a broken string.
LEMMA PairsAreProper ==
  ASSUME NEW P, HasEmpty(P), NEW n \in Nat, NEW pairs, DOMAIN pairs = 1 .. n,
         Len(pairs) = n, \A i \in 1 .. n : IsPair(pairs[i], P)
  PROVE  Proper(EncodePairs(pairs)) \/ BrokenString(EncodePairs(pairs))
<1> DEFINE encs == [i \in 1 .. n |-> EncodeValue(pairs[i].type, pairs[i].value)]
<1>1. ASSUME NEW i \in 1 .. n
      PROVE  LET e == EncodeValue(pairs[i].type, pairs[i].value) IN
             e \in Seq(Lines(P)) /\ (OneValue(e) \/ Broken(e))
  <2>1. PICK x : x = pairs[i] /\ IsPair(x, P)
    OBVIOUS
  <2>2. /\ EncodeValue(x.type, x.value) \in Seq(Lines(P))
        /\ OneValue(EncodeValue(x.type, x.value)) \/ Broken(EncodeValue(x.type, x.value))
    BY <2>1, PairIs
  <2> QED
    BY <2>1, <2>2
<1>2. encs \in Seq(Seq(Lines(P))) /\ Len(encs) = n
      /\ \A i \in 1 .. n : OneValue(encs[i]) \/ Broken(encs[i])
  BY <1>1
<1>3. PICK head : head = Header("*", n, "") /\ ArrayHeader(head, n, Lines(P))
  BY ArrayHeaderIs
<1>4. EncodePairs(pairs) = <<head>> \o FlattenSeq(encs)
  BY <1>3, Zenon DEF EncodePairs
<1> HIDE DEF encs
<1>5. CASE \A i \in 1 .. n : OneValue(encs[i])
  <2>1. Values(encs, Lines(P)) /\ ArrayHeader(head, Len(encs), Lines(P))
    BY <1>2, <1>3, <1>5 DEF Values
  <2>2. LinesOfReply(<<head>> \o FlattenSeq(encs)) = Len(<<head>> \o FlattenSeq(encs))
    BY <2>1, ValuesAreRead
  <2> QED
    BY <1>4, <2>2 DEF Proper
<1>6. CASE \E i \in 1 .. n : ~OneValue(encs[i])
  <2>1. PICK i \in 1 .. Len(encs) : Broken(encs[i])
    BY <1>2, <1>6
  <2>2. head \in Lines(P) /\ encs \in Seq(Seq(Lines(P)))
    BY <1>2, <1>3 DEF ArrayHeader
  <2>3. BrokenString(<<head>> \o FlattenSeq(encs))
    BY <2>1, <2>2, BrokenIs
  <2> QED
    BY <1>4, <2>3
<1> QED
  BY <1>5, <1>6

(***************************************************************************)
(* Every reply is read whole.                                              *)
(***************************************************************************)

\* A text, written as a bulk string.
LEMMA TextIsProper ==
  ASSUME NEW value, IsText(value)
  PROVE  Proper(EncodeValue("BULK_STRINGS", value)) /\ Proper(EncodeValue("INTEGERS", value))
<1>1. PICK P : HasEmpty(P) /\ value \in Seq(P)
  <2> DEFINE P == ToSet(value) \cup {""}
  <2>1. HasEmpty(P)
    BY DEF HasEmpty
  <2>2. value \in Seq(ToSet(value)) /\ ToSet(value) \subseteq P
    BY DEF IsText, IsSequence
  <2> HIDE DEF P
  <2>3. value \in Seq(P)
    BY <2>2
  <2> QED
    BY <2>1, <2>3
<1>2. OneValue(Bulk(value)) /\ Bulk(value) # << >> /\ Bulk(value)[1].t = "$"
  BY <1>1, BulkIs
<1>3. LinesOfReply(Bulk(value)) = Len(Bulk(value))
  BY <1>2, ValueIsRead
<1>4. EncodeValue("BULK_STRINGS", value) = Bulk(value) /\ EncodeValue("INTEGERS", value) = Bulk(value)
  BY Zenon DEF EncodeValue
<1> QED
  BY <1>3, <1>4 DEF Proper

\* A line without CR LF in it, as an error or a simple string.
LEMMA LineIsProper ==
  ASSUME NEW text
  PROVE  Proper(EncodeValue("ERRORS", <<text>>)) /\ Proper(EncodeValue("SIMPLE_STRINGS", <<text>>))
<1> DEFINE P == {text}
           value == <<text>>
<1>1. value \in Seq(P) /\ Len(value) = 1 /\ value # << >>
  OBVIOUS
<1> HIDE DEF P, value
<1>2. ASSUME NEW t \in TextKinds PROVE Proper(Line(t, value))
  <2>1. /\ Line(t, value) # << >> /\ Line(t, value)[1].t = t /\ OneValue(Line(t, value))
    BY <1>1, LineIs
  <2>2. t # "*"
    BY DEF TextKinds
  <2>3. LinesOfReply(Line(t, value)) = Len(Line(t, value))
    BY <2>1, <2>2, ValueIsRead
  <2> QED
    BY <2>3 DEF Proper
<1>3. Proper(Line("-", value)) /\ Proper(Line("+", value))
  <2>1. "-" \in TextKinds /\ "+" \in TextKinds
    BY DEF TextKinds
  <2> QED
    BY <1>2, <2>1
<1>4. EncodeValue("ERRORS", value) = Line("-", value) /\ EncodeValue("SIMPLE_STRINGS", value) = Line("+", value)
  BY Zenon DEF EncodeValue
<1> QED
  BY <1>3, <1>4 DEF value

\* Nil.
LEMMA NilIsProper ==
  ASSUME NEW value
  PROVE  Proper(EncodeValue("BULK_NIL", value))
<1>1. HasEmpty({""})
  BY DEF HasEmpty
<1>2. OneValue(Nil) /\ Nil # << >> /\ Nil[1].t = "$"
  BY <1>1, NilIs
<1>3. LinesOfReply(Nil) = Len(Nil)
  BY <1>2, ValueIsRead
<1>4. EncodeValue("BULK_NIL", value) = Nil
  BY Zenon DEF EncodeValue
<1> QED
  BY <1>3, <1>4 DEF Proper

\* The pieces of the texts T.
Pieces(T) == {""} \cup UNION {ToSet(t) : t \in T}

\* Texts are sequences of them.
LEMMA PiecesIs ==
  ASSUME NEW T, \A t \in T : IsText(t)
  PROVE  HasEmpty(Pieces(T)) /\ T \subseteq Seq(Pieces(T))
<1>1. HasEmpty(Pieces(T))
  <2>1. \A A, x : x \in {x} \cup A
    OBVIOUS
  <2> QED
    BY <2>1, Zenon DEF HasEmpty, Pieces
<1>2. ASSUME NEW t \in T PROVE t \in Seq(Pieces(T))
  <2>1. t \in Seq(ToSet(t))
    BY DEF IsText, IsSequence
  <2>2. ToSet(t) \subseteq Pieces(T)
    BY DEF Pieces
  <2> DEFINE A == ToSet(t)
             B == Pieces(T)
  <2> HIDE DEF A, B
  <2>3. t \in Seq(A) /\ A \subseteq B
    BY <2>1, <2>2 DEF A, B
  <2>4. t \in Seq(B)
    BY <2>3
  <2> QED
    BY <2>4 DEF B
<1> QED
  BY <1>1, <1>2

\* What a call of r has read can be shown: it is made of the texts T, and there is
\* a first one if r shows only that.
Legible(r, value, T) ==
  \/ value = Absent
  \/ value.list \in Seq(T) /\ (Command(r) \in {"GET", "MGET"} => value.list # << >>)

\* The reply with the value that was read.
LEMMA ReplyWithIs ==
  ASSUME NEW T, \A t \in T : IsText(t), NEW r, NEW value,
         value.list \in Seq(T), Command(r) \in {"GET", "MGET"} => value.list # << >>,
         Command(r) \in {"GET", "SCARD", "LRANGE", "SMEMBERS"}
  PROVE  Proper(ReplyWith(r, value))
<1>1. CASE Command(r) = "GET"
  <2>1. ReplyWith(r, value) = EncodeValue("BULK_STRINGS", value.list[1])
    BY <1>1, Zenon DEF ReplyWith
  <2>2. IsText(value.list[1])
    <3>1. PICK l \in Seq(T) : l = value.list /\ l # << >>
      BY <1>1
    <3>2. l[1] \in T
      BY <3>1
    <3> QED
      BY <3>1, <3>2
  <2> QED
    BY <2>1, <2>2, TextIsProper
<1>2. CASE Command(r) = "SCARD"
  <2>1. ReplyWith(r, value) = EncodeValue("INTEGERS", CountText(value))
    BY <1>2, Zenon DEF ReplyWith
  <2>2. IsText(CountText(value))
    <3>1. \A x : <<x>> \in Seq({x}) /\ ToSet(<<x>>) = {x} /\ <<x>> # << >>
      BY DEF ToSet
    <3> QED
      BY <3>1 DEF IsText, IsSequence, CountText
  <2> QED
    BY <2>1, <2>2, TextIsProper
<1>3. CASE Command(r) \in {"LRANGE", "SMEMBERS"}
  <2>1. ReplyWith(r, value) = EncodeArray(value.list)
    BY <1>3, Zenon DEF ReplyWith
  <2>2. HasEmpty(Pieces(T)) /\ T \subseteq Seq(Pieces(T))
    BY PiecesIs
  <2>3. value.list \in Seq(Seq(Pieces(T)))
    <3> DEFINE U == Seq(Pieces(T))
    <3> HIDE DEF U
    <3>1. T \subseteq U
      BY <2>2 DEF U
    <3>2. value.list \in Seq(U)
      BY <3>1
    <3> QED
      BY <3>2 DEF U
  <2>4. LinesOfReply(EncodeArray(value.list)) = Len(EncodeArray(value.list))
    BY <2>2, <2>3, ArrayIsWhole
  <2> QED
    BY <2>1, <2>4 DEF Proper
<1> QED
  BY <1>1, <1>2, <1>3

\* The commands.
LEMMA CommandIs ==
  ASSUME NEW r, ArgumentsOk(r)
  PROVE  \/ Command(r) \in {"RPUSH", "LPUSH", "SADD", "SREM"}
         \/ Command(r) \in {"SET", "LTRIM", "EXPIRE"}
         \/ Command(r) = "MGET"
         \/ Command(r) \in {"GET", "SCARD", "LRANGE", "SMEMBERS"}
<1> SUFFICES ASSUME Command(r) \notin {"RPUSH", "LPUSH", "SADD", "SET"},
                    Command(r) \notin {"SREM", "EXPIRE"},
                    Command(r) \notin {"GET", "SCARD", "SMEMBERS"},
                    Command(r) # "MGET", Command(r) \notin {"LRANGE", "LTRIM"}
             PROVE  FALSE
  OBVIOUS
<1>1. ArgumentsOk(r) = FALSE
  BY Zenon DEF ArgumentsOk
<1> QED
  BY <1>1

\* MGET lists what it has read as it is, one piece or more each.
LEMMA PairsAre ==
  ASSUME NEW T, \A t \in T : IsText(t), NEW read, IsSequence(read),
         \A i \in DOMAIN read : read[i] = Absent \/ (read[i].list \in Seq(T) /\ read[i].list # << >>)
  PROVE  LET e == EncodePairs([i \in DOMAIN read |-> Pair(read[i])]) IN
         Proper(e) \/ BrokenString(e)
<1>1. Len(read) \in Nat /\ DOMAIN read = 1 .. Len(read)
  BY SequenceIs
<1>2. PICK n \in Nat : n = Len(read)
  BY <1>1
<1>3. PICK pairs : pairs = [i \in 1 .. n |-> Pair(read[i])]
  OBVIOUS
<1>4. HasEmpty(Pieces(T)) /\ T \subseteq Seq(Pieces(T))
  BY PiecesIs
<1>5. ASSUME NEW i \in 1 .. n PROVE IsPair(Pair(read[i]), Pieces(T))
  <2>1. CASE read[i] = Absent
    <3>1. Pair(read[i]).type = "BULK_NIL"
      BY <2>1 DEF Pair
    <3> QED
      BY <3>1 DEF IsPair
  <2>2. CASE read[i] # Absent
    <3>1. PICK l \in Seq(T) : l = read[i].list /\ l # << >>
      BY <1>1, <1>2, <2>2
    <3>2. PICK v \in T : v = l[1]
      BY <3>1
    <3>3. v \in Seq(Pieces(T)) /\ v # << >>
      BY <1>4 DEF IsText
    <3>4. Pair(read[i]).type = "SIMPLE_STRINGS" /\ Pair(read[i]).value = v
      BY <2>2, <3>1, <3>2 DEF Pair
    <3> QED
      BY <3>3, <3>4 DEF IsPair
  <2> QED
    BY <2>1, <2>2
<1>6. /\ DOMAIN pairs = 1 .. n /\ Len(pairs) = n
      /\ \A i \in 1 .. n : IsPair(pairs[i], Pieces(T))
  BY <1>3, <1>5
<1>7. Proper(EncodePairs(pairs)) \/ BrokenString(EncodePairs(pairs))
  BY <1>4, <1>6, PairsAreProper
<1>8. pairs = [i \in DOMAIN read |-> Pair(read[i])]
  BY <1>1, <1>2, <1>3
<1> QED
  BY <1>7, <1>8

\* The reply to a request whose calls have all returned is read whole.
LEMMA ReplyIsProper ==
  ASSUME NEW T, \A t \in T : IsText(t), NEW r, IsSequence(r), ArgumentsOk(r),
         NEW read, IsSequence(read), Len(read) = Len(Calls(r)),
         \A i \in DOMAIN read : Legible(r, read[i], T)
  PROVE  Answers(r, ReplyTo(r, read))
<1>1. CASE Command(r) \in {"RPUSH", "LPUSH", "SADD", "SREM"}
  <2>1. ReplyTo(r, read) = EncodeValue("INTEGERS", <<"1">>)
    BY <1>1, Zenon DEF ReplyTo
  <2>2. IsText(<<"1">>)
    <3>1. \A x : <<x>> \in Seq({x}) /\ ToSet(<<x>>) = {x} /\ <<x>> # << >>
      BY DEF ToSet
    <3> QED
      BY <3>1 DEF IsText, IsSequence
  <2> QED
    BY <2>1, <2>2, TextIsProper DEF Answers
<1>2. CASE Command(r) \in {"SET", "LTRIM", "EXPIRE"}
  <2>1. ReplyTo(r, read) = EncodeValue("SIMPLE_STRINGS", <<"OK">>)
    BY <1>2, Zenon DEF ReplyTo
  <2> QED
    BY <2>1, LineIsProper DEF Answers
<1>3. CASE Command(r) = "MGET"
  <2>1. ReplyTo(r, read) = EncodePairs([i \in DOMAIN read |-> Pair(read[i])])
    BY <1>3, Zenon DEF ReplyTo
  <2>2. \A i \in DOMAIN read : read[i] = Absent \/ (read[i].list \in Seq(T) /\ read[i].list # << >>)
    BY <1>3 DEF Legible
  <2> QED
    BY <1>3, <2>1, <2>2, PairsAre DEF Answers
<1>4. CASE Command(r) \in {"GET", "SCARD", "LRANGE", "SMEMBERS"}
  <2>1. 1 \in DOMAIN read
    <3>1. Len(read) \in Nat \ {0} /\ DOMAIN read = 1 .. Len(read)
      BY CallsIs, SequenceIs
    <3> QED
      BY <3>1
  <2>2. Legible(r, read[1], T)
    BY <2>1
  <2>3. CASE read[1] = Absent
    <3>1. CASE Command(r) = "SMEMBERS"
      <4>1. ReplyTo(r, read) = InternalError
        BY <2>3, <3>1, Zenon DEF ReplyTo
      <4> QED
        BY <4>1, LineIsProper DEF InternalError, Answers
    <3>2. CASE Command(r) \in {"GET", "SCARD", "LRANGE"}
      <4>1. ReplyTo(r, read) = EncodeValue("BULK_NIL", <<"">>)
        BY <2>3, <3>2, Zenon DEF ReplyTo
      <4> QED
        BY <4>1, NilIsProper DEF Answers
    <3> QED
      BY <1>4, <3>1, <3>2
  <2>4. CASE read[1] # Absent
    <3>1. ReplyTo(r, read) = ReplyWith(r, read[1])
      <4>1. CASE Command(r) = "SMEMBERS"
        BY <2>4, <4>1, Zenon DEF ReplyTo
      <4>2. CASE Command(r) \in {"GET", "SCARD", "LRANGE"}
        BY <2>4, <4>2, Zenon DEF ReplyTo
      <4> QED
        BY <1>4, <4>1, <4>2
    <3>2. PICK v : v = read[1] /\ v.list \in Seq(T)
                   /\ (Command(r) \in {"GET", "MGET"} => v.list # << >>)
      BY <2>2, <2>4 DEF Legible
    <3>3. Proper(ReplyWith(r, v))
      BY <1>4, <3>2, ReplyWithIs
    <3> QED
      BY <3>1, <3>2, <3>3 DEF Answers
  <2> QED
    BY <2>3, <2>4
<1> QED
  BY <1>1, <1>2, <1>3, <1>4, CommandIs

(***************************************************************************)
(* What is stored can be shown.                                            *)
(***************************************************************************)

\* The elements of a sequence are finitely many.
LEMMA ToSetIs ==
  ASSUME NEW T, NEW l \in Seq(T)
  PROVE  /\ IsFiniteSet(ToSet(l)) /\ ToSet(l) \subseteq T
         /\ l # << >> => ToSet(l) # {}
<1>1. Len(l) \in Nat /\ DOMAIN l = 1 .. Len(l) /\ \A i \in 1 .. Len(l) : l[i] \in T
  OBVIOUS
<1>2. ToSet(l) = {l[i] : i \in 1 .. Len(l)}
  BY <1>1 DEF ToSet
<1>3. l \in Surjection(1 .. Len(l), ToSet(l))
  <2>1. l \in [1 .. Len(l) -> ToSet(l)]
    BY <1>1, <1>2
  <2>2. \A t \in ToSet(l) : \E s \in 1 .. Len(l) : l[s] = t
    BY <1>2
  <2> QED
    BY <2>1, <2>2 DEF Surjection
<1>4. IsFiniteSet(1 .. Len(l))
  BY <1>1, FS_Interval
<1>5. IsFiniteSet(ToSet(l))
  BY <1>3, <1>4, FS_Surjection
<1>6. l # << >> => ToSet(l) # {}
  <2> SUFFICES ASSUME l # << >> PROVE l[1] \in ToSet(l)
    OBVIOUS
  <2>1. 1 \in 1 .. Len(l)
    BY <1>1
  <2> QED
    BY <1>2, <2>1
<1> QED
  BY <1>1, <1>2, <1>5, <1>6

\* A finite set as a sequence.
LEMMA SetToSeqIs ==
  ASSUME NEW T, NEW S, S \subseteq T, IsFiniteSet(S)
  PROVE  SetToSeq(S) \in Seq(T) /\ (S # {} => SetToSeq(S) # << >>)
<1>1. PICK n \in Nat : n = Cardinality(S) /\ ExistsBijection(1 .. n, S)
  BY FS_CardinalityType
<1>2. \E f \in [1 .. n -> S] : IsInjective(f)
  BY <1>1 DEF ExistsBijection, Bijection, Injection
<1>3. PICK f : f = SetToSeq(S)
  OBVIOUS
<1>4. f = CHOOSE g \in [1 .. n -> S] : IsInjective(g)
  BY <1>1, <1>3, Zenon DEF SetToSeq
<1>5. f \in [1 .. n -> S]
  BY <1>2, <1>4
<1>6. f \in Seq(T) /\ Len(f) = n
  BY <1>5
<1>7. S # {} => n # 0
  BY <1>1, FS_EmptySet
<1>8. f = << >> => n = 0
  BY <1>6
<1> QED
  BY <1>3, <1>6, <1>7, <1>8

\* Two sequences joined.
LEMMA JoinedIs ==
  ASSUME NEW T, NEW s \in Seq(T), NEW t \in Seq(T), s # << >> \/ t # << >>
  PROVE  s \o t \in Seq(T) /\ s \o t # << >>
<1>1. s \o t \in Seq(T) /\ Len(s \o t) = Len(s) + Len(t)
  BY ConcatProperties
<1>2. PICK a \in Nat, b \in Nat : a = Len(s) /\ b = Len(t)
  OBVIOUS
<1>3. a # 0 \/ b # 0
  BY <1>2
<1>4. a + b # 0
  BY <1>3
<1> QED
  BY <1>1, <1>2, <1>4

\* A value of the store made of the texts T.
IsValue(v, T) == v = [kind |-> v.kind, list |-> v.list] /\ v.list \in Seq(T)
\* The arguments of a call.
IsCall(call, T) ==
  /\ call.args \in Seq(T)
  /\ call.op \in {"RPUSH", "LPUSH", "SADD", "SREM", "SET"} => call.args # << >>

\* A writing call leaves a value, and makes it empty only if it removes from a set.
LEMMA EffectIs ==
  ASSUME NEW T, NEW v, IsValue(v, T), NEW call, IsCall(call, T)
  PROVE  /\ IsValue(Effect(v, call), T)
         /\ Effect(v, call).list = << >> => Effect(v, call) = v \/ call.op = "SREM"
<1>0. PICK l \in Seq(T), a \in Seq(T) : l = v.list /\ a = call.args
  BY DEF IsValue, IsCall
<1>1. ASSUME NEW kind, NEW list \in Seq(T), Effect(v, call) = [kind |-> kind, list |-> list]
      PROVE  IsValue(Effect(v, call), T) /\ Effect(v, call).list = list
  BY <1>1 DEF IsValue
<1>2. ASSUME NEW list, [v EXCEPT !.list = list] = Effect(v, call), list \in Seq(T)
      PROVE  IsValue(Effect(v, call), T) /\ Effect(v, call).list = list
  <2>1. Effect(v, call) = [kind |-> v.kind, list |-> list]
    BY <1>2 DEF IsValue
  <2> QED
    BY <1>1, <1>2, <2>1
<1>3. CASE call.op = "RPUSH"
  <2>1. Effect(v, call) = [kind |-> "list", list |-> l \o a]
    BY <1>0, <1>3, Zenon DEF Effect
  <2>2. a # << >>
    BY <1>0, <1>3 DEF IsCall
  <2>3. l \o a \in Seq(T) /\ l \o a # << >>
    BY <2>2, JoinedIs
  <2> QED
    BY <1>1, <2>1, <2>3
<1>4. CASE call.op = "LPUSH"
  <2>1. Effect(v, call) = [kind |-> "list", list |-> a \o l]
    BY <1>0, <1>4, Zenon DEF Effect
  <2>2. a # << >>
    BY <1>0, <1>4 DEF IsCall
  <2>3. a \o l \in Seq(T) /\ a \o l # << >>
    BY <2>2, JoinedIs
  <2> QED
    BY <1>1, <2>1, <2>3
<1>5. CASE call.op = "SADD"
  <2> DEFINE S == ToSet(l) \cup ToSet(a)
  <2>1. Effect(v, call) = [kind |-> "set", list |-> SetToSeq(S)]
    BY <1>0, <1>5, Zenon DEF Effect
  <2>2. a # << >>
    BY <1>0, <1>5 DEF IsCall
  <2>3. IsFiniteSet(S) /\ S \subseteq T /\ S # {}
    <3>1. /\ IsFiniteSet(ToSet(l)) /\ ToSet(l) \subseteq T
          /\ IsFiniteSet(ToSet(a)) /\ ToSet(a) \subseteq T /\ ToSet(a) # {}
      BY <2>2, ToSetIs
    <3> QED
      BY <3>1, FS_Union
  <2> HIDE DEF S
  <2>4. SetToSeq(S) \in Seq(T) /\ SetToSeq(S) # << >>
    BY <2>3, SetToSeqIs
  <2> QED
    BY <1>1, <2>1, <2>4
<1>6. CASE call.op = "SREM"
  <2> DEFINE S == ToSet(l) \ {a[1]}
  <2>1. Effect(v, call) = [v EXCEPT !.list = SetToSeq(S)]
    <3>1. Effect(v, call) = [v EXCEPT !.list = SetToSeq(ToSet(@) \ {call.args[1]})]
      BY <1>6, Zenon DEF Effect
    <3> QED
      BY <1>0, <3>1
  <2>2. IsFiniteSet(S) /\ S \subseteq T
    <3>1. IsFiniteSet(ToSet(l)) /\ ToSet(l) \subseteq T
      BY ToSetIs
    <3> QED
      BY <3>1, FS_RemoveElement
  <2> HIDE DEF S
  <2>3. SetToSeq(S) \in Seq(T)
    BY <2>2, SetToSeqIs
  <2> QED
    BY <1>2, <1>6, <2>1, <2>3
<1>7. CASE call.op = "SET"
  <2>1. Effect(v, call) = [kind |-> "string", list |-> <<a[1]>>]
    BY <1>0, <1>7, Zenon DEF Effect
  <2>2. a # << >>
    BY <1>0, <1>7 DEF IsCall
  <2>3. a[1] \in T
    BY <2>2
  <2>4. <<a[1]>> \in Seq(T) /\ <<a[1]>> # << >>
    BY <2>3
  <2> QED
    BY <1>1, <2>1, <2>4
<1>8. CASE call.op = "LTRIM"
  <2>1. Effect(v, call) = [v EXCEPT !.list = IF @ = << >> THEN @ ELSE <<Head(@)>>]
    BY <1>8, Zenon DEF Effect
  <2>2. CASE l = << >>
    <3>1. Effect(v, call) = v
      BY <1>0, <2>1, <2>2 DEF IsValue
    <3> QED
      BY <3>1
  <2>3. CASE l # << >>
    <3>1. Effect(v, call) = [v EXCEPT !.list = <<Head(l)>>]
      BY <1>0, <2>1, <2>3
    <3>2. Head(l) \in T
      BY <2>3
    <3>3. <<Head(l)>> \in Seq(T) /\ <<Head(l)>> # << >>
      BY <3>2
    <3> QED
      BY <1>2, <3>1, <3>3
  <2> QED
    BY <2>2, <2>3
<1>9. CASE call.op \notin {"RPUSH", "LPUSH", "SADD", "SREM", "SET", "LTRIM"}
  <2>1. Effect(v, call) = v
    BY <1>9, Zenon DEF Effect
  <2> QED
    BY <2>1
<1> QED
  BY <1>3, <1>4, <1>5, <1>6, <1>7, <1>8, <1>9

\* The texts of the requests s.
Texts(s) == UNION {ToSet(s[n]) : n \in DOMAIN s}

\* A set of key k may have lost its last member.
Removed(s, k) ==
  \E n \in DOMAIN s : ArgumentsOk(s[n]) /\ Command(s[n]) = "SREM" /\ k = Calls(s[n])[1].key

\* No GET or MGET of s reads a key that an SREM of s takes members from.  An emptied
\* set has no first text to show; in the cluster a GET of a set is a mismatch of
\* kinds, which the store of the model does not describe.
SetsApart(s) ==
  \A n \in DOMAIN s : ArgumentsOk(s[n]) /\ Command(s[n]) \in {"GET", "MGET"} =>
    \A i \in DOMAIN Calls(s[n]) : ~Removed(s, Calls(s[n])[i].key)

\* Requests are sequences of these texts.
LEMMA TextsAre ==
  ASSUME NEW s \in Scripts
  PROVE  /\ \A t \in Texts(s) : IsText(t)
         /\ \A n \in DOMAIN s : IsSequence(s[n]) /\ s[n] \in Seq(Texts(s))
<1>1. \A n \in DOMAIN s : IsSequence(s[n]) /\ \A i \in DOMAIN s[n] : IsText(s[n][i])
  BY HandlersAssumption
<1>2. ASSUME NEW t \in Texts(s) PROVE IsText(t)
  <2>1. PICK n \in DOMAIN s : t \in ToSet(s[n])
    BY DEF Texts
  <2>2. PICK i \in DOMAIN s[n] : t = s[n][i]
    BY <2>1 DEF ToSet
  <2> QED
    BY <1>1, <2>2
<1>3. ASSUME NEW n \in DOMAIN s PROVE s[n] \in Seq(Texts(s))
  <2> DEFINE A == ToSet(s[n])
             B == Texts(s)
             r == s[n]
  <2>1. r \in Seq(A)
    BY <1>1 DEF IsSequence
  <2>2. A \subseteq B
    BY DEF Texts
  <2> HIDE DEF A, B, r
  <2>3. r \in Seq(B)
    BY <2>1, <2>2
  <2> QED
    BY <2>3 DEF B, r
<1> QED
  BY <1>1, <1>2, <1>3

\* The arguments of the calls of a request are texts of it.
LEMMA CallArgsAre ==
  ASSUME NEW T, NEW r \in Seq(T), IsSequence(r), ArgumentsOk(r), NEW i \in 1 .. Len(Calls(r))
  PROVE  /\ IsCall(Calls(r)[i], T)
         /\ Calls(r)[i].op = "SREM" => Command(r) = "SREM" /\ i = 1
<1>0. PICK l \in Nat : l = Len(r)
  OBVIOUS
<1>a. \A c, o, k, x : c = [op |-> o, key |-> k, args |-> x] => c.op = o /\ c.args = x
  OBVIOUS
<1>1. CASE Pushes(r)
  <2>1. Len(Calls(r)) = l - 2
    BY <1>0, <1>1, CallsIs
  <2>2. Calls(r) = [j \in 1 .. l - 2 |-> [op |-> Command(r), key |-> r[2], args |-> <<r[j + 2]>>]]
    BY <1>0, <1>1, Zenon DEF Calls, Pushes
  <2>3. i \in 1 .. l - 2 /\ i + 2 \in 1 .. l
    BY <2>1
  <2>4. PICK x \in T : x = r[i + 2]
    BY <1>0, <2>3
  <2>5. Calls(r)[i] = [op |-> Command(r), key |-> r[2], args |-> <<x>>]
    BY <2>2, <2>3, <2>4
  <2>6. PICK y : y = <<x>> /\ y \in Seq(T) /\ y # << >>
    <3>1. <<x>> \in Seq(T)
      OBVIOUS
    <3>2. <<x>> # << >>
      OBVIOUS
    <3> QED
      BY <3>1, <3>2
  <2>a. PICK d, o, k : d = Calls(r)[i] /\ o = Command(r) /\ k = r[2]
    OBVIOUS
  <2>b. d = [op |-> o, key |-> k, args |-> y]
    BY <2>5, <2>6, <2>a, Zenon
  <2>c. d.op = o /\ d.args = y
    BY <2>b
  <2>7. Calls(r)[i].op = Command(r) /\ Calls(r)[i].args = y
    BY <2>a, <2>c, Zenon
  <2> QED
    BY <1>1, <2>6, <2>7 DEF IsCall, Pushes
<1>2. CASE Command(r) = "MGET"
  <2>2. Calls(r) = [j \in 1 .. l - 1 |-> [op |-> "GET", key |-> r[j + 1], args |-> << >>]]
    BY <1>0, <1>2, Zenon DEF Calls
  <2>3. DOMAIN Calls(r) = 1 .. Len(Calls(r)) /\ DOMAIN Calls(r) = 1 .. l - 1
    BY <2>2, CallsIs
  <2>4. Calls(r)[i] = [op |-> "GET", key |-> r[i + 1], args |-> << >>]
    BY <2>2, <2>3
  <2>a. PICK d, k : d = Calls(r)[i] /\ k = r[i + 1]
    OBVIOUS
  <2>b. d = [op |-> "GET", key |-> k, args |-> << >>]
    BY <2>4, <2>a
  <2>c. d.op = "GET" /\ d.args = << >>
    BY <2>b
  <2>5. Calls(r)[i].op = "GET" /\ Calls(r)[i].args = << >>
    BY <2>a, <2>c, Zenon
  <2> QED
    BY <2>5 DEF IsCall
<1>3. CASE ~Pushes(r) /\ Command(r) # "MGET"
  <2>1. PICK y : y = SubSeq(r, 3, l)
    OBVIOUS
  <2>2. Calls(r) = <<[op |-> Command(r), key |-> r[2], args |-> y]>>
    BY <1>0, <1>3, <2>1, Zenon DEF Calls, Pushes
  <2>3. PICK c : c = [op |-> Command(r), key |-> r[2], args |-> y]
    OBVIOUS
  <2>4. Calls(r) = <<c>>
    BY <2>2, <2>3
  <2>5. Len(<<c>>) = 1 /\ <<c>>[1] = c
    OBVIOUS
  <2>6. i = 1 /\ Calls(r)[i] = c
    BY <2>4, <2>5
  <2>7. c.op = Command(r) /\ c.args = y
    BY <1>a, <2>3, Zenon
  <2>8. y \in Seq(T) /\ (l >= 3 => y # << >>)
    <3>1. \A j \in 3 .. l : r[j] \in T
      BY <1>0
    <3>2. y \in Seq(T) /\ Len(y) = IF 3 <= l THEN l - 3 + 1 ELSE 0
      BY <2>1, <3>1, SubSeqProperties
    <3>3. l >= 3 => Len(y) # 0
      BY <3>2
    <3> QED
      BY <3>2, <3>3
  <2>9. Command(r) \in {"RPUSH", "LPUSH", "SADD", "SREM", "SET"} => l >= 3
    <3>1. Command(r) \in {"RPUSH", "LPUSH", "SADD", "SET"} => Len(r) >= 3
      BY Zenon DEF ArgumentsOk
    <3>2. Command(r) = "SREM" => Len(r) = 3
      BY Zenon DEF ArgumentsOk
    <3> QED
      BY <1>0, <3>1, <3>2
  <2>10. IsCall(c, T)
    BY <2>7, <2>8, <2>9 DEF IsCall
  <2> QED
    BY <2>6, <2>7, <2>10
<1> QED
  BY <1>1, <1>2, <1>3

\* What the store may have at key k, and what a call for k may read.
Stored(s, k, v) == IsValue(v, Texts(s)) /\ (v.list = << >> => v = Absent \/ Removed(s, k))

\* A key that is not there.
LEMMA AbsentStored ==
  ASSUME NEW s, NEW k
  PROVE  Stored(s, k, Absent)
BY DEF Stored, IsValue, Absent

\* A call leaves such a value.
LEMMA EffectStored ==
  ASSUME NEW s \in Scripts, NEW n \in DOMAIN s, ArgumentsOk(s[n]),
         NEW i \in 1 .. Len(Calls(s[n])), NEW v, Stored(s, Calls(s[n])[i].key, v)
  PROVE  Stored(s, Calls(s[n])[i].key, Effect(v, Calls(s[n])[i]))
<1>1. PICK T : T = Texts(s)
  OBVIOUS
<1>2. PICK r : r = s[n] /\ r \in Seq(T) /\ IsSequence(r) /\ ArgumentsOk(r)
  BY <1>1, TextsAre
<1>3. PICK call : call = Calls(r)[i] /\ i \in 1 .. Len(Calls(r))
  BY <1>2
<1>4. IsCall(call, T) /\ (call.op = "SREM" => Command(r) = "SREM" /\ i = 1)
  BY <1>2, <1>3, CallArgsAre
<1>5. PICK k : k = call.key /\ Stored(s, k, v)
  BY <1>2, <1>3
<1>6. IsValue(v, T) /\ (v.list = << >> => v = Absent \/ Removed(s, k))
  BY <1>1, <1>5 DEF Stored
<1>7. PICK e : e = Effect(v, call)
  OBVIOUS
<1>8. IsValue(e, T) /\ (e.list = << >> => e = v \/ call.op = "SREM")
  BY <1>4, <1>6, <1>7, EffectIs
<1>9. call.op = "SREM" => Removed(s, k)
  BY <1>2, <1>3, <1>4, <1>5 DEF Removed
<1>10. Stored(s, k, e)
  BY <1>1, <1>6, <1>8, <1>9 DEF Stored
<1> QED
  BY <1>2, <1>3, <1>5, <1>7, <1>10

\* What was read can be shown.
LEMMA StoredIsLegible ==
  ASSUME NEW s \in Scripts, SetsApart(s), NEW n \in DOMAIN s, ArgumentsOk(s[n]),
         NEW i \in DOMAIN Calls(s[n]), NEW v, Stored(s, Calls(s[n])[i].key, v)
  PROVE  Legible(s[n], v, Texts(s))
<1>1. Command(s[n]) \in {"GET", "MGET"} => ~Removed(s, Calls(s[n])[i].key)
  BY DEF SetsApart
<1>2. v.list \in Seq(Texts(s))
  BY DEF Stored, IsValue
<1>3. v.list = << >> => v = Absent \/ Removed(s, Calls(s[n])[i].key)
  BY DEF Stored
<1> QED
  BY <1>1, <1>2, <1>3 DEF Legible

(***************************************************************************)
(* What OneReplyEach needs of the state.                                   *)
(***************************************************************************)

\* The store has a value for every key that a call on the key can have left.
StoreInv == DOMAIN store = Keys /\ \A k \in Keys : Stored(script, k, store[k])

\* What a worker has read so far was in the store at the keys of its calls.
ReadsInv ==
  \A w \in Workers : job[w] # NoJob =>
    \A i \in DOMAIN job[w].read :
      Stored(script, Calls(script[job[w].n])[i].key, job[w].read[i])

\* Every reply is read whole.
RepliesInv == \A n \in DOMAIN replies : Answers(script[n], replies[n])

\* The invariant that RepliesReadWhole needs on top of IInv.
ShownInv == StoreInv /\ ReadsInv /\ RepliesInv

\* The call of worker w takes effect or does not.
LEMMA StoreStep ==
  ASSUME ShapeInv, StoreInv, NEW w \in Workers, job[w] # NoJob, script' = script,
         \/ store' = store
         \/ Apply(w, Calls(script[job[w].n])[job[w].made + 1])
  PROVE  StoreInv'
<1>1. PICK n, r, i : n = job[w].n /\ r = script[n] /\ i = job[w].made + 1
  OBVIOUS
<1>2. /\ n \in DOMAIN script /\ IsSequence(r) /\ ArgumentsOk(r) /\ script \in Scripts
      /\ i \in 1 .. Len(Calls(r)) /\ Calls(r)[i].key \in Keys
  <2>1. /\ n \in DOMAIN script /\ job[w].made \in Nat /\ IsSequence(r) /\ ArgumentsOk(r)
        /\ job[w].made < Len(Calls(r)) /\ Calls(r)[i].key \in Keys
    BY <1>1, JobIs
  <2>2. Len(Calls(r)) \in Nat
    BY <2>1, CallsIs
  <2>3. i \in 1 .. Len(Calls(r))
    BY <1>1, <2>1, <2>2
  <2> QED
    BY <2>1, <2>3 DEF ShapeInv
<1>3. PICK call, k : call = Calls(r)[i] /\ k = call.key
  OBVIOUS
<1>4. CASE store' = store
  BY <1>4 DEF StoreInv
<1>5. CASE store' # store
  <2>1. Apply(w, call)
    BY <1>1, <1>3, <1>5
  <2>2. call.op \in Writes
    BY <1>5, <2>1 DEF Apply
  <2>3. store' = [store EXCEPT ![k] = Effect(store[k], call)]
    BY <1>3, <2>1, <2>2 DEF Apply
  <2>4. k \in Keys /\ Stored(script, k, store[k])
    BY <1>2, <1>3 DEF StoreInv
  <2>5. Stored(script, k, Effect(store[k], call))
    <3>1. PICK v : v = store[k]
      OBVIOUS
    <3>2. Stored(script, Calls(script[n])[i].key, v)
      BY <1>1, <1>3, <2>4, <3>1
    <3>3. ArgumentsOk(script[n]) /\ i \in 1 .. Len(Calls(script[n]))
      BY <1>1, <1>2
    <3>4. Stored(script, Calls(script[n])[i].key, Effect(v, Calls(script[n])[i]))
      BY <1>2, <3>2, <3>3, EffectStored
    <3> QED
      BY <1>1, <1>3, <3>1, <3>4
  <2>6. /\ DOMAIN store' = Keys /\ store'[k] = Effect(store[k], call)
        /\ \A m \in Keys : m # k => store'[m] = store[m]
    BY <2>3, <2>4 DEF StoreInv
  <2>7. ASSUME NEW m \in Keys
        PROVE  Stored(script, m, store'[m])
    <3>1. CASE m = k
      BY <2>5, <2>6, <3>1
    <3>2. CASE m # k
      <4>1. Stored(script, m, store[m])
        BY DEF StoreInv
      <4> QED
        BY <2>6, <3>2, <4>1
    <3> QED
      BY <3>1, <3>2
  <2> QED
    BY <2>6, <2>7 DEF StoreInv
<1> QED
  BY <1>4, <1>5

\* What the first i calls of r may have read.
IsReadOf(s, r, i, read) ==
  /\ IsSequence(read) /\ Len(read) = i
  /\ \A j \in DOMAIN read : Stored(s, Calls(r)[j].key, read[j])

\* The call of worker w reads what can be shown.
LEMMA ReadStep ==
  ASSUME ShapeInv, StoreInv, ReadsInv, NEW w \in Workers, job[w] # NoJob,
         NEW r, r = script[job[w].n], NEW i, i = job[w].made + 1,
         NEW read, read = Append(job[w].read, store[Calls(r)[i].key])
  PROVE  IsReadOf(script, r, i, read)
<1>a. PICK old : old = job[w].read
  OBVIOUS
<1>b. IsSequence(old) /\ Len(old) = job[w].made
  BY <1>a DEF ShapeInv
<1>c. PICK l : l = Len(old)
  OBVIOUS
<1>1. old = job[w].read /\ IsSequence(old) /\ l = Len(old) /\ l = job[w].made /\ l \in Nat
  <2>1. l \in Nat
    BY <1>b, <1>c, SequenceIs
  <2> QED
    BY <1>a, <1>b, <1>c, <2>1
<1>2. PICK x : x = store[Calls(r)[i].key]
  OBVIOUS
<1>3. Calls(r)[i].key \in Keys
  BY JobIs
<1>4. Stored(script, Calls(r)[i].key, x)
  BY <1>2, <1>3 DEF StoreInv
<1>5. read = Append(old, x)
  BY <1>1, <1>2
<1>6. /\ IsSequence(read) /\ Len(read) = l + 1 /\ DOMAIN read = 1 .. l + 1
      /\ \A j \in 1 .. l : read[j] = old[j]
      /\ read[l + 1] = x /\ DOMAIN old = 1 .. l
  <2>1. DOMAIN old = 1 .. Len(old)
    BY <1>1, SequenceIs
  <2>2. IsSequence(Append(old, x)) /\ Len(Append(old, x)) = Len(old) + 1
    BY <1>1, AppendIs
  <2>3. DOMAIN Append(old, x) = 1 .. Len(old) + 1
    BY <1>1, AppendIs
  <2>4. \A j \in 1 .. Len(old) : Append(old, x)[j] = old[j]
    <3>1. PICK S : old \in Seq(S) /\ x \in S
      <4> DEFINE S == ToSet(old) \cup {x}
      <4>1. old \in Seq(ToSet(old)) /\ ToSet(old) \subseteq S
        BY <1>1 DEF IsSequence
      <4>2. x \in S
        OBVIOUS
      <4> HIDE DEF S
      <4>3. old \in Seq(S) /\ x \in S
        BY <4>1, <4>2
      <4> QED
        BY <4>3
    <3> QED
      BY <3>1
  <2>5. Append(old, x)[Len(old) + 1] = x
    BY <1>1, AppendIs
  <2> QED
    BY <1>1, <1>5, <2>1, <2>2, <2>3, <2>4, <2>5, Zenon
<1>7. i = l + 1
  BY <1>1
<1>8. \A j \in 1 .. l : Stored(script, Calls(r)[j].key, old[j])
  BY <1>1, <1>6 DEF ReadsInv
<1>9. ASSUME NEW j \in 1 .. l + 1
      PROVE  Stored(script, Calls(r)[j].key, read[j])
  <2>1. CASE j = l + 1
    BY <1>4, <1>6, <1>7, <2>1
  <2>2. CASE j # l + 1
    <3>1. j \in 1 .. l
      BY <1>1, <2>2
    <3> QED
      BY <1>6, <1>8, <3>1
  <2> QED
    BY <2>1, <2>2
<1> QED
  BY <1>6, <1>7, <1>9 DEF IsReadOf

\* Worker w is done with its request.
LEMMA ReadsDone ==
  ASSUME ShapeInv, ReadsInv, NEW w \in Workers, script' = script,
         job' = [job EXCEPT ![w] = NoJob]
  PROVE  ReadsInv'
<1>1. DOMAIN job = Workers
  BY DEF ShapeInv
<1>2. job'[w] = NoJob /\ \A v \in Workers : v # w => job'[v] = job[v]
  BY <1>1
<1> QED
  BY <1>2 DEF ReadsInv

\* A reply that is read whole is added.
LEMMA RepliesStep ==
  ASSUME RepliesInv, script' = script, NEW n, NEW reply, Reply(n, reply),
         Answers(script[n], reply)
  PROVE  RepliesInv'
<1>1. /\ DOMAIN replies' = DOMAIN replies \cup {n} /\ replies'[n] = reply
      /\ \A m \in DOMAIN replies : m # n => replies'[m] = replies[m]
  BY ReplyIs
<1>2. ASSUME NEW m \in DOMAIN replies'
      PROVE  Answers(script[m], replies'[m])
  <2>1. CASE m = n
    BY <1>1, <2>1
  <2>2. CASE m # n
    <3>1. m \in DOMAIN replies /\ replies'[m] = replies[m]
      BY <1>1, <2>2
    <3> QED
      BY <3>1 DEF RepliesInv
  <2> QED
    BY <2>1, <2>2
<1> QED
  BY <1>2 DEF RepliesInv

\* A call that returns.
LEMMA CallReturnsShown ==
  ASSUME \A s \in Scripts : SetsApart(s), IInv, ShownInv, NEW w \in Workers, CallReturns(w)
  PROVE  ShownInv'
<1>1. PICK n, r, i : n = job[w].n /\ r = script[n] /\ i = job[w].made + 1
  OBVIOUS
<1>2. PICK read : read = Append(job[w].read, store[Calls(r)[i].key])
  OBVIOUS
<1>3. /\ job[w] # NoJob /\ Apply(w, Calls(r)[i]) /\ script' = script
      /\ IF i < Len(Calls(r))
         THEN /\ job' = [job EXCEPT ![w] = [job[w] EXCEPT !.made = i, !.read = read]]
              /\ replies' = replies
         ELSE Answer(w, ReplyTo(r, read))
  BY <1>1, <1>2 DEF CallReturns
<1>4. ShapeInv /\ StoreInv /\ ReadsInv /\ RepliesInv
  BY DEF IInv, ShownInv
<1>5. StoreInv'
  BY <1>1, <1>3, <1>4, StoreStep
<1>6. /\ IsSequence(read) /\ Len(read) = i
      /\ \A j \in DOMAIN read : Stored(script, Calls(r)[j].key, read[j])
  <2>1. /\ job[w] # NoJob /\ r = script[job[w].n] /\ i = job[w].made + 1
        /\ read = Append(job[w].read, store[Calls(r)[i].key])
    BY <1>1, <1>2, <1>3
  <2>2. IsReadOf(script, r, i, read)
    BY <1>4, <2>1, ReadStep, Zenon
  <2> QED
    BY <2>2 DEF IsReadOf
<1>7. CASE i < Len(Calls(r))
  <2>1. job[w] = [n |-> n, made |-> job[w].made, read |-> job[w].read] /\ DOMAIN job = Workers
    BY <1>1, <1>3, <1>4 DEF ShapeInv
  <2>2. /\ job'[w] = [job[w] EXCEPT !.made = i, !.read = read]
        /\ \A v \in Workers : v # w => job'[v] = job[v]
    BY <1>3, <1>7, <2>1
  <2>3. job'[w].n = n /\ job'[w].read = read
    BY <2>1, <2>2
  <2>4. ASSUME NEW v \in Workers, job'[v] # NoJob, NEW j \in DOMAIN job'[v].read
        PROVE  Stored(script, Calls(script[job'[v].n])[j].key, job'[v].read[j])
    <3>1. CASE v = w
      BY <1>1, <1>6, <2>3, <2>4, <3>1
    <3>2. CASE v # w
      BY <1>4, <2>2, <2>4, <3>2 DEF ReadsInv
    <3> QED
      BY <3>1, <3>2
  <2>5. ReadsInv'
    BY <1>3, <2>4 DEF ReadsInv
  <2>6. RepliesInv'
    BY <1>3, <1>4, <1>7 DEF RepliesInv
  <2> QED
    BY <1>5, <2>5, <2>6 DEF ShownInv
<1>8. CASE ~(i < Len(Calls(r)))
  <2>1. Reply(n, ReplyTo(r, read)) /\ job' = [job EXCEPT ![w] = NoJob]
    BY <1>1, <1>3, <1>8 DEF Answer
  <2>2. ReadsInv'
    BY <1>3, <1>4, <2>1, ReadsDone
  <2>3. /\ n \in DOMAIN script /\ IsSequence(r) /\ ArgumentsOk(r) /\ script \in Scripts
        /\ Len(read) = Len(Calls(r))
    <3>1. /\ n \in DOMAIN script /\ job[w].made \in Nat /\ IsSequence(r) /\ ArgumentsOk(r)
          /\ job[w].made < Len(Calls(r))
      BY <1>1, <1>3, <1>4, JobIs
    <3>2. Len(Calls(r)) \in Nat
      BY <3>1, CallsIs
    <3>3. i = Len(Calls(r))
      BY <1>1, <1>8, <3>1, <3>2
    <3> QED
      BY <1>4, <1>6, <3>1, <3>3 DEF ShapeInv
  <2>4. PICK T : T = Texts(script) /\ \A t \in T : IsText(t)
    BY <2>3, TextsAre
  <2>5. \A j \in DOMAIN read : Legible(r, read[j], T)
    <3>1. DOMAIN read = DOMAIN Calls(r)
      BY <1>6, <2>3, SequenceIs, CallsIs
    <3>2. ASSUME NEW j \in DOMAIN Calls(r)
          PROVE  Legible(r, read[j], T)
      <4>1. PICK v : v = read[j]
        OBVIOUS
      <4>2. /\ ArgumentsOk(script[n]) /\ j \in DOMAIN Calls(script[n])
            /\ Stored(script, Calls(script[n])[j].key, v)
        BY <1>1, <1>6, <2>3, <3>1, <3>2, <4>1
      <4>3. SetsApart(script)
        BY <2>3
      <4>4. Legible(script[n], v, Texts(script))
        BY <2>3, <4>2, <4>3, StoredIsLegible
      <4> QED
        BY <1>1, <2>4, <4>1, <4>4
    <3> QED
      BY <3>1, <3>2
  <2>6. Answers(script[n], ReplyTo(r, read))
    BY <1>1, <1>6, <2>3, <2>4, <2>5, ReplyIsProper
  <2>7. RepliesInv'
    BY <1>3, <1>4, <2>1, <2>6, RepliesStep
  <2> QED
    BY <1>5, <2>2, <2>7 DEF ShownInv
<1> QED
  BY <1>7, <1>8

\* A call that throws.
LEMMA CallThrowsShown ==
  ASSUME IInv, ShownInv, NEW w \in Workers, CallThrows(w)
  PROVE  ShownInv'
<1>1. /\ job[w] # NoJob /\ script' = script
      /\ \/ store' = store
         \/ Apply(w, Calls(script[job[w].n])[job[w].made + 1])
      /\ Answer(w, InternalError)
  BY DEF CallThrows
<1>2. ShapeInv /\ StoreInv /\ ReadsInv /\ RepliesInv
  BY DEF IInv, ShownInv
<1>3. StoreInv'
  BY <1>1, <1>2, StoreStep
<1>4. Reply(job[w].n, InternalError) /\ job' = [job EXCEPT ![w] = NoJob]
  BY <1>1 DEF Answer
<1>5. ReadsInv'
  BY <1>1, <1>2, <1>4, ReadsDone
<1>6. Answers(script[job[w].n], InternalError)
  BY LineIsProper DEF InternalError, Answers
<1>7. RepliesInv'
  BY <1>1, <1>2, <1>4, <1>6, RepliesStep
<1> QED
  BY <1>3, <1>5, <1>7 DEF ShownInv

\* A call that reports a failure by its status.
LEMMA CallFailsShown ==
  ASSUME IInv, ShownInv, NEW w \in Workers, CallFails(w)
  PROVE  ShownInv'
<1>1. PICK r : r = script[job[w].n]
  OBVIOUS
<1>2. PICK status :
        /\ job[w] # NoJob /\ Command(r) \in {"LTRIM", "EXPIRE"} /\ script' = script
        /\ Answer(w, StatusError(status))
        /\ store' = store \/ Apply(w, Calls(r)[1])
  BY <1>1 DEF CallFails
<1>3. ShapeInv /\ StoreInv /\ ReadsInv /\ RepliesInv
  BY DEF IInv, ShownInv
<1>4. job[w].made + 1 = 1
  <2>1. job[w].made \in Nat /\ job[w].made < Len(Calls(r)) /\ IsSequence(r) /\ ArgumentsOk(r)
    BY <1>1, <1>2, <1>3, JobIs
  <2>2. Len(Calls(r)) = 1
    BY <1>2, <2>1, CallsIs
  <2> QED
    BY <2>1, <2>2
<1>5. store' = store \/ Apply(w, Calls(script[job[w].n])[job[w].made + 1])
  BY <1>1, <1>2, <1>4
<1>6. StoreInv'
  BY <1>2, <1>3, <1>5, StoreStep
<1>7. Reply(job[w].n, StatusError(status)) /\ job' = [job EXCEPT ![w] = NoJob]
  BY <1>2 DEF Answer
<1>8. ReadsInv'
  BY <1>2, <1>3, <1>7, ReadsDone
<1>9. Answers(script[job[w].n], StatusError(status))
  BY LineIsProper DEF StatusError, Answers
<1>10. RepliesInv'
  BY <1>2, <1>3, <1>7, <1>9, RepliesStep
<1> QED
  BY <1>6, <1>8, <1>10 DEF ShownInv

\* A request is taken: a worker that has read nothing, or an error.
LEMMA TakeShown ==
  ASSUME IInv, ShownInv, NEW w \in Workers, Take(w)
  PROVE  ShownInv'
<1>1. PICK n : n = taken + 1
  OBVIOUS
<1>2. /\ script' = script /\ store' = store
      /\ \/ job' = [job EXCEPT ![w] = [NoJob EXCEPT !.n = n]] /\ replies' = replies
         \/ Reply(n, UsageError) /\ job' = job
  BY <1>1 DEF Take
<1>3. ShapeInv /\ StoreInv /\ ReadsInv /\ RepliesInv
  BY DEF IInv, ShownInv
<1>4. StoreInv'
  BY <1>2, <1>3 DEF StoreInv
<1>5. CASE job' = [job EXCEPT ![w] = [NoJob EXCEPT !.n = n]] /\ replies' = replies
  <2>1. DOMAIN job = Workers
    BY <1>3 DEF ShapeInv
  <2>2. /\ job'[w] = [NoJob EXCEPT !.n = n]
        /\ \A v \in Workers : v # w => job'[v] = job[v]
    BY <1>5, <2>1
  <2>3. DOMAIN job'[w].read = {}
    BY <2>2 DEF NoJob
  <2>4. ReadsInv'
    BY <1>2, <1>3, <2>2, <2>3 DEF ReadsInv
  <2>5. RepliesInv'
    BY <1>2, <1>3, <1>5 DEF RepliesInv
  <2> QED
    BY <1>4, <2>4, <2>5 DEF ShownInv
<1>6. CASE Reply(n, UsageError) /\ job' = job
  <2>1. ReadsInv'
    BY <1>2, <1>3, <1>6 DEF ReadsInv
  <2>2. Answers(script[n], UsageError)
    BY LineIsProper DEF UsageError, Answers
  <2>3. RepliesInv'
    BY <1>2, <1>3, <1>6, <2>2, RepliesStep
  <2> QED
    BY <1>4, <2>1, <2>3 DEF ShownInv
<1> QED
  BY <1>2, <1>5, <1>6

\* Nothing has been stored, read or answered to begin with.
LEMMA InitShown ==
  ASSUME Init
  PROVE  ShownInv
<1>1. job = [w \in Workers |-> NoJob] /\ store = [k \in Keys |-> Absent] /\ replies = << >>
  BY DEF Init
<1>2. StoreInv
  BY <1>1, AbsentStored DEF StoreInv
<1>3. ReadsInv
  BY <1>1 DEF ReadsInv
<1>4. RepliesInv
  BY <1>1 DEF RepliesInv
<1> QED
  BY <1>2, <1>3, <1>4 DEF ShownInv

\* Every step keeps what is stored, read and answered so.
LEMMA StepShown ==
  ASSUME \A s \in Scripts : SetsApart(s), IInv, ShownInv, [Next]_vars
  PROVE  ShownInv'
<1>1. ASSUME NEW w \in Workers, WorkerStep(w)
      PROVE  ShownInv'
  <2>1. CASE Take(w)
    BY <2>1, TakeShown
  <2>2. CASE CallReturns(w)
    BY <2>2, CallReturnsShown
  <2>3. CASE CallThrows(w)
    BY <2>3, CallThrowsShown
  <2>4. CASE CallFails(w)
    BY <2>4, CallFailsShown
  <2> QED
    BY <1>1, <2>1, <2>2, <2>3, <2>4 DEF WorkerStep
<1>2. ASSUME NEW k \in Keys, Expire(k)
      PROVE  ShownInv'
  <2>1. /\ script' = script /\ job' = job /\ replies' = replies
        /\ store' = [store EXCEPT ![k] = Absent]
    BY <1>2 DEF Expire
  <2>2. DOMAIN store = Keys
    BY DEF ShownInv, StoreInv
  <2>3. DOMAIN store' = Keys /\ \A m \in Keys : store'[m] = IF m = k THEN Absent ELSE store[m]
    BY <2>1, <2>2
  <2>4. StoreInv'
    BY <2>1, <2>3, AbsentStored DEF ShownInv, StoreInv
  <2>5. ReadsInv' /\ RepliesInv'
    BY <2>1 DEF ShownInv, ReadsInv, RepliesInv
  <2> QED
    BY <2>4, <2>5 DEF ShownInv
<1>3. CASE UNCHANGED vars
  BY <1>3 DEF vars, ShownInv, StoreInv, ReadsInv, RepliesInv
<1> QED
  BY <1>1, <1>2, <1>3 DEF Next

(***************************************************************************)
(* The theorems.                                                           *)
(***************************************************************************)

\* The inductive invariant holds throughout.
THEOREM HandlersInvariant == Spec => []IInv
<1>1. Init => IInv
  BY InitInv
<1>2. IInv /\ [Next]_vars => IInv'
  BY StepInv
<1> QED
  BY <1>1, <1>2, PTL DEF Spec

\* The state has its shape, and the index of getTree is within pTreeList.
THEOREM TypeCorrect == Spec => []TypeOK
<1>1. IInv => TypeOK
  BY DEF IInv, ShapeInv, TypeOK
<1> QED
  BY <1>1, HandlersInvariant, PTL

\* A push applies its elements in their order, each once, with no hole, and all of
\* them before it answers without an error: whatever other workers do and whichever
\* call fails (handle_rpush_request, handle_lpush_request).
THEOREM PushesInOrder == Spec => []PushAppliesPrefix
<1>1. IInv => PushAppliesPrefix
  BY DEF IInv, PushInv
<1> QED
  BY <1>1, HandlersInvariant, PTL

\* A request a worker took is with exactly that worker until it is answered: none
\* is dropped and none is handled twice (processer_worker).
THEOREM NoneDropped == Spec => []TakenUntilAnswered
<1>1. ASSUME IInv
      PROVE  TakenUntilAnswered
  <2> SUFFICES ASSUME NEW n \in DOMAIN script, NEW holders,
                      holders = {w \in Workers : job[w].n = n}
               PROVE  IF n <= taken /\ n \notin DOMAIN replies THEN Cardinality(holders) = 1
                      ELSE holders = {}
    BY DEF TakenUntilAnswered
  <2>1. /\ n \in Nat \ {0} /\ taken \in Nat
        /\ \A w \in Workers : job[w] = NoJob \/ job[w].n \in 1 .. taken
        /\ DOMAIN replies \subseteq 1 .. taken /\ NoJob.n = 0
    BY <1>1, ScriptIs DEF IInv, ShapeInv, NoJob
  <2>2. CASE n <= taken /\ n \notin DOMAIN replies
    <3>1. PICK w \in Workers : job[w].n = n
      BY <1>1, <2>1, <2>2 DEF IInv, HeldInv
    <3>2. job[w] # NoJob
      BY <2>1, <3>1
    <3>3. holders = {w}
      BY <1>1, <3>1, <3>2 DEF IInv, HeldInv
    <3> QED
      BY <2>2, <3>3, FS_Singleton
  <2>3. CASE ~(n <= taken /\ n \notin DOMAIN replies)
    <3>1. \A w \in Workers : job[w].n # n
      BY <1>1, <2>1, <2>3 DEF IInv, HeldInv
    <3> QED
      BY <2>3, <3>1
  <2> QED
    BY <2>2, <2>3
<1>2. IInv => TakenUntilAnswered
  BY <1>1
<1> QED
  BY <1>2, HandlersInvariant, PTL

\* A client that reads RESP takes exactly one reply from each: whatever requests
\* are made of, CR LF in arguments included, whatever the cluster returns and
\* whichever call fails (encoder::encode, the handlers).  Left out are the values of
\* MGET with a CR LF in them, and by the hypothesis the requests for which the store
\* of the model has no meaning, the GET of a set that may be empty.
THEOREM RepliesReadWhole ==
  ASSUME \A s \in Scripts : SetsApart(s)
  PROVE  Spec => []OneReplyEach
<1>1. Init => ShownInv
  BY InitShown
<1>2. IInv /\ ShownInv /\ [Next]_vars => ShownInv'
  BY StepShown
<1>3. ShownInv => OneReplyEach
  BY DEF ShownInv, RepliesInv, OneReplyEach, Answers, Proper
<1> QED
  BY <1>1, <1>2, <1>3, HandlersInvariant, PTL DEF Spec
=============================================================================
