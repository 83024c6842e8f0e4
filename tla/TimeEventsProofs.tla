-------------------------- MODULE TimeEventsProofs --------------------------
(* Theorems about TimeEvents for any clock, any delays, any width of int   *)
(* and any number of timers.                                               *)
EXTENDS TimeEvents, FiniteSetTheorems, WellFoundedInduction, TLAPS

(***************************************************************************)
(* The inductive invariant.                                                *)
(***************************************************************************)

\* The places of the loop; those inside processTimeEvents; the places of the list.
Phases == {"top", "asleep", "files", "walk", "firing", "finalizing"}
Walking == phase \in {"walk", "firing", "finalizing"}
Indices == 1 .. Len(list)

\* The shape of the state: no timer is on the list twice.
ShapeInv ==
  /\ clock \in Times
  /\ asleep \in Ints
  /\ phase \in Phases
  /\ timeEventNextId \in 0 .. MaxTimers
  /\ list \in Seq(Created)
  /\ \A i, j \in Indices : list[i] = list[j] => i = j
  /\ when \in [0 .. MaxTimers - 1 -> Nat]
  /\ ~Walking => te = Null
  /\ phase \in {"firing", "finalizing"} => te \in Created /\ te <= maxId

\* Timers that are deleted stay so; those that are not are neither freed nor
\* gone.  The timers a pass after a skew has still to call are all due.
TimerInv ==
  /\ deleted \subseteq Created
  /\ freed \subseteq Created
  /\ gone \subseteq deleted
  /\ forced \subseteq Created \ deleted
  /\ \A n \in forced : when[n] < TicksPerSecond
  /\ phase = "firing" => te \notin forced
  /\ ~Walking => forced = {}

\* The timer the walk comes to next.
Cursor == IF phase = "finalizing" THEN next ELSE te

\* The walk divides the list in two.  The first k timers are behind it: prev is
\* the last of them, and without prev a finalizer has created them all.  Those
\* before it are older than the pass, and those it must call are among them.
Split(k) ==
  /\ Cursor = IF k = Len(list) THEN Null ELSE list[k + 1]
  /\ \A i \in Indices : i > k => list[i] <= maxId
  /\ \A n \in forced : \E i \in Indices : i > k /\ list[i] = n
  /\ prev # Null => k > 0 /\ list[k] = prev
  /\ prev = Null /\ phase # "firing" => \A i \in Indices : i <= k => list[i] \in byFinalizer

\* During a walk the list is divided at its cursor.
WalkInv == Walking => \E k \in 0 .. Len(list) : Split(k)

\* The inductive invariant.
IInv == ShapeInv /\ TimerInv /\ WalkInv /\ NoTimerLost /\ NeverOversleeps

(***************************************************************************)
(* Lists.                                                                  *)
(***************************************************************************)

\* The elements of a list.
LEMMA ToSetIs ==
  ASSUME NEW S, NEW l \in Seq(S)
  PROVE  \A n : n \in ToSet(l) <=> \E i \in 1 .. Len(l) : l[i] = n
BY DEF ToSet

\* The position of a timer is the one place it has.
LEMMA PositionIs ==
  ASSUME ShapeInv, NEW i \in Indices
  PROVE  Position(list[i]) = i
<1>1. DOMAIN list = Indices
  BY DEF ShapeInv, Indices
<1>2. \E j \in DOMAIN list : list[j] = list[i]
  BY <1>1
<1>3. Position(list[i]) \in Indices /\ list[Position(list[i])] = list[i]
  BY <1>1, <1>2 DEF Position
<1> QED
  BY <1>3 DEF ShapeInv

\* What follows a timer.
LEMMA AfterIs ==
  ASSUME ShapeInv, NEW k \in Nat, k < Len(list)
  PROVE  After(list[k + 1]) = IF k + 1 = Len(list) THEN Null ELSE list[k + 1 + 1]
<1>1. k + 1 \in Indices
  BY DEF ShapeInv, Indices
<1>2. Position(list[k + 1]) = k + 1
  BY <1>1, PositionIs
<1> QED
  BY <1>2 DEF After

\* Two lists put together.
LEMMA ConcatIs ==
  ASSUME NEW S, NEW a \in Seq(S), NEW b \in Seq(S)
  PROVE  /\ a \o b \in Seq(S) /\ Len(a \o b) = Len(a) + Len(b)
         /\ \A i \in 1 .. Len(a) : (a \o b)[i] = a[i]
         /\ \A i \in 1 .. Len(b) : (a \o b)[Len(a) + i] = b[i]
  OBVIOUS

\* A timer that becomes the head moves the others by one place.
LEMMA LinkIs ==
  ASSUME NEW S, list \in Seq(S), NEW n \in S
  PROVE  /\ Link(n) \in Seq(S) /\ Len(Link(n)) = Len(list) + 1 /\ Link(n)[1] = n
         /\ \A i \in 1 .. Len(list) : Link(n)[i + 1] = list[i]
         /\ \A i \in 2 .. Len(list) + 1 : Link(n)[i] = list[i - 1]
BY DEF Link

\* What is left of the list when its timer k + 1 is taken off: without prev what
\* follows it, else all the others.
LEMMA WithoutTeIs ==
  ASSUME ShapeInv, NEW k \in Nat, k < Len(list), te = list[k + 1],
         prev # Null => k > 0 /\ list[k] = prev
  PROVE  /\ WithoutTe \in Seq(Created)
         /\ prev = Null =>
              /\ Len(WithoutTe) = Len(list) - (k + 1)
              /\ \A i \in 1 .. Len(WithoutTe) : WithoutTe[i] = list[i + (k + 1)]
         /\ prev # Null =>
              /\ Len(WithoutTe) = Len(list) - 1
              /\ \A i \in 1 .. Len(WithoutTe) :
                   WithoutTe[i] = IF i <= k THEN list[i] ELSE list[i + 1]
<1> DEFINE tail == SubSeq(list, k + 2, Len(list))
<1>1. Len(list) \in Nat /\ list \in Seq(Created)
  BY DEF ShapeInv
<1>2. Position(te) = k + 1
  BY <1>1, PositionIs DEF Indices
<1>3. /\ tail \in Seq(Created) /\ Len(tail) = Len(list) - (k + 1)
      /\ \A i \in 1 .. Len(tail) : tail[i] = list[i + (k + 1)]
  <2>1. \A i \in k + 2 .. Len(list) : list[i] \in Created
    BY <1>1
  <2> QED
    BY <1>1, <2>1
<1>4. CASE prev = Null
  <2>1. WithoutTe = << >> \o tail
    BY <1>2, <1>4 DEF WithoutTe
  <2>2. << >> \o tail = tail
    BY <1>3
  <2> QED
    BY <1>3, <1>4, <2>1, <2>2
<1>5. CASE prev # Null
  <2> DEFINE front == SubSeq(list, 1, k)
  <2>1. Position(prev) = k
    BY <1>1, <1>5, PositionIs DEF Indices
  <2>2. WithoutTe = front \o tail
    <3>1. Position(te) + 1 = k + 2
      BY <1>2
    <3>2. WithoutTe = SubSeq(list, 1, Position(prev)) \o SubSeq(list, Position(te) + 1, Len(list))
      BY <1>5, Zenon DEF WithoutTe
    <3> QED
      BY <2>1, <3>1, <3>2, Zenon
  <2>3. front \in Seq(Created) /\ Len(front) = k /\ \A i \in 1 .. k : front[i] = list[i]
    <3>1. \A i \in 1 .. k : list[i] \in Created
      BY <1>1
    <3>2. front \in Seq(Created) /\ Len(front) = k
      BY <1>1, <3>1
    <3>3. \A i \in 1 .. k : front[i] = list[i]
      BY <1>1
    <3> QED
      BY <3>2, <3>3
  <2> HIDE DEF front, tail
  <2>4. /\ front \o tail \in Seq(Created) /\ Len(front \o tail) = Len(list) - 1
        /\ \A i \in 1 .. Len(list) - 1 :
             (front \o tail)[i] = IF i <= k THEN list[i] ELSE list[i + 1]
    <3>1. front \o tail \in Seq(Created) /\ Len(front \o tail) = Len(list) - 1
      <4>1. front \in Seq(Created) /\ tail \in Seq(Created)
        BY <1>3, <2>3
      <4>2. front \o tail \in Seq(Created) /\ Len(front \o tail) = Len(front) + Len(tail)
        BY <4>1, ConcatIs
      <4>3. Len(front) + Len(tail) = Len(list) - 1
        BY <1>1, <1>3, <2>3
      <4> QED
        BY <4>2, <4>3
    <3>2. ASSUME NEW i \in 1 .. Len(list) - 1
          PROVE  (front \o tail)[i] = IF i <= k THEN list[i] ELSE list[i + 1]
      <4>1. CASE i <= k
        BY <1>3, <2>3, <4>1, ConcatIs
      <4>2. CASE i > k
        <5>1. i - k \in 1 .. Len(tail) /\ (i - k) + (k + 1) = i + 1
          BY <1>1, <1>3, <4>2
        <5>2. tail[i - k] = list[(i - k) + (k + 1)]
          BY <1>3, <5>1
        <5>3. (front \o tail)[Len(front) + (i - k)] = tail[i - k]
          BY <1>3, <2>3, <5>1, ConcatIs
        <5>4. Len(front) + (i - k) = i
          BY <2>3, <4>2
        <5>5. (front \o tail)[i] = list[i + 1]
          BY <5>1, <5>2, <5>3, <5>4, Zenon
        <5> QED
          BY <4>2, <5>5
      <4>3. i <= k \/ i > k
        BY <1>1
      <4> QED
        BY <4>1, <4>2, <4>3, Zenon
    <3> QED
      BY <3>1, <3>2
  <2> QED
    BY <1>5, <2>2, <2>4
<1> QED
  BY <1>4, <1>5

(***************************************************************************)
(* The steps that leave the list and the walk alone.                       *)
(***************************************************************************)

\* Neither ids nor the timers on the list are Null.
LEMMA NotNull ==
  ASSUME ShapeInv
  PROVE  /\ timeEventNextId \in Nat /\ Len(list) \in Nat /\ Null \notin Created
         /\ Created \subseteq 0 .. MaxTimers - 1 /\ Created \subseteq Nat
         /\ \A i \in Indices : list[i] \in Created /\ list[i] # Null
         /\ \A n : n \in ToSet(list) <=> \E i \in Indices : list[i] = n
<1>1. timeEventNextId \in Nat /\ timeEventNextId <= MaxTimers /\ list \in Seq(Created)
  BY TimeAssumption DEF ShapeInv
<1>2. Null \notin Created /\ Created \subseteq 0 .. MaxTimers - 1 /\ Created \subseteq Nat
  BY <1>1, TimeAssumption DEF Created, Null
<1>3. Len(list) \in Nat /\ \A i \in Indices : list[i] \in Created
  BY <1>1 DEF Indices
<1>4. \A n : n \in ToSet(list) <=> \E i \in Indices : list[i] = n
  BY <1>1, ToSetIs DEF Indices
<1> QED
  BY <1>1, <1>2, <1>3, <1>4

\* What the loop and the kernel do while no timer is handled leaves the timers
\* as they are.
LEMMA TimersUnchanged ==
  ASSUME ShapeInv, TimerInv, WalkInv, NoTimerLost,
         UNCHANGED <<listVars, te, histVars, forced>>, phase' \in Phases,
         \/ phase' = phase /\ UNCHANGED walkVars
         \/ ~Walking' /\ (~Walking \/ (te = Null /\ phase = "walk")),
         clock' \in Times, asleep' \in Ints
  PROVE  ShapeInv' /\ TimerInv' /\ WalkInv' /\ NoTimerLost'
<1>1. /\ list' = list /\ timeEventNextId' = timeEventNextId /\ when' = when
      /\ deleted' = deleted /\ te' = te /\ forced' = forced
      /\ freed' = freed /\ gone' = gone /\ byFinalizer' = byFinalizer
  BY DEF listVars, histVars
<1>2. Created' = Created /\ Indices' = Indices /\ ToSet(list)' = ToSet(list)
  BY <1>1 DEF Created, Indices
<1>3. CASE phase' = phase /\ UNCHANGED walkVars
  <2>1. Walking' = Walking /\ Cursor' = Cursor /\ prev' = prev /\ maxId' = maxId
    BY <1>3 DEF Walking, Cursor, walkVars
  <2>2. ShapeInv'
    BY <1>1, <1>2, <1>3, <2>1 DEF ShapeInv
  <2>3. TimerInv'
    BY <1>1, <1>2, <1>3, <2>1 DEF TimerInv
  <2>4. WalkInv'
    BY <1>1, <1>2, <1>3, <2>1 DEF WalkInv, Split
  <2>5. NoTimerLost'
    BY <1>1, <1>2, <1>3 DEF NoTimerLost
  <2> QED
    BY <2>2, <2>3, <2>4, <2>5
<1>4. CASE ~Walking' /\ (~Walking \/ (te = Null /\ phase = "walk"))
  <2>1. te = Null /\ phase \notin {"firing", "finalizing"}
        /\ phase' \notin {"firing", "finalizing"}
    BY <1>4 DEF ShapeInv, Walking
  <2>2. forced = {}
    <3>1. CASE ~Walking
      BY <3>1 DEF TimerInv
    <3>2. CASE te = Null /\ phase = "walk"
      <4>1. PICK k \in 0 .. Len(list) : Split(k)
        BY <3>2 DEF WalkInv, Walking
      <4>2. k = Len(list)
        <5>1. Cursor = Null
          BY <3>2 DEF Cursor
        <5>2. k # Len(list) => k + 1 \in Indices
          BY <4>1, NotNull DEF Indices
        <5> QED
          BY <4>1, <5>1, <5>2, NotNull DEF Split
      <4> QED
        BY <4>1, <4>2, NotNull DEF Split, Indices
    <3> QED
      BY <1>4, <3>1, <3>2
  <2>3. ShapeInv'
    BY <1>1, <1>2, <1>4, <2>1 DEF ShapeInv
  <2>4. TimerInv'
    BY <1>1, <1>2, <1>4, <2>1, <2>2 DEF TimerInv
  <2>5. WalkInv'
    BY <1>4 DEF WalkInv
  <2>6. NoTimerLost'
    BY <1>1, <1>2, <2>1 DEF NoTimerLost
  <2> QED
    BY <2>3, <2>4, <2>5, <2>6
<1> QED
  BY <1>3, <1>4

\* An int is the number it was made from when that fits, and never a larger one.
LEMMA AsIntIs ==
  ASSUME NEW ms \in Nat
  PROVE  AsInt(ms) \in Ints /\ AsInt(ms) <= ms /\ (ms < IntLimit => AsInt(ms) = ms)
<1>1. PICK w \in Nat \ {0} : w = IntLimit
  BY TimeAssumption
<1>2. PICK b \in Nat : b = 2 * w /\ b > 0
  BY <1>1
<1>3. PICK a \in Nat : a = ms + w
  BY <1>1
<1>4. PICK r \in Nat : r = a % b /\ r < b
  BY <1>2, <1>3
<1>5. PICK q \in Int : q = a \div b /\ a = b * q + r
  BY <1>2, <1>3, <1>4
<1>6. q >= 0
  BY <1>2, <1>3, <1>4, <1>5
<1>7. b * q >= 0
  BY <1>2, <1>6
<1>8. r <= a /\ (a < b => r = a)
  BY <1>2, <1>3, <1>4, <1>5, <1>6, <1>7
<1>9. AsInt(ms) = r - w
  BY <1>1, <1>2, <1>3, <1>4 DEF AsInt
<1> QED
  BY <1>1, <1>2, <1>3, <1>4, <1>8, <1>9 DEF Ints

\* The loop sleeps no longer than until the first timer is due, unless the wait
\* is too long.
LEMMA TimeoutIs ==
  ASSUME ShapeInv
  PROVE  /\ Timeout \in Ints
         /\ \A n \in Live : \/ list # << >> /\ Until(Nearest) >= IntLimit /\ Timeout < 0
                            \/ Timeout = 0
                            \/ Timeout > 0 /\ clock + Timeout <= when[n]
<1> DEFINE ids == ToSet(list)
<1>1. ids \subseteq Created /\ Live \subseteq ids
  BY NotNull DEF Live
<1>2. \A n \in ids : when[n] \in Nat
  BY <1>1, NotNull DEF ShapeInv
<1>3. clock \in Nat
  BY TimeAssumption DEF ShapeInv, Times
<1>4. CASE list = << >>
  <2>1. ids = {}
    BY <1>4 DEF ToSet
  <2>2. Timeout \in Ints
    BY <1>4, TimeAssumption DEF Timeout, Forever, Ints
  <2> QED
    BY <1>1, <2>1, <2>2
<1>5. CASE list # << >>
  <2> DEFINE T == {when[n] : n \in ids}
  <2>1. list[1] \in ids
    <3>1. Len(list) # 0
      BY <1>5 DEF ShapeInv
    <3>2. 1 \in Indices
      BY <3>1, NotNull DEF Indices
    <3> QED
      BY <3>2, NotNull
  <2>2. T \subseteq Nat /\ T # {}
    BY <1>2, <2>1
  <2>3. PICK x \in T : \A y \in T : ~(<<y, x>> \in OpToRel(<, Nat))
    <3> HIDE DEF T
    <3> QED
      BY <2>2, WFMin, NatLessThanWellFounded, Zenon
  <2>4. \A y \in T : ~(y < x)
    BY <2>2, <2>3 DEF OpToRel
  <2>5. \E n \in ids : \A m \in ids : when[n] <= when[m]
    <3>1. PICK n \in ids : x = when[n]
      OBVIOUS
    <3>2. \A m \in ids : when[n] <= when[m]
      BY <1>2, <2>4, <3>1
    <3> QED
      BY <3>2
  <2>6. Nearest \in ids /\ \A m \in ids : when[Nearest] <= when[m]
    BY <2>5 DEF Nearest
  <2>7. PICK due \in Nat : due = when[Nearest]
    BY <1>2, <2>6
  <2>8. PICK wait \in Nat : /\ wait = Until(Nearest)
                            /\ wait = IF due > clock THEN due - clock ELSE 0
    BY <1>3, <2>7 DEF Until
  <2>9. Timeout = AsInt(wait)
    BY <1>5, <2>8, Zenon DEF Timeout
  <2>10. Timeout \in Ints /\ Timeout <= wait /\ (wait < IntLimit => Timeout = wait)
    BY <2>9, AsIntIs
  <2>11. PICK limit \in Nat : limit = IntLimit
    BY TimeAssumption
  <2>12. Timeout \in Int
    BY <2>10, <2>11 DEF Ints
  <2>13. ASSUME NEW n \in Live
         PROVE  \/ list # << >> /\ Until(Nearest) >= IntLimit /\ Timeout < 0
                \/ Timeout = 0
                \/ Timeout > 0 /\ clock + Timeout <= when[n]
    <3>1. n \in ids /\ due <= when[n] /\ when[n] \in Nat
      BY <1>1, <1>2, <2>6, <2>7
    <3> QED
      BY <1>3, <1>5, <2>8, <2>10, <2>11, <2>12, <3>1
  <2> QED
    BY <2>10, <2>13
<1> QED
  BY <1>4, <1>5

\* epoll_wait is called with the time of the nearest timer.
LEMMA SleepInv == ASSUME IInv, Sleep PROVE IInv'
<1>1. /\ clock' = clock /\ phase = "top" /\ phase' = "asleep" /\ asleep' = Timeout
      /\ list # << >> /\ Until(Nearest) >= IntLimit /\ Timeout < 0 => tooLong'
      /\ UNCHANGED <<listVars, te, histVars, forced>>
      /\ list' = list /\ deleted' = deleted /\ when' = when
  BY DEF Sleep, listVars, walkVars
<1>2. ~Walking /\ ~Walking' /\ phase' \in Phases
  BY <1>1 DEF Walking, Phases
<1>3. asleep' \in Ints /\ clock' \in Times
  BY <1>1, TimeoutIs DEF IInv, ShapeInv
<1>4. ShapeInv' /\ TimerInv' /\ WalkInv' /\ NoTimerLost'
  BY <1>1, <1>2, <1>3, TimersUnchanged DEF IInv
<1>5. \A n \in Live : \/ tooLong'
                      \/ asleep' >= 0 /\ (asleep' = 0 \/ clock' + asleep' <= when'[n])
  <2>1. ShapeInv
    BY DEF IInv
  <2>2. /\ Timeout \in Ints
        /\ \A n \in Live : \/ list # << >> /\ Until(Nearest) >= IntLimit /\ Timeout < 0
                           \/ Timeout = 0
                           \/ Timeout > 0 /\ clock + Timeout <= when[n]
    BY <2>1, TimeoutIs
  <2>3. PICK timeout \in Int : timeout = Timeout
    BY <2>2, TimeAssumption DEF Ints
  <2> QED
    BY <1>1, <2>2, <2>3
<1>6. NeverOversleeps'
  BY <1>1, <1>5 DEF NeverOversleeps, SleepsForever, Live
<1> QED
  BY <1>4, <1>6 DEF IInv

\* It returns at its time or for a file event.
LEMMA WakeInv == ASSUME IInv, TimeIsUp \/ FileEvent PROVE IInv'
<1>1. /\ clock' = clock /\ phase = "asleep" /\ phase' = "files" /\ asleep' = 0
      /\ UNCHANGED <<listVars, te, histVars, forced>>
  BY DEF TimeIsUp, FileEvent, kernelVars, walkVars
<1>2. ~Walking /\ ~Walking' /\ phase' \in Phases
  BY <1>1 DEF Walking, Phases
<1>3. asleep' \in Ints /\ clock' \in Times
  BY <1>1, TimeAssumption DEF IInv, ShapeInv, Ints
<1>4. ShapeInv' /\ TimerInv' /\ WalkInv' /\ NoTimerLost'
  BY <1>1, <1>2, <1>3, TimersUnchanged DEF IInv
<1>5. NeverOversleeps'
  BY <1>1 DEF NeverOversleeps
<1> QED
  BY <1>4, <1>5 DEF IInv

\* A pass that has come to the end of the list is over.
LEMMA EndPassInv == ASSUME IInv, EndPass PROVE IInv'
<1>1. /\ clock' = clock /\ asleep' = asleep /\ phase = "walk" /\ te = Null /\ phase' = "top"
      /\ UNCHANGED <<listVars, te, histVars, forced>>
  BY DEF EndPass, kernelVars
<1>2. ~Walking' /\ phase' \in Phases /\ clock' \in Times /\ asleep' \in Ints
  BY <1>1 DEF Walking, Phases, IInv, ShapeInv
<1>3. ShapeInv' /\ TimerInv' /\ WalkInv' /\ NoTimerLost'
  BY <1>1, <1>2, TimersUnchanged DEF IInv
<1>4. NeverOversleeps'
  BY <1>1 DEF NeverOversleeps
<1> QED
  BY <1>3, <1>4 DEF IInv

\* Time passes, and the loop's sleep with it.
LEMMA TickInv == ASSUME IInv, Tick PROVE IInv'
<1>1. /\ phase' = phase /\ steady' = steady /\ tooLong' = tooLong
      /\ UNCHANGED <<listVars, walkVars, te, histVars, forced>>
      /\ list' = list /\ deleted' = deleted /\ when' = when
  BY DEF Tick, listVars, walkVars
<1>2. clock \in TicksPerSecond .. MaxClock /\ asleep \in -IntLimit .. IntLimit - 1
  BY DEF IInv, ShapeInv, Times, Ints
<1>3. clock' \in TicksPerSecond .. MaxClock /\ clock' \in {clock, clock + 1}
  BY <1>2, TimeAssumption DEF Tick
<1>4. /\ asleep' \in Ints
      /\ asleep' = IF phase = "asleep" /\ asleep > 0 THEN asleep - 1 ELSE asleep
  BY <1>2, TimeAssumption DEF Tick, Ints
<1>5. ShapeInv' /\ TimerInv' /\ WalkInv' /\ NoTimerLost'
  BY <1>1, <1>3, <1>4, TimersUnchanged DEF IInv, ShapeInv, Times
<1>6. NeverOversleeps'
  <2> SUFFICES ASSUME phase = "asleep", steady, ~tooLong, NEW n \in Live
               PROVE  asleep' >= 0 /\ (asleep' = 0 \/ clock' + asleep' <= when[n])
    BY <1>1 DEF NeverOversleeps, SleepsForever, Live
  <2>1. asleep >= 0 /\ (asleep = 0 \/ clock + asleep <= when[n])
    BY DEF IInv, NeverOversleeps, SleepsForever
  <2>2. when[n] \in Nat
    BY NotNull DEF IInv, ShapeInv, Live
  <2> QED
    BY <1>2, <1>3, <1>4, <2>1, <2>2, TimeAssumption
<1> QED
  BY <1>5, <1>6 DEF IInv

\* The clock is set to another time.
LEMMA SetClockInv == ASSUME IInv, NEW t \in Times, SetClock(t) PROVE IInv'
<1>1. /\ phase' = phase /\ asleep' = asleep /\ clock' = t /\ steady' = (phase # "asleep")
      /\ UNCHANGED <<listVars, walkVars, te, histVars, forced>>
  BY DEF SetClock, walkVars
<1>2. ShapeInv' /\ TimerInv' /\ WalkInv' /\ NoTimerLost'
  BY <1>1, TimersUnchanged DEF IInv, ShapeInv
<1>3. NeverOversleeps'
  BY <1>1 DEF NeverOversleeps
<1> QED
  BY <1>2, <1>3 DEF IInv

(***************************************************************************)
(* The steps of handlers.                                                  *)
(***************************************************************************)

\* A timer is put at the head of the list, behind every walk.
LEMMA CreateInv == ASSUME IInv, NEW delay \in Delays, CreateTimeEvent(delay) PROVE IInv'
<1> DEFINE n == timeEventNextId
<1>1. /\ n \in Nat /\ n < MaxTimers /\ n \notin Created /\ list \in Seq(Created)
      /\ timeEventNextId' = n + 1 /\ Created' = Created \cup {n}
      /\ clock \in Nat /\ delay \in Nat
  BY NotNull, TimeAssumption DEF IInv, ShapeInv, CreateTimeEvent, Created, Times
<1>2. /\ phase \in {"files", "firing", "finalizing"} /\ phase' = phase /\ clock' = clock
      /\ asleep' = asleep /\ when' = [when EXCEPT ![n] = clock + delay] /\ deleted' = deleted
      /\ te' = te /\ prev' = prev /\ next' = next /\ maxId' = maxId /\ freed' = freed
      /\ gone' = gone /\ forced' = forced
      /\ byFinalizer' = IF phase = "finalizing" THEN byFinalizer \cup {n} ELSE byFinalizer
  BY DEF CreateTimeEvent, InHandler, kernelVars, walkVars
<1>3. /\ list' \in Seq(Created') /\ Len(list') = Len(list) + 1 /\ list'[1] = n
      /\ \A i \in 1 .. Len(list) : list'[i + 1] = list[i]
      /\ \A i \in 2 .. Len(list) + 1 : list'[i] = list[i - 1]
  <2>1. n \in Created' /\ list \in Seq(Created') /\ list' = Link(n)
    BY <1>1 DEF CreateTimeEvent
  <2> HIDE DEF n
  <2> QED
    BY <2>1, LinkIs
<1>4. Len(list) \in Nat /\ (\A i \in Indices : list[i] \in Created) /\ Indices' = 1 .. Len(list) + 1
  BY <1>3, NotNull DEF IInv, Indices
<1>5. ShapeInv'
  <2>1. \A i, j \in Indices' : list'[i] = list'[j] => i = j
    <3> TAKE i, j \in Indices'
    <3>1. i \in 1 .. Len(list) + 1 /\ j \in 1 .. Len(list) + 1
      BY <1>4
    <3>2. CASE i = 1 /\ j = 1
      BY <3>2
    <3>3. CASE i = 1 /\ j # 1
      <4>1. list'[j] = list[j - 1] /\ j - 1 \in Indices
        BY <1>3, <1>4, <3>1, <3>3 DEF Indices
      <4> QED
        BY <1>1, <1>3, <1>4, <3>3, <4>1
    <3>4. CASE i # 1 /\ j = 1
      <4>1. list'[i] = list[i - 1] /\ i - 1 \in Indices
        BY <1>3, <1>4, <3>1, <3>4 DEF Indices
      <4> QED
        BY <1>1, <1>3, <1>4, <3>4, <4>1
    <3>5. CASE i # 1 /\ j # 1
      <4>1. list'[i] = list[i - 1] /\ i - 1 \in Indices
        BY <1>3, <1>4, <3>1, <3>5 DEF Indices
      <4>2. list'[j] = list[j - 1] /\ j - 1 \in Indices
        BY <1>3, <1>4, <3>1, <3>5 DEF Indices
      <4>3. list[i - 1] = list[j - 1] => i - 1 = j - 1
        BY <4>1, <4>2 DEF IInv, ShapeInv
      <4> QED
        BY <1>4, <3>1, <4>1, <4>2, <4>3
    <3> QED
      BY <3>2, <3>3, <3>4, <3>5
  <2>2. when' \in [0 .. MaxTimers - 1 -> Nat]
    <3>1. when \in [0 .. MaxTimers - 1 -> Nat] /\ clock + delay \in Nat
      BY <1>1 DEF IInv, ShapeInv
    <3> QED
      BY <1>2, <3>1
  <2>3. timeEventNextId' \in 0 .. MaxTimers
    BY <1>1, TimeAssumption
  <2>4. Walking' = Walking
    BY <1>2 DEF Walking
  <2>5. clock' \in Times /\ asleep' \in Ints /\ phase' \in Phases
    BY <1>2 DEF IInv, ShapeInv
  <2>6. /\ ~Walking' => te' = Null
        /\ phase' \in {"firing", "finalizing"} => te' \in Created' /\ te' <= maxId'
    <3>1. ~Walking => te = Null
      BY DEF IInv, ShapeInv
    <3>2. phase \in {"firing", "finalizing"} => te \in Created /\ te <= maxId
      BY DEF IInv, ShapeInv
    <3> HIDE DEF n
    <3> QED
      BY <1>1, <1>2, <2>4, <3>1, <3>2
  <2> QED
    BY <1>3, <2>1, <2>2, <2>3, <2>5, <2>6 DEF ShapeInv
<1>6. TimerInv'
  <2>1. \A m \in forced : when'[m] = when[m]
    BY <1>1, <1>2, NotNull DEF IInv, ShapeInv, TimerInv
  <2>2. Walking' = Walking
    BY <1>2 DEF Walking
  <2> QED
    BY <1>1, <1>2, <2>1, <2>2 DEF IInv, TimerInv
<1>7. WalkInv'
  <2> SUFFICES ASSUME Walking' PROVE \E k \in 0 .. Len(list') : Split(k)'
    BY DEF WalkInv
  <2>1. Walking /\ Cursor' = Cursor
    BY <1>2 DEF Walking, Cursor
  <2>2. PICK k \in 0 .. Len(list) : Split(k)
    BY <2>1 DEF IInv, WalkInv
  <2>3. k \in Nat /\ k <= Len(list) /\ k + 1 \in 0 .. Len(list')
    BY <1>3, <1>4
  <2>4. Cursor' = IF k + 1 = Len(list') THEN Null ELSE list'[(k + 1) + 1]
    <3>1. CASE k = Len(list)
      BY <1>3, <2>1, <2>2, <3>1 DEF Split
    <3>2. CASE k # Len(list)
      <4>1. list'[(k + 1) + 1] = list[k + 1]
        BY <1>3, <1>4, <2>3, <3>2
      <4> QED
        BY <1>3, <1>4, <2>1, <2>2, <2>3, <3>2, <4>1 DEF Split
    <3> QED
      BY <3>1, <3>2
  <2>5. ASSUME NEW i \in Indices', i > k + 1 PROVE list'[i] <= maxId'
    <3>1. list'[i] = list[i - 1] /\ i - 1 \in Indices /\ i - 1 > k
      BY <1>3, <1>4, <2>3, <2>5 DEF Indices
    <3> QED
      BY <1>2, <2>2, <3>1 DEF Split
  <2>6. ASSUME NEW m \in forced' PROVE \E i \in Indices' : i > k + 1 /\ list'[i] = m
    <3>1. PICK i \in Indices : i > k /\ list[i] = m
      BY <1>2, <2>2, <2>6 DEF Split
    <3>2. list'[i + 1] = list[i] /\ i + 1 \in Indices' /\ i + 1 > k + 1
      BY <1>3, <1>4, <2>3, <3>1 DEF Indices
    <3> QED
      BY <3>1, <3>2
  <2>7. prev' # Null => k + 1 > 0 /\ list'[k + 1] = prev'
    BY <1>2, <1>3, <1>4, <2>2, <2>3 DEF Split
  <2>8. ASSUME prev' = Null, phase' # "firing", NEW i \in Indices', i <= k + 1
        PROVE  list'[i] \in byFinalizer'
    <3>1. phase = "finalizing"
      BY <1>2, <2>1, <2>8 DEF Walking
    <3>2. CASE i = 1
      BY <1>2, <1>3, <3>1, <3>2
    <3>3. CASE i # 1
      <4>1. list'[i] = list[i - 1] /\ i - 1 \in Indices /\ i - 1 <= k
        BY <1>3, <1>4, <2>3, <2>8, <3>3 DEF Indices
      <4>2. list[i - 1] \in byFinalizer
        BY <1>2, <2>2, <2>8, <4>1 DEF Split
      <4> QED
        BY <1>2, <3>1, <4>1, <4>2
    <3> QED
      BY <3>2, <3>3
  <2>9. Split(k + 1)'
    BY <2>4, <2>5, <2>6, <2>7, <2>8 DEF Split
  <2> QED
    BY <2>3, <2>9
<1>8. NoTimerLost'
  <2>1. ToSet(list)' = ToSet(list) \cup {n}
    <3>1. \A m : m \in ToSet(list)' <=> \E i \in Indices' : list'[i] = m
      BY <1>3, ToSetIs DEF Indices
    <3>2. \A m : m \in ToSet(list) <=> \E i \in Indices : list[i] = m
      BY NotNull DEF IInv
    <3>3. \A i \in Indices' : list'[i] = n \/ (i - 1 \in Indices /\ list'[i] = list[i - 1])
      BY <1>3, <1>4 DEF Indices
    <3>4. 1 \in Indices' /\ \A i \in Indices : i + 1 \in Indices' /\ list'[i + 1] = list[i]
      BY <1>3, <1>4 DEF Indices
    <3> HIDE DEF n
    <3> QED
      BY <1>3, <3>1, <3>2, <3>3, <3>4
  <2>2. freed \subseteq Created /\ (phase = "finalizing" => te \in Created)
    BY DEF IInv, TimerInv, ShapeInv
  <2>3. CASE phase = "finalizing"
    BY <1>1, <1>2, <2>1, <2>2, <2>3 DEF IInv, NoTimerLost
  <2>4. CASE phase # "finalizing"
    BY <1>1, <1>2, <2>1, <2>2, <2>4 DEF IInv, NoTimerLost
  <2> QED
    BY <2>3, <2>4
<1>9. NeverOversleeps'
  BY <1>2 DEF NeverOversleeps
<1> QED
  BY <1>5, <1>6, <1>7, <1>8, <1>9 DEF IInv

\* A timer is marked as deleted and stays on the list.
LEMMA DeleteInv == ASSUME IInv, NEW n \in Live, DeleteTimeEvent(n) PROVE IInv'
<1>1. /\ phase \in {"files", "firing", "finalizing"} /\ phase' = phase /\ clock' = clock
      /\ asleep' = asleep /\ list' = list /\ when' = when
      /\ timeEventNextId' = timeEventNextId /\ te' = te /\ prev' = prev /\ next' = next
      /\ maxId' = maxId /\ freed' = freed /\ byFinalizer' = byFinalizer
      /\ deleted' = deleted \cup {n} /\ gone' = gone \cup {n} /\ forced' = forced \ {n}
  BY DEF DeleteTimeEvent, InHandler, kernelVars, walkVars
<1>2. /\ Created' = Created /\ Indices' = Indices /\ Walking' = Walking /\ Cursor' = Cursor
      /\ ToSet(list)' = ToSet(list)
  BY <1>1 DEF Created, Indices, Walking, Cursor
<1>3. n \in Created
  BY NotNull DEF IInv, Live
<1>4. ShapeInv'
  BY <1>1, <1>2 DEF IInv, ShapeInv
<1>5. TimerInv'
  BY <1>1, <1>2, <1>3 DEF IInv, TimerInv
<1>6. WalkInv'
  BY <1>1, <1>2 DEF IInv, WalkInv, Split
<1>7. NoTimerLost'
  BY <1>1, <1>2 DEF IInv, NoTimerLost
<1>8. NeverOversleeps'
  BY <1>1 DEF NeverOversleeps
<1> QED
  BY <1>4, <1>5, <1>6, <1>7, <1>8 DEF IInv

(***************************************************************************)
(* The steps of the walk.                                                  *)
(***************************************************************************)

\* A pass begins; after a skew it must call all timers there are.
LEMMA BeginPassInv == ASSUME IInv, BeginPass PROVE IInv'
<1>1. /\ phase = "files" /\ phase' = "walk" /\ clock' = clock /\ asleep' = asleep
      /\ list' = list /\ timeEventNextId' = timeEventNextId /\ deleted' = deleted
      /\ freed' = freed /\ gone' = gone /\ byFinalizer' = byFinalizer
      /\ te' = HeadOf(list) /\ prev' = Null /\ maxId' = timeEventNextId - 1
      /\ when' = IF ClockSkew
                 THEN [n \in DOMAIN when |-> IF n \in ToSet(list) THEN when[n] % TicksPerSecond
                                             ELSE when[n]]
                 ELSE when
      /\ forced' = IF ClockSkew THEN Live ELSE {}
  BY DEF BeginPass, kernelVars, histVars, ClockSkew
<1>2. Created' = Created /\ Indices' = Indices /\ ToSet(list)' = ToSet(list) /\ Walking'
  BY <1>1 DEF Created, Indices, Walking
<1>3. \A n \in Nat : n % TicksPerSecond \in Nat /\ n % TicksPerSecond < TicksPerSecond
  BY TimeAssumption
<1>4. when' \in [0 .. MaxTimers - 1 -> Nat]
  <2>1. CASE ClockSkew
    <3>1. DOMAIN when = 0 .. MaxTimers - 1 /\ \A n \in 0 .. MaxTimers - 1 : when[n] \in Nat
      BY DEF IInv, ShapeInv
    <3>2. \A n \in 0 .. MaxTimers - 1 :
            (IF n \in ToSet(list) THEN when[n] % TicksPerSecond ELSE when[n]) \in Nat
      BY <1>3, <3>1
    <3> QED
      BY <1>1, <2>1, <3>1, <3>2
  <2>2. CASE ~ClockSkew
    BY <1>1, <2>2 DEF IInv, ShapeInv
  <2> QED
    BY <2>1, <2>2
<1>5. ShapeInv'
  BY <1>1, <1>2, <1>4 DEF IInv, ShapeInv, Phases
<1>6. TimerInv'
  <2>1. Live \subseteq Created \ deleted /\ Live \subseteq ToSet(list)
    BY NotNull DEF IInv, Live
  <2>2. \A n \in forced' : when'[n] < TicksPerSecond
    <3> SUFFICES ASSUME ClockSkew, NEW n \in Live PROVE when'[n] < TicksPerSecond
      BY <1>1
    <3>1. n \in DOMAIN when /\ when[n] \in Nat /\ n \in ToSet(list)
      BY <2>1, NotNull DEF IInv, ShapeInv
    <3>2. when'[n] = when[n] % TicksPerSecond
      BY <1>1, <3>1
    <3> QED
      BY <1>3, <3>1, <3>2
  <2> QED
    BY <1>1, <1>2, <2>1, <2>2 DEF IInv, TimerInv
<1>7. WalkInv'
  <2>1. Len(list) \in Nat /\ list \in Seq(Created) /\ timeEventNextId \in Nat
    BY NotNull DEF IInv, ShapeInv
  <2>2. Cursor' = IF 0 = Len(list') THEN Null ELSE list'[0 + 1]
    <3>1. CASE list = << >>
      BY <1>1, <3>1 DEF Cursor, HeadOf
    <3>2. CASE list # << >>
      BY <1>1, <2>1, <3>2 DEF Cursor, HeadOf
    <3> QED
      BY <3>1, <3>2
  <2>3. \A i \in Indices' : i > 0 => list'[i] <= maxId'
    <3> TAKE i \in Indices'
    <3>1. list[i] \in 0 .. timeEventNextId - 1
      BY <1>2, NotNull DEF IInv, Created
    <3> QED
      BY <1>1, <2>1, <3>1
  <2>4. \A n \in forced' : \E i \in Indices' : i > 0 /\ list'[i] = n
    <3> TAKE n \in forced'
    <3>1. PICK i \in Indices : list[i] = n
      BY <1>1, NotNull DEF IInv, Live
    <3>2. i > 0
      BY <2>1, <3>1 DEF Indices
    <3> QED
      BY <1>1, <1>2, <3>1, <3>2
  <2>5. \A i \in Indices' : ~(i <= 0)
    BY <1>2, <2>1 DEF Indices
  <2>6. Split(0)'
    BY <1>1, <2>2, <2>3, <2>4, <2>5 DEF Split
  <2> QED
    BY <1>1, <2>1, <2>6 DEF WalkInv
<1>8. NoTimerLost'
  BY <1>1, <1>2 DEF IInv, NoTimerLost
<1>9. NeverOversleeps'
  BY <1>1 DEF NeverOversleeps
<1> QED
  BY <1>5, <1>6, <1>7, <1>8, <1>9 DEF IInv

\* The timer the walk is at is due and its procedure is called.
LEMMA FireInv == ASSUME IInv, Fire PROVE IInv'
<1>1. /\ phase = "walk" /\ te # Null /\ phase' = "firing" /\ clock' = clock /\ asleep' = asleep
      /\ list' = list /\ when' = when /\ deleted' = deleted /\ freed' = freed /\ gone' = gone
      /\ timeEventNextId' = timeEventNextId /\ byFinalizer' = byFinalizer
      /\ te' = te /\ prev' = prev /\ next' = next /\ maxId' = maxId /\ forced' = forced \ {te}
  BY DEF Fire, kernelVars, listVars, walkVars, histVars
<1>2. /\ Created' = Created /\ Indices' = Indices /\ ToSet(list)' = ToSet(list)
      /\ Walking /\ Walking' /\ Cursor = te /\ Cursor' = te
  BY <1>1 DEF Created, Indices, Walking, Cursor
<1>3. PICK k \in 0 .. Len(list) : Split(k)
  BY <1>2 DEF IInv, WalkInv
<1>4. k + 1 \in Indices /\ te = list[k + 1]
  BY <1>1, <1>2, <1>3, NotNull DEF IInv, Split, Indices
<1>5. te \in Created /\ te <= maxId
  <2>1. k + 1 > k
    OBVIOUS
  <2> QED
    BY <1>3, <1>4, <2>1, NotNull DEF IInv, Split
<1>6. ShapeInv'
  BY <1>1, <1>2, <1>5 DEF IInv, ShapeInv, Phases
<1>7. TimerInv'
  BY <1>1, <1>2 DEF IInv, TimerInv
<1>8. WalkInv'
  <2>1. Split(k)'
    BY <1>1, <1>2, <1>3 DEF Split
  <2> QED
    BY <1>1, <1>3, <2>1 DEF WalkInv
<1>9. NoTimerLost'
  BY <1>1, <1>2 DEF IInv, NoTimerLost
<1>10. NeverOversleeps'
  BY <1>1 DEF NeverOversleeps
<1> QED
  BY <1>6, <1>7, <1>8, <1>9, <1>10 DEF IInv

\* Where the walk moves on behind a timer it has not to call any more, the list
\* stays divided.
LEMMA MoveOnInv ==
  ASSUME IInv, MoveOn, phase \in {"walk", "firing"}, te # Null, te \notin forced,
         phase' = "walk", list' = list, maxId' = maxId, forced' = forced
  PROVE  WalkInv'
<1>1. Walking /\ Cursor = te /\ Cursor' = te' /\ Indices' = Indices /\ Len(list) \in Nat
  BY NotNull DEF Walking, Cursor, Indices, IInv
<1>2. PICK k \in 0 .. Len(list) : Split(k)
  BY <1>1 DEF IInv, WalkInv
<1>3. k \in Nat /\ k < Len(list) /\ te = list[k + 1]
  BY <1>1, <1>2 DEF Split
<1>4. prev' = te /\ te' = IF k + 1 = Len(list) THEN Null ELSE list[k + 1 + 1]
  BY <1>3, AfterIs DEF MoveOn, IInv
<1>5. \A i \in Indices : i > k + 1 => list[i] <= maxId
  BY <1>2, <1>3 DEF Split, Indices
<1>6. \A n \in forced : \E i \in Indices : i > k + 1 /\ list[i] = n
  <2> TAKE n \in forced
  <2>1. PICK i \in Indices : i > k /\ list[i] = n
    BY <1>2 DEF Split
  <2>2. i # k + 1
    BY <1>3, <2>1
  <2> QED
    BY <1>1, <1>3, <2>1, <2>2 DEF Indices
<1>7. Split(k + 1)'
  BY <1>1, <1>3, <1>4, <1>5, <1>6 DEF Split
<1> QED
  BY <1>1, <1>3, <1>7 DEF WalkInv

\* It is not due: the walk goes on.
LEMMA NotDueInv == ASSUME IInv, NotDue PROVE IInv'
<1>1. /\ phase = "walk" /\ te # Null /\ clock < when[te] /\ MoveOn /\ phase' = phase
      /\ clock' = clock /\ asleep' = asleep /\ list' = list /\ when' = when
      /\ deleted' = deleted /\ freed' = freed /\ gone' = gone /\ byFinalizer' = byFinalizer
      /\ timeEventNextId' = timeEventNextId /\ next' = next /\ maxId' = maxId
      /\ forced' = forced
  BY DEF NotDue, kernelVars, listVars, histVars
<1>2. Created' = Created /\ Indices' = Indices /\ ToSet(list)' = ToSet(list) /\ Walking'
  BY <1>1 DEF Created, Indices, Walking
<1>3. te \notin forced
  <2> SUFFICES ASSUME te \in forced PROVE FALSE
    OBVIOUS
  <2>1. when[te] < TicksPerSecond /\ when[te] \in Nat
    BY NotNull DEF IInv, TimerInv, ShapeInv
  <2>2. clock \in Nat /\ TicksPerSecond \in Nat /\ TicksPerSecond <= clock
    BY TimeAssumption DEF IInv, ShapeInv, Times
  <2> QED
    BY <1>1, <2>1, <2>2
<1>4. ShapeInv'
  BY <1>1, <1>2 DEF IInv, ShapeInv
<1>5. TimerInv'
  BY <1>1, <1>2 DEF IInv, TimerInv
<1>6. WalkInv'
  BY <1>1, <1>3, MoveOnInv
<1>7. NoTimerLost'
  BY <1>1, <1>2 DEF IInv, NoTimerLost
<1>8. NeverOversleeps'
  BY <1>1 DEF NeverOversleeps
<1> QED
  BY <1>4, <1>5, <1>6, <1>7, <1>8 DEF IInv

\* The procedure returns a delay, or that its timer is to be deleted.
LEMMA TimeProcInv == ASSUME IInv, TimeProcReturns PROVE IInv'
<1>1. /\ phase = "firing" /\ MoveOn /\ phase' = "walk" /\ clock' = clock /\ asleep' = asleep
      /\ list' = list /\ freed' = freed /\ byFinalizer' = byFinalizer
      /\ timeEventNextId' = timeEventNextId /\ next' = next /\ maxId' = maxId
      /\ forced' = forced
  BY DEF TimeProcReturns, kernelVars
<1>2. /\ Created' = Created /\ Indices' = Indices /\ ToSet(list)' = ToSet(list) /\ Walking'
  BY <1>1 DEF Created, Indices, Walking
<1>3. te \in Created /\ te # Null /\ te \notin forced
  BY <1>1, NotNull DEF IInv, ShapeInv, TimerInv
<1>4. \/ /\ \E delay \in Delays : when' = [when EXCEPT ![te] = clock + delay]
         /\ deleted' = deleted /\ gone' = gone
      \/ deleted' = deleted \cup {te} /\ gone' = gone \cup {te} /\ when' = when
  BY DEF TimeProcReturns, SetAgain
<1>5. when' \in [0 .. MaxTimers - 1 -> Nat] /\ \A n \in forced : when'[n] = when[n]
  <2>1. \A delay \in Delays : clock + delay \in Nat
    BY TimeAssumption DEF IInv, ShapeInv, Times
  <2>2. when \in [0 .. MaxTimers - 1 -> Nat] /\ forced \subseteq 0 .. MaxTimers - 1
    BY NotNull DEF IInv, ShapeInv, TimerInv
  <2> QED
    BY <1>3, <1>4, <2>1, <2>2
<1>6. ShapeInv'
  BY <1>1, <1>2, <1>5 DEF IInv, ShapeInv, Phases
<1>7. TimerInv'
  BY <1>1, <1>2, <1>3, <1>4, <1>5 DEF IInv, TimerInv
<1>8. WalkInv'
  BY <1>1, <1>3, MoveOnInv
<1>9. NoTimerLost'
  BY <1>1, <1>2 DEF IInv, NoTimerLost
<1>10. NeverOversleeps'
  BY <1>1 DEF NeverOversleeps
<1> QED
  BY <1>6, <1>7, <1>8, <1>9, <1>10 DEF IInv

\* The finalizer returns and the timer is freed: the walk goes on at next.
LEMMA FinalizerReturnsInv == ASSUME IInv, FinalizerReturns PROVE IInv'
<1>1. /\ phase = "finalizing" /\ phase' = "walk" /\ clock' = clock /\ asleep' = asleep
      /\ list' = list /\ when' = [when EXCEPT ![te] = 0] /\ deleted' = deleted
      /\ freed' = freed \cup {te} /\ gone' = gone /\ byFinalizer' = byFinalizer
      /\ timeEventNextId' = timeEventNextId /\ te' = next /\ prev' = prev /\ maxId' = maxId
      /\ forced' = forced
  BY DEF FinalizerReturns, kernelVars
<1>2. /\ Created' = Created /\ Indices' = Indices /\ ToSet(list)' = ToSet(list)
      /\ Walking /\ Walking' /\ Cursor' = Cursor
  BY <1>1 DEF Created, Indices, Walking, Cursor
<1>3. te \in Created
  BY <1>1 DEF IInv, ShapeInv
<1>4. when' \in [0 .. MaxTimers - 1 -> Nat]
  BY <1>1 DEF IInv, ShapeInv
<1>5. \A n \in forced : when'[n] < TicksPerSecond
  <2>1. when \in [0 .. MaxTimers - 1 -> Nat] /\ forced \subseteq 0 .. MaxTimers - 1
    BY NotNull DEF IInv, ShapeInv, TimerInv
  <2>2. \A n \in forced : when[n] < TicksPerSecond
    BY DEF IInv, TimerInv
  <2> QED
    BY <1>1, <2>1, <2>2, TimeAssumption
<1>6. ShapeInv'
  BY <1>1, <1>2, <1>4 DEF IInv, ShapeInv, Phases
<1>7. TimerInv'
  BY <1>1, <1>2, <1>3, <1>5 DEF IInv, TimerInv
<1>8. WalkInv'
  BY <1>1, <1>2 DEF IInv, WalkInv, Split
<1>9. NoTimerLost'
  BY <1>1, <1>2 DEF IInv, NoTimerLost
<1>10. NeverOversleeps'
  BY <1>1 DEF NeverOversleeps
<1> QED
  BY <1>6, <1>7, <1>8, <1>9, <1>10 DEF IInv

\* Where a timer of the list was before timer k + 1 was taken off.
Before(k, i) == IF prev = Null THEN i + (k + 1) ELSE IF i <= k THEN i ELSE i + 1

\* The timers that are left are the others, in their order; without prev those
\* behind the walk are lost too.
LEMMA RemovedIs ==
  ASSUME IInv, RemoveDeleted, NEW k \in 0 .. Len(list), Split(k), te = list[k + 1], k < Len(list)
  PROVE  LET back == IF prev = Null THEN 0 ELSE k IN
         /\ list' \in Seq(Created) /\ Len(list') \in Nat /\ back \in 0 .. Len(list')
         /\ Len(list') = Len(list) - (k + 1) + back
         /\ \A i \in Indices' :
              /\ Before(k, i) \in Indices \ {k + 1} /\ list'[i] = list[Before(k, i)]
              /\ i > back <=> Before(k, i) > k + 1
         /\ \A i, j \in Indices' : Before(k, i) = Before(k, j) => i = j
         /\ \A j \in Indices : j > k + 1 =>
              j - (k + 1) + back \in Indices' /\ Before(k, j - (k + 1) + back) = j
         /\ \A j \in Indices : j <= k /\ prev # Null => j \in Indices' /\ Before(k, j) = j
<1>1. /\ k \in Nat /\ Len(list) \in Nat /\ list' = WithoutTe /\ ShapeInv
      /\ prev # Null => k > 0 /\ list[k] = prev
  BY NotNull DEF RemoveDeleted, IInv, Split
<1>2. /\ list' \in Seq(Created)
      /\ prev = Null =>
           /\ Len(list') = Len(list) - (k + 1)
           /\ \A i \in 1 .. Len(list') : list'[i] = list[i + (k + 1)]
      /\ prev # Null =>
           /\ Len(list') = Len(list) - 1
           /\ \A i \in 1 .. Len(list') : list'[i] = IF i <= k THEN list[i] ELSE list[i + 1]
  BY <1>1, WithoutTeIs
<1>3. CASE prev = Null
  BY <1>1, <1>2, <1>3 DEF Before, Indices
<1>4. CASE prev # Null
  <2>1. Len(list') = Len(list) - 1 /\ \A i : Before(k, i) = IF i <= k THEN i ELSE i + 1
    BY <1>2, <1>4 DEF Before
  <2>2. \A i \in Indices' :
          /\ Before(k, i) \in Indices \ {k + 1} /\ list'[i] = list[Before(k, i)]
          /\ i > k <=> Before(k, i) > k + 1
    BY <1>1, <1>2, <1>4, <2>1 DEF Indices
  <2>3. \A i, j \in Indices' : Before(k, i) = Before(k, j) => i = j
    BY <1>1, <2>1 DEF Indices
  <2>4. \A j \in Indices : j > k + 1 =>
          j - (k + 1) + k \in Indices' /\ Before(k, j - (k + 1) + k) = j
    BY <1>1, <2>1 DEF Indices
  <2>5. \A j \in Indices : j <= k => j \in Indices' /\ Before(k, j) = j
    BY <1>1, <2>1 DEF Indices
  <2> QED
    BY <1>1, <1>2, <1>4, <2>1, <2>2, <2>3, <2>4, <2>5
<1> QED
  BY <1>3, <1>4

\* A deleted timer is taken off the list, and its finalizer is called.
LEMMA RemoveInv == ASSUME IInv, RemoveDeleted PROVE IInv'
<1>1. /\ phase = "walk" /\ phase' = "finalizing" /\ te # Null /\ te \in deleted
      /\ clock' = clock /\ asleep' = asleep /\ when' = when /\ deleted' = deleted
      /\ freed' = freed /\ gone' = gone /\ byFinalizer' = byFinalizer
      /\ timeEventNextId' = timeEventNextId /\ te' = te /\ prev' = prev /\ maxId' = maxId
      /\ forced' = forced /\ next' = After(te)
  BY DEF RemoveDeleted, kernelVars, histVars
<1>2. Created' = Created /\ Walking /\ Walking' /\ Cursor = te /\ Cursor' = next'
  BY <1>1 DEF Created, Walking, Cursor
<1>3. PICK k \in 0 .. Len(list) : Split(k)
  BY <1>2 DEF IInv, WalkInv
<1>4. k \in Nat /\ k < Len(list) /\ te = list[k + 1] /\ Len(list) \in Nat /\ k + 1 \in Indices
  BY <1>1, <1>2, <1>3, NotNull DEF IInv, Split, Indices
<1>0. PICK back : back = IF prev = Null THEN 0 ELSE k
  OBVIOUS
<1>5. /\ list' \in Seq(Created) /\ Len(list') \in Nat /\ back \in 0 .. Len(list')
      /\ Len(list') = Len(list) - (k + 1) + back
      /\ \A i \in Indices' :
           /\ Before(k, i) \in Indices \ {k + 1} /\ list'[i] = list[Before(k, i)]
           /\ i > back <=> Before(k, i) > k + 1
      /\ \A i, j \in Indices' : Before(k, i) = Before(k, j) => i = j
      /\ \A j \in Indices : j > k + 1 =>
           j - (k + 1) + back \in Indices' /\ Before(k, j - (k + 1) + back) = j
      /\ \A j \in Indices : j <= k /\ prev # Null => j \in Indices' /\ Before(k, j) = j
  BY <1>0, <1>3, <1>4, RemovedIs
<1>6. Indices' = 1 .. Len(list') /\ back \in Nat /\ back <= Len(list')
  BY <1>5 DEF Indices
<1>7. te \in Created /\ te <= maxId /\ te \notin forced
  <2>1. k + 1 > k
    BY <1>4
  <2> QED
    BY <1>1, <1>3, <1>4, <2>1, NotNull DEF IInv, Split, TimerInv
<1>8. ShapeInv'
  <2>1. \A i, j \in Indices' : list'[i] = list'[j] => i = j
    BY <1>5 DEF IInv, ShapeInv
  <2> QED
    BY <1>1, <1>2, <1>5, <1>7, <2>1 DEF IInv, ShapeInv, Phases
<1>9. TimerInv'
  BY <1>1, <1>2 DEF IInv, TimerInv
<1>10. WalkInv'
  <2>1. Cursor' = IF back = Len(list') THEN Null ELSE list'[back + 1]
    <3>1. next' = IF k + 1 = Len(list) THEN Null ELSE list[k + 1 + 1]
      BY <1>1, <1>4, AfterIs DEF IInv
    <3>2. CASE k + 1 = Len(list)
      <4>1. back = Len(list')
        BY <1>4, <1>5, <1>6, <3>2
      <4> QED
        BY <1>2, <3>1, <3>2, <4>1
    <3>3. CASE k + 1 # Len(list)
      <4>1. k + 1 + 1 \in Indices /\ k + 1 + 1 > k + 1
        BY <1>4, <3>3 DEF Indices
      <4>2. (k + 1 + 1) - (k + 1) + back = back + 1
        BY <1>4, <1>6
      <4>3. back + 1 \in Indices' /\ Before(k, back + 1) = k + 1 + 1
        BY <1>5, <4>1, <4>2
      <4>4. back # Len(list')
        BY <1>6, <4>3
      <4> QED
        BY <1>2, <1>5, <3>1, <3>3, <4>3, <4>4
    <3> QED
      BY <3>2, <3>3
  <2>2. ASSUME NEW i \in Indices', i > back PROVE list'[i] <= maxId'
    <3>1. Before(k, i) \in Indices /\ Before(k, i) > k /\ list'[i] = list[Before(k, i)]
      BY <1>4, <1>5, <2>2 DEF Indices
    <3> QED
      BY <1>1, <1>3, <3>1 DEF Split
  <2>3. ASSUME NEW n \in forced' PROVE \E i \in Indices' : i > back /\ list'[i] = n
    <3>1. PICK j \in Indices : j > k /\ list[j] = n
      BY <1>1, <1>3 DEF Split
    <3>2. j # k + 1
      BY <1>1, <1>4, <1>7, <2>3, <3>1
    <3>3. j > k + 1
      BY <1>4, <3>1, <3>2 DEF Indices
    <3>4. j - (k + 1) + back \in Indices' /\ Before(k, j - (k + 1) + back) = j
      BY <1>5, <3>3
    <3> QED
      BY <1>5, <3>1, <3>3, <3>4
  <2>4. prev' # Null => back > 0 /\ list'[back] = prev'
    <3> SUFFICES ASSUME prev # Null PROVE back > 0 /\ list'[back] = prev
      BY <1>1
    <3>1. k > 0 /\ list[k] = prev /\ back = k
      BY <1>0, <1>3 DEF Split
    <3>2. k \in Indices /\ k <= k
      BY <1>4, <3>1 DEF Indices
    <3>3. k \in Indices' /\ Before(k, k) = k
      BY <1>5, <3>2
    <3> QED
      BY <1>5, <3>1, <3>3
  <2>5. ASSUME prev' = Null, NEW i \in Indices', i <= back PROVE FALSE
    BY <1>0, <1>1, <1>6, <2>5
  <2>6. Split(back)'
    <3>1. \A i \in Indices' : i > back => list'[i] <= maxId'
      BY <2>2
    <3>2. \A n \in forced' : \E i \in Indices' : i > back /\ list'[i] = n
      BY <2>3
    <3>3. prev' = Null => \A i \in Indices' : ~(i <= back)
      BY <2>5
    <3> QED
      BY <2>1, <2>4, <3>1, <3>2, <3>3 DEF Split
  <2> QED
    BY <1>5, <2>6 DEF WalkInv
<1>11. NoTimerLost'
  <2>1. /\ \A n : n \in ToSet(list) <=> \E i \in Indices : list[i] = n
        /\ \A n : n \in ToSet(list)' <=> \E i \in Indices' : list'[i] = n
    BY <1>5, <1>6, NotNull, ToSetIs DEF IInv
  <2>2. ToSet(list)' \subseteq ToSet(list) \ {te}
    <3> SUFFICES ASSUME NEW i \in Indices' PROVE list'[i] \in ToSet(list) \ {te}
      BY <2>1
    <3>1. Before(k, i) \in Indices /\ Before(k, i) # k + 1 /\ list'[i] = list[Before(k, i)]
      BY <1>5
    <3>2. list[Before(k, i)] # te
      BY <1>4, <3>1 DEF IInv, ShapeInv
    <3> QED
      BY <2>1, <3>1, <3>2
  <2>3. ToSet(list) \subseteq ToSet(list)' \cup {te} \cup byFinalizer
    <3> SUFFICES ASSUME NEW j \in Indices
                 PROVE  list[j] \in ToSet(list)' \cup {te} \cup byFinalizer
      BY <2>1
    <3>0. j \in Nat
      BY <1>4 DEF Indices
    <3>1. CASE j > k + 1
      <4>1. \E i \in Indices' : Before(k, i) = j
        BY <1>5, <3>1
      <4> QED
        BY <1>5, <2>1, <4>1
    <3>2. CASE j = k + 1
      BY <1>4, <3>2
    <3>3. CASE j <= k /\ prev # Null
      <4>1. \E i \in Indices' : Before(k, i) = j
        BY <1>5, <3>3
      <4> QED
        BY <1>5, <2>1, <4>1
    <3>4. CASE j <= k /\ prev = Null
      BY <1>1, <1>3, <3>4 DEF Split
    <3> QED
      BY <1>4, <3>0, <3>1, <3>2, <3>3, <3>4
  <2> QED
    BY <1>1, <1>2, <2>2, <2>3 DEF IInv, NoTimerLost
<1>12. NeverOversleeps'
  BY <1>1 DEF NeverOversleeps
<1> QED
  BY <1>8, <1>9, <1>10, <1>11, <1>12 DEF IInv

(***************************************************************************)
(* The invariant.                                                          *)
(***************************************************************************)

\* There are no timers at first.
LEMMA InitInv == Init => IInv
<1> SUFFICES ASSUME Init PROVE IInv
  OBVIOUS
<1>1. /\ phase = "files" /\ list = << >> /\ timeEventNextId = 0 /\ deleted = {} /\ freed = {}
      /\ gone = {} /\ forced = {} /\ te = Null /\ asleep = 0 /\ clock = TicksPerSecond
      /\ when = [n \in 0 .. MaxTimers - 1 |-> 0]
  BY DEF Init
<1>2. ~Walking /\ Indices = {} /\ Created = {} /\ ToSet(list) = {}
  BY <1>1 DEF Walking, Indices, Created, ToSet
<1>3. ShapeInv
  BY <1>1, <1>2, TimeAssumption DEF ShapeInv, Phases, Times, Ints
<1>4. TimerInv
  BY <1>1, <1>2 DEF TimerInv
<1>5. WalkInv
  BY <1>2 DEF WalkInv
<1>6. NoTimerLost /\ NeverOversleeps
  BY <1>1, <1>2 DEF NoTimerLost, NeverOversleeps
<1> QED
  BY <1>3, <1>4, <1>5, <1>6 DEF IInv

\* Every step preserves the invariant.
LEMMA StepInv == IInv /\ [Next]_vars => IInv'
<1> SUFFICES ASSUME IInv, [Next]_vars PROVE IInv'
  OBVIOUS
<1>1. CASE LoopStep
  BY <1>1, SleepInv, WakeInv, BeginPassInv, EndPassInv, RemoveInv, FinalizerReturnsInv,
     NotDueInv, FireInv, TimeProcInv DEF LoopStep
<1>2. CASE FileEvent
  BY <1>2, WakeInv
<1>3. CASE Tick
  BY <1>3, TickInv
<1>4. ASSUME NEW delay \in Delays, CreateTimeEvent(delay) PROVE IInv'
  BY <1>4, CreateInv
<1>5. ASSUME NEW n \in Live, DeleteTimeEvent(n) PROVE IInv'
  BY <1>5, DeleteInv
<1>6. ASSUME NEW t \in Times, SetClock(t) PROVE IInv'
  BY <1>6, SetClockInv
<1>7. CASE UNCHANGED vars
  <2>1. /\ phase' = phase /\ clock' = clock /\ asleep' = asleep /\ steady' = steady
        /\ tooLong' = tooLong
        /\ UNCHANGED <<listVars, walkVars, te, histVars, forced>>
        /\ list' = list /\ deleted' = deleted /\ when' = when
    BY <1>7 DEF vars, kernelVars, walkVars, listVars
  <2>2. phase' \in Phases /\ clock' \in Times /\ asleep' \in Ints
    BY <2>1 DEF IInv, ShapeInv
  <2>3. ShapeInv' /\ TimerInv' /\ WalkInv' /\ NoTimerLost'
    BY <2>1, <2>2, TimersUnchanged DEF IInv
  <2>4. NeverOversleeps'
    BY <2>1 DEF IInv, NeverOversleeps, SleepsForever, Live
  <2> QED
    BY <2>3, <2>4 DEF IInv
<1> QED
  BY <1>1, <1>2, <1>3, <1>4, <1>5, <1>6, <1>7 DEF Next

(***************************************************************************)
(* Theorems.                                                               *)
(***************************************************************************)

\* The inductive invariant.
THEOREM TimersInvariant == FairSpec => []IInv
<1> QED
  BY InitInv, StepInv, PTL DEF FairSpec

\* The state keeps its shape: no timer is on the list twice, and the thread
\* holds a timer while it handles it.
THEOREM TypeCorrect == FairSpec => []TypeOK
<1>1. IInv => TypeOK
  <2> SUFFICES ASSUME IInv PROVE TypeOK
    OBVIOUS
  <2>1. ToSet(list) \subseteq Created /\ Len(list) \in Nat
    BY NotNull DEF IInv
  <2>2. Cardinality(ToSet(list)) = Len(list)
    <3> DEFINE f == [i \in Indices |-> list[i]]
    <3>1. f \in [Indices -> ToSet(list)] /\ \A i \in Indices : f[i] = list[i]
      BY NotNull DEF IInv
    <3>2. IsInjective(f)
      BY <3>1 DEF IsInjective, IInv, ShapeInv
    <3>3. \A n \in ToSet(list) : \E i \in Indices : f[i] = n
      BY <3>1, NotNull DEF IInv
    <3>4. ExistsBijection(1 .. Len(list), ToSet(list))
      <4> HIDE DEF f
      <4> QED
        BY <3>1, <3>2, <3>3 DEF ExistsBijection, Bijection, Injection, Surjection, Indices
    <3> QED
      BY <2>1, <3>4, FS_CountingElements, Zenon
  <2> QED
    BY <2>1, <2>2 DEF IInv, ShapeInv, TimerInv, TypeOK, Phases
<1> QED
  BY <1>1, TimersInvariant, PTL

\* A timer that was created by the handler of a file event or of a timer is on the
\* list until it is freed, and nothing freed is, whatever handlers and finalizers
\* do while the list is walked.  It says nothing of timers a finalizer created,
\* which the code can lose (processTimeEvents).
THEOREM TimersKept == FairSpec => []NoTimerLost
<1>1. IInv => NoTimerLost
  BY DEF IInv
<1> QED
  BY <1>1, TimersInvariant, PTL

\* A pass never comes to a timer that was created since it began.
THEOREM NewTimersHeldBack == FairSpec => []NewTimersWait
<1>1. IInv => NewTimersWait
  <2> SUFFICES ASSUME IInv, te # Null PROVE te <= maxId
    BY DEF NewTimersWait
  <2>1. CASE phase \in {"firing", "finalizing"}
    BY <2>1 DEF IInv, ShapeInv
  <2>2. CASE phase \notin {"firing", "finalizing"}
    <3>1. phase = "walk" /\ Walking /\ Cursor = te
      BY <2>2 DEF IInv, ShapeInv, Walking, Cursor
    <3>2. PICK k \in 0 .. Len(list) : Split(k)
      BY <3>1 DEF IInv, WalkInv
    <3>3. k # Len(list) /\ te = list[k + 1]
      BY <3>1, <3>2 DEF Split
    <3>4. k + 1 \in Indices /\ k + 1 > k
      BY <3>3, NotNull DEF IInv, Indices
    <3> QED
      BY <3>2, <3>3, <3>4 DEF Split
  <2> QED
    BY <2>1, <2>2
<1> QED
  BY <1>1, TimersInvariant, PTL

\* The pass after the clock was set back has called every timer when it ends.
THEOREM SkewForcesAll == FairSpec => []SkewFiresAll
<1>1. IInv => SkewFiresAll
  BY DEF IInv, TimerInv, SkewFiresAll, Walking
<1> QED
  BY <1>1, TimersInvariant, PTL

\* The loop is awake again when the first timer is due, if the clock is not set
\* while it sleeps and the wait did not come out negative as an int.
THEOREM SleepsInTime == FairSpec => []NeverOversleeps
<1>1. IInv => NeverOversleeps
  BY DEF IInv
<1> QED
  BY <1>1, TimersInvariant, PTL

\* A timer that is gone is never called again.
THEOREM GoneStayGone == FairSpec => GoneForGood
<1>1. IInv /\ [Next]_vars => [phase # "firing" /\ phase' = "firing" => te' \notin gone]_vars
  <2> SUFFICES ASSUME IInv, Next, phase # "firing", phase' = "firing"
               PROVE  te' \notin gone
    OBVIOUS
  <2>1. Fire
    BY DEF Next, LoopStep, Sleep, TimeIsUp, BeginPass, EndPass, RemoveDeleted,
           FinalizerReturns, NotDue, TimeProcReturns, FileEvent, Tick, CreateTimeEvent,
           DeleteTimeEvent, SetClock
  <2>2. te' = te /\ te \notin deleted
    BY <2>1 DEF Fire, walkVars
  <2> QED
    BY <2>2 DEF IInv, TimerInv
<1> QED
  BY <1>1, TimersInvariant, PTL DEF FairSpec, GoneForGood
=============================================================================
