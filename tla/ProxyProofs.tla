----------------------------- MODULE ProxyProofs -----------------------------
(* Theorems about Proxy for any connections, threads, requests and failures: *)
(* its own invariant and order, and that it implements RedisService.         *)
EXTENDS Proxy, FiniteSetTheorems, TLAPS

(***************************************************************************)
(* The inductive invariant.                                                *)
(***************************************************************************)

\* What goes through the pools: a session and the number of a command.
Task == [s : Conns, id : Nat]
IsSequence(s) == H!IsSequence(s)

\* The shape of the state.
ShapeInv ==
  /\ script \in Seq(Requests) /\ asked \in Seq(Task) /\ Len(asked) = Len(script)
  /\ taken \in 0 .. Len(asked)
  /\ last_command_id \in [Conns -> Nat] /\ to_send \in [Conns -> Nat]
  /\ job = [w \in Workers |-> job[w]] /\ worker = [w \in Workers |-> worker[w]]
  /\ \A w \in Workers : job[w] = [n |-> job[w].n, made |-> job[w].made, read |-> job[w].read]
  /\ procQueue \in Seq(Task) /\ sendQueue \in Seq(Task)
  /\ senderPc = [t \in Senders |-> senderPc[t]]
  /\ senderTask = [t \in Senders |-> senderTask[t]]
  /\ buffered = [c \in Conns |-> buffered[c]]
  /\ got = [c \in Conns |-> got[c]] /\ \A c \in Conns : IsSequence(got[c])
  /\ IsSequence(applied)

\* No two requests have the same number in one session.
NumbersInv ==
  /\ \A n \in DOMAIN asked : asked[n].id < last_command_id[asked[n].s]
  /\ \A m, n \in DOMAIN asked : asked[m] = asked[n] => m = n

\* The queue holds what is not taken; a worker has the task of its request until
\* it has sent the reply, and no other worker has that request.
WorkInv ==
  /\ Len(procQueue) = Len(asked) - taken
  /\ \A i \in 1 .. Len(asked) - taken : procQueue[i] = asked[taken + i]
  /\ DOMAIN replies \subseteq 1 .. taken
  /\ \A i \in DOMAIN applied : applied[i].n \in 1 .. taken
  /\ \A w \in Workers :
       /\ job[w] # H!NoJob => job[w].n \in 1 .. taken /\ worker[w] = asked[job[w].n]
       /\ worker[w] # P!Idle => \E n \in 1 .. taken :
            worker[w] = asked[n] /\ (n \in DOMAIN replies \/ job[w].n = n)
       /\ job[w].n \notin DOMAIN replies
  /\ \A v, w \in Workers : job[v].n = job[w].n /\ job[w] # H!NoJob => v = w

\* The request a task is for has been answered, before a step and after it.
IsAnswered(task) == \E n \in DOMAIN replies : asked[n] = task
WillBeAnswered(task) == \E n \in DOMAIN replies' : asked'[n] = task

\* What is behind the workers has been answered, and so has every request whose
\* number the session has passed.
SentInv ==
  /\ \A i \in DOMAIN sendQueue : IsAnswered(sendQueue[i])
  /\ \A t \in Senders : senderPc[t] # "idle" => IsAnswered(senderTask[t])
  /\ \A c \in Conns : \A id \in buffered[c] : IsAnswered([s |-> c, id |-> id])
  /\ \A n \in DOMAIN asked : asked[n].id < to_send[asked[n].s] => n \in DOMAIN replies
  /\ \A c \in Conns : Len(got[c]) <= to_send[c] /\ to_send[c] <= last_command_id[c]

\* What its client had asked before a request it waited with has been answered.
WaitsInv ==
  \A m \in waits : m \in DOMAIN asked /\ \A n \in DOMAIN asked :
    n < m /\ asked[n].s = asked[m].s => n \in DOMAIN replies

\* The inductive invariant.
IInv ==
  ShapeInv /\ NumbersInv /\ WorkInv /\ SentInv /\ WaitsInv /\ WaitingClientsInOrder

(***************************************************************************)
(* Sequences and tasks.                                                    *)
(***************************************************************************)

\* A sequence with one more element.
LEMMA AppendIs ==
  ASSUME NEW S, NEW q \in Seq(S), NEW x \in S
  PROVE  /\ Append(q, x) \in Seq(S) /\ Len(Append(q, x)) = Len(q) + 1
         /\ DOMAIN q = 1 .. Len(q) /\ Len(q) \in Nat
         /\ DOMAIN Append(q, x) = 1 .. Len(q) + 1
         /\ \A i \in 1 .. Len(q) : Append(q, x)[i] = q[i]
         /\ Append(q, x)[Len(q) + 1] = x
OBVIOUS

\* A sequence without its first element.
LEMMA TailIs ==
  ASSUME NEW S, NEW q \in Seq(S), q # << >>
  PROVE  /\ Len(q) \in Nat \ {0} /\ DOMAIN q = 1 .. Len(q)
         /\ Head(q) = q[1] /\ Head(q) \in S
         /\ Tail(q) \in Seq(S) /\ Len(Tail(q)) = Len(q) - 1
         /\ DOMAIN Tail(q) = 1 .. Len(q) - 1
         /\ \A i \in 1 .. Len(q) - 1 : Tail(q)[i] = q[i + 1]
OBVIOUS

\* The same for any sequence, with no set of its elements.
LEMMA GrownIs ==
  ASSUME NEW q, NEW x, IsSequence(q)
  PROVE  /\ IsSequence(Append(q, x)) /\ Len(Append(q, x)) = Len(q) + 1
         /\ DOMAIN q = 1 .. Len(q) /\ Len(q) \in Nat
         /\ DOMAIN Append(q, x) = 1 .. Len(q) + 1
         /\ \A i \in 1 .. Len(q) : Append(q, x)[i] = q[i]
         /\ Append(q, x)[Len(q) + 1] = x
<1> DEFINE E(s) == {s[i] : i \in DOMAIN s}
<1> DEFINE S == E(q) \cup {x}
<1> DEFINE p == Append(q, x)
<1>1. \A s : IsSequence(s) <=> s \in Seq(E(s))
  BY DEF IsSequence, H!IsSequence, H!ToSet
<1>2. q \in Seq(E(q)) /\ E(q) \subseteq S /\ x \in S
  BY <1>1
<1> HIDE DEF S
<1>3. DOMAIN q = 1 .. Len(q) /\ Len(q) \in Nat /\ \A i \in 1 .. Len(q) : q[i] \in S
  BY <1>2
<1>4. q = [i \in 1 .. Len(q) |-> q[i]]
  BY <1>2
<1>5. q \in Seq(S)
  BY <1>3, <1>4
<1>6. /\ p \in Seq(S) /\ Len(p) = Len(q) + 1 /\ DOMAIN p = 1 .. Len(q) + 1
      /\ \A i \in 1 .. Len(q) : p[i] = q[i]
      /\ p[Len(q) + 1] = x
  BY <1>2, <1>5, AppendIs
<1>7. p \in Seq(E(p))
  <2>1. \A i \in 1 .. Len(p) : p[i] \in E(p)
    BY <1>3, <1>6
  <2> HIDE DEF p, E
  <2>2. p = [i \in 1 .. Len(p) |-> p[i]] /\ Len(p) \in Nat
    BY <1>6
  <2> QED
    BY <2>1, <2>2
<1> QED
  BY <1>1, <1>3, <1>6, <1>7

\* The tasks of the requests.
LEMMA AskedIs ==
  ASSUME ShapeInv, NumbersInv
  PROVE  /\ Len(asked) \in Nat /\ DOMAIN asked = 1 .. Len(asked) /\ DOMAIN script = 1 .. Len(asked)
         /\ taken \in Nat /\ 1 .. taken \subseteq 1 .. Len(asked)
         /\ \A n \in 1 .. Len(asked) :
              /\ asked[n] \in Task /\ asked[n].s \in Conns /\ asked[n].id \in Nat
              /\ asked[n] = [s |-> asked[n].s, id |-> asked[n].id]
              /\ NumberOf(asked[n]) = n
              /\ asked[n].id < last_command_id[asked[n].s]
<1>1. /\ Len(asked) \in Nat /\ DOMAIN asked = 1 .. Len(asked) /\ DOMAIN script = 1 .. Len(asked)
      /\ \A n \in 1 .. Len(asked) : asked[n] \in Task
      /\ taken \in 0 .. Len(asked)
  BY DEF ShapeInv
<1>2. \A k \in Task : k.s \in Conns /\ k.id \in Nat /\ k = [s |-> k.s, id |-> k.id]
  BY DEF Task
<1>3. ASSUME NEW n \in 1 .. Len(asked)
      PROVE  NumberOf(asked[n]) = n
  <2> DEFINE m == NumberOf(asked[n])
  <2>1. m \in DOMAIN asked /\ asked[m] = asked[n]
    BY <1>1 DEF NumberOf
  <2> QED
    BY <1>1, <2>1 DEF NumbersInv
<1> QED
  BY <1>1, <1>2, <1>3 DEF NumbersInv

(***************************************************************************)
(* The invariant, action by action.                                        *)
(***************************************************************************)

\* A client asks its next request.
LEMMA DispatchInv ==
  ASSUME IInv, NEW c \in Conns, NEW r \in Requests, Dispatch(c, r)
  PROVE  IInv'
<1>1. PICK m, k : m = Len(asked) + 1 /\ k = [s |-> c, id |-> last_command_id[c]]
  OBVIOUS
<1>2. /\ script' = Append(script, r) /\ asked' = Append(asked, k)
      /\ procQueue' = Append(procQueue, k)
      /\ last_command_id' = [last_command_id EXCEPT ![c] = @ + 1]
      /\ waits' = waits \/ (waits' = waits \cup {m} /\ Len(got[c]) = last_command_id[c])
      /\ UNCHANGED <<taken, job, applied, replies, got, to_send, buffered, worker,
                     sendQueue, senderPc, senderTask>>
  BY <1>1 DEF Dispatch, P!Dispatch, P!ctxVars, P!poolVars, P!histVars, IInv, ShapeInv
<1>3. ShapeInv /\ NumbersInv /\ WorkInv /\ SentInv /\ WaitsInv /\ WaitingClientsInOrder
  BY DEF IInv
<1>4. /\ k \in Task /\ k.s = c /\ k.id = last_command_id[c] /\ last_command_id[c] \in Nat
      /\ m \in Nat
  BY <1>1, <1>3 DEF ShapeInv, Task
<1>5. /\ asked' \in Seq(Task) /\ Len(asked') = m /\ DOMAIN asked' = 1 .. m
      /\ DOMAIN asked = 1 .. Len(asked) /\ Len(asked) \in Nat
      /\ \A n \in 1 .. Len(asked) : asked'[n] = asked[n]
      /\ asked'[m] = k
  BY <1>1, <1>2, <1>3, <1>4, AppendIs DEF ShapeInv
<1>6. /\ procQueue' \in Seq(Task) /\ Len(procQueue') = Len(procQueue) + 1
      /\ \A i \in 1 .. Len(procQueue) : procQueue'[i] = procQueue[i]
      /\ procQueue'[Len(procQueue) + 1] = k
      /\ Len(procQueue) \in Nat
  BY <1>2, <1>3, <1>4, AppendIs DEF ShapeInv
<1>7. /\ last_command_id' \in [Conns -> Nat]
      /\ last_command_id'[c] = last_command_id[c] + 1
      /\ \A d \in Conns : d # c => last_command_id'[d] = last_command_id[d]
  BY <1>2, <1>3 DEF ShapeInv
<1>8. /\ \A n \in 1 .. Len(asked) :
           /\ asked[n] \in Task /\ asked[n].s \in Conns /\ asked[n].id \in Nat
           /\ asked[n].id < last_command_id[asked[n].s]
      /\ taken \in Nat /\ taken <= Len(asked)
  BY <1>3, <1>5, AskedIs DEF ShapeInv
<1>9. \A n \in 1 .. Len(asked) : asked[n] # k
  BY <1>4, <1>8
<1>10. ShapeInv'
  <2>1. script' \in Seq(Requests) /\ Len(script') = m
    BY <1>1, <1>2, <1>3, AppendIs DEF ShapeInv
  <2>2. taken' \in 0 .. Len(asked')
    BY <1>1, <1>2, <1>5, <1>8
  <2> QED
    BY <1>2, <1>3, <1>5, <1>6, <1>7, <2>1, <2>2 DEF ShapeInv
<1>11. NumbersInv'
  <2>1. \A n \in 1 .. m : asked'[n].id < last_command_id'[asked'[n].s]
    <3> TAKE n \in 1 .. m
    <3>1. CASE n = m
      BY <1>4, <1>5, <1>7, <3>1
    <3>2. CASE n # m
      <4>1. n \in 1 .. Len(asked) /\ asked'[n] = asked[n]
        BY <1>1, <1>5, <3>2
      <4> QED
        BY <1>4, <1>7, <1>8, <4>1
    <3> QED
      BY <3>1, <3>2
  <2>2. \A l, n \in 1 .. m : asked'[l] = asked'[n] => l = n
    <3> TAKE l, n \in 1 .. m
    <3>1. /\ l = m \/ l \in 1 .. Len(asked)
          /\ n = m \/ n \in 1 .. Len(asked)
      BY <1>1, <1>5
    <3> QED
      BY <1>3, <1>5, <1>9, <3>1 DEF NumbersInv
  <2> QED
    BY <1>5, <2>1, <2>2 DEF NumbersInv
<1>12. WorkInv'
  <2>1. Len(procQueue') = Len(asked') - taken'
    BY <1>1, <1>2, <1>3, <1>5, <1>6, <1>8 DEF WorkInv
  <2>2. \A i \in 1 .. Len(asked') - taken' : procQueue'[i] = asked'[taken' + i]
    <3> TAKE i \in 1 .. Len(asked') - taken'
    <3>1. Len(procQueue) = Len(asked) - taken /\ taken' = taken
      BY <1>2, <1>3 DEF WorkInv
    <3>2. CASE i \in 1 .. Len(asked) - taken
      <4>1. taken + i \in 1 .. Len(asked) /\ procQueue[i] = asked[taken + i]
        BY <1>3, <1>8, <3>2 DEF WorkInv
      <4> QED
        BY <1>5, <1>6, <3>1, <3>2, <4>1
    <3>3. CASE i \notin 1 .. Len(asked) - taken
      <4>1. i = Len(procQueue) + 1 /\ taken + i = m
        BY <1>1, <1>5, <1>8, <3>1, <3>3
      <4> QED
        BY <1>5, <1>6, <3>1, <4>1
    <3> QED
      BY <3>2, <3>3
  <2>3. \A n \in 1 .. taken : asked'[n] = asked[n]
    BY <1>5, <1>8
  <2>4. ASSUME NEW w \in Workers
        PROVE  /\ job[w] # H!NoJob => job[w].n \in 1 .. taken /\ worker[w] = asked'[job[w].n]
               /\ worker[w] # P!Idle => \E n \in 1 .. taken :
                    worker[w] = asked'[n] /\ (n \in DOMAIN replies \/ job[w].n = n)
    BY <1>3, <2>3 DEF WorkInv
  <2>5. /\ DOMAIN replies \subseteq 1 .. taken
        /\ \A i \in DOMAIN applied : applied[i].n \in 1 .. taken
        /\ \A w \in Workers : job[w].n \notin DOMAIN replies
        /\ \A v, w \in Workers : job[v].n = job[w].n /\ job[w] # H!NoJob => v = w
    BY <1>3 DEF WorkInv
  <2> QED
    BY <1>2, <2>1, <2>2, <2>4, <2>5 DEF WorkInv, H!NoJob, P!Idle
<1>13. SentInv'
  <2>1. DOMAIN replies \subseteq 1 .. taken
    BY <1>3 DEF WorkInv
  <2>2. \A n \in DOMAIN replies : asked'[n] = asked[n]
    BY <1>5, <1>8, <2>1
  <2>3. \A task : IsAnswered(task) => WillBeAnswered(task)
    BY <1>2, <2>2 DEF IsAnswered, WillBeAnswered
  <2>4. /\ \A i \in DOMAIN sendQueue' : WillBeAnswered(sendQueue'[i])
        /\ \A t \in Senders : senderPc'[t] # "idle" => WillBeAnswered(senderTask'[t])
        /\ \A d \in Conns : \A id \in buffered'[d] : WillBeAnswered([s |-> d, id |-> id])
    BY <1>2, <1>3, <2>3 DEF SentInv
  <2>5. \A n \in DOMAIN asked' : asked'[n].id < to_send'[asked'[n].s] => n \in DOMAIN replies'
    <3> TAKE n \in DOMAIN asked'
    <3>1. CASE n = m
      <4>1. to_send[c] <= last_command_id[c]
        BY <1>3 DEF SentInv
      <4> QED
        BY <1>2, <1>3, <1>4, <1>5, <3>1, <4>1 DEF ShapeInv
    <3>2. CASE n # m
      <4>1. n \in 1 .. Len(asked)
        BY <1>1, <1>5, <3>2
      <4> QED
        BY <1>2, <1>3, <1>5, <4>1 DEF SentInv
    <3> QED
      BY <3>1, <3>2
  <2>6. \A d \in Conns : Len(got'[d]) <= to_send'[d] /\ to_send'[d] <= last_command_id'[d]
    <3> TAKE d \in Conns
    <3>1. /\ Len(got[d]) <= to_send[d] /\ to_send[d] <= last_command_id[d]
          /\ to_send[d] \in Nat /\ last_command_id[d] \in Nat
          /\ last_command_id'[d] \in {last_command_id[d], last_command_id[d] + 1}
      BY <1>3, <1>7 DEF SentInv, ShapeInv
    <3> QED
      BY <1>2, <3>1
  <2> QED
    BY <2>4, <2>5, <2>6 DEF SentInv, IsAnswered, WillBeAnswered
<1>14. WaitsInv'
  <2>1. ASSUME NEW l \in waits' PROVE l \in DOMAIN asked' /\
          \A n \in DOMAIN asked' : n < l /\ asked'[n].s = asked'[l].s => n \in DOMAIN replies'
    <3>1. CASE l \in waits
      <4>1. l \in 1 .. Len(asked) /\ \A n \in 1 .. Len(asked) :
              n < l /\ asked[n].s = asked[l].s => n \in DOMAIN replies
        BY <1>3, <1>5, <3>1 DEF WaitsInv
      <4>2. \A n \in 1 .. m : n < l => n \in 1 .. Len(asked)
        BY <1>1, <1>5, <4>1
      <4>3. l \in 1 .. m
        BY <1>1, <1>5, <4>1
      <4> QED
        BY <1>2, <1>5, <4>1, <4>2, <4>3
    <3>2. CASE l \notin waits
      <4>1. l = m /\ Len(got[c]) = last_command_id[c]
        BY <1>2, <2>1, <3>2
      <4>2. to_send[c] \in Nat /\ last_command_id[c] <= to_send[c]
        BY <1>3, <4>1 DEF SentInv, ShapeInv
      <4>3. ASSUME NEW n \in 1 .. m, n < m, asked'[n].s = c
            PROVE  n \in DOMAIN replies
        <5>1. n \in 1 .. Len(asked) /\ asked'[n] = asked[n]
          BY <1>1, <1>5, <4>3
        <5>2. asked[n].id < to_send[c]
          BY <1>4, <1>8, <4>2, <4>3, <5>1
        <5> QED
          BY <1>3, <1>5, <4>3, <5>1, <5>2 DEF SentInv
      <4>4. m \in 1 .. m
        BY <1>1, <1>5
      <4> QED
        BY <1>2, <1>4, <1>5, <4>1, <4>3, <4>4
    <3> QED
      BY <3>1, <3>2
  <2> QED
    BY <2>1 DEF WaitsInv
<1>15. WaitingClientsInOrder'
  <2>1. \A i \in DOMAIN applied : applied[i].n \in 1 .. taken /\ applied[i].n # m
    BY <1>1, <1>3, <1>5, <1>8 DEF WorkInv
  <2>2. \A n \in 1 .. taken : asked'[n] = asked[n]
    BY <1>5, <1>8
  <2>3. \A n \in 1 .. taken : n \in waits' => n \in waits
    BY <1>1, <1>2, <1>5, <1>8
  <2> QED
    BY <1>2, <1>3, <2>1, <2>2, <2>3 DEF WaitingClientsInOrder
<1> QED
  BY <1>10, <1>11, <1>12, <1>13, <1>14, <1>15 DEF IInv

\* A step that leaves the requests, the workers and what has been sent alone: the
\* senders have only answered tasks still.
LEMMA SendersInv ==
  ASSUME IInv,
         UNCHANGED <<script, asked, taken, last_command_id, job, applied, replies, waits,
                     procQueue, worker>>,
         sendQueue' \in Seq(Task), \A i \in DOMAIN sendQueue' : IsAnswered(sendQueue'[i]),
         senderPc' = [t \in Senders |-> senderPc'[t]],
         senderTask' = [t \in Senders |-> senderTask'[t]],
         \A t \in Senders : senderPc'[t] # "idle" => IsAnswered(senderTask'[t]),
         buffered' = [c \in Conns |-> buffered'[c]],
         \A c \in Conns : \A id \in buffered'[c] : IsAnswered([s |-> c, id |-> id]),
         to_send' \in [Conns -> Nat],
         got' = [c \in Conns |-> got'[c]], \A c \in Conns : IsSequence(got'[c]),
         \A c \in Conns : Len(got'[c]) <= to_send'[c] /\ to_send'[c] <= last_command_id[c],
         \A n \in DOMAIN asked : asked[n].id < to_send'[asked[n].s] => n \in DOMAIN replies
  PROVE  IInv'
<1>1. ShapeInv /\ NumbersInv /\ WorkInv /\ WaitsInv /\ WaitingClientsInOrder
  BY DEF IInv
<1>2. ShapeInv'
  BY <1>1 DEF ShapeInv, IsSequence
<1>3. NumbersInv'
  BY <1>1 DEF NumbersInv
<1>4. WorkInv'
  BY <1>1 DEF WorkInv, H!NoJob, P!Idle
<1>5. SentInv'
  BY <1>1 DEF SentInv, IsAnswered
<1>6. WaitsInv' /\ WaitingClientsInOrder'
  BY <1>1 DEF WaitsInv, WaitingClientsInOrder
<1> QED
  BY <1>2, <1>3, <1>4, <1>5, <1>6 DEF IInv

\* Accepting and closing connections, the lookups of the senders and the expiry of
\* a key are of no concern to the requests.
LEMMA QuietInv ==
  ASSUME IInv,
         UNCHANGED <<script, asked, taken, last_command_id, job, applied, replies, waits,
                     procQueue, worker, sendQueue, senderPc, senderTask, buffered, to_send, got>>
  PROVE  IInv'
<1>1. ShapeInv /\ NumbersInv /\ WorkInv /\ SentInv /\ WaitsInv /\ WaitingClientsInOrder
  BY DEF IInv
<1>2. ShapeInv'
  BY <1>1 DEF ShapeInv, IsSequence
<1>3. NumbersInv'
  BY <1>1 DEF NumbersInv
<1>4. WorkInv'
  BY <1>1 DEF WorkInv, H!NoJob, P!Idle
<1>5. SentInv'
  BY <1>1 DEF SentInv, IsAnswered
<1>6. WaitsInv' /\ WaitingClientsInOrder'
  BY <1>1 DEF WaitsInv, WaitingClientsInOrder
<1> QED
  BY <1>2, <1>3, <1>4, <1>5, <1>6 DEF IInv

\* A worker takes the next task of the queue, which is that of the next request.
LEMMA BeginInv ==
  ASSUME IInv, NEW w \in Workers, Begin(w)
  PROVE  IInv'
<1>1. PICK n : n = taken + 1
  OBVIOUS
<1>2. /\ ShapeInv /\ NumbersInv /\ WorkInv /\ SentInv /\ WaitsInv /\ WaitingClientsInOrder
  BY DEF IInv
<1>3. /\ worker[w] = P!Idle /\ procQueue # << >>
      /\ worker' = [worker EXCEPT ![w] = Head(procQueue)]
      /\ procQueue' = Tail(procQueue)
      /\ UNCHANGED <<last_command_id, to_send, buffered, sendQueue, senderPc, senderTask>>
  BY DEF Begin, P!WorkerTake, P!loopVars, P!ctxVars, P!histVars
<1>4. /\ job[w] = H!NoJob /\ n \in DOMAIN script /\ taken' = n
      /\ \/ /\ job' = [job EXCEPT ![w] = [H!NoJob EXCEPT !.n = n]]
            /\ replies' = replies
         \/ /\ \E x : H!Reply(n, x)
            /\ job' = job
      /\ UNCHANGED <<script, applied, asked, got, waits>>
  BY <1>1 DEF Begin, H!Take, ownVars
<1>5. /\ Len(asked) \in Nat /\ DOMAIN asked = 1 .. Len(asked)
      /\ taken \in Nat /\ n \in 1 .. Len(asked) /\ n # 0 /\ n \in Nat
  BY <1>1, <1>2, <1>4, AskedIs DEF ShapeInv
<1>6. /\ Head(procQueue) = procQueue[1] /\ procQueue' \in Seq(Task)
      /\ Len(procQueue') = Len(procQueue) - 1
      /\ \A i \in 1 .. Len(procQueue) - 1 : procQueue'[i] = procQueue[i + 1]
      /\ Len(procQueue) \in Nat \ {0}
  BY <1>2, <1>3, TailIs DEF ShapeInv
<1>7. /\ Len(procQueue) = Len(asked) - taken
      /\ \A i \in 1 .. Len(asked) - taken : procQueue[i] = asked[taken + i]
  BY <1>2 DEF WorkInv
<1>8. Head(procQueue) = asked[n]
  BY <1>1, <1>5, <1>6, <1>7
<1>9. /\ H!NoJob.n = 0 /\ 1 .. n = 1 .. taken \cup {n} /\ n \notin 1 .. taken
      /\ n \notin DOMAIN replies /\ \A v \in Workers : job[v].n # n
      /\ DOMAIN replies \subseteq 1 .. taken
  <2>1. H!NoJob.n = 0
    BY DEF H!NoJob
  <2>2. 1 .. n = 1 .. taken \cup {n} /\ n \notin 1 .. taken
    BY <1>1, <1>5
  <2> QED
    BY <1>2, <1>5, <2>1, <2>2 DEF WorkInv
<1>10. /\ worker' = [v \in Workers |-> worker'[v]] /\ worker'[w] = asked[n]
       /\ \A v \in Workers : v # w => worker'[v] = worker[v]
       /\ job' = [v \in Workers |-> job'[v]]
       /\ \A v \in Workers : v # w => job'[v] = job[v]
  BY <1>2, <1>3, <1>4, <1>8 DEF ShapeInv
<1>11. /\ (job'[w].n = n /\ n \notin DOMAIN replies') \/ (n \in DOMAIN replies' /\ job'[w] = H!NoJob)
       /\ DOMAIN replies \subseteq DOMAIN replies' /\ DOMAIN replies' \subseteq DOMAIN replies \cup {n}
  <2>1. CASE job' = [job EXCEPT ![w] = [H!NoJob EXCEPT !.n = n]] /\ replies' = replies
    <3>1. job'[w] = [H!NoJob EXCEPT !.n = n]
      BY <1>2, <2>1 DEF ShapeInv
    <3>2. job'[w].n = n
      BY <3>1 DEF H!NoJob
    <3> QED
      BY <1>9, <2>1, <3>2
  <2>2. CASE (\E x : H!Reply(n, x)) /\ job' = job
    BY <1>4, <2>2 DEF H!Reply
  <2> QED
    BY <1>4, <2>1, <2>2
<1>12. ShapeInv'
  <2>1. \A v \in Workers :
          job'[v] = [n |-> job'[v].n, made |-> job'[v].made, read |-> job'[v].read]
    <3>1. \A v \in Workers :
            job[v] = [n |-> job[v].n, made |-> job[v].made, read |-> job[v].read]
      BY <1>2 DEF ShapeInv
    <3>2. job'[w] = job[w] \/ job'[w] = [H!NoJob EXCEPT !.n = n]
      BY <1>2, <1>4 DEF ShapeInv
    <3>3. [H!NoJob EXCEPT !.n = n] = [n |-> n, made |-> 0, read |-> << >>]
      BY DEF H!NoJob
    <3>4. job'[w] = [n |-> job'[w].n, made |-> job'[w].made, read |-> job'[w].read]
      <4>1. CASE job'[w] = job[w]
        BY <3>1, <4>1
      <4>2. CASE job'[w] = [n |-> n, made |-> 0, read |-> << >>]
        BY <4>2
      <4> QED
        BY <3>2, <3>3, <4>1, <4>2
    <3> QED
      BY <1>10, <3>1, <3>4
  <2> QED
    BY <1>2, <1>3, <1>4, <1>5, <1>6, <1>10, <2>1 DEF ShapeInv, IsSequence
<1>13. NumbersInv'
  BY <1>2, <1>3, <1>4 DEF NumbersInv
<1>14. WorkInv'
  <2>1. Len(procQueue') = Len(asked) - n
    <3>1. Len(procQueue') = Len(procQueue) - 1 /\ Len(procQueue) = Len(asked) - taken
      BY <1>6, <1>7
    <3> QED
      BY <1>1, <1>5, <3>1
  <2>2. \A i \in 1 .. Len(asked) - n : procQueue'[i] = asked[n + i]
    <3> TAKE i \in 1 .. Len(asked) - n
    <3>1. i \in 1 .. Len(procQueue) - 1 /\ i + 1 \in 1 .. Len(asked) - taken
          /\ taken + (i + 1) = n + i
      BY <1>1, <1>5, <1>7
    <3> QED
      BY <1>6, <1>7, <3>1
  <2>3. DOMAIN replies' \subseteq 1 .. n
    BY <1>9, <1>11
  <2>4. \A i \in DOMAIN applied : applied[i].n \in 1 .. n
    BY <1>2, <1>9 DEF WorkInv
  <2>5. ASSUME NEW v \in Workers
        PROVE  /\ job'[v] # H!NoJob => job'[v].n \in 1 .. n /\ worker'[v] = asked[job'[v].n]
               /\ worker'[v] # P!Idle => \E m \in 1 .. n :
                    worker'[v] = asked[m] /\ (m \in DOMAIN replies' \/ job'[v].n = m)
               /\ job'[v].n \notin DOMAIN replies'
    <3>1. CASE v = w
      <4>1. n \in 1 .. n
        BY <1>5
      <4>2. 0 \notin DOMAIN replies'
        BY <1>5, <1>9, <1>11
      <4> QED
        BY <1>9, <1>10, <1>11, <3>1, <4>1, <4>2
    <3>2. CASE v # w
      <4>1. /\ job[v] # H!NoJob => job[v].n \in 1 .. taken /\ worker[v] = asked[job[v].n]
            /\ worker[v] # P!Idle => \E m \in 1 .. taken :
                 worker[v] = asked[m] /\ (m \in DOMAIN replies \/ job[v].n = m)
            /\ job[v].n \notin DOMAIN replies
        BY <1>2 DEF WorkInv
      <4> QED
        BY <1>9, <1>10, <1>11, <3>2, <4>1
    <3> QED
      BY <3>1, <3>2
  <2>6. \A u, v \in Workers : job'[u].n = job'[v].n /\ job'[v] # H!NoJob => u = v
    <3> TAKE u, v \in Workers
    <3> HAVE job'[u].n = job'[v].n /\ job'[v] # H!NoJob
    <3>1. CASE v = w
      BY <1>9, <1>10, <1>11, <3>1
    <3>2. CASE v # w
      <4>1. job'[v] = job[v] /\ job[v] # H!NoJob
        BY <1>10, <3>2
      <4>2. job[v].n \in 1 .. taken /\ job[v].n # 0
        BY <1>2, <1>5, <4>1 DEF WorkInv
      <4>3. u # w
        BY <1>9, <1>11, <4>1, <4>2
      <4> QED
        BY <1>2, <1>10, <4>1, <4>3 DEF WorkInv
    <3> QED
      BY <3>1, <3>2
  <2>7. /\ asked' = asked /\ taken' = n /\ applied' = applied
    BY <1>4
  <2> QED
    BY <2>1, <2>2, <2>3, <2>4, <2>5, <2>6, <2>7 DEF WorkInv, H!NoJob, P!Idle
<1>15. SentInv'
  <2>1. \A task : IsAnswered(task) => WillBeAnswered(task)
    BY <1>4, <1>11 DEF IsAnswered, WillBeAnswered
  <2>2. /\ \A i \in DOMAIN sendQueue' : WillBeAnswered(sendQueue'[i])
        /\ \A t \in Senders : senderPc'[t] # "idle" => WillBeAnswered(senderTask'[t])
        /\ \A d \in Conns : \A id \in buffered'[d] : WillBeAnswered([s |-> d, id |-> id])
    BY <1>2, <1>3, <2>1 DEF SentInv
  <2>3. /\ \A m \in DOMAIN asked' : asked'[m].id < to_send'[asked'[m].s] => m \in DOMAIN replies'
        /\ \A c \in Conns : Len(got'[c]) <= to_send'[c] /\ to_send'[c] <= last_command_id'[c]
    BY <1>2, <1>3, <1>4, <1>11 DEF SentInv
  <2> QED
    BY <2>2, <2>3 DEF SentInv, IsAnswered, WillBeAnswered
<1>16. WaitsInv' /\ WaitingClientsInOrder'
  BY <1>2, <1>4, <1>11 DEF WaitsInv, WaitingClientsInOrder
<1> QED
  BY <1>12, <1>13, <1>14, <1>15, <1>16 DEF IInv

\* What a call that returns, throws or fails does to the request of its worker.
LEMMA CallIs ==
  ASSUME ShapeInv, NEW w \in Workers, Work(w)
  PROVE  /\ job[w] # H!NoJob
         /\ UNCHANGED <<script, taken, pipeVars, ownVars>>
         /\ applied' = applied \/ \E c : applied' = Append(applied, [n |-> job[w].n, call |-> c])
         /\ \/ /\ replies' = replies
               /\ \E x : /\ x.n = job[w].n
                         /\ x = [n |-> x.n, made |-> x.made, read |-> x.read]
                         /\ job' = [job EXCEPT ![w] = x]
            \/ /\ \E x : H!Reply(job[w].n, x)
               /\ job' = [job EXCEPT ![w] = H!NoJob]
<1> DEFINE Ends == (\E x : H!Reply(job[w].n, x)) /\ job' = [job EXCEPT ![w] = H!NoJob]
<1> DEFINE MayApply ==
             applied' = applied \/ \E c : applied' = Append(applied, [n |-> job[w].n, call |-> c])
<1>1. \A c : H!Apply(w, c) => MayApply
  BY DEF H!Apply
<1>2. \A x : H!Answer(w, x) => Ends
  BY DEF H!Answer
<1>3. CASE H!CallReturns(w)
  <2> DEFINE call == H!Calls(script[job[w].n])[job[w].made + 1]
  <2> DEFINE read == Append(job[w].read, store[call.key])
  <2>1. /\ job[w] # H!NoJob /\ H!Apply(w, call) /\ script' = script /\ taken' = taken
        /\ \/ /\ job' = [job EXCEPT ![w] = [job[w] EXCEPT !.made = job[w].made + 1, !.read = read]]
              /\ replies' = replies
           \/ H!Answer(w, H!ReplyTo(script[job[w].n], read))
    BY <1>3 DEF H!CallReturns
  <2> HIDE DEF call, read
  <2>2. PICK x : x = [job[w] EXCEPT !.made = job[w].made + 1, !.read = read]
    OBVIOUS
  <2>3. job[w] = [n |-> job[w].n, made |-> job[w].made, read |-> job[w].read]
    BY DEF ShapeInv
  <2>4. x = [n |-> job[w].n, made |-> job[w].made + 1, read |-> read]
    BY <2>2, <2>3
  <2>5. x.n = job[w].n /\ x = [n |-> x.n, made |-> x.made, read |-> x.read]
    BY <2>4
  <2> HIDE DEF Ends, MayApply
  <2>6. MayApply /\ (Ends \/ (replies' = replies /\ job' = [job EXCEPT ![w] = x]))
    BY <1>1, <1>2, <2>1, <2>2
  <2> QED
    BY <2>1, <2>5, <2>6 DEF Work, Ends, MayApply
<1>4. CASE H!CallThrows(w)
  <2>1. /\ job[w] # H!NoJob /\ script' = script /\ taken' = taken
        /\ applied' = applied \/ \E c : H!Apply(w, c)
        /\ H!Answer(w, H!InternalError)
    BY <1>4 DEF H!CallThrows
  <2> HIDE DEF Ends, MayApply
  <2>2. MayApply /\ Ends
    BY <1>1, <1>2, <2>1 DEF MayApply
  <2> QED
    BY <2>1, <2>2 DEF Work, Ends, MayApply
<1>5. CASE H!CallFails(w)
  <2>1. /\ job[w] # H!NoJob /\ script' = script /\ taken' = taken
        /\ applied' = applied \/ \E c : H!Apply(w, c)
        /\ \E x : H!Answer(w, x)
    BY <1>5 DEF H!CallFails
  <2> HIDE DEF Ends, MayApply
  <2>2. MayApply /\ Ends
    BY <1>1, <1>2, <2>1 DEF MayApply
  <2> QED
    BY <2>1, <2>2 DEF Work, Ends, MayApply
<1> QED
  BY <1>3, <1>4, <1>5 DEF Work

\* A call of a request that has no reply yet: what its client had asked before any
\* request it waited with has been answered, so that the call is of none of those.
LEMMA CallInv ==
  ASSUME IInv, NEW w \in Workers, Work(w)
  PROVE  IInv'
<1>1. PICK n : n = job[w].n
  OBVIOUS
<1>2. ShapeInv /\ NumbersInv /\ WorkInv /\ SentInv /\ WaitsInv /\ WaitingClientsInOrder
  BY DEF IInv
<1>3. /\ job[w] # H!NoJob
      /\ UNCHANGED <<script, taken, pipeVars, ownVars>>
      /\ applied' = applied \/ \E c : applied' = Append(applied, [n |-> n, call |-> c])
      /\ \/ /\ replies' = replies
            /\ \E x : /\ x.n = n
                      /\ x = [n |-> x.n, made |-> x.made, read |-> x.read]
                      /\ job' = [job EXCEPT ![w] = x]
         \/ /\ \E x : H!Reply(n, x)
            /\ job' = [job EXCEPT ![w] = H!NoJob]
  BY <1>1, <1>2, CallIs
<1>4. /\ UNCHANGED <<script, taken, asked, last_command_id, to_send, buffered, got, waits,
                     procQueue, worker, sendQueue, senderPc, senderTask>>
  BY <1>3 DEF pipeVars, ownVars
<1>5. /\ n \in 1 .. taken /\ n \notin DOMAIN replies /\ worker[w] = asked[n]
      /\ DOMAIN replies \subseteq 1 .. taken /\ taken \in Nat /\ n # 0
      /\ DOMAIN asked = 1 .. Len(asked) /\ 1 .. taken \subseteq DOMAIN asked
  BY <1>1, <1>2, <1>3, AskedIs DEF WorkInv, ShapeInv
<1>6. H!NoJob.n = 0 /\ H!NoJob = [n |-> 0, made |-> 0, read |-> << >>]
  BY DEF H!NoJob
<1>7. /\ job' = [v \in Workers |-> job'[v]]
      /\ \A v \in Workers : v # w => job'[v] = job[v]
      /\ job'[w] = [n |-> job'[w].n, made |-> job'[w].made, read |-> job'[w].read]
      /\ \/ job'[w].n = n /\ replies' = replies
         \/ job'[w] = H!NoJob /\ DOMAIN replies' = DOMAIN replies \cup {n}
  <2>1. DOMAIN job = Workers /\ job = [v \in Workers |-> job[v]]
    BY <1>2 DEF ShapeInv
  <2>2. CASE /\ replies' = replies
             /\ \E x : /\ x.n = n
                       /\ x = [n |-> x.n, made |-> x.made, read |-> x.read]
                       /\ job' = [job EXCEPT ![w] = x]
    BY <2>1, <2>2
  <2>3. CASE (\E x : H!Reply(n, x)) /\ job' = [job EXCEPT ![w] = H!NoJob]
    <3>1. DOMAIN replies' = DOMAIN replies \cup {n}
      BY <2>3 DEF H!Reply
    <3>2. H!NoJob = [n |-> H!NoJob.n, made |-> H!NoJob.made, read |-> H!NoJob.read]
      BY <1>6
    <3> QED
      BY <2>1, <2>3, <3>1, <3>2
  <2> QED
    BY <1>3, <2>2, <2>3
<1>8. DOMAIN replies \subseteq DOMAIN replies' /\ DOMAIN replies' \subseteq DOMAIN replies \cup {n}
  BY <1>7
<1>9. PICK last : last = Len(applied) + 1
  OBVIOUS
<1>10. /\ IsSequence(applied') /\ Len(applied) \in Nat /\ DOMAIN applied = 1 .. Len(applied)
       /\ \A i \in DOMAIN applied : applied'[i] = applied[i]
       /\ \/ DOMAIN applied' = DOMAIN applied
          \/ DOMAIN applied' = 1 .. last /\ applied'[last].n = n
  <2>1. IsSequence(applied)
    BY <1>2 DEF ShapeInv
  <2>2. Len(applied) \in Nat /\ DOMAIN applied = 1 .. Len(applied)
    BY <2>1, GrownIs
  <2>3. CASE applied' = applied
    BY <2>1, <2>2, <2>3
  <2>4. ASSUME NEW c, applied' = Append(applied, [n |-> n, call |-> c])
        PROVE  /\ IsSequence(applied') /\ \A i \in DOMAIN applied : applied'[i] = applied[i]
               /\ DOMAIN applied' = 1 .. last /\ applied'[last].n = n
    <3>1. PICK x : x = [n |-> n, call |-> c]
      OBVIOUS
    <3>2. x.n = n
      BY <3>1
    <3>3. applied' = Append(applied, x)
      BY <2>4, <3>1
    <3> QED
      BY <1>9, <2>1, <3>2, <3>3, GrownIs
  <2> QED
    BY <1>3, <2>2, <2>3, <2>4
<1>11. \A i \in DOMAIN applied' : i \in DOMAIN applied \/ (i = last /\ applied'[i].n = n)
  BY <1>9, <1>10
<1>12. ShapeInv'
  <2>1. \A v \in Workers :
          job'[v] = [n |-> job'[v].n, made |-> job'[v].made, read |-> job'[v].read]
    BY <1>2, <1>7 DEF ShapeInv
  <2> QED
    BY <1>2, <1>4, <1>7, <1>10, <2>1 DEF ShapeInv, IsSequence
<1>13. NumbersInv'
  BY <1>2, <1>4 DEF NumbersInv
<1>14. WorkInv'
  <2>1. /\ Len(procQueue) = Len(asked) - taken
        /\ \A i \in 1 .. Len(asked) - taken : procQueue[i] = asked[taken + i]
        /\ DOMAIN replies' \subseteq 1 .. taken
        /\ \A i \in DOMAIN applied' : applied'[i].n \in 1 .. taken
    BY <1>2, <1>5, <1>8, <1>10, <1>11 DEF WorkInv
  <2>2. ASSUME NEW v \in Workers
        PROVE  /\ job'[v] # H!NoJob => job'[v].n \in 1 .. taken /\ worker[v] = asked[job'[v].n]
               /\ worker[v] # P!Idle => \E m \in 1 .. taken :
                    worker[v] = asked[m] /\ (m \in DOMAIN replies' \/ job'[v].n = m)
               /\ job'[v].n \notin DOMAIN replies'
    <3>1. CASE v = w
      <4>1. 0 \notin DOMAIN replies'
        BY <1>5, <1>8
      <4> QED
        BY <1>5, <1>6, <1>7, <3>1, <4>1
    <3>2. CASE v # w
      <4>1. /\ job[v] # H!NoJob => job[v].n \in 1 .. taken /\ worker[v] = asked[job[v].n]
            /\ worker[v] # P!Idle => \E m \in 1 .. taken :
                 worker[v] = asked[m] /\ (m \in DOMAIN replies \/ job[v].n = m)
            /\ job[v].n \notin DOMAIN replies
        BY <1>2 DEF WorkInv
      <4>2. job[v].n # n
        BY <1>1, <1>2, <1>3, <3>2 DEF WorkInv
      <4> QED
        BY <1>7, <1>8, <3>2, <4>1, <4>2
    <3> QED
      BY <3>1, <3>2
  <2>3. \A u, v \in Workers : job'[u].n = job'[v].n /\ job'[v] # H!NoJob => u = v
    <3> TAKE u, v \in Workers
    <3> HAVE job'[u].n = job'[v].n /\ job'[v] # H!NoJob
    <3>1. CASE v = w
      <4>1. job'[v].n = n
        BY <1>7, <3>1
      <4>2. u # w => job[u].n = n
        BY <1>7, <4>1
      <4> QED
        BY <1>1, <1>2, <1>3, <3>1, <4>2 DEF WorkInv
    <3>2. CASE v # w
      <4>1. job'[v] = job[v] /\ job[v] # H!NoJob
        BY <1>7, <3>2
      <4>2. job[v].n # 0 /\ job[v].n # n
        BY <1>1, <1>2, <1>3, <1>5, <3>2, <4>1 DEF WorkInv
      <4>3. u # w
        BY <1>6, <1>7, <4>1, <4>2
      <4> QED
        BY <1>2, <1>7, <4>1, <4>3 DEF WorkInv
    <3> QED
      BY <3>1, <3>2
  <2> QED
    BY <1>4, <2>1, <2>2, <2>3 DEF WorkInv, H!NoJob, P!Idle
<1>15. SentInv'
  <2>1. \A task : IsAnswered(task) => WillBeAnswered(task)
    BY <1>4, <1>8 DEF IsAnswered, WillBeAnswered
  <2>2. /\ \A i \in DOMAIN sendQueue' : WillBeAnswered(sendQueue'[i])
        /\ \A t \in Senders : senderPc'[t] # "idle" => WillBeAnswered(senderTask'[t])
        /\ \A d \in Conns : \A id \in buffered'[d] : WillBeAnswered([s |-> d, id |-> id])
    BY <1>2, <1>4, <2>1 DEF SentInv
  <2>3. /\ \A m \in DOMAIN asked' : asked'[m].id < to_send'[asked'[m].s] => m \in DOMAIN replies'
        /\ \A c \in Conns : Len(got'[c]) <= to_send'[c] /\ to_send'[c] <= last_command_id'[c]
    BY <1>2, <1>4, <1>8 DEF SentInv
  <2> QED
    BY <2>2, <2>3 DEF SentInv, IsAnswered, WillBeAnswered
<1>16. WaitsInv'
  BY <1>2, <1>4, <1>8 DEF WaitsInv
<1>17. WaitingClientsInOrder'
  <2> SUFFICES ASSUME NEW i \in DOMAIN applied', NEW j \in DOMAIN applied', i < j,
                      asked[applied'[i].n].s = asked[applied'[j].n].s,
                      applied'[j].n < applied'[i].n
               PROVE  applied'[i].n \notin waits
    BY <1>4 DEF WaitingClientsInOrder
  <2>1. i \in DOMAIN applied /\ applied'[i] = applied[i]
    <3>1. i # last
      <4>1. j \in DOMAIN applied \/ j = last
        BY <1>11
      <4> QED
        BY <1>9, <1>10, <4>1
    <3> QED
      BY <1>10, <1>11, <3>1
  <2>2. CASE j \in DOMAIN applied
    BY <1>2, <1>10, <2>1, <2>2 DEF WaitingClientsInOrder
  <2>3. CASE j = last /\ applied'[j].n = n
    <3>1. applied[i].n \in waits => n \in DOMAIN replies
      BY <1>2, <1>5, <2>1, <2>3 DEF WaitsInv
    <3> QED
      BY <1>5, <2>1, <3>1
  <2> QED
    BY <1>11, <2>2, <2>3
<1> QED
  BY <1>12, <1>13, <1>14, <1>15, <1>16, <1>17 DEF IInv

\* A worker hands its reply on.
LEMMA SendReplyInv ==
  ASSUME IInv, NEW w \in Workers, SendReply(w)
  PROVE  IInv'
<1>1. ShapeInv /\ NumbersInv /\ WorkInv /\ SentInv /\ WaitsInv /\ WaitingClientsInOrder
  BY DEF IInv
<1>2. /\ worker[w] # P!Idle /\ NumberOf(worker[w]) \in DOMAIN replies
      /\ sendQueue' = Append(sendQueue, worker[w])
      /\ worker' = [worker EXCEPT ![w] = P!Idle]
      /\ UNCHANGED <<script, taken, job, applied, replies, asked, last_command_id, to_send,
                     buffered, got, waits, procQueue, senderPc, senderTask>>
  BY DEF SendReply, P!WorkerReply, P!loopVars, P!ctxVars, P!histVars, handlerVars, ownVars
<1>3. PICK n \in 1 .. taken : worker[w] = asked[n]
  BY <1>1, <1>2 DEF WorkInv
<1>4. /\ n \in 1 .. Len(asked) /\ asked[n] \in Task /\ NumberOf(asked[n]) = n
      /\ DOMAIN asked = 1 .. Len(asked)
  BY <1>1, <1>3, AskedIs
<1>5. n \in DOMAIN replies
  BY <1>2, <1>3, <1>4
<1>6. /\ sendQueue' \in Seq(Task) /\ DOMAIN sendQueue' = 1 .. Len(sendQueue) + 1
      /\ DOMAIN sendQueue = 1 .. Len(sendQueue) /\ Len(sendQueue) \in Nat
      /\ \A i \in 1 .. Len(sendQueue) : sendQueue'[i] = sendQueue[i]
      /\ sendQueue'[Len(sendQueue) + 1] = asked[n]
  BY <1>1, <1>2, <1>3, <1>4, AppendIs DEF ShapeInv
<1>7. /\ worker' = [v \in Workers |-> worker'[v]] /\ worker'[w] = P!Idle
      /\ \A v \in Workers : v # w => worker'[v] = worker[v]
  BY <1>1, <1>2 DEF ShapeInv
<1>8. job[w] = H!NoJob
  <2> SUFFICES ASSUME job[w] # H!NoJob PROVE FALSE
    OBVIOUS
  <2>1. /\ worker[w] = asked[job[w].n] /\ job[w].n \in 1 .. taken
        /\ job[w].n \notin DOMAIN replies
    BY <1>1 DEF WorkInv
  <2>2. job[w].n \in DOMAIN asked
    BY <1>1, <1>4, <2>1 DEF ShapeInv
  <2>3. job[w].n = n
    BY <1>1, <1>3, <1>4, <2>1, <2>2 DEF NumbersInv
  <2> QED
    BY <1>5, <2>1, <2>3
<1>9. ShapeInv'
  BY <1>1, <1>2, <1>6, <1>7 DEF ShapeInv, IsSequence
<1>10. NumbersInv'
  BY <1>1, <1>2 DEF NumbersInv
<1>11. WorkInv'
  <2>1. ASSUME NEW v \in Workers
        PROVE  /\ job[v] # H!NoJob => job[v].n \in 1 .. taken /\ worker'[v] = asked[job[v].n]
               /\ worker'[v] # P!Idle => \E m \in 1 .. taken :
                    worker'[v] = asked[m] /\ (m \in DOMAIN replies \/ job[v].n = m)
               /\ job[v].n \notin DOMAIN replies
    <3>1. /\ job[v] # H!NoJob => job[v].n \in 1 .. taken /\ worker[v] = asked[job[v].n]
          /\ worker[v] # P!Idle => \E m \in 1 .. taken :
               worker[v] = asked[m] /\ (m \in DOMAIN replies \/ job[v].n = m)
          /\ job[v].n \notin DOMAIN replies
      BY <1>1 DEF WorkInv
    <3> QED
      BY <1>7, <1>8, <3>1
  <2>2. /\ Len(procQueue) = Len(asked) - taken
        /\ \A i \in 1 .. Len(asked) - taken : procQueue[i] = asked[taken + i]
        /\ DOMAIN replies \subseteq 1 .. taken
        /\ \A i \in DOMAIN applied : applied[i].n \in 1 .. taken
        /\ \A u, v \in Workers : job[u].n = job[v].n /\ job[v] # H!NoJob => u = v
    BY <1>1 DEF WorkInv
  <2> QED
    BY <1>2, <2>1, <2>2 DEF WorkInv, H!NoJob, P!Idle
<1>12. SentInv'
  <2>1. \A task : IsAnswered(task) => WillBeAnswered(task)
    BY <1>2 DEF IsAnswered, WillBeAnswered
  <2>2. WillBeAnswered(asked[n])
    BY <1>2, <1>5 DEF WillBeAnswered
  <2>3. \A i \in DOMAIN sendQueue' : WillBeAnswered(sendQueue'[i])
    <3> TAKE i \in DOMAIN sendQueue'
    <3>1. i \in 1 .. Len(sendQueue) \/ i = Len(sendQueue) + 1
      BY <1>6
    <3> QED
      BY <1>1, <1>6, <2>1, <2>2, <3>1 DEF SentInv
  <2>4. /\ \A t \in Senders : senderPc'[t] # "idle" => WillBeAnswered(senderTask'[t])
        /\ \A d \in Conns : \A id \in buffered'[d] : WillBeAnswered([s |-> d, id |-> id])
    BY <1>1, <1>2, <2>1 DEF SentInv
  <2>5. /\ \A m \in DOMAIN asked' : asked'[m].id < to_send'[asked'[m].s] => m \in DOMAIN replies'
        /\ \A c \in Conns : Len(got'[c]) <= to_send'[c] /\ to_send'[c] <= last_command_id'[c]
    BY <1>1, <1>2 DEF SentInv
  <2> QED
    BY <2>3, <2>4, <2>5 DEF SentInv, IsAnswered, WillBeAnswered
<1>13. WaitsInv' /\ WaitingClientsInOrder'
  BY <1>1, <1>2 DEF WaitsInv, WaitingClientsInOrder
<1> QED
  BY <1>9, <1>10, <1>11, <1>12, <1>13 DEF IInv

\* The session of an answered task, and the number of its reply.
LEMMA AnsweredIs ==
  ASSUME IInv, NEW task, IsAnswered(task)
  PROVE  task \in Task /\ task.s \in Conns /\ task.id \in Nat
         /\ task = [s |-> task.s, id |-> task.id] /\ task.id < last_command_id[task.s]
         /\ \A n \in DOMAIN asked : asked[n] = task => n \in DOMAIN replies
<1>1. ShapeInv /\ NumbersInv /\ WorkInv
  BY DEF IInv
<1>2. PICK n \in DOMAIN replies : asked[n] = task
  BY DEF IsAnswered
<1>3. n \in 1 .. Len(asked) /\ DOMAIN asked = 1 .. Len(asked)
  BY <1>1, <1>2, AskedIs DEF WorkInv, ShapeInv
<1>4. \A m \in DOMAIN asked : asked[m] = task => m = n
  BY <1>1, <1>2, <1>3 DEF NumbersInv
<1> QED
  BY <1>1, <1>2, <1>3, <1>4, AskedIs

\* A reply with the number that is to be sent next is written, and the session goes
\* on to the next number; the client may have been sent it or not.
LEMMA PassesInv ==
  ASSUME IInv, NEW s \in Conns, IsAnswered([s |-> s, id |-> to_send[s]]), NEW x,
         UNCHANGED <<script, asked, taken, last_command_id, job, applied, replies, waits,
                     procQueue, worker, sendQueue, senderTask>>,
         got' = got \/ got' = [got EXCEPT ![s] = Append(@, x)],
         to_send' = [to_send EXCEPT ![s] = @ + 1],
         senderPc' = [t \in Senders |-> senderPc'[t]],
         \A t \in Senders : senderPc'[t] # "idle" => senderPc[t] # "idle",
         buffered' = [c \in Conns |-> buffered'[c]],
         \A c \in Conns : buffered'[c] \subseteq buffered[c]
  PROVE  IInv'
<1>1. ShapeInv /\ SentInv
  BY DEF IInv
<1>2. PICK k : k = [s |-> s, id |-> to_send[s]]
  OBVIOUS
<1>3. k.s = s /\ k.id = to_send[s]
  BY <1>2
<1>4. to_send[s] < last_command_id[s] /\ \A n \in DOMAIN asked : asked[n] = k => n \in DOMAIN replies
  BY <1>2, <1>3, AnsweredIs
<1>5. /\ to_send' \in [Conns -> Nat] /\ to_send'[s] = to_send[s] + 1
      /\ \A c \in Conns : c # s => to_send'[c] = to_send[c]
      /\ \A c \in Conns : to_send[c] \in Nat /\ last_command_id[c] \in Nat
  BY <1>1 DEF ShapeInv
<1>6. /\ got' = [c \in Conns |-> got'[c]]
      /\ \A c \in Conns : IsSequence(got'[c]) /\ Len(got[c]) \in Nat
      /\ \A c \in Conns : c # s => got'[c] = got[c]
      /\ Len(got'[s]) \in {Len(got[s]), Len(got[s]) + 1}
  <2>1. got = [c \in Conns |-> got[c]] /\ \A c \in Conns : IsSequence(got[c]) /\ Len(got[c]) \in Nat
    BY <1>1, GrownIs DEF ShapeInv
  <2>2. CASE got' = got
    BY <2>1, <2>2
  <2>3. CASE got' = [got EXCEPT ![s] = Append(@, x)]
    <3>1. /\ got'[s] = Append(got[s], x) /\ got' = [c \in Conns |-> got'[c]]
          /\ \A c \in Conns : c # s => got'[c] = got[c]
      BY <2>1, <2>3
    <3>2. IsSequence(got'[s]) /\ Len(got'[s]) = Len(got[s]) + 1
      BY <2>1, <3>1, GrownIs
    <3> QED
      BY <2>1, <3>1, <3>2
  <2> QED
    BY <2>2, <2>3
<1>7. \A c \in Conns : Len(got'[c]) <= to_send'[c] /\ to_send'[c] <= last_command_id[c]
  <2> TAKE c \in Conns
  <2>1. Len(got[c]) <= to_send[c] /\ to_send[c] <= last_command_id[c]
    BY <1>1 DEF SentInv
  <2>2. CASE c = s
    BY <1>4, <1>5, <1>6, <2>1, <2>2
  <2>3. CASE c # s
    BY <1>5, <1>6, <2>1, <2>3
  <2> QED
    BY <2>2, <2>3
<1>8. \A n \in DOMAIN asked : asked[n].id < to_send'[asked[n].s] => n \in DOMAIN replies
  <2> TAKE n \in DOMAIN asked
  <2>1. /\ asked[n].s \in Conns /\ asked[n].id \in Nat
        /\ asked[n] = [s |-> asked[n].s, id |-> asked[n].id]
    BY AskedIs DEF IInv
  <2>2. asked[n].id < to_send[asked[n].s] => n \in DOMAIN replies
    BY <1>1 DEF SentInv
  <2>3. CASE asked[n].s = s /\ asked[n].id = to_send[s]
    BY <1>2, <1>4, <2>1, <2>3
  <2>4. CASE ~(asked[n].s = s /\ asked[n].id = to_send[s])
    BY <1>5, <2>1, <2>2, <2>4
  <2> QED
    BY <2>3, <2>4
<1>9. /\ \A i \in DOMAIN sendQueue' : IsAnswered(sendQueue'[i])
      /\ \A t \in Senders : senderPc'[t] # "idle" => IsAnswered(senderTask'[t])
      /\ \A c \in Conns : \A id \in buffered'[c] : IsAnswered([s |-> c, id |-> id])
  BY <1>1 DEF SentInv
<1>10. sendQueue' \in Seq(Task) /\ senderTask' = [t \in Senders |-> senderTask'[t]]
  BY <1>1 DEF ShapeInv
<1> QED
  <2>1. \A c \in Conns : IsSequence(got'[c])
    BY <1>6
  <2> QED
    BY <1>5, <1>6, <1>7, <1>8, <1>9, <1>10, <2>1, SendersInv

\* A sender lets its task go, or goes on with it.
LEMMA SenderGoesOn ==
  ASSUME IInv, NEW t \in Senders,
         UNCHANGED <<script, asked, taken, last_command_id, job, applied, replies, waits,
                     procQueue, worker, sendQueue, to_send, got>>,
         \/ senderPc' = [senderPc EXCEPT ![t] = "idle"] /\ senderTask' = [senderTask EXCEPT ![t] = P!Idle]
         \/ /\ senderPc[t] # "idle" /\ senderTask' = senderTask
            /\ \E pc \in {"ready", "drain"} : senderPc' = [senderPc EXCEPT ![t] = pc],
         \/ buffered' = buffered
         \/ \E s \in Conns, id \in Nat :
              /\ IsAnswered([s |-> s, id |-> id])
              /\ buffered' = [buffered EXCEPT ![s] = @ \cup {id}]
  PROVE  IInv'
<1>1. ShapeInv /\ SentInv
  BY DEF IInv
<1>2. /\ senderPc' = [u \in Senders |-> senderPc'[u]]
      /\ senderTask' = [u \in Senders |-> senderTask'[u]]
      /\ \A u \in Senders : senderPc'[u] # "idle" => senderPc[u] # "idle" /\ senderTask'[u] = senderTask[u]
  BY <1>1 DEF ShapeInv
<1>3. \A u \in Senders : senderPc'[u] # "idle" => IsAnswered(senderTask'[u])
  BY <1>1, <1>2 DEF SentInv
<1>4. /\ buffered' = [c \in Conns |-> buffered'[c]]
      /\ \A c \in Conns : \A id \in buffered'[c] : IsAnswered([s |-> c, id |-> id])
  <2>1. /\ buffered = [c \in Conns |-> buffered[c]]
        /\ \A c \in Conns : \A id \in buffered[c] : IsAnswered([s |-> c, id |-> id])
    BY <1>1 DEF ShapeInv, SentInv
  <2>2. CASE buffered' = buffered
    BY <2>1, <2>2
  <2>3. ASSUME NEW s \in Conns, NEW id \in Nat, IsAnswered([s |-> s, id |-> id]),
               buffered' = [buffered EXCEPT ![s] = @ \cup {id}]
        PROVE  /\ buffered' = [c \in Conns |-> buffered'[c]]
               /\ \A c \in Conns : \A i \in buffered'[c] : IsAnswered([s |-> c, id |-> i])
    <3>1. /\ buffered' = [c \in Conns |-> buffered'[c]]
          /\ \A c \in Conns : \A i \in buffered'[c] : i \in buffered[c] \/ (c = s /\ i = id)
      BY <2>1, <2>3
    <3> QED
      BY <2>1, <2>3, <3>1
  <2> QED
    BY <2>2, <2>3
<1>5. /\ sendQueue' \in Seq(Task) /\ \A i \in DOMAIN sendQueue' : IsAnswered(sendQueue'[i])
      /\ to_send' \in [Conns -> Nat]
      /\ got' = [c \in Conns |-> got'[c]] /\ \A c \in Conns : IsSequence(got'[c])
      /\ \A c \in Conns : Len(got'[c]) <= to_send'[c] /\ to_send'[c] <= last_command_id[c]
      /\ \A n \in DOMAIN asked : asked[n].id < to_send'[asked[n].s] => n \in DOMAIN replies
  BY <1>1 DEF ShapeInv, SentInv
<1>6. \A c \in Conns : IsSequence(got'[c])
  BY <1>5
<1> QED
  BY <1>2, <1>3, <1>4, <1>5, <1>6, SendersInv

\* A sender writes the reply it brought.
LEMMA InsertNextInv ==
  ASSUME IInv, NEW t \in Senders, InsertNext(t)
  PROVE  IInv'
<1>1. PICK s, x : s = senderTask[t].s /\ x = Response(senderTask[t])
  OBVIOUS
<1>2. /\ senderPc[t] = "ready" /\ senderTask[t].id = to_send[s]
      /\ to_send' = [to_send EXCEPT ![s] = @ + 1]
      /\ senderPc' = [senderPc EXCEPT ![t] = "drain"]
      /\ got' = got \/ got' = [got EXCEPT ![s] = Append(@, x)]
      /\ UNCHANGED <<script, asked, taken, last_command_id, job, applied, replies, waits,
                     procQueue, worker, sendQueue, senderTask, buffered>>
  BY <1>1 DEF InsertNext, P!InsertNext, P!IsNext, Sent, P!loopVars, handlerVars
<1>3. ShapeInv /\ SentInv
  BY DEF IInv
<1>4. IsAnswered(senderTask[t])
  BY <1>2, <1>3 DEF SentInv
<1>5. s \in Conns /\ senderTask[t] = [s |-> s, id |-> to_send[s]]
  BY <1>1, <1>2, <1>4, AnsweredIs
<1>6. IsAnswered([s |-> s, id |-> to_send[s]])
  BY <1>4, <1>5
<1>7. /\ senderPc' = [u \in Senders |-> senderPc'[u]]
      /\ \A u \in Senders : senderPc'[u] # "idle" => senderPc[u] # "idle"
      /\ buffered' = [c \in Conns |-> buffered'[c]]
      /\ \A c \in Conns : buffered'[c] \subseteq buffered[c]
  BY <1>2, <1>3 DEF ShapeInv
<1> QED
  BY <1>2, <1>5, <1>6, <1>7, PassesInv

\* A sender keeps the reply it brought.
LEMMA InsertEarlyInv ==
  ASSUME IInv, NEW t \in Senders, InsertEarly(t)
  PROVE  IInv'
<1>1. PICK s, id : s = senderTask[t].s /\ id = senderTask[t].id
  OBVIOUS
<1>2. /\ senderPc[t] = "ready"
      /\ buffered' = [buffered EXCEPT ![s] = @ \cup {id}]
      /\ senderPc' = [senderPc EXCEPT ![t] = "drain"]
      /\ UNCHANGED <<script, asked, taken, last_command_id, job, applied, replies, waits,
                     procQueue, worker, sendQueue, senderTask, to_send, got>>
  BY <1>1 DEF InsertEarly, P!InsertEarly, P!loopVars, handlerVars
<1>3. IsAnswered(senderTask[t])
  BY <1>2 DEF IInv, SentInv
<1>4. s \in Conns /\ id \in Nat /\ IsAnswered([s |-> s, id |-> id])
  BY <1>1, <1>3, AnsweredIs
<1> QED
  BY <1>2, <1>4, SenderGoesOn

\* A sender writes a reply that was kept, and is done if it could not.
LEMMA DrainOneInv ==
  ASSUME IInv, NEW t \in Senders, DrainOne(t)
  PROVE  IInv'
<1>1. PICK s, x : s = senderTask[t].s /\ x = buffered_responses[s][to_send[s]]
  OBVIOUS
<1>2. PICK result :
        /\ senderPc[t] = "drain" /\ to_send[s] \in buffered[s]
        /\ P!Write(s, to_send[s], result)
        /\ \/ /\ buffered' = [buffered EXCEPT ![s] = @ \ {to_send[s]}]
              /\ to_send' = [to_send EXCEPT ![s] = @ + 1]
              /\ UNCHANGED <<senderPc, senderTask>>
           \/ /\ result = "zero"
              /\ senderPc' = [senderPc EXCEPT ![t] = "idle"]
              /\ senderTask' = [senderTask EXCEPT ![t] = P!Idle]
              /\ UNCHANGED <<buffered, to_send>>
        /\ got' = IF recv' = recv THEN got ELSE [got EXCEPT ![s] = Append(@, x)]
        /\ UNCHANGED <<script, asked, taken, last_command_id, job, applied, replies, waits,
                       procQueue, worker, sendQueue>>
  <2>1. /\ senderPc[t] = "drain" /\ to_send[s] \in buffered[s]
        /\ got' = IF recv' = recv THEN got ELSE [got EXCEPT ![s] = Append(@, x)]
        /\ UNCHANGED <<script, asked, taken, last_command_id, job, applied, replies, waits,
                       procQueue, worker, sendQueue>>
    BY <1>1 DEF DrainOne, P!DrainOne, P!FirstIsNext, Sent, P!loopVars, handlerVars
  <2>2. PICK result :
          /\ P!Write(s, to_send[s], result)
          /\ \/ /\ buffered' = [buffered EXCEPT ![s] = @ \ {to_send[s]}]
                /\ to_send' = [to_send EXCEPT ![s] = @ + 1]
                /\ UNCHANGED <<is_eof_reach, senderPc, senderTask>>
             \/ /\ ~P!ReplyOk(result)
                /\ P!Finish(t)
                /\ UNCHANGED <<buffered, to_send>>
    BY <1>1, Zenon DEF DrainOne, P!DrainOne
  <2> QED
    BY <2>1, <2>2 DEF P!ReplyOk, P!Finish
<1>3. ShapeInv /\ SentInv
  BY DEF IInv
<1>4. IsAnswered(senderTask[t])
  BY <1>2, <1>3 DEF SentInv
<1>5. s \in Conns
  BY <1>1, <1>4, AnsweredIs
<1>6. IsAnswered([s |-> s, id |-> to_send[s]])
  BY <1>2, <1>3, <1>5 DEF SentInv
<1>7. CASE /\ buffered' = [buffered EXCEPT ![s] = @ \ {to_send[s]}]
           /\ to_send' = [to_send EXCEPT ![s] = @ + 1]
           /\ UNCHANGED <<senderPc, senderTask>>
  <2>1. /\ senderPc' = [u \in Senders |-> senderPc'[u]]
        /\ \A u \in Senders : senderPc'[u] # "idle" => senderPc[u] # "idle"
        /\ buffered' = [c \in Conns |-> buffered'[c]]
        /\ \A c \in Conns : buffered'[c] \subseteq buffered[c]
    BY <1>3, <1>7 DEF ShapeInv
  <2>2. got' = got \/ got' = [got EXCEPT ![s] = Append(@, x)]
    BY <1>2
  <2> QED
    BY <1>2, <1>5, <1>6, <1>7, <2>1, <2>2, PassesInv
<1>8. CASE /\ result = "zero"
           /\ senderPc' = [senderPc EXCEPT ![t] = "idle"]
           /\ senderTask' = [senderTask EXCEPT ![t] = P!Idle]
           /\ UNCHANGED <<buffered, to_send>>
  <2>1. recv' = recv
    BY <1>2, <1>8 DEF P!Write
  <2>2. got' = got
    BY <1>2, <2>1
  <2> QED
    BY <1>2, <1>8, <2>2, SenderGoesOn
<1> QED
  BY <1>2, <1>7, <1>8

\* A sender takes a task.
LEMMA SenderTakeInv ==
  ASSUME IInv, NEW t \in Senders, P!SenderTake(t), UNCHANGED <<handlerVars, ownVars>>
  PROVE  IInv'
<1>1. ShapeInv /\ SentInv
  BY DEF IInv
<1>2. /\ sendQueue # << >>
      /\ senderTask' = [senderTask EXCEPT ![t] = Head(sendQueue)]
      /\ senderPc' = [senderPc EXCEPT ![t] = "lookup"]
      /\ sendQueue' = Tail(sendQueue)
      /\ UNCHANGED <<script, asked, taken, last_command_id, job, applied, replies, waits,
                     procQueue, worker, to_send, got, buffered>>
  BY DEF P!SenderTake, P!loopVars, P!ctxVars, P!histVars, handlerVars, ownVars
<1>3. /\ Head(sendQueue) = sendQueue[1] /\ 1 \in DOMAIN sendQueue
      /\ sendQueue' \in Seq(Task) /\ DOMAIN sendQueue' = 1 .. Len(sendQueue) - 1
      /\ DOMAIN sendQueue = 1 .. Len(sendQueue) /\ Len(sendQueue) \in Nat
      /\ \A i \in 1 .. Len(sendQueue) - 1 : sendQueue'[i] = sendQueue[i + 1]
  BY <1>1, <1>2, TailIs DEF ShapeInv
<1>4. \A i \in DOMAIN sendQueue : IsAnswered(sendQueue[i])
  BY <1>1 DEF SentInv
<1>5. \A i \in DOMAIN sendQueue' : IsAnswered(sendQueue'[i])
  <2> TAKE i \in DOMAIN sendQueue'
  <2>1. i + 1 \in DOMAIN sendQueue /\ sendQueue'[i] = sendQueue[i + 1]
    BY <1>3
  <2> QED
    BY <1>4, <2>1
<1>6. /\ senderPc' = [u \in Senders |-> senderPc'[u]]
      /\ senderTask' = [u \in Senders |-> senderTask'[u]]
      /\ \A u \in Senders : u # t => senderPc'[u] = senderPc[u] /\ senderTask'[u] = senderTask[u]
      /\ senderTask'[t] = sendQueue[1]
  BY <1>1, <1>2, <1>3 DEF ShapeInv
<1>7. \A u \in Senders : senderPc'[u] # "idle" => IsAnswered(senderTask'[u])
  BY <1>1, <1>3, <1>4, <1>6 DEF SentInv
<1>8. /\ buffered' = [c \in Conns |-> buffered'[c]]
      /\ \A c \in Conns : \A id \in buffered'[c] : IsAnswered([s |-> c, id |-> id])
      /\ to_send' \in [Conns -> Nat]
      /\ got' = [c \in Conns |-> got'[c]]
      /\ \A c \in Conns : Len(got'[c]) <= to_send'[c] /\ to_send'[c] <= last_command_id[c]
      /\ \A n \in DOMAIN asked : asked[n].id < to_send'[asked[n].s] => n \in DOMAIN replies
  BY <1>1, <1>2 DEF ShapeInv, SentInv
<1>9. \A c \in Conns : IsSequence(got'[c])
  BY <1>1, <1>2 DEF ShapeInv
<1> QED
  BY <1>2, <1>3, <1>5, <1>6, <1>7, <1>8, <1>9, SendersInv

\* A sender looks its session up, or ends its task.
LEMMA LookupInv ==
  ASSUME IInv, NEW t \in Senders, UNCHANGED <<handlerVars, ownVars>>,
         P!DrainDone(t) \/ P!LookupHit(t) \/ P!LookupGone(t) \/ P!LookupMiss(t)
  PROVE  IInv'
<1>1. /\ \/ /\ senderPc' = [senderPc EXCEPT ![t] = "idle"]
            /\ senderTask' = [senderTask EXCEPT ![t] = P!Idle]
         \/ /\ senderPc[t] # "idle" /\ senderTask' = senderTask
            /\ senderPc' = [senderPc EXCEPT ![t] = "ready"]
      /\ UNCHANGED <<script, asked, taken, last_command_id, job, applied, replies, waits,
                     procQueue, worker, sendQueue, to_send, got, buffered>>
  BY DEF P!DrainDone, P!LookupHit, P!LookupGone, P!LookupMiss, P!Finish, P!loopVars, P!ctxVars,
         P!histVars, handlerVars, ownVars
<1> QED
  BY <1>1, SenderGoesOn

\* Nothing has been asked to begin with.
LEMMA InitInv ==
  ASSUME Init
  PROVE  IInv
<1>1. /\ script = << >> /\ asked = << >> /\ taken = 0 /\ waits = {}
      /\ job = [w \in Workers |-> H!NoJob] /\ applied = << >> /\ replies = << >>
      /\ got = [c \in Conns |-> << >>]
  BY DEF Init, H!Init
<1>2. /\ last_command_id = [c \in Conns |-> 0] /\ to_send = [c \in Conns |-> 0]
      /\ buffered = [c \in Conns |-> {}] /\ procQueue = << >> /\ sendQueue = << >>
      /\ worker = [w \in Workers |-> P!Idle]
      /\ senderPc = [t \in Senders |-> "idle"] /\ senderTask = [t \in Senders |-> P!Idle]
  BY DEF Init, P!Init
<1>3. IsSequence(<< >>) /\ Len(<< >>) = 0 /\ DOMAIN << >> = {}
  BY DEF IsSequence, H!IsSequence, H!ToSet
<1>4. /\ \A w \in Workers : job[w] = H!NoJob /\ worker[w] = P!Idle
      /\ H!NoJob = [n |-> 0, made |-> 0, read |-> << >>] /\ H!NoJob.n = 0
  BY <1>1, <1>2 DEF H!NoJob
<1>5. ShapeInv
  <2>1. \A w \in Workers : job[w] = [n |-> job[w].n, made |-> job[w].made, read |-> job[w].read]
    BY <1>4
  <2>2. got = [c \in Conns |-> got[c]] /\ \A c \in Conns : IsSequence(got[c])
    BY <1>1, <1>3
  <2>3. IsSequence(applied)
    BY <1>1, <1>3
  <2> QED
    BY <1>1, <1>2, <2>1, <2>2, <2>3 DEF ShapeInv
<1>6. NumbersInv
  BY <1>1 DEF NumbersInv
<1>7. WorkInv
  BY <1>1, <1>2, <1>3, <1>4 DEF WorkInv
<1>8. SentInv
  BY <1>1, <1>2, <1>3 DEF SentInv
<1>9. WaitsInv /\ WaitingClientsInOrder
  BY <1>1 DEF WaitsInv, WaitingClientsInOrder
<1> QED
  BY <1>5, <1>6, <1>7, <1>8, <1>9 DEF IInv

\* Every step preserves the invariant.
LEMMA StepInv ==
  ASSUME IInv, [Next]_vars
  PROVE  IInv'
<1>1. ASSUME NEW c \in Conns, NEW r \in Requests, Dispatch(c, r)
      PROVE  IInv'
  BY <1>1, DispatchInv
<1>2. CASE LoopStep
  <2>1. UNCHANGED <<last_command_id, procQueue, worker, sendQueue, senderPc, senderTask,
                    buffered, to_send>>
    BY <1>2 DEF LoopStep, P!Accept, P!Disconnect, P!AcceptFails, P!FinishAccept, P!FinishErase,
                P!poolVars, P!ctxVars
  <2>2. UNCHANGED <<script, asked, taken, job, applied, replies, waits, got>>
    BY <1>2 DEF LoopStep, handlerVars, ownVars
  <2> QED
    BY <2>1, <2>2, QuietInv
<1>3. ASSUME NEW w \in Workers, WorkerStep(w)
      PROVE  IInv'
  BY <1>3, BeginInv, CallInv, SendReplyInv DEF WorkerStep
<1>4. ASSUME NEW t \in Senders, SenderStep(t)
      PROVE  IInv'
  BY <1>4, InsertNextInv, InsertEarlyInv, DrainOneInv, SenderTakeInv, LookupInv DEF SenderStep
<1>5. ASSUME NEW k \in Keys, Expire(k)
      PROVE  IInv'
  <2>1. UNCHANGED <<pipeVars, ownVars, script, taken, job, applied, replies>>
    BY <1>5 DEF Expire, H!Expire
  <2> QED
    BY <2>1, QuietInv DEF pipeVars, ownVars
<1>6. CASE UNCHANGED vars
  BY <1>6, QuietInv DEF vars, pipeVars, handlerVars, ownVars
<1> QED
  BY <1>1, <1>2, <1>3, <1>4, <1>5, <1>6 DEF Next

(***************************************************************************)
(* The theorems.                                                           *)
(***************************************************************************)

\* The inductive invariant holds throughout.
THEOREM ProxyInvariant == Spec => []IInv
<1>1. Init => IInv
  BY InitInv
<1>2. IInv /\ [Next]_vars => IInv'
  BY StepInv
<1> QED
  BY <1>1, <1>2, PTL DEF Spec

\* The calls of a client that waits for its replies are applied in the order it
\* asked, however many threads and other clients there are.
THEOREM WaitingHolds == Spec => []WaitingClientsInOrder
<1>1. IInv => WaitingClientsInOrder
  BY DEF IInv
<1> QED
  BY <1>1, ProxyInvariant, PTL

(***************************************************************************)
(* The proxy implements RedisService, for any connections, threads,        *)
(* requests and failures of the cluster, while write() takes whole replies.*)
(***************************************************************************)

(***************************************************************************)
(* What the refinement needs to know besides the invariant of Proxy.       *)
(***************************************************************************)

\* What the loop watches, and what it is about to watch, is open; an open
\* connection has a descriptor of its own.
OpenInv ==
  /\ conn \in [Conns -> {"new", "open", "closed"}]
  /\ fd = [c \in Conns |-> fd[c]]
  /\ \A c \in watched : c \in Conns /\ conn[c] = "open"
  /\ updating.op = "insert" /\ updating.s # NoConn =>
       updating.s \in Conns /\ conn[updating.s] = "open"
  /\ \A c, d \in Conns : conn[c] = "open" /\ conn[d] = "open" /\ fd[c] = fd[d] => c = d

\* A client not yet accepted has asked nothing; an open one was told every reply
\* its session has passed.
ToldInv ==
  /\ recv = [c \in Conns |-> recv[c]] /\ \A c \in Conns : IsSequence(recv[c])
  /\ \A c \in Conns : conn[c] = "new" => last_command_id[c] = 0
  /\ \A c \in Conns : conn[c] = "open" => Len(got[c]) = to_send[c]

\* There is a request for every number a session has given out.
IdsInv ==
  \A c \in Conns : \A k \in 1 .. last_command_id[c] :
    \E n \in DOMAIN asked : asked[n] = [s |-> c, id |-> k - 1]

\* The reorder buffers hold the replies of the requests whose numbers they have.
BufferInv ==
  /\ buffered_responses = [c \in Conns |-> buffered_responses[c]]
  /\ \A c \in Conns :
       /\ DOMAIN buffered_responses[c] = buffered[c]
       /\ \A id \in buffered[c] :
            buffered_responses[c][id] = Response([s |-> c, id |-> id])

\* A request with a worker was not refused; one that can fail has made no call.
JobsInv ==
  \A w \in Workers : job[w] # H!NoJob =>
    /\ H!ArgumentsOk(script[job[w].n])
    /\ H!Command(script[job[w].n]) \in {"LTRIM", "EXPIRE"} => job[w].made = 0

\* What the refinement rests on.
RInv == IInv /\ OpenInv /\ ToldInv /\ IdsInv /\ BufferInv /\ JobsInv

(***************************************************************************)
(* The view of a client, as functions of what it is made of: the number of *)
(* a task, what has become of a request, and both for all clients.         *)
(***************************************************************************)

NumberIn(a, task) == CHOOSE n \in DOMAIN a : a[n] = task

ProgressIn(j, r, n) ==
  LET holders == {w \in Workers : j[w].n = n} IN
  IF n \in DOMAIN r THEN [made |-> 0, read |-> << >>, done |-> TRUE, reply |-> r[n]]
  ELSE IF holders = {} THEN [made |-> 0, read |-> << >>, done |-> FALSE, reply |-> << >>]
  ELSE LET i == j[CHOOSE w \in holders : TRUE]
       IN [made |-> i.made, read |-> i.read, done |-> FALSE, reply |-> << >>]

AskedIn(a, last, q) ==
  [c \in Conns |-> [k \in 1 .. last[c] |-> q[NumberIn(a, [s |-> c, id |-> k - 1])]]]

ProgressesIn(a, last, j, r) ==
  [c \in Conns |-> [k \in 1 .. last[c] |->
     ProgressIn(j, r, NumberIn(a, [s |-> c, id |-> k - 1]))]]

\* The view is what these functions say, before a step and after it.
LEMMA ViewsAre ==
  /\ askedBy = AskedIn(asked, last_command_id, script)
  /\ askedBy' = AskedIn(asked', last_command_id', script')
  /\ progressOf = ProgressesIn(asked, last_command_id, job, replies)
  /\ progressOf' = ProgressesIn(asked', last_command_id', job', replies')
  /\ \A task : NumberOf(task) = NumberIn(asked, task) /\ Response(task) = replies[NumberIn(asked, task)]
<1>1. \A task : NumberOf(task) = NumberIn(asked, task) /\ NumberOf(task)' = NumberIn(asked', task)
  BY DEF NumberOf, NumberIn
<1>2. /\ \A n : Progress(n) = ProgressIn(job, replies, n)
      /\ \A n : Progress(n)' = ProgressIn(job', replies', n)
  BY DEF Progress, ProgressIn
<1>3. askedBy = AskedIn(asked, last_command_id, script)
  BY <1>1 DEF askedBy, AskedIn, NumberOfAsked
<1>4. askedBy' = AskedIn(asked', last_command_id', script')
  BY <1>1 DEF askedBy, AskedIn, NumberOfAsked
<1>5. progressOf = ProgressesIn(asked, last_command_id, job, replies)
  BY <1>1, <1>2 DEF progressOf, ProgressesIn, NumberOfAsked
<1>6. progressOf' = ProgressesIn(asked', last_command_id', job', replies')
  BY <1>1, <1>2 DEF progressOf, ProgressesIn, NumberOfAsked
<1> QED
  BY <1>1, <1>3, <1>4, <1>5, <1>6 DEF Response

\* The number of a task that one request has.
LEMMA NumberIs ==
  ASSUME NEW a, NEW n \in DOMAIN a, \A m \in DOMAIN a : a[m] = a[n] => m = n
  PROVE  NumberIn(a, a[n]) = n
<1> DEFINE m == NumberIn(a, a[n])
<1>1. m \in DOMAIN a /\ a[m] = a[n]
  BY DEF NumberIn
<1> QED
  BY <1>1

\* What has become of a request that is answered, that no worker has, and that one
\* worker has.
LEMMA ProgressIs ==
  ASSUME NEW j, NEW r, NEW n
  PROVE  /\ n \in DOMAIN r => ProgressIn(j, r, n) = Service!Answered(r[n])
         /\ n \notin DOMAIN r /\ (\A w \in Workers : j[w].n # n) => ProgressIn(j, r, n) = Service!UnderWay(0, << >>)
         /\ \A w \in Workers :
              n \notin DOMAIN r /\ j[w].n = n /\ (\A v \in Workers : j[v].n = n => v = w) =>
                ProgressIn(j, r, n) =
                  Service!UnderWay(j[w].made, j[w].read)
<1> DEFINE holders == {w \in Workers : j[w].n = n}
<1>1. n \in DOMAIN r => ProgressIn(j, r, n) = Service!Answered(r[n])
  BY Zenon DEF ProgressIn, Service!Answered
<1>2. n \notin DOMAIN r /\ holders = {} => ProgressIn(j, r, n) = Service!UnderWay(0, << >>)
  BY DEF ProgressIn, Service!UnderWay
<1>3. ASSUME NEW w \in Workers, n \notin DOMAIN r, holders = {w}
      PROVE  ProgressIn(j, r, n) =
               Service!UnderWay(j[w].made, j[w].read)
  <2>1. holders # {} /\ (CHOOSE v \in holders : TRUE) = w
    BY <1>3, Zenon
  <2> QED
    BY <1>3, <2>1 DEF ProgressIn, Service!UnderWay
<1>4. ASSUME NEW w \in Workers, j[w].n = n, \A v \in Workers : j[v].n = n => v = w
      PROVE  holders = {w}
  BY <1>4
<1>5. (\A w \in Workers : j[w].n # n) => holders = {}
  OBVIOUS
<1> QED
  BY <1>1, <1>2, <1>3, <1>4, <1>5

\* The same, of the request of a worker.
LEMMA ProgressOfJob ==
  ASSUME NEW j, NEW r, NEW n, NEW w \in Workers, n \notin DOMAIN r, j[w].n = n,
         \A v \in Workers : j[v].n = n => v = w
  PROVE  ProgressIn(j, r, n) =
           Service!UnderWay(j[w].made, j[w].read)
BY ProgressIs

\* Requests whose reply and whose worker are as they were are as they were.
LEMMA ProgressSame ==
  ASSUME NEW j, NEW r, NEW j2, NEW r2, NEW n,
         n \in DOMAIN r <=> n \in DOMAIN r2, n \in DOMAIN r => r[n] = r2[n],
         \A w \in Workers : (j[w].n = n <=> j2[w].n = n) /\ (j[w].n = n => j[w] = j2[w])
  PROVE  ProgressIn(j, r, n) = ProgressIn(j2, r2, n)
<1> DEFINE holders == {w \in Workers : j[w].n = n}
<1> DEFINE w == CHOOSE v \in holders : TRUE
<1>1. holders = {v \in Workers : j2[v].n = n}
  OBVIOUS
<1>2. holders # {} => w \in Workers /\ j[w].n = n
  OBVIOUS
<1>3. holders # {} => j[w] = j2[w]
  BY <1>2
<1> QED
  BY <1>1, <1>3 DEF ProgressIn

\* Every number a session has given out is that of one request, and every request
\* has one.
LEMMA RequestsAre ==
  ASSUME RInv
  PROVE  /\ \A c \in Conns : \A k \in 1 .. last_command_id[c] :
              \E n \in 1 .. Len(asked) :
                /\ n = NumberIn(asked, [s |-> c, id |-> k - 1])
                /\ asked[n].s = c /\ asked[n].id + 1 = k
         /\ \A n \in 1 .. Len(asked) :
              /\ asked[n].s \in Conns
              /\ asked[n].id + 1 \in 1 .. last_command_id[asked[n].s]
              /\ n = NumberIn(asked, [s |-> asked[n].s, id |-> (asked[n].id + 1) - 1])
         /\ DOMAIN asked = 1 .. Len(asked) /\ Len(asked) \in Nat
<1>1. ShapeInv /\ NumbersInv /\ IdsInv
  BY DEF RInv, IInv
<1>2. /\ DOMAIN asked = 1 .. Len(asked) /\ Len(asked) \in Nat
      /\ \A n \in 1 .. Len(asked) :
           /\ asked[n].s \in Conns /\ asked[n].id \in Nat
           /\ asked[n] = [s |-> asked[n].s, id |-> asked[n].id]
           /\ asked[n].id < last_command_id[asked[n].s]
           /\ last_command_id[asked[n].s] \in Nat
  BY <1>1, AskedIs DEF ShapeInv
<1>3. \A n \in 1 .. Len(asked) : NumberIn(asked, asked[n]) = n
  BY <1>1, <1>2, NumberIs DEF NumbersInv
<1>4. ASSUME NEW c \in Conns, NEW k \in 1 .. last_command_id[c]
      PROVE  \E n \in 1 .. Len(asked) :
               /\ n = NumberIn(asked, [s |-> c, id |-> k - 1])
               /\ asked[n].s = c /\ asked[n].id + 1 = k
  <2>1. PICK n \in DOMAIN asked : asked[n] = [s |-> c, id |-> k - 1]
    BY <1>1 DEF IdsInv
  <2>2. asked[n].s = c /\ asked[n].id = k - 1 /\ k \in Int
    BY <2>1
  <2> QED
    BY <1>2, <1>3, <2>1, <2>2
<1>5. ASSUME NEW n \in 1 .. Len(asked)
      PROVE  /\ asked[n].s \in Conns
             /\ asked[n].id + 1 \in 1 .. last_command_id[asked[n].s]
             /\ n = NumberIn(asked, [s |-> asked[n].s, id |-> (asked[n].id + 1) - 1])
  <2>1. (asked[n].id + 1) - 1 = asked[n].id /\ asked[n].id + 1 \in 1 .. last_command_id[asked[n].s]
    BY <1>2
  <2> QED
    BY <1>2, <1>3, <2>1
<1> QED
  BY <1>2, <1>4, <1>5

\* A step after which what has become of every request is what had become of it.
LEMMA Stutters ==
  ASSUME RInv, UNCHANGED <<script, asked, last_command_id>>,
         \A n \in 1 .. Len(asked) : ProgressIn(job', replies', n) = ProgressIn(job, replies, n)
  PROVE  UNCHANGED <<askedBy, progressOf>>
<1>1. askedBy' = askedBy
  BY ViewsAre
<1>2. progressOf' = [c \in Conns |-> [k \in 1 .. last_command_id[c] |->
        ProgressIn(job', replies', NumberIn(asked, [s |-> c, id |-> k - 1]))]]
  BY ViewsAre DEF ProgressesIn
<1>3. progressOf = [c \in Conns |-> [k \in 1 .. last_command_id[c] |->
        ProgressIn(job, replies, NumberIn(asked, [s |-> c, id |-> k - 1]))]]
  BY ViewsAre DEF ProgressesIn
<1>4. \A c \in Conns : \A k \in 1 .. last_command_id[c] :
        NumberIn(asked, [s |-> c, id |-> k - 1]) \in 1 .. Len(asked)
  BY RequestsAre
<1> QED
  BY <1>1, <1>2, <1>3, <1>4

\* The step is one of request n, which is request i of client c, and of no other.
RequestMoves(c, i, n) ==
  /\ c \in Conns /\ i \in DOMAIN askedBy[c] /\ askedBy[c][i] = script[n]
  /\ progressOf[c][i] = ProgressIn(job, replies, n)
  /\ askedBy' = askedBy
  /\ progressOf' = [progressOf EXCEPT ![c][i] = ProgressIn(job', replies', n)]

\* A step that changes what has become of one request.
LEMMA Advances ==
  ASSUME RInv, script' = script, asked' = asked, last_command_id' = last_command_id,
         NEW n \in 1 .. Len(asked),
         NEW c, NEW i, c = asked[n].s, i = asked[n].id + 1,
         \A m \in 1 .. Len(asked) : m # n =>
           ProgressIn(job', replies', m) = ProgressIn(job, replies, m)
  PROVE  RequestMoves(c, i, n)
<1>1. c \in Conns /\ i \in 1 .. last_command_id[c] /\ n = NumberIn(asked, [s |-> c, id |-> i - 1])
  BY RequestsAre
<1>2. askedBy = [d \in Conns |-> [k \in 1 .. last_command_id[d] |->
        script[NumberIn(asked, [s |-> d, id |-> k - 1])]]]
  BY ViewsAre DEF AskedIn
<1>3. progressOf' = [d \in Conns |-> [k \in 1 .. last_command_id[d] |->
        ProgressIn(job', replies', NumberIn(asked, [s |-> d, id |-> k - 1]))]]
  BY ViewsAre DEF ProgressesIn
<1>4. progressOf = [d \in Conns |-> [k \in 1 .. last_command_id[d] |->
        ProgressIn(job, replies, NumberIn(asked, [s |-> d, id |-> k - 1]))]]
  BY ViewsAre DEF ProgressesIn
<1>5. \A d \in Conns : \A k \in 1 .. last_command_id[d] :
        /\ NumberIn(asked, [s |-> d, id |-> k - 1]) \in 1 .. Len(asked)
        /\ NumberIn(asked, [s |-> d, id |-> k - 1]) = n => d = c /\ k = i
  BY RequestsAre
<1>6. \A d \in Conns : \A k \in 1 .. last_command_id[d] :
        ProgressIn(job', replies', NumberIn(asked, [s |-> d, id |-> k - 1])) =
          IF d = c /\ k = i THEN ProgressIn(job', replies', n)
          ELSE ProgressIn(job, replies, NumberIn(asked, [s |-> d, id |-> k - 1]))
  BY <1>1, <1>5
<1>7. progressOf' = [progressOf EXCEPT ![c][i] = ProgressIn(job', replies', n)]
  <2>1. progressOf' = [d \in Conns |-> [k \in 1 .. last_command_id[d] |->
          IF d = c /\ k = i THEN ProgressIn(job', replies', n)
          ELSE ProgressIn(job, replies, NumberIn(asked, [s |-> d, id |-> k - 1]))]]
    BY <1>3, <1>6
  <2>2. [progressOf[c] EXCEPT ![i] = ProgressIn(job', replies', n)] = progressOf'[c]
    BY <1>1, <1>4, <2>1
  <2>3. \A d \in Conns : d # c => progressOf'[d] = progressOf[d]
    BY <1>4, <2>1
  <2>4. DOMAIN progressOf' = Conns /\ DOMAIN progressOf = Conns
    BY <1>3, <1>4
  <2>5. [progressOf EXCEPT ![c][i] = ProgressIn(job', replies', n)] =
          [progressOf EXCEPT ![c] = [progressOf[c] EXCEPT ![i] = ProgressIn(job', replies', n)]]
    OBVIOUS
  <2>6. progressOf' = [d \in Conns |-> progressOf'[d]]
    BY <1>3
  <2>7. progressOf' = [progressOf EXCEPT ![c] = progressOf'[c]]
    BY <1>1, <2>3, <2>4, <2>6
  <2> QED
    BY <2>2, <2>5, <2>7
<1>8. askedBy' = askedBy
  BY ViewsAre
<1> QED
  BY <1>1, <1>2, <1>4, <1>7, <1>8 DEF RequestMoves

(***************************************************************************)
(* The commands are the same for the handlers and for the service.         *)
(***************************************************************************)

\* Encoded replies.
LEMMA EncodersAgree ==
  /\ \A x, y : H!EncodeValue(x, y) = Service!EncodeValue(x, y)
  /\ \A v : H!EncodeArray(v) = Service!EncodeArray(v)
  /\ \A v : H!EncodePairs(v) = Service!EncodePairs(v)
<1>1. \A x : H!BareLines(x) = Service!BareLines(x)
  BY DEF H!BareLines, Service!BareLines, H!Bare, Service!Bare, H!Header, Service!Header
<1>2. \A x : H!Bulk(x) = Service!Bulk(x)
  BY <1>1 DEF H!Bulk, Service!Bulk, H!Header, Service!Header
<1>3. \A x, y : H!Line(x, y) = Service!Line(x, y)
  BY <1>1 DEF H!Line, Service!Line, H!Header, Service!Header
<1>4. \A s : H!FlattenSeq(s) = Service!FlattenSeq(s)
  BY DEF H!FlattenSeq, Service!FlattenSeq
<1>5. \A x, y : H!EncodeValue(x, y) = Service!EncodeValue(x, y)
  BY <1>2, <1>3 DEF H!EncodeValue, Service!EncodeValue, H!Nil, Service!Nil, H!Header, Service!Header
<1>6. \A v : H!EncodeArray(v) = Service!EncodeArray(v)
  BY <1>2, <1>4 DEF H!EncodeArray, Service!EncodeArray, H!Header, Service!Header
<1>7. \A v : H!EncodePairs(v) = Service!EncodePairs(v)
  BY <1>4, <1>5 DEF H!EncodePairs, Service!EncodePairs, H!Header, Service!Header
<1> QED
  BY <1>5, <1>6, <1>7

\* Requests, their calls, the effects of those and the replies.
LEMMA CommandsAgree ==
  /\ \A r : H!Calls(r) = Service!Calls(r) /\ H!ArgumentsOk(r) = Service!ArgumentsOk(r)
  /\ \A r, v : H!ReplyTo(r, v) = Service!ReplyTo(r, v)
  /\ \A v, c : H!Effect(v, c) = Service!Effect(v, c)
  /\ H!Writes = Service!Writes /\ H!Absent = Service!Absent
  /\ H!UsageError = Service!UsageError /\ H!InternalError = Service!InternalError
  /\ \A s : H!StatusError(s) = Service!StatusError(s)
<1>12. \A x : H!UpperCase(x) = Service!UpperCase(x)
  BY DEF H!UpperCase, Service!UpperCase
<1>13. \A r : H!Command(r) = Service!Command(r)
  BY <1>12 DEF H!Command, Service!Command
<1>1. \A r : H!Calls(r) = Service!Calls(r)
  BY <1>13 DEF H!Calls, Service!Calls
<1>2. \A r : H!ArgumentsOk(r) = Service!ArgumentsOk(r)
  BY <1>13 DEF H!ArgumentsOk, Service!ArgumentsOk
<1>3. H!Absent = Service!Absent
  BY DEF H!Absent, Service!Absent
<1>4. \A v : H!Pair(v) = Service!Pair(v)
  BY <1>3 DEF H!Pair, Service!Pair
<1>5. \A v : H!CountText(v) = Service!CountText(v)
  BY DEF H!CountText, Service!CountText
<1>6. H!InternalError = Service!InternalError
  BY EncodersAgree DEF H!InternalError, Service!InternalError
<1>11. \A r, v : H!ReplyWith(r, v) = Service!ReplyWith(r, v)
  BY <1>5, <1>13, EncodersAgree DEF H!ReplyWith, Service!ReplyWith
<1>7. \A r, v : H!ReplyTo(r, v) = Service!ReplyTo(r, v)
  BY <1>3, <1>4, <1>6, <1>11, <1>13, EncodersAgree DEF H!ReplyTo, Service!ReplyTo
<1>8. \A v, c : H!Effect(v, c) = Service!Effect(v, c)
  BY DEF H!Effect, Service!Effect, H!SetToSeq, Service!SetToSeq, H!ToSet, Service!ToSet
<1>9. H!Writes = Service!Writes
  BY DEF H!Writes, Service!Writes
<1>10. H!UsageError = Service!UsageError /\ \A s : H!StatusError(s) = Service!StatusError(s)
  BY EncodersAgree DEF H!UsageError, Service!UsageError, H!StatusError, Service!StatusError
<1> QED
  BY <1>1, <1>2, <1>3, <1>6, <1>7, <1>8, <1>9, <1>10

(***************************************************************************)
(* What the steps leave alone.                                             *)
(***************************************************************************)

\* The loop accepts and closes connections: no request, reply or buffer changes.
LEMMA LoopFrame ==
  LoopStep => UNCHANGED <<last_command_id, to_send, buffered, recv, procQueue, worker,
                          sendQueue, senderPc, senderTask, script, taken, job, ptree_counter,
                          store, expiring, applied, replies, asked, buffered_responses, got, waits>>
BY DEF LoopStep, P!Accept, P!Disconnect, P!AcceptFails, P!FinishAccept, P!FinishErase,
       P!ctxVars, P!poolVars, P!histVars, handlerVars, ownVars

\* A client asks: connections, sessions and earlier requests stay.
LEMMA DispatchFrame ==
  ASSUME NEW c, NEW r, Dispatch(c, r)
  PROVE  UNCHANGED <<conn, watched, updating, fd, to_send, buffered, recv, job, store, expiring,
                     replies, buffered_responses, got>>
BY DEF Dispatch, P!Dispatch, P!ctxVars, P!histVars

\* A worker takes, works on or hands on a request: connections, sessions, numbers and
\* buffers stay.
LEMMA WorkerFrame ==
  ASSUME NEW w, WorkerStep(w)
  PROVE  UNCHANGED <<conn, watched, updating, last_command_id, fd, to_send, buffered, recv,
                     script, asked, buffered_responses, got>>
<1>1. CASE Begin(w)
  BY <1>1 DEF Begin, P!WorkerTake, H!Take, P!loopVars, P!ctxVars, P!histVars, ownVars
<1>2. CASE Work(w)
  <2>1. script' = script
    BY <1>2 DEF Work, H!CallReturns, H!CallThrows, H!CallFails
  <2> QED
    BY <1>2, <2>1 DEF Work, pipeVars, ownVars
<1>3. CASE SendReply(w)
  BY <1>3 DEF SendReply, P!WorkerReply, P!loopVars, P!ctxVars, P!histVars, handlerVars, ownVars
<1> QED
  BY <1>1, <1>2, <1>3 DEF WorkerStep

\* A sender sends: connections and requests stay.
LEMMA SenderFrame ==
  ASSUME NEW t, SenderStep(t)
  PROVE  UNCHANGED <<conn, watched, updating, last_command_id, fd, script, taken, job, store,
                     expiring, replies, asked>>
<1>1. CASE InsertNext(t)
  BY <1>1 DEF InsertNext, P!InsertNext, P!loopVars, handlerVars
<1>2. CASE InsertEarly(t)
  BY <1>2 DEF InsertEarly, P!InsertEarly, P!loopVars, handlerVars
<1>3. CASE DrainOne(t)
  BY <1>3 DEF DrainOne, P!DrainOne, P!loopVars, handlerVars
<1>4. CASE /\ \/ P!SenderTake(t) \/ P!DrainDone(t)
              \/ P!LookupHit(t) \/ P!LookupGone(t) \/ P!LookupMiss(t)
           /\ UNCHANGED <<handlerVars, ownVars>>
  BY <1>4 DEF P!SenderTake, P!DrainDone, P!LookupHit, P!LookupGone, P!LookupMiss, P!loopVars,
              P!ctxVars, handlerVars, ownVars
<1> QED
  BY <1>1, <1>2, <1>3, <1>4 DEF SenderStep

\* A key expires.
LEMMA ExpireFrame ==
  ASSUME NEW k, Expire(k)
  PROVE  UNCHANGED <<conn, watched, updating, last_command_id, fd, to_send, buffered, recv,
                     script, taken, job, replies, asked, buffered_responses, got>>
BY DEF Expire, H!Expire, pipeVars, ownVars

\* No step at all.
LEMMA IdleFrame ==
  UNCHANGED vars => UNCHANGED <<conn, watched, updating, last_command_id, fd, to_send, buffered,
                                recv, script, taken, job, store, expiring, replies, asked,
                                buffered_responses, got>>
BY DEF vars, pipeVars, handlerVars, ownVars

(***************************************************************************)
(* The parts of the invariant.                                             *)
(***************************************************************************)

\* The loop accepts a connection on a free descriptor, registers it, closes it.
LEMMA LoopOpen ==
  ASSUME OpenInv, LoopStep
  PROVE  OpenInv'
<1>1. /\ conn \in [Conns -> {"new", "open", "closed"}] /\ fd = [c \in Conns |-> fd[c]]
      /\ \A c \in watched : c \in Conns /\ conn[c] = "open"
      /\ updating.op = "insert" /\ updating.s # NoConn =>
           updating.s \in Conns /\ conn[updating.s] = "open"
      /\ \A c, d \in Conns : conn[c] = "open" /\ conn[d] = "open" /\ fd[c] = fd[d] => c = d
  BY DEF OpenInv
<1>2. ASSUME NEW c \in Conns, P!Accept(c)
      PROVE  OpenInv'
  <2>1. PICK f : f \in P!FreeFds /\ fd' = [fd EXCEPT ![c] = f]
    BY <1>2 DEF P!Accept, P!LowestFree
  <2>2. /\ conn' = [conn EXCEPT ![c] = "open"] /\ watched' = watched
        /\ updating' = [op |-> "insert", s |-> c]
    BY <1>2 DEF P!Accept
  <2>3. \A d \in Conns : conn[d] = "open" => fd[d] # f
    BY <2>1 DEF P!FreeFds
  <2>4. /\ fd' = [d \in Conns |-> fd'[d]] /\ fd'[c] = f
        /\ \A d \in Conns : d # c => fd'[d] = fd[d] /\ conn'[d] = conn[d]
        /\ conn' \in [Conns -> {"new", "open", "closed"}] /\ conn'[c] = "open"
    BY <1>1, <2>1, <2>2
  <2>5. \A d \in watched' : d \in Conns /\ conn'[d] = "open"
    BY <1>1, <2>2, <2>4
  <2>6. \A d, e \in Conns : conn'[d] = "open" /\ conn'[e] = "open" /\ fd'[d] = fd'[e] => d = e
    BY <1>1, <2>3, <2>4
  <2> QED
    BY <2>2, <2>4, <2>5, <2>6 DEF OpenInv
<1>3. ASSUME NEW c \in Conns, P!Disconnect(c)
      PROVE  OpenInv'
  <2>1. /\ conn' = [conn EXCEPT ![c] = "closed"] /\ watched' = watched \ {c} /\ fd' = fd
        /\ updating' = [op |-> "erase", s |-> c]
    BY <1>3 DEF P!Disconnect
  <2>2. /\ \A d \in Conns : d # c => conn'[d] = conn[d]
        /\ conn' \in [Conns -> {"new", "open", "closed"}] /\ conn'[c] = "closed"
    BY <1>1, <2>1
  <2>3. updating'.op # "insert"
    BY <2>1
  <2> QED
    BY <1>1, <2>1, <2>2, <2>3 DEF OpenInv
<1>4. CASE P!AcceptFails
  <2>1. UNCHANGED <<conn, watched, fd>> /\ updating' = [op |-> "insert", s |-> NoConn]
    BY <1>4 DEF P!AcceptFails, P!ctxVars
  <2>2. updating'.s = NoConn
    BY <2>1
  <2> QED
    BY <1>1, <2>1, <2>2 DEF OpenInv
<1>5. CASE P!FinishAccept \/ P!FinishErase
  <2>1. UNCHANGED <<conn, fd>> /\ updating' = P!NoUpdate
        /\ \A d \in watched' : d \in watched
             \/ (d = updating.s /\ updating.op = "insert" /\ updating.s # NoConn)
    BY <1>5 DEF P!FinishAccept, P!FinishErase
  <2>2. updating'.op = "none"
    BY <2>1 DEF P!NoUpdate
  <2> QED
    BY <1>1, <2>1, <2>2 DEF OpenInv
<1> QED
  BY <1>2, <1>3, <1>4, <1>5 DEF LoopStep

\* Nobody else opens, closes or watches a connection.
LEMMA OpenStep ==
  ASSUME OpenInv, [Next]_vars
  PROVE  OpenInv'
<1>1. ASSUME UNCHANGED <<conn, watched, updating, fd>>
      PROVE  OpenInv'
  BY <1>1 DEF OpenInv
<1>2. ASSUME NEW c \in Conns, NEW r \in Requests, Dispatch(c, r)
      PROVE  OpenInv'
  BY <1>1, <1>2, DispatchFrame
<1>3. ASSUME NEW w \in Workers, WorkerStep(w)
      PROVE  OpenInv'
  BY <1>1, <1>3, WorkerFrame
<1>4. ASSUME NEW t \in Senders, SenderStep(t)
      PROVE  OpenInv'
  BY <1>1, <1>4, SenderFrame
<1>5. ASSUME NEW k \in Keys, Expire(k)
      PROVE  OpenInv'
  BY <1>1, <1>5, ExpireFrame
<1>6. CASE UNCHANGED vars
  BY <1>1, <1>6, IdleFrame
<1> QED
  BY <1>2, <1>3, <1>4, <1>5, <1>6, LoopOpen DEF Next

\* Every number given out goes to a request at once.
LEMMA IdsStep ==
  ASSUME IInv, IdsInv, [Next]_vars
  PROVE  IdsInv'
<1>1. ASSUME UNCHANGED <<asked, last_command_id>>
      PROVE  IdsInv'
  BY <1>1 DEF IdsInv
<1>2. ASSUME NEW c \in Conns, NEW r \in Requests, Dispatch(c, r)
      PROVE  IdsInv'
  <2>1. PICK new : new = [s |-> c, id |-> last_command_id[c]]
    OBVIOUS
  <2>2. asked' = Append(asked, new) /\ last_command_id' = [last_command_id EXCEPT ![c] = @ + 1]
    BY <1>2, <2>1 DEF Dispatch, P!Dispatch
  <2>3. asked \in Seq(Task) /\ last_command_id \in [Conns -> Nat]
    BY DEF IInv, ShapeInv
  <2>4. new \in Task
    BY <2>1, <2>3 DEF Task
  <2>5. /\ DOMAIN asked' = 1 .. Len(asked) + 1 /\ DOMAIN asked = 1 .. Len(asked)
        /\ Len(asked) \in Nat
        /\ \A n \in 1 .. Len(asked) : asked'[n] = asked[n]
        /\ asked'[Len(asked) + 1] = new
    BY <2>2, <2>3, <2>4, AppendIs
  <2>6. ASSUME NEW d \in Conns, NEW k \in 1 .. last_command_id'[d]
        PROVE  \E n \in DOMAIN asked' : asked'[n] = [s |-> d, id |-> k - 1]
    <3>1. k \in 1 .. last_command_id[d] \/ (d = c /\ k - 1 = last_command_id[c])
      <4>1. /\ last_command_id[d] \in Nat
            /\ \/ last_command_id'[d] = last_command_id[d]
               \/ d = c /\ last_command_id'[d] = last_command_id[d] + 1
        BY <2>2, <2>3
      <4> QED
        BY <4>1
    <3>2. CASE k \in 1 .. last_command_id[d]
      <4>1. PICK n \in DOMAIN asked : asked[n] = [s |-> d, id |-> k - 1]
        BY <3>2 DEF IdsInv
      <4> QED
        BY <2>5, <4>1
    <3>3. CASE d = c /\ k - 1 = last_command_id[c]
      <4>1. new = [s |-> d, id |-> k - 1] /\ Len(asked) + 1 \in DOMAIN asked'
        BY <2>1, <2>5, <3>3
      <4> QED
        BY <2>5, <4>1
    <3> QED
      BY <3>1, <3>2, <3>3
  <2> QED
    BY <2>6 DEF IdsInv
<1>3. ASSUME NEW w \in Workers, WorkerStep(w)
      PROVE  IdsInv'
  BY <1>1, <1>3, WorkerFrame
<1>4. ASSUME NEW t \in Senders, SenderStep(t)
      PROVE  IdsInv'
  BY <1>1, <1>4, SenderFrame
<1>5. ASSUME NEW k \in Keys, Expire(k)
      PROVE  IdsInv'
  BY <1>1, <1>5, ExpireFrame
<1>6. CASE UNCHANGED vars
  BY <1>1, <1>6, IdleFrame
<1>7. CASE LoopStep
  BY <1>1, <1>7, LoopFrame
<1> QED
  BY <1>2, <1>3, <1>4, <1>5, <1>6, <1>7 DEF Next

\* Worker w goes on with request n, which is r, after call, or has made its last.
Returns(w, n, r, call, read) ==
  /\ job[w] # H!NoJob /\ H!Apply(w, call)
  /\ \/ /\ job[w].made + 1 < Len(H!Calls(r)) /\ replies' = replies
        /\ job' = [job EXCEPT ![w] = [n |-> n, made |-> job[w].made + 1, read |-> read]]
     \/ /\ ~(job[w].made + 1 < Len(H!Calls(r))) /\ H!Reply(n, H!ReplyTo(r, read))
        /\ job' = [job EXCEPT ![w] = H!NoJob]

\* A call that returns is not the last one and its worker goes on, or it is and the
\* request is answered.
LEMMA ReturnsIs ==
  ASSUME ShapeInv, NEW w \in Workers, H!CallReturns(w),
         NEW n, NEW r, NEW call, NEW read, n = job[w].n, r = script[n],
         call = H!Calls(r)[job[w].made + 1], read = Append(job[w].read, store[call.key])
  PROVE  Returns(w, n, r, call, read)
<1>1. /\ job[w] # H!NoJob /\ H!Apply(w, call)
      /\ IF job[w].made + 1 < Len(H!Calls(r))
         THEN /\ job' = [job EXCEPT ![w] = [job[w] EXCEPT !.made = job[w].made + 1, !.read = read]]
              /\ replies' = replies
         ELSE H!Answer(w, H!ReplyTo(r, read))
  BY Zenon DEF H!CallReturns
<1>2. job[w] = [n |-> n, made |-> job[w].made, read |-> job[w].read]
  BY DEF ShapeInv
<1>3. [job[w] EXCEPT !.made = job[w].made + 1, !.read = read]
        = [n |-> n, made |-> job[w].made + 1, read |-> read]
  <2>1. PICK x : x = [job[w] EXCEPT !.made = job[w].made + 1, !.read = read]
    OBVIOUS
  <2>2. x = [n |-> n, made |-> job[w].made + 1, read |-> read]
    BY <1>2, <2>1
  <2> QED
    BY <2>1, <2>2
<1>4. H!Answer(w, H!ReplyTo(r, read)) =>
        H!Reply(n, H!ReplyTo(r, read)) /\ job' = [job EXCEPT ![w] = H!NoJob]
  BY Zenon DEF H!Answer
<1> QED
  BY <1>1, <1>3, <1>4 DEF Returns

\* A worker only has requests that were not refused; LTRIM and EXPIRE, whose calls
\* can fail by status, make one call.
LEMMA JobsStep ==
  ASSUME IInv, JobsInv, [Next]_vars
  PROVE  JobsInv'
<1>1. ShapeInv /\ WorkInv
  BY DEF IInv
<1>2. \A w \in Workers : job[w] # H!NoJob =>
        /\ job[w].n \in 1 .. taken /\ H!ArgumentsOk(script[job[w].n])
        /\ H!Command(script[job[w].n]) \in {"LTRIM", "EXPIRE"} => job[w].made = 0
  BY <1>1 DEF WorkInv, JobsInv
<1>3. ASSUME UNCHANGED <<script, job>>
      PROVE  JobsInv'
  <2>1. \A w \in Workers : job'[w] # H!NoJob =>
          /\ H!ArgumentsOk(script'[job'[w].n])
          /\ H!Command(script'[job'[w].n]) \in {"LTRIM", "EXPIRE"} => job'[w].made = 0
    BY <1>2, <1>3
  <2> QED
    BY <2>1 DEF JobsInv, H!NoJob, H!ArgumentsOk, H!Command
<1>4. ASSUME NEW c \in Conns, NEW r \in Requests, Dispatch(c, r)
      PROVE  JobsInv'
  <2>1. script' = Append(script, r) /\ job' = job
    BY <1>4 DEF Dispatch
  <2>2. /\ script \in Seq(Requests) /\ Len(asked) = Len(script) /\ taken \in 0 .. Len(asked)
    BY <1>1 DEF ShapeInv
  <2>3. \A n \in 1 .. taken : script'[n] = script[n]
    BY <2>1, <2>2, AppendIs
  <2>4. \A w \in Workers : job'[w] # H!NoJob =>
          /\ H!ArgumentsOk(script'[job'[w].n])
          /\ H!Command(script'[job'[w].n]) \in {"LTRIM", "EXPIRE"} => job'[w].made = 0
    BY <1>2, <2>1, <2>3
  <2> QED
    BY <2>4 DEF JobsInv, H!NoJob, H!ArgumentsOk, H!Command
<1>5. ASSUME NEW w \in Workers, script' = script, \A v \in Workers : v # w => job'[v] = job[v],
             job'[w] # H!NoJob =>
               /\ H!ArgumentsOk(script[job'[w].n])
               /\ H!Command(script[job'[w].n]) \in {"LTRIM", "EXPIRE"} => job'[w].made = 0
      PROVE  JobsInv'
  <2>1. \A v \in Workers : job'[v] # H!NoJob =>
          /\ H!ArgumentsOk(script'[job'[v].n])
          /\ H!Command(script'[job'[v].n]) \in {"LTRIM", "EXPIRE"} => job'[v].made = 0
    BY <1>2, <1>5
  <2> QED
    BY <2>1 DEF JobsInv, H!NoJob, H!ArgumentsOk, H!Command
<1>6. ASSUME NEW w \in Workers, Begin(w)
      PROVE  JobsInv'
  <2>1. PICK n : n = taken + 1
    OBVIOUS
  <2>2. /\ script' = script
        /\ \/ H!ArgumentsOk(script[n]) /\ job' = [job EXCEPT ![w] = [H!NoJob EXCEPT !.n = n]]
           \/ job' = job
    BY <1>6, <2>1 DEF Begin, H!Take
  <2>3. CASE H!ArgumentsOk(script[n]) /\ job' = [job EXCEPT ![w] = [H!NoJob EXCEPT !.n = n]]
    <3>1. [H!NoJob EXCEPT !.n = n] = [n |-> n, made |-> 0, read |-> << >>]
      BY DEF H!NoJob
    <3>2. job'[w] = [n |-> n, made |-> 0, read |-> << >>] /\ \A v \in Workers : v # w => job'[v] = job[v]
      BY <1>1, <2>3, <3>1 DEF ShapeInv
    <3>3. job'[w].n = n /\ job'[w].made = 0
      BY <3>2
    <3> QED
      BY <1>5, <2>2, <2>3, <3>2, <3>3
  <2> QED
    BY <1>3, <2>2, <2>3
<1>7. ASSUME NEW w \in Workers, Work(w)
      PROVE  JobsInv'
  <2>1. script' = script
    BY <1>7, WorkerFrame DEF WorkerStep
  <2>2. CASE job' = [job EXCEPT ![w] = H!NoJob]
    BY <1>1, <1>5, <2>1, <2>2 DEF ShapeInv
  <2>3. CASE H!CallReturns(w)
    <3>1. PICK n, r : n = job[w].n /\ r = script[n]
      OBVIOUS
    <3>2. PICK call : call = H!Calls(r)[job[w].made + 1]
      OBVIOUS
    <3>3. PICK read : read = Append(job[w].read, store[call.key])
      OBVIOUS
    <3>4. /\ job[w] # H!NoJob
          /\ \/ /\ job[w].made + 1 < Len(H!Calls(r))
                /\ job' = [job EXCEPT ![w] = [n |-> n, made |-> job[w].made + 1, read |-> read]]
             \/ job' = [job EXCEPT ![w] = H!NoJob]
      <4>1. Returns(w, n, r, call, read)
        BY <1>1, <2>3, <3>1, <3>2, <3>3, ReturnsIs
      <4> QED
        BY <4>1, Zenon DEF Returns
    <3>5. CASE /\ job[w].made + 1 < Len(H!Calls(r))
               /\ job' = [job EXCEPT ![w] = [n |-> n, made |-> job[w].made + 1, read |-> read]]
      <4>1. /\ job'[w] = [n |-> n, made |-> job[w].made + 1, read |-> read]
            /\ \A v \in Workers : v # w => job'[v] = job[v]
        BY <1>1, <3>5 DEF ShapeInv
      <4>2. job'[w].n = n
        BY <4>1
      <4>3. H!ArgumentsOk(r) /\ (H!Command(r) \in {"LTRIM", "EXPIRE"} => job[w].made = 0)
        BY <1>2, <3>1, <3>4
      <4>4. H!Command(r) \notin {"LTRIM", "EXPIRE"}
        <5> SUFFICES ASSUME H!Command(r) \in {"LTRIM", "EXPIRE"} PROVE FALSE
          OBVIOUS
        <5>1. H!Command(r) \notin {"RPUSH", "LPUSH"} /\ H!Command(r) # "MGET"
          OBVIOUS
        <5>2. H!Calls(r) = <<[op |-> H!Command(r), key |-> r[2], args |-> SubSeq(r, 3, Len(r))]>>
          BY <5>1, Zenon DEF H!Calls
        <5>3. Len(H!Calls(r)) = 1
          BY <5>2
        <5> QED
          BY <3>5, <4>3, <5>3
      <4> QED
        BY <1>5, <2>1, <3>1, <4>1, <4>2, <4>3, <4>4
    <3> QED
      BY <2>2, <3>4, <3>5
  <2>4. CASE H!CallThrows(w) \/ H!CallFails(w)
    <3>1. job' = [job EXCEPT ![w] = H!NoJob]
      BY <2>4 DEF H!CallThrows, H!CallFails, H!Answer
    <3> QED
      BY <2>2, <3>1
  <2> QED
    BY <1>7, <2>3, <2>4 DEF Work
<1>8. ASSUME NEW w \in Workers, SendReply(w)
      PROVE  JobsInv'
  BY <1>3, <1>8 DEF SendReply, handlerVars
<1>9. ASSUME NEW t \in Senders, SenderStep(t)
      PROVE  JobsInv'
  BY <1>3, <1>9, SenderFrame
<1>10. ASSUME NEW k \in Keys, Expire(k)
      PROVE  JobsInv'
  BY <1>3, <1>10, ExpireFrame
<1>11. CASE UNCHANGED vars
  BY <1>3, <1>11, IdleFrame
<1>12. CASE LoopStep
  BY <1>3, <1>12, LoopFrame
<1> QED
  BY <1>4, <1>6, <1>7, <1>8, <1>9, <1>10, <1>11, <1>12 DEF Next, WorkerStep

\* Requests keep their numbers, and replies stay what they are.
LEMMA HistoryStays ==
  ASSUME IInv, [Next]_vars
  PROVE  /\ \A n \in DOMAIN asked : n \in DOMAIN asked' /\ asked'[n] = asked[n]
         /\ \A n \in DOMAIN replies : n \in DOMAIN replies' /\ replies'[n] = replies[n]
<1>1. ShapeInv /\ NumbersInv /\ WorkInv
  BY DEF IInv
<1>2. ASSUME UNCHANGED <<asked, replies>>
      PROVE  /\ \A n \in DOMAIN asked : n \in DOMAIN asked' /\ asked'[n] = asked[n]
             /\ \A n \in DOMAIN replies : n \in DOMAIN replies' /\ replies'[n] = replies[n]
  BY <1>2
<1>3. ASSUME NEW n, NEW x, asked' = asked, n \notin DOMAIN replies, H!Reply(n, x)
      PROVE  /\ \A m \in DOMAIN asked : m \in DOMAIN asked' /\ asked'[m] = asked[m]
             /\ \A m \in DOMAIN replies : m \in DOMAIN replies' /\ replies'[m] = replies[m]
  BY <1>3 DEF H!Reply
<1>4. ASSUME NEW c \in Conns, NEW r \in Requests, Dispatch(c, r)
      PROVE  /\ \A n \in DOMAIN asked : n \in DOMAIN asked' /\ asked'[n] = asked[n]
             /\ replies' = replies
  <2>1. PICK new : new = [s |-> c, id |-> last_command_id[c]]
    OBVIOUS
  <2>2. asked' = Append(asked, new) /\ replies' = replies
    BY <1>4, <2>1 DEF Dispatch
  <2>3. asked \in Seq(Task) /\ new \in Task
    BY <1>1, <2>1 DEF ShapeInv, Task
  <2> QED
    BY <2>2, <2>3, AppendIs
<1>5. ASSUME NEW w \in Workers, Begin(w)
      PROVE  /\ asked' = asked
             /\ \A n \in DOMAIN replies : n \in DOMAIN replies' /\ replies'[n] = replies[n]
  <2>1. PICK n : n = taken + 1
    OBVIOUS
  <2>2. /\ asked' = asked
        /\ replies' = replies \/ H!Reply(n, H!UsageError)
    BY <1>5, <2>1 DEF Begin, H!Take, ownVars
  <2>3. n \notin DOMAIN replies
    BY <1>1, <2>1, AskedIs DEF WorkInv
  <2> QED
    BY <1>3, <2>2, <2>3
<1>6. ASSUME NEW w \in Workers, Work(w)
      PROVE  /\ asked' = asked
             /\ \A n \in DOMAIN replies : n \in DOMAIN replies' /\ replies'[n] = replies[n]
  <2>1. /\ asked' = asked
        /\ replies' = replies \/ \E x : H!Reply(job[w].n, x)
    BY <1>1, <1>6, CallIs DEF ownVars
  <2>2. job[w].n \notin DOMAIN replies
    BY <1>1 DEF WorkInv
  <2> QED
    BY <1>3, <2>1, <2>2
<1>7. ASSUME NEW w \in Workers, SendReply(w)
      PROVE  UNCHANGED <<asked, replies>>
  BY <1>7 DEF SendReply, handlerVars, ownVars
<1>8. ASSUME NEW t \in Senders, SenderStep(t)
      PROVE  UNCHANGED <<asked, replies>>
  BY <1>8, SenderFrame
<1>9. ASSUME NEW k \in Keys, Expire(k)
      PROVE  UNCHANGED <<asked, replies>>
  BY <1>9, ExpireFrame
<1>10. CASE UNCHANGED vars
  BY <1>2, <1>10, IdleFrame
<1>11. CASE LoopStep
  BY <1>2, <1>11, LoopFrame
<1> QED
  BY <1>2, <1>4, <1>5, <1>6, <1>7, <1>8, <1>9, <1>10, <1>11 DEF Next, WorkerStep

\* The reply to a task that has one stays the same.
LEMMA ResponseStays ==
  ASSUME IInv, [Next]_vars, NEW task, IsAnswered(task)
  PROVE  replies'[NumberIn(asked', task)] = replies[NumberIn(asked, task)]
<1>1. NumbersInv /\ WorkInv /\ ShapeInv /\ NumbersInv'
  BY StepInv DEF IInv
<1>2. PICK n \in DOMAIN replies : asked[n] = task
  BY DEF IsAnswered
<1>3. n \in DOMAIN asked
  BY <1>1, <1>2, AskedIs DEF WorkInv
<1>4. n \in DOMAIN asked' /\ asked'[n] = task /\ replies'[n] = replies[n]
  BY <1>2, <1>3, HistoryStays
<1>5. NumberIn(asked, task) = n
  BY <1>1, <1>2, <1>3, NumberIs DEF NumbersInv
<1>6. \A m \in DOMAIN asked' : asked'[m] = asked'[n] => m = n
  BY <1>1, <1>4 DEF NumbersInv
<1>7. NumberIn(asked', asked'[n]) = n
  BY <1>4, <1>6, NumberIs
<1> QED
  BY <1>4, <1>5, <1>7

\* The buffers hold the replies of their numbers, before a step and after it.
BufferIn(b, br, a, r) ==
  /\ br = [c \in Conns |-> br[c]]
  /\ \A c \in Conns :
       /\ DOMAIN br[c] = b[c]
       /\ \A id \in b[c] : br[c][id] = r[NumberIn(a, [s |-> c, id |-> id])]

\* BufferInv is what BufferIn says, before a step and after it.
LEMMA BufferIs ==
  /\ BufferInv <=> BufferIn(buffered, buffered_responses, asked, replies)
  /\ BufferInv' <=> BufferIn(buffered', buffered_responses', asked', replies')
<1>1. \A task : Response(task) = replies[NumberIn(asked, task)]
                /\ Response(task)' = replies'[NumberIn(asked', task)]
  BY DEF Response, NumberOf, NumberIn
<1> QED
  BY <1>1 DEF BufferInv, BufferIn

\* A sender that keeps a reply keeps that of its task; one that sends a buffered
\* reply takes out no other.
LEMMA BufferStep ==
  ASSUME IInv, BufferInv, [Next]_vars
  PROVE  BufferInv'
<1>1. ShapeInv /\ SentInv
  BY DEF IInv
<1>2. BufferIn(buffered, buffered_responses, asked, replies)
  BY BufferIs
<1>3. ASSUME UNCHANGED <<buffered, buffered_responses>>
      PROVE  BufferInv'
  <2>1. \A c \in Conns : \A id \in buffered[c] :
          replies'[NumberIn(asked', [s |-> c, id |-> id])] =
            replies[NumberIn(asked, [s |-> c, id |-> id])]
    BY <1>1, ResponseStays DEF SentInv
  <2>2. BufferIn(buffered', buffered_responses', asked', replies')
    BY <1>2, <1>3, <2>1 DEF BufferIn
  <2> QED
    BY <2>2, BufferIs
<1>4. ASSUME NEW t \in Senders, InsertEarly(t)
      PROVE  BufferInv'
  <2>1. PICK s, id : s = senderTask[t].s /\ id = senderTask[t].id
    OBVIOUS
  <2>2. PICK x : x = replies[NumberIn(asked, senderTask[t])]
    OBVIOUS
  <2>3. senderPc[t] = "ready" /\ buffered' = [buffered EXCEPT ![s] = @ \cup {id}]
        /\ buffered_responses' = [buffered_responses EXCEPT ![s] =
             [i \in buffered'[s] |-> IF i = id THEN x ELSE buffered_responses[s][i]]]
    BY <1>4, <2>1, <2>2, ViewsAre DEF InsertEarly, P!InsertEarly
  <2>4. s \in Conns /\ senderTask[t] = [s |-> s, id |-> id]
    BY <1>1, <2>1, <2>3, AnsweredIs DEF SentInv
  <2>5. /\ buffered = [c \in Conns |-> buffered[c]]
        /\ buffered_responses = [c \in Conns |-> buffered_responses[c]]
        /\ \A c \in Conns : DOMAIN buffered_responses[c] = buffered[c]
             /\ \A i \in buffered[c] :
                  buffered_responses[c][i] = replies[NumberIn(asked, [s |-> c, id |-> i])]
    BY <1>1, <1>2 DEF ShapeInv, BufferIn
  <2>6. /\ buffered'[s] = buffered[s] \cup {id}
        /\ buffered_responses'[s] = [i \in buffered'[s] |->
             IF i = id THEN x ELSE buffered_responses[s][i]]
        /\ buffered_responses' = [c \in Conns |-> buffered_responses'[c]]
        /\ \A c \in Conns : c # s => buffered'[c] = buffered[c]
                                     /\ buffered_responses'[c] = buffered_responses[c]
    BY <2>3, <2>4, <2>5
  <2>7. UNCHANGED <<asked, replies>>
    BY <1>4, SenderFrame DEF SenderStep
  <2>8. ASSUME NEW c \in Conns
        PROVE  /\ DOMAIN buffered_responses'[c] = buffered'[c]
               /\ \A i \in buffered'[c] :
                    buffered_responses'[c][i] = replies[NumberIn(asked, [s |-> c, id |-> i])]
    <3>1. CASE c = s
      BY <2>2, <2>4, <2>5, <2>6, <3>1
    <3>2. CASE c # s
      BY <2>5, <2>6, <3>2
    <3> QED
      BY <3>1, <3>2
  <2>9. BufferIn(buffered', buffered_responses', asked', replies')
    BY <2>6, <2>7, <2>8 DEF BufferIn
  <2> QED
    BY <2>9, BufferIs
<1>5. ASSUME NEW t \in Senders, DrainOne(t)
      PROVE  BufferInv'
  <2>1. PICK s : s = senderTask[t].s
    OBVIOUS
  <2>2. /\ senderPc[t] = "drain"
        /\ buffered_responses' = [buffered_responses EXCEPT ![s] =
             [i \in buffered'[s] |-> buffered_responses[s][i]]]
    BY <1>5, <2>1 DEF DrainOne, P!DrainOne
  <2>3. buffered' = buffered \/ buffered' = [buffered EXCEPT ![s] = @ \ {to_send[s]}]
    BY <1>5, <2>1 DEF DrainOne, P!DrainOne
  <2>4. s \in Conns
    BY <1>1, <2>1, <2>2, AnsweredIs DEF SentInv
  <2>5. /\ buffered = [c \in Conns |-> buffered[c]]
        /\ buffered_responses = [c \in Conns |-> buffered_responses[c]]
        /\ \A c \in Conns : DOMAIN buffered_responses[c] = buffered[c]
             /\ \A i \in buffered[c] :
                  buffered_responses[c][i] = replies[NumberIn(asked, [s |-> c, id |-> i])]
    BY <1>1, <1>2 DEF ShapeInv, BufferIn
  <2>6. /\ buffered'[s] \subseteq buffered[s]
        /\ buffered_responses'[s] = [i \in buffered'[s] |-> buffered_responses[s][i]]
        /\ buffered_responses' = [c \in Conns |-> buffered_responses'[c]]
        /\ \A c \in Conns : c # s => buffered'[c] = buffered[c]
                                     /\ buffered_responses'[c] = buffered_responses[c]
    BY <2>2, <2>3, <2>4, <2>5
  <2>7. UNCHANGED <<asked, replies>>
    BY <1>5, SenderFrame DEF SenderStep
  <2>8. ASSUME NEW c \in Conns
        PROVE  /\ DOMAIN buffered_responses'[c] = buffered'[c]
               /\ \A i \in buffered'[c] :
                    buffered_responses'[c][i] = replies[NumberIn(asked, [s |-> c, id |-> i])]
    <3>1. CASE c = s
      BY <2>5, <2>6, <3>1
    <3>2. CASE c # s
      BY <2>5, <2>6, <3>2
    <3> QED
      BY <3>1, <3>2
  <2>9. BufferIn(buffered', buffered_responses', asked', replies')
    BY <2>6, <2>7, <2>8 DEF BufferIn
  <2> QED
    BY <2>9, BufferIs
<1>6. ASSUME NEW t \in Senders, InsertNext(t)
      PROVE  BufferInv'
  BY <1>3, <1>6 DEF InsertNext, P!InsertNext
<1>7. ASSUME NEW t \in Senders, UNCHANGED <<handlerVars, ownVars>>,
             P!SenderTake(t) \/ P!DrainDone(t)
               \/ P!LookupHit(t) \/ P!LookupGone(t) \/ P!LookupMiss(t)
      PROVE  BufferInv'
  BY <1>3, <1>7 DEF P!SenderTake, P!DrainDone, P!LookupHit, P!LookupGone, P!LookupMiss,
                    P!ctxVars, ownVars
<1>8. ASSUME NEW c \in Conns, NEW r \in Requests, Dispatch(c, r)
      PROVE  BufferInv'
  BY <1>3, <1>8, DispatchFrame
<1>9. ASSUME NEW w \in Workers, WorkerStep(w)
      PROVE  BufferInv'
  BY <1>3, <1>9, WorkerFrame
<1>10. ASSUME NEW k \in Keys, Expire(k)
       PROVE  BufferInv'
  BY <1>3, <1>10, ExpireFrame
<1>11. CASE UNCHANGED vars
  BY <1>3, <1>11, IdleFrame
<1>12. CASE LoopStep
  BY <1>3, <1>12, LoopFrame
<1> QED
  BY <1>4, <1>5, <1>6, <1>7, <1>8, <1>9, <1>10, <1>11, <1>12 DEF Next, SenderStep

\* What becomes of a write that takes all it is given: it reaches the client of the
\* session exactly if that is still there.
LEMMA WriteIs ==
  ASSUME WriteResults \subseteq {"all"}, OpenInv, ToldInv, NEW s \in Conns, NEW id,
         NEW result \in WriteResults \cup {"error"}, P!Write(s, id, result)
  PROVE  /\ P!ReplyOk(result)
         /\ recv' = [c \in Conns |-> recv'[c]] /\ \A c \in Conns : IsSequence(recv'[c])
         /\ conn[s] = "open" <=> recv' # recv
<1>1. PICK x : x = [id |-> id, whole |-> result = "all"]
  OBVIOUS
<1>2. /\ recv = [c \in Conns |-> recv[c]] /\ \A c \in Conns : IsSequence(recv[c])
  BY DEF ToldInv
<1>3. result \in {"all", "error"} /\ "error" \notin WriteResults /\ P!ReplyOk(result)
  BY DEF P!ReplyOk
<1>4. \/ s \in P!Holder(s) /\ recv' = [recv EXCEPT ![s] = Append(@, x)]
      \/ P!Holder(s) \ {s} # {} /\ recv' = recv
      \/ P!Holder(s) = {} /\ recv' = recv
  BY <1>1, <1>3, Zenon DEF P!Write
<1>5. conn[s] = "open" => P!Holder(s) = {s}
  BY DEF P!Holder, OpenInv
<1>6. s \in P!Holder(s) => conn[s] = "open"
  BY DEF P!Holder
<1>7. CASE s \in P!Holder(s) /\ recv' = [recv EXCEPT ![s] = Append(@, x)]
  <2>1. /\ recv'[s] = Append(recv[s], x) /\ recv' = [c \in Conns |-> recv'[c]]
        /\ \A c \in Conns : c # s => recv'[c] = recv[c]
    BY <1>2, <1>7
  <2>2. IsSequence(recv'[s]) /\ Len(recv'[s]) = Len(recv[s]) + 1 /\ Len(recv[s]) \in Nat
    BY <1>2, <2>1, GrownIs
  <2>3. recv'[s] # recv[s]
    BY <2>2
  <2> QED
    BY <1>2, <1>3, <1>6, <1>7, <2>1, <2>2, <2>3
<1>8. CASE recv' = recv /\ (P!Holder(s) \ {s} # {} \/ P!Holder(s) = {})
  BY <1>2, <1>3, <1>5, <1>8
<1> QED
  BY <1>4, <1>7, <1>8

\* A sender that writes the next reply tells it the client, if that is still there.
LEMMA SendsIs ==
  ASSUME WriteResults \subseteq {"all"}, RInv, NEW t \in Senders,
         InsertNext(t) \/ DrainOne(t), NEW s, s = senderTask[t].s
  PROVE  /\ s \in Conns /\ IsAnswered([s |-> s, id |-> to_send[s]])
         /\ to_send' = [to_send EXCEPT ![s] = @ + 1]
         /\ conn[s] = "open" =>
              got' = [got EXCEPT ![s] = Append(@, Response([s |-> s, id |-> to_send[s]]))]
         /\ conn[s] # "open" => got' = got
         /\ recv' = [c \in Conns |-> recv'[c]] /\ \A c \in Conns : IsSequence(recv'[c])
<1>1. IInv /\ OpenInv /\ ToldInv /\ BufferInv /\ SentInv
  BY DEF RInv, IInv
<1>2. senderPc[t] # "idle" => IsAnswered(senderTask[t]) /\ s \in Conns /\ senderTask[t].id \in Nat
                              /\ senderTask[t] = [s |-> s, id |-> senderTask[t].id]
  BY <1>1, AnsweredIs DEF SentInv
<1>3. CASE InsertNext(t)
  <2>1. /\ senderPc[t] = "ready" /\ senderTask[t].id = to_send[s]
        /\ to_send' = [to_send EXCEPT ![s] = @ + 1]
        /\ got' = IF recv' = recv THEN got
                  ELSE [got EXCEPT ![s] = Append(@, Response(senderTask[t]))]
    BY <1>3 DEF InsertNext, P!InsertNext, P!IsNext, Sent
  <2>2. PICK result \in WriteResults \cup {"error"} : P!Write(s, senderTask[t].id, result)
    BY <1>3, Zenon DEF InsertNext, P!InsertNext
  <2>3. s \in Conns /\ senderTask[t] = [s |-> s, id |-> to_send[s]] /\ IsAnswered(senderTask[t])
    BY <1>2, <2>1
  <2> QED
    BY <1>1, <2>1, <2>2, <2>3, WriteIs
<1>4. CASE DrainOne(t)
  <2>1. /\ senderPc[t] = "drain" /\ to_send[s] \in buffered[s]
        /\ got' = IF recv' = recv THEN got
                  ELSE [got EXCEPT ![s] = Append(@, buffered_responses[s][to_send[s]])]
    BY <1>4 DEF DrainOne, P!DrainOne, P!FirstIsNext, Sent
  <2>2. s \in Conns
    BY <1>2, <2>1
  <2>3. /\ IsAnswered([s |-> s, id |-> to_send[s]])
        /\ buffered_responses[s][to_send[s]] = Response([s |-> s, id |-> to_send[s]])
    BY <1>1, <2>1, <2>2 DEF SentInv, BufferInv
  <2>4. PICK result \in WriteResults \cup {"error"} :
          /\ P!Write(s, to_send[s], result)
          /\ to_send' = [to_send EXCEPT ![s] = @ + 1] \/ ~P!ReplyOk(result)
    BY <1>4, Zenon DEF DrainOne, P!DrainOne
  <2> QED
    BY <1>1, <2>1, <2>2, <2>3, <2>4, WriteIs
<1> QED
  BY <1>3, <1>4

\* The other steps of a sender send nothing.
LEMMA SilentFrame ==
  ASSUME NEW t, SenderStep(t), ~InsertNext(t), ~DrainOne(t)
  PROVE  UNCHANGED <<conn, last_command_id, recv, to_send, got, script, job, store, expiring,
                     replies, asked>>
<1>1. CASE InsertEarly(t)
  <2>1. UNCHANGED <<recv, to_send, got>>
    BY <1>1 DEF InsertEarly, P!InsertEarly, P!histVars
  <2> QED
    BY <2>1, SenderFrame
<1>2. CASE /\ \/ P!SenderTake(t) \/ P!DrainDone(t)
              \/ P!LookupHit(t) \/ P!LookupGone(t) \/ P!LookupMiss(t)
           /\ UNCHANGED <<handlerVars, ownVars>>
  <2>1. UNCHANGED <<recv, to_send, got>>
    BY <1>2 DEF P!SenderTake, P!DrainDone, P!LookupHit, P!LookupGone, P!LookupMiss, P!ctxVars,
                P!histVars, ownVars
  <2> QED
    BY <2>1, SenderFrame
<1> QED
  BY <1>1, <1>2 DEF SenderStep

\* An open client is told each reply when its session passes it.
LEMMA ToldStep ==
  ASSUME WriteResults \subseteq {"all"}, RInv, [Next]_vars
  PROVE  ToldInv'
<1>1. OpenInv /\ ToldInv /\ ShapeInv /\ SentInv
  BY DEF RInv, IInv
<1>2. /\ recv = [c \in Conns |-> recv[c]] /\ \A c \in Conns : IsSequence(recv[c])
      /\ \A c \in Conns : conn[c] = "new" => last_command_id[c] = 0
      /\ \A c \in Conns : conn[c] = "open" => Len(got[c]) = to_send[c]
  BY <1>1 DEF ToldInv
<1>3. ASSUME recv' = recv, UNCHANGED <<to_send, got>>,
             \A c \in Conns : conn'[c] = "open" => Len(got[c]) = to_send[c],
             \A c \in Conns : conn'[c] = "new" => last_command_id'[c] = 0
      PROVE  ToldInv'
  BY <1>2, <1>3 DEF ToldInv, IsSequence
<1>4. ASSUME UNCHANGED <<conn, last_command_id, recv, to_send, got>>
      PROVE  ToldInv'
  BY <1>2, <1>3, <1>4
<1>5. CASE LoopStep
  <2>1. UNCHANGED <<last_command_id, recv, to_send, got>>
    BY <1>5, LoopFrame
  <2>2. conn' = conn
        \/ (\E c \in Conns : conn[c] = "new" /\ conn' = [conn EXCEPT ![c] = "open"])
        \/ \E c \in Conns : conn' = [conn EXCEPT ![c] = "closed"]
    BY <1>5 DEF LoopStep, P!Accept, P!Disconnect, P!AcceptFails, P!FinishAccept, P!FinishErase
  <2>3. \A c \in Conns : /\ conn'[c] = "open" => conn[c] \in {"new", "open"}
                         /\ conn'[c] = "new" => conn[c] = "new"
    BY <1>1, <2>2 DEF OpenInv
  <2>4. \A c \in Conns : conn[c] = "new" => Len(got[c]) = to_send[c]
    <3> TAKE c \in Conns
    <3> HAVE conn[c] = "new"
    <3>1. /\ last_command_id[c] = 0 /\ to_send[c] \in Nat /\ Len(got[c]) \in Nat
          /\ Len(got[c]) <= to_send[c] /\ to_send[c] <= last_command_id[c]
      BY <1>1, <1>2, GrownIs DEF ShapeInv, SentInv
    <3> QED
      BY <3>1
  <2> QED
    BY <1>2, <1>3, <2>1, <2>3, <2>4
<1>6. ASSUME NEW c \in Conns, NEW r \in Requests, Dispatch(c, r)
      PROVE  ToldInv'
  <2>1. UNCHANGED <<conn, recv, to_send, got>>
    BY <1>6, DispatchFrame
  <2>2. conn[c] = "open" /\ last_command_id' = [last_command_id EXCEPT ![c] = @ + 1]
    BY <1>1, <1>6 DEF Dispatch, P!Dispatch, OpenInv
  <2>3. \A d \in Conns : d # c => last_command_id'[d] = last_command_id[d]
    BY <1>1, <2>2 DEF ShapeInv
  <2> QED
    BY <1>2, <1>3, <2>1, <2>2, <2>3
<1>7. ASSUME NEW w \in Workers, WorkerStep(w)
      PROVE  ToldInv'
  BY <1>4, <1>7, WorkerFrame
<1>8. ASSUME NEW t \in Senders, InsertNext(t) \/ DrainOne(t)
      PROVE  ToldInv'
  <2>1. PICK s : s = senderTask[t].s
    OBVIOUS
  <2>2. PICK x : x = Response([s |-> s, id |-> to_send[s]])
    OBVIOUS
  <2>3. /\ s \in Conns /\ to_send' = [to_send EXCEPT ![s] = @ + 1]
        /\ conn[s] = "open" => got' = [got EXCEPT ![s] = Append(@, x)]
        /\ conn[s] # "open" => got' = got
        /\ recv' = [c \in Conns |-> recv'[c]]
    BY <1>8, <2>1, <2>2, SendsIs
  <2>4. \A c \in Conns : IsSequence(recv'[c])
    BY <1>8, <2>1, SendsIs
  <2>5. UNCHANGED <<conn, last_command_id>>
    BY <1>8, SenderFrame DEF SenderStep
  <2>6. ASSUME NEW c \in Conns, conn[c] = "open"
        PROVE  Len(got'[c]) = to_send'[c]
    <3>1. Len(got[c]) = to_send[c]
      BY <1>2, <2>6
    <3>2. CASE c = s
      <4>1. IsSequence(got[s]) /\ to_send[s] \in Nat
        BY <1>1, <2>3 DEF ShapeInv
      <4>2. got'[s] = Append(got[s], x) /\ to_send'[s] = to_send[s] + 1
        BY <1>1, <2>3, <2>6, <3>2 DEF ShapeInv
      <4> QED
        BY <3>1, <3>2, <4>1, <4>2, GrownIs
    <3>3. CASE c # s
      BY <1>1, <2>3, <3>1, <3>3 DEF ShapeInv
    <3> QED
      BY <3>2, <3>3
  <2> QED
    BY <1>2, <2>3, <2>4, <2>5, <2>6 DEF ToldInv, IsSequence
<1>9. ASSUME NEW t \in Senders, SenderStep(t)
      PROVE  ToldInv'
  BY <1>4, <1>8, <1>9, SilentFrame
<1>10. ASSUME NEW k \in Keys, Expire(k)
       PROVE  ToldInv'
  BY <1>4, <1>10, ExpireFrame
<1>11. CASE UNCHANGED vars
  BY <1>4, <1>11, IdleFrame
<1> QED
  BY <1>5, <1>6, <1>7, <1>9, <1>10, <1>11 DEF Next

\* Nothing has been accepted, asked or told to begin with.
LEMMA RInit ==
  ASSUME Init
  PROVE  RInv
<1>1. /\ conn = [c \in Conns |-> "new"] /\ watched = {} /\ updating = P!NoUpdate
      /\ last_command_id = [c \in Conns |-> 0] /\ fd = [c \in Conns |-> -1]
      /\ recv = [c \in Conns |-> << >>] /\ buffered = [c \in Conns |-> {}]
      /\ buffered_responses = [c \in Conns |-> << >>] /\ job = [w \in Workers |-> H!NoJob]
  BY DEF Init, P!Init, H!Init
<1>2. IsSequence(<< >>) /\ DOMAIN << >> = {}
  BY DEF IsSequence, H!IsSequence, H!ToSet
<1>3. OpenInv
  BY <1>1 DEF OpenInv, P!NoUpdate
<1>4. ToldInv
  BY <1>1, <1>2 DEF ToldInv
<1>5. IdsInv
  BY <1>1 DEF IdsInv
<1>6. BufferInv
  BY <1>1, <1>2 DEF BufferInv
<1>7. JobsInv
  BY <1>1 DEF JobsInv
<1> QED
  BY <1>3, <1>4, <1>5, <1>6, <1>7, InitInv DEF RInv

\* Every step preserves the invariant.
LEMMA RStep ==
  ASSUME WriteResults \subseteq {"all"}, RInv, [Next]_vars
  PROVE  RInv'
<1>1. IInv /\ OpenInv /\ ToldInv /\ IdsInv /\ BufferInv /\ JobsInv
  BY DEF RInv
<1>2. IInv' /\ OpenInv'
  BY <1>1, StepInv, OpenStep
<1>3. ToldInv' /\ IdsInv'
  BY <1>1, ToldStep, IdsStep
<1>4. BufferInv' /\ JobsInv'
  BY <1>1, BufferStep, JobsStep
<1> QED
  BY <1>2, <1>3, <1>4 DEF RInv

(***************************************************************************)
(* Each step is one of the service, or none.                               *)
(***************************************************************************)

\* A step that leaves the requests, their workers and their replies alone.
LEMMA SameView ==
  ASSUME RInv, UNCHANGED <<script, asked, last_command_id, job, replies>>
  PROVE  UNCHANGED <<askedBy, progressOf>>
BY Stutters

\* Connections are opened and closed.
LEMMA LoopImplements ==
  ASSUME RInv, LoopStep
  PROVE  [Service!Next]_Service!vars
<1>1. UNCHANGED <<askedBy, progressOf, store, expiring, got>>
  BY LoopFrame, SameView
<1>2. ASSUME NEW c \in Conns, P!Accept(c)
      PROVE  Service!Open(c)
  BY <1>1, <1>2 DEF P!Accept, Service!Open
<1>3. ASSUME NEW c \in Conns, P!Disconnect(c)
      PROVE  Service!Close(c)
  <2>1. conn[c] = "open"
    BY <1>3 DEF P!Disconnect, RInv, OpenInv
  <2> QED
    BY <1>1, <1>3, <2>1 DEF P!Disconnect, Service!Close
<1>4. CASE P!AcceptFails \/ P!FinishAccept \/ P!FinishErase
  BY <1>1, <1>4 DEF P!AcceptFails, P!FinishAccept, P!FinishErase, Service!vars
<1> QED
  BY <1>2, <1>3, <1>4 DEF LoopStep, Service!Next

\* A sequence that is another one with one more element.
LEMMA ExtendedIs ==
  ASSUME NEW S, NEW f \in Seq(S), NEW g \in Seq(S), Len(g) = Len(f) + 1,
         \A k \in 1 .. Len(f) : g[k] = f[k]
  PROVE  g = Append(f, g[Len(g)])
<1> DEFINE x == g[Len(g)]
<1>1. Len(f) \in Nat /\ Len(g) \in 1 .. Len(g) /\ x \in S
  OBVIOUS
<1>2. /\ Append(f, x) \in Seq(S) /\ Len(Append(f, x)) = Len(g)
      /\ \A k \in 1 .. Len(f) : Append(f, x)[k] = f[k]
      /\ Append(f, x)[Len(g)] = x
  BY <1>1, AppendIs
<1>3. \A q \in Seq(S) : q = [k \in 1 .. Len(q) |-> q[k]]
  OBVIOUS
<1>4. \A k \in 1 .. Len(g) : g[k] = Append(f, x)[k]
  <2>1. \A k \in 1 .. Len(g) : k \in 1 .. Len(f) \/ k = Len(g)
    BY <1>1
  <2> QED
    BY <1>2, <2>1
<1> HIDE DEF x
<1> QED
  BY <1>2, <1>3, <1>4 DEF x

\* A request is asked: the new one has no worker and no reply yet, the others are
\* what they were.
LEMMA DispatchImplements ==
  ASSUME RInv, NEW c \in Conns, NEW r \in Requests, Dispatch(c, r)
  PROVE  Service!Ask(c, r)
<1>1. IInv /\ ShapeInv /\ NumbersInv /\ WorkInv /\ NumbersInv' /\ OpenInv
  <2>1. IInv /\ [Next]_vars
    BY DEF RInv, Next
  <2> QED
    BY <2>1, StepInv DEF RInv, IInv
<1>2. PICK m, new : m = Len(asked) + 1 /\ new = [s |-> c, id |-> last_command_id[c]]
  OBVIOUS
<1>3. /\ script' = Append(script, r) /\ asked' = Append(asked, new)
      /\ last_command_id' = [last_command_id EXCEPT ![c] = @ + 1]
      /\ c \in watched
  BY <1>2 DEF Dispatch, P!Dispatch
<1>4. UNCHANGED <<conn, store, expiring, got, job, replies>>
  BY DispatchFrame
<1>5. conn[c] = "open"
  BY <1>1, <1>3 DEF OpenInv
<1>6. /\ last_command_id \in [Conns -> Nat] /\ last_command_id'[c] = last_command_id[c] + 1
      /\ \A d \in Conns : d # c => last_command_id'[d] = last_command_id[d]
  BY <1>1, <1>3 DEF ShapeInv
<1>7. /\ DOMAIN asked' = 1 .. m /\ Len(asked) \in Nat /\ asked'[m] = new
      /\ \A n \in 1 .. Len(asked) : asked'[n] = asked[n]
  <2>1. asked \in Seq(Task) /\ new \in Task
    BY <1>1, <1>2 DEF ShapeInv, Task
  <2> QED
    BY <1>2, <1>3, <2>1, AppendIs
<1>8. script'[m] = r /\ \A n \in 1 .. Len(asked) : script'[n] = script[n]
  <2>1. script \in Seq(Requests) /\ Len(script) = Len(asked)
    BY <1>1 DEF ShapeInv
  <2> QED
    BY <1>2, <1>3, <2>1, AppendIs
<1>9. \A n \in 1 .. m : NumberIn(asked', asked'[n]) = n
  BY <1>1, <1>7, NumberIs DEF NumbersInv
<1>10. ASSUME NEW d \in Conns, NEW k \in 1 .. last_command_id[d]
       PROVE  /\ NumberIn(asked', [s |-> d, id |-> k - 1]) =
                   NumberIn(asked, [s |-> d, id |-> k - 1])
              /\ NumberIn(asked, [s |-> d, id |-> k - 1]) \in 1 .. Len(asked)
  <2>1. PICK n \in 1 .. Len(asked) :
          /\ n = NumberIn(asked, [s |-> d, id |-> k - 1])
          /\ asked[n].s = d /\ asked[n].id + 1 = k
    BY RequestsAre
  <2>2. asked[n] = [s |-> asked[n].s, id |-> asked[n].id] /\ asked[n].id \in Nat
    BY <1>1, AskedIs
  <2>3. asked[n] = [s |-> d, id |-> k - 1]
    BY <2>1, <2>2
  <2>4. NumberIn(asked', asked[n]) = n
    BY <1>2, <1>7, <1>9
  <2> QED
    BY <2>1, <2>3, <2>4
<1>11. NumberIn(asked', [s |-> c, id |-> (last_command_id[c] + 1) - 1]) = m
  <2>1. (last_command_id[c] + 1) - 1 = last_command_id[c] /\ m \in 1 .. m
    BY <1>2, <1>6, <1>7
  <2> QED
    BY <1>2, <1>7, <1>9, <2>1
<1>12. ProgressIn(job, replies, m) = Service!UnderWay(0, << >>)
  <2>1. m \notin DOMAIN replies /\ taken \in 0 .. Len(asked)
    BY <1>1, <1>2, <1>7 DEF WorkInv, ShapeInv
  <2>2. \A w \in Workers : job[w].n # m
    <3> TAKE w \in Workers
    <3>1. job[w] = H!NoJob => job[w].n = 0
      BY DEF H!NoJob
    <3>2. job[w] # H!NoJob => job[w].n \in 1 .. taken
      BY <1>1 DEF WorkInv
    <3> QED
      BY <1>2, <1>7, <2>1, <3>1, <3>2
  <2> QED
    BY <2>1, <2>2, ProgressIs
<1>13. askedBy' = [askedBy EXCEPT ![c] = Append(@, r)]
  <2>1. askedBy = [d \in Conns |-> [k \in 1 .. last_command_id[d] |->
          script[NumberIn(asked, [s |-> d, id |-> k - 1])]]]
    BY ViewsAre DEF AskedIn
  <2>2. askedBy' = [d \in Conns |-> [k \in 1 .. last_command_id'[d] |->
          script'[NumberIn(asked', [s |-> d, id |-> k - 1])]]]
    BY ViewsAre DEF AskedIn
  <2>3. \A d \in Conns : d # c => askedBy'[d] = askedBy[d]
    BY <1>6, <1>8, <1>10, <2>1, <2>2
  <2>4. askedBy'[c] = Append(askedBy[c], r)
    <3> DEFINE f == askedBy[c]  g == askedBy'[c]  n == last_command_id[c]
    <3>1. /\ n \in Nat /\ f = [k \in 1 .. n |-> f[k]] /\ g = [k \in 1 .. n + 1 |-> g[k]]
      BY <1>6, <2>1, <2>2
    <3> DEFINE S == {g[k] : k \in 1 .. n + 1}
    <3>2. \A k \in 1 .. n : g[k] = f[k]
      BY <1>6, <1>8, <1>10, <2>1, <2>2
    <3>3. g[n + 1] = r
      BY <1>6, <1>8, <1>11, <2>2
    <3> HIDE DEF f, g, n
    <3>4. f \in [1 .. n -> S] /\ g \in [1 .. n + 1 -> S]
      <4>1. \A k \in 1 .. n : k \in 1 .. n + 1
        BY <3>1
      <4>2. (\A k \in 1 .. n : f[k] \in S) /\ \A k \in 1 .. n + 1 : g[k] \in S
        BY <3>2, <4>1
      <4> HIDE DEF S
      <4> QED
        BY <3>1, <4>2
    <3> HIDE DEF S
    <3>5. f \in Seq(S) /\ g \in Seq(S) /\ Len(f) = n /\ Len(g) = n + 1
      BY <3>1, <3>4
    <3>6. g = Append(f, g[Len(g)])
      BY <3>2, <3>5, ExtendedIs
    <3> QED
      BY <3>3, <3>5, <3>6 DEF f, g
  <2> QED
    BY <2>1, <2>2, <2>3, <2>4
<1>14. progressOf' = [progressOf EXCEPT ![c] = Append(@, Service!UnderWay(0, << >>))]
  <2>1. progressOf = [d \in Conns |-> [k \in 1 .. last_command_id[d] |->
          ProgressIn(job, replies, NumberIn(asked, [s |-> d, id |-> k - 1]))]]
    BY ViewsAre DEF ProgressesIn
  <2>2. progressOf' = [d \in Conns |-> [k \in 1 .. last_command_id'[d] |->
          ProgressIn(job, replies, NumberIn(asked', [s |-> d, id |-> k - 1]))]]
    BY <1>4, ViewsAre DEF ProgressesIn
  <2>3. \A d \in Conns : d # c => progressOf'[d] = progressOf[d]
    BY <1>6, <1>10, <2>1, <2>2
  <2>4. progressOf'[c] = Append(progressOf[c], Service!UnderWay(0, << >>))
    <3> DEFINE f == progressOf[c]  g == progressOf'[c]  n == last_command_id[c]
    <3>1. /\ n \in Nat /\ f = [k \in 1 .. n |-> f[k]] /\ g = [k \in 1 .. n + 1 |-> g[k]]
      BY <1>6, <2>1, <2>2
    <3> DEFINE S == {g[k] : k \in 1 .. n + 1}
    <3>2. \A k \in 1 .. n : g[k] = f[k]
      BY <1>6, <1>10, <2>1, <2>2
    <3>3. g[n + 1] = Service!UnderWay(0, << >>)
      BY <1>6, <1>11, <1>12, <2>2
    <3> HIDE DEF f, g, n
    <3>4. f \in [1 .. n -> S] /\ g \in [1 .. n + 1 -> S]
      <4>1. \A k \in 1 .. n : k \in 1 .. n + 1
        BY <3>1
      <4>2. (\A k \in 1 .. n : f[k] \in S) /\ \A k \in 1 .. n + 1 : g[k] \in S
        BY <3>2, <4>1
      <4> HIDE DEF S
      <4> QED
        BY <3>1, <4>2
    <3> HIDE DEF S
    <3>5. f \in Seq(S) /\ g \in Seq(S) /\ Len(f) = n /\ Len(g) = n + 1
      BY <3>1, <3>4
    <3>6. g = Append(f, g[Len(g)])
      BY <3>2, <3>5, ExtendedIs
    <3> QED
      BY <3>3, <3>5, <3>6 DEF f, g
  <2> QED
    BY <2>1, <2>2, <2>3, <2>4
<1> QED
  BY <1>4, <1>5, <1>13, <1>14 DEF Service!Ask

\* A worker takes a request: nothing its client could see, unless it is refused.
LEMMA BeginImplements ==
  ASSUME RInv, NEW w \in Workers, Begin(w)
  PROVE  [Service!Next]_Service!vars
<1>1. ShapeInv /\ NumbersInv /\ WorkInv
  BY DEF RInv, IInv
<1>2. PICK n : n = taken + 1
  OBVIOUS
<1>3. PICK c, i : c = asked[n].s /\ i = asked[n].id + 1
  OBVIOUS
<1>4. /\ job[w] = H!NoJob /\ n \in DOMAIN script
      /\ \/ /\ H!ArgumentsOk(script[n]) /\ replies' = replies
            /\ job' = [job EXCEPT ![w] = [H!NoJob EXCEPT !.n = n]]
         \/ /\ ~H!ArgumentsOk(script[n])
            /\ H!Reply(n, H!UsageError) /\ job' = job
      /\ UNCHANGED <<store, expiring, conn, got, script, asked, last_command_id>>
  <2>1. UNCHANGED <<conn, got, script, asked, last_command_id>>
    BY WorkerFrame DEF WorkerStep
  <2> QED
    BY <1>2, <2>1 DEF Begin, H!Take
<1>5. n \in 1 .. Len(asked) /\ n \notin 1 .. taken /\ taken \in Nat /\ n \notin DOMAIN replies
  BY <1>1, <1>2, <1>4, AskedIs DEF WorkInv
<1>6. H!NoJob.n = 0 /\ \A v \in Workers : job[v].n # n
  <2>1. H!NoJob.n = 0
    BY DEF H!NoJob
  <2>2. \A v \in Workers : job[v] # H!NoJob => job[v].n \in 1 .. taken
    BY <1>1 DEF WorkInv
  <2> QED
    BY <1>5, <2>1, <2>2
<1>7. ProgressIn(job, replies, n) = Service!UnderWay(0, << >>)
  BY <1>5, <1>6, ProgressIs
<1>8. CASE /\ H!ArgumentsOk(script[n]) /\ replies' = replies
           /\ job' = [job EXCEPT ![w] = [H!NoJob EXCEPT !.n = n]]
  <2>1. [H!NoJob EXCEPT !.n = n] = [n |-> n, made |-> 0, read |-> << >>]
    BY DEF H!NoJob
  <2>2. /\ job'[w] = [n |-> n, made |-> 0, read |-> << >>]
        /\ \A v \in Workers : v # w => job'[v] = job[v]
    BY <1>1, <1>8, <2>1 DEF ShapeInv
  <2>3. job'[w].n = n /\ job'[w].made = 0 /\ job'[w].read = << >>
    BY <2>2
  <2>4. \A v \in Workers : job'[v].n = n => v = w
    BY <1>6, <2>2
  <2>5. ProgressIn(job', replies', n)
          = Service!UnderWay(job'[w].made, job'[w].read)
    <3>1. n \notin DOMAIN replies' /\ job'[w].n = n
      BY <1>5, <1>8, <2>3
    <3> QED
      BY <2>4, <3>1, ProgressOfJob
  <2>6. ProgressIn(job', replies', n) = Service!UnderWay(0, << >>)
    BY <2>3, <2>5 DEF Service!UnderWay
  <2>7. ASSUME NEW m \in 1 .. Len(asked), m # n
        PROVE  ProgressIn(job', replies', m) = ProgressIn(job, replies, m)
    <3>1. m # 0
      BY <1>5
    <3>2. \A v \in Workers :
            (job[v].n = m <=> job'[v].n = m) /\ (job[v].n = m => job[v] = job'[v])
      BY <1>4, <1>6, <2>2, <2>3, <2>7, <3>1
    <3>3. /\ m \in DOMAIN replies <=> m \in DOMAIN replies'
          /\ m \in DOMAIN replies => replies[m] = replies'[m]
      BY <1>8
    <3> QED
      BY <3>2, <3>3, ProgressSame
  <2>8. \A m \in 1 .. Len(asked) : ProgressIn(job', replies', m) = ProgressIn(job, replies, m)
    BY <1>7, <2>6, <2>7
  <2>9. UNCHANGED <<askedBy, progressOf>>
    BY <1>4, <2>8, Stutters
  <2> QED
    BY <1>4, <2>9 DEF Service!vars
<1>9. CASE /\ ~H!ArgumentsOk(script[n])
           /\ H!Reply(n, H!UsageError) /\ job' = job
  <2>1. /\ DOMAIN replies' = DOMAIN replies \cup {n} /\ replies'[n] = H!UsageError
        /\ \A m \in DOMAIN replies : m # n => replies'[m] = replies[m]
    BY <1>9 DEF H!Reply
  <2>2. ProgressIn(job', replies', n) = Service!Answered(Service!UsageError)
    BY <2>1, ProgressIs, CommandsAgree
  <2>3. ASSUME NEW m \in 1 .. Len(asked), m # n
        PROVE  ProgressIn(job', replies', m) = ProgressIn(job, replies, m)
    <3>1. /\ m \in DOMAIN replies <=> m \in DOMAIN replies'
          /\ m \in DOMAIN replies => replies[m] = replies'[m]
      BY <2>1, <2>3
    <3> QED
      BY <1>9, <3>1, ProgressSame
  <2>4. RequestMoves(c, i, n)
    <3>1. script' = script /\ asked' = asked /\ last_command_id' = last_command_id
      BY <1>4
    <3> QED
      BY <1>3, <1>5, <2>3, <3>1, Advances
  <2>5. ~progressOf[c][i].done
    BY <1>7, <2>4 DEF Service!UnderWay, RequestMoves
  <2>6. Service!Advance(c, i, Service!Answered(Service!UsageError))
    BY <1>4, <2>2, <2>4, <2>5 DEF Service!Advance, RequestMoves
  <2>7. ~Service!ArgumentsOk(askedBy[c][i])
    BY <1>9, <2>4, CommandsAgree DEF RequestMoves
  <2>8. Service!Refuse(c, i)
    BY <1>4, <2>6, <2>7 DEF Service!Refuse, Service!NoEffect
  <2> QED
    BY <2>4, <2>8 DEF Service!Next, RequestMoves
<1> QED
  BY <1>4, <1>8, <1>9

\* Worker w goes on with request n, or is done with it; q is what has become of it.
GoesOn(w, n, q) ==
  \/ \E made, read :
       /\ replies' = replies
       /\ job' = [job EXCEPT ![w] = [n |-> n, made |-> made, read |-> read]]
       /\ q = Service!UnderWay(made, read)
  \/ \E x :
       /\ H!Reply(n, x) /\ job' = [job EXCEPT ![w] = H!NoJob]
       /\ q = Service!Answered(x)

\* It is a step of its request, and of no other.
LEMMA JobAdvances ==
  ASSUME RInv, NEW w \in Workers, job[w] # H!NoJob, NEW q, GoesOn(w, job[w].n, q),
         UNCHANGED <<script, asked, last_command_id>>, UNCHANGED <<conn, got>>
  PROVE  \E c \in Conns : \E i \in DOMAIN askedBy[c] :
           /\ askedBy[c][i] = script[job[w].n]
           /\ progressOf[c][i] = Service!UnderWay(job[w].made, job[w].read)
           /\ Service!ArgumentsOk(askedBy[c][i])
           /\ Service!Advance(c, i, q)
<1>1. ShapeInv /\ NumbersInv /\ WorkInv /\ JobsInv
  BY DEF RInv, IInv
<1>2. PICK n : n = job[w].n
  OBVIOUS
<1>3. /\ n \in 1 .. taken /\ n \notin DOMAIN replies /\ n \in 1 .. Len(asked) /\ n # 0
      /\ \A v \in Workers : job[v].n = n => v = w
  <2>1. n \in 1 .. taken /\ n \notin DOMAIN replies /\ \A v \in Workers : job[v].n = n => v = w
    BY <1>1, <1>2 DEF WorkInv
  <2>2. 1 .. taken \subseteq 1 .. Len(asked) /\ taken \in Nat
    BY <1>1, AskedIs
  <2> QED
    BY <2>1, <2>2
<1>4. ProgressIn(job, replies, n) = Service!UnderWay(job[w].made, job[w].read)
  <2>1. n \notin DOMAIN replies /\ job[w].n = n /\ \A v \in Workers : job[v].n = n => v = w
    BY <1>3, <1>2
  <2> QED
    BY <2>1, ProgressOfJob
<1>5. H!NoJob.n = 0
  BY DEF H!NoJob
<1>6. /\ \A v \in Workers : v # w => job'[v] = job[v]
      /\ job'[w].n \in {0, n}
      /\ \A m : m # n => (m \in DOMAIN replies <=> m \in DOMAIN replies')
                         /\ (m \in DOMAIN replies => replies[m] = replies'[m])
      /\ ProgressIn(job', replies', n) = q
  <2>1. ASSUME NEW made, NEW read, replies' = replies,
               job' = [job EXCEPT ![w] = [n |-> n, made |-> made, read |-> read]],
               q = Service!UnderWay(made, read)
        PROVE  /\ \A v \in Workers : v # w => job'[v] = job[v]
               /\ job'[w].n = n
               /\ ProgressIn(job', replies', n) = q
    <3>1. /\ job'[w] = [n |-> n, made |-> made, read |-> read]
          /\ \A v \in Workers : v # w => job'[v] = job[v]
      BY <1>1, <2>1 DEF ShapeInv
    <3>2. job'[w].n = n /\ job'[w].made = made /\ job'[w].read = read
      BY <3>1
    <3>3. \A v \in Workers : job'[v].n = n => v = w
      BY <1>3, <3>1
    <3>4. ProgressIn(job', replies', n) =
            Service!UnderWay(job'[w].made, job'[w].read)
      <4>1. n \notin DOMAIN replies' /\ job'[w].n = n
        BY <1>3, <2>1, <3>2
      <4> QED
        BY <3>3, <4>1, ProgressOfJob
    <3> QED
      BY <2>1, <3>1, <3>2, <3>4
  <2>2. ASSUME NEW x, H!Reply(n, x), job' = [job EXCEPT ![w] = H!NoJob], q = Service!Answered(x)
        PROVE  /\ \A v \in Workers : v # w => job'[v] = job[v]
               /\ job'[w].n = 0
               /\ \A m : m # n => (m \in DOMAIN replies <=> m \in DOMAIN replies')
                                  /\ (m \in DOMAIN replies => replies[m] = replies'[m])
               /\ ProgressIn(job', replies', n) = q
    <3>1. /\ DOMAIN replies' = DOMAIN replies \cup {n} /\ replies'[n] = x
          /\ \A m \in DOMAIN replies : m # n => replies'[m] = replies[m]
      BY <2>2 DEF H!Reply
    <3>2. job'[w] = H!NoJob /\ \A v \in Workers : v # w => job'[v] = job[v]
      BY <1>1, <2>2 DEF ShapeInv
    <3>3. ProgressIn(job', replies', n) = q
      BY <2>2, <3>1, ProgressIs
    <3> QED
      BY <1>5, <3>1, <3>2, <3>3
  <2>3. CASE \E x : /\ H!Reply(n, x) /\ job' = [job EXCEPT ![w] = H!NoJob]
                    /\ q = Service!Answered(x)
    BY <2>2, <2>3
  <2>4. CASE \E made, read :
               /\ replies' = replies
               /\ job' = [job EXCEPT ![w] = [n |-> n, made |-> made, read |-> read]]
               /\ q = Service!UnderWay(made, read)
    BY <2>1, <2>4
  <2> QED
    BY <1>2, <2>3, <2>4 DEF GoesOn
<1>7. ASSUME NEW m \in 1 .. Len(asked), m # n
      PROVE  ProgressIn(job', replies', m) = ProgressIn(job, replies, m)
  <2>1. m # 0
    OBVIOUS
  <2>2. \A v \in Workers :
          (job[v].n = m <=> job'[v].n = m) /\ (job[v].n = m => job[v] = job'[v])
    BY <1>2, <1>6, <1>7, <2>1
  <2>3. /\ m \in DOMAIN replies <=> m \in DOMAIN replies'
        /\ m \in DOMAIN replies => replies[m] = replies'[m]
    BY <1>6, <1>7
  <2> QED
    BY <2>2, <2>3, ProgressSame
<1>8. PICK c, i : c = asked[n].s /\ i = asked[n].id + 1
  OBVIOUS
<1>9. RequestMoves(c, i, n)
  <2>1. script' = script /\ asked' = asked /\ last_command_id' = last_command_id
    OBVIOUS
  <2>2. n \in 1 .. Len(asked)
    BY <1>3
  <2>3. \A m \in 1 .. Len(asked) : m # n =>
          ProgressIn(job', replies', m) = ProgressIn(job, replies, m)
    BY <1>7
  <2> QED
    BY <1>8, <2>1, <2>2, <2>3, Advances
<1>10. progressOf[c][i] = Service!UnderWay(job[w].made, job[w].read) /\ ~progressOf[c][i].done
  <2>1. progressOf[c][i] = Service!UnderWay(job[w].made, job[w].read)
    BY <1>4, <1>9 DEF RequestMoves
  <2> QED
    BY <2>1 DEF Service!UnderWay
<1>11. Service!Advance(c, i, q)
  BY <1>6, <1>9, <1>10 DEF Service!Advance, RequestMoves
<1>12. Service!ArgumentsOk(askedBy[c][i])
  BY <1>1, <1>2, <1>9, CommandsAgree DEF JobsInv, RequestMoves
<1> QED
  BY <1>2, <1>9, <1>10, <1>11, <1>12 DEF RequestMoves

\* A call takes effect in the cluster as it does in the service.
LEMMA ApplyIs ==
  ASSUME NEW w \in Workers, NEW call, H!Apply(w, call)
  PROVE  Service!Apply(call)
<1>1. CASE call.op \in H!Writes
  <2>1. /\ store' = [store EXCEPT ![call.key] = H!Effect(@, call)]
        /\ expiring' = IF call.op = "EXPIRE" THEN expiring \cup {call.key} ELSE expiring
    BY <1>1, Zenon DEF H!Apply
  <2>2. H!Effect(store[call.key], call) = Service!Effect(store[call.key], call)
    BY CommandsAgree
  <2>3. call.op \in Service!Writes
    BY <1>1, CommandsAgree
  <2> QED
    BY <2>1, <2>2, <2>3 DEF Service!Apply
<1>2. CASE call.op \notin H!Writes
  <2>1. store' = store /\ expiring' = expiring
    BY <1>2, Zenon DEF H!Apply
  <2>2. call.op # "EXPIRE"
    BY <1>2 DEF H!Writes
  <2>3. call.op \notin Service!Writes
    BY <1>2, CommandsAgree
  <2> QED
    BY <2>1, <2>2, <2>3 DEF Service!Apply
<1> QED
  BY <1>1, <1>2

\* A call that returns is a call of the service.
LEMMA ReturnsImplements ==
  ASSUME RInv, NEW w \in Workers, H!CallReturns(w),
         UNCHANGED <<script, asked, last_command_id>>, UNCHANGED <<conn, got>>
  PROVE  Service!Next
<1>1. ShapeInv
  BY DEF RInv, IInv
<1>2. PICK n, r, call, read :
        /\ n = job[w].n /\ r = script[n]
        /\ call = H!Calls(r)[job[w].made + 1] /\ read = Append(job[w].read, store[call.key])
  OBVIOUS
<1>3. Returns(w, n, r, call, read)
  BY <1>1, <1>2, ReturnsIs
<1>4. /\ job[w] # H!NoJob /\ H!Apply(w, call)
      /\ \/ /\ job[w].made + 1 < Len(H!Calls(r)) /\ replies' = replies
            /\ job' = [job EXCEPT ![w] = [n |-> n, made |-> job[w].made + 1, read |-> read]]
         \/ /\ ~(job[w].made + 1 < Len(H!Calls(r))) /\ H!Reply(n, H!ReplyTo(r, read))
            /\ job' = [job EXCEPT ![w] = H!NoJob]
  BY <1>3, Zenon DEF Returns
<1>5. PICK q : q = IF job[w].made + 1 < Len(H!Calls(r))
                   THEN Service!UnderWay(job[w].made + 1, read)
                   ELSE Service!Answered(H!ReplyTo(r, read))
  OBVIOUS
<1>6. GoesOn(w, n, q)
  <2>1. CASE job[w].made + 1 < Len(H!Calls(r))
    <3>1. q = Service!UnderWay(job[w].made + 1, read)
      BY <1>5, <2>1
    <3>2. /\ replies' = replies
          /\ job' = [job EXCEPT ![w] = [n |-> n, made |-> job[w].made + 1, read |-> read]]
      BY <1>4, <2>1
    <3> QED
      BY <3>1, <3>2, Zenon DEF GoesOn
  <2>2. CASE ~(job[w].made + 1 < Len(H!Calls(r)))
    <3>1. q = Service!Answered(H!ReplyTo(r, read))
      BY <1>5, <2>2
    <3>2. H!Reply(n, H!ReplyTo(r, read)) /\ job' = [job EXCEPT ![w] = H!NoJob]
      BY <1>4, <2>2
    <3> QED
      BY <3>1, <3>2, Zenon DEF GoesOn
  <2> QED
    BY <2>1, <2>2
<1>7. PICK c, i :
        /\ c \in Conns /\ i \in DOMAIN askedBy[c]
        /\ askedBy[c][i] = script[n]
        /\ progressOf[c][i] = Service!UnderWay(job[w].made, job[w].read)
        /\ Service!ArgumentsOk(askedBy[c][i])
        /\ Service!Advance(c, i, q)
  BY <1>2, <1>4, <1>6, JobAdvances
<1>8. progressOf[c][i].made = job[w].made /\ progressOf[c][i].read = job[w].read
  BY <1>7 DEF Service!UnderWay
<1>9. askedBy[c][i] = r /\ Service!Calls(r) = H!Calls(r) /\ Service!ReplyTo(r, read) = H!ReplyTo(r, read)
  BY <1>2, <1>7, CommandsAgree
<1>10. Service!NextCall(c, i) = call
  BY <1>2, <1>8, <1>9 DEF Service!NextCall
<1>11. Service!Advance(c, i, IF progressOf[c][i].made + 1 < Len(Service!Calls(askedBy[c][i]))
                   THEN Service!UnderWay(progressOf[c][i].made + 1, read)
                   ELSE Service!Answered(Service!ReplyTo(askedBy[c][i], read)))
  BY <1>5, <1>7, <1>8, <1>9
<1>12. Service!Apply(Service!NextCall(c, i))
  BY <1>4, <1>10, ApplyIs
<1>13. Append(progressOf[c][i].read, store[Service!NextCall(c, i).key]) = read
  BY <1>2, <1>8, <1>10
<1>14. Service!Call(c, i)
  BY <1>7, <1>11, <1>12, <1>13, Zenon DEF Service!Call
<1> QED
  BY <1>7, <1>14 DEF Service!Next

\* A request that is answered with an error, whether or not its call took effect,
\* fails.
LEMMA FailureImplements ==
  ASSUME RInv, NEW w \in Workers, job[w] # H!NoJob, NEW error \in Service!Errors,
         H!Answer(w, error),
         \/ UNCHANGED <<store, expiring>>
         \/ H!Apply(w, H!Calls(script[job[w].n])[job[w].made + 1]),
         UNCHANGED <<script, asked, last_command_id>>, UNCHANGED <<conn, got>>
  PROVE  Service!Next
<1>1. GoesOn(w, job[w].n, Service!Answered(error))
  BY Zenon DEF GoesOn, H!Answer
<1>2. PICK c, i :
        /\ c \in Conns /\ i \in DOMAIN askedBy[c]
        /\ askedBy[c][i] = script[job[w].n]
        /\ progressOf[c][i] = Service!UnderWay(job[w].made, job[w].read)
        /\ Service!ArgumentsOk(askedBy[c][i])
        /\ Service!Advance(c, i, Service!Answered(error))
  BY <1>1, JobAdvances
<1>3. progressOf[c][i].made = job[w].made
  BY <1>2 DEF Service!UnderWay
<1>4. Service!NextCall(c, i) = H!Calls(script[job[w].n])[job[w].made + 1]
  <2>1. Service!Calls(script[job[w].n]) = H!Calls(script[job[w].n])
    BY CommandsAgree
  <2> QED
    BY <1>2, <1>3, <2>1 DEF Service!NextCall
<1>5. Service!NoEffect \/ Service!Apply(Service!NextCall(c, i))
  BY <1>4, ApplyIs DEF Service!NoEffect
<1>6. Service!Fail(c, i)
  BY <1>2, <1>5, Zenon DEF Service!Fail
<1> QED
  BY <1>2, <1>6 DEF Service!Next

\* A worker that goes on with its request is a step of the service.
LEMMA WorkImplements ==
  ASSUME RInv, NEW w \in Workers, Work(w)
  PROVE  Service!Next
<1>1. UNCHANGED <<script, asked, last_command_id>> /\ UNCHANGED <<conn, got>>
  BY WorkerFrame DEF WorkerStep
<1>2. CASE H!CallReturns(w)
  BY <1>1, <1>2, ReturnsImplements
<1>3. CASE H!CallThrows(w)
  <2>1. /\ job[w] # H!NoJob /\ H!Answer(w, H!InternalError)
        /\ \/ UNCHANGED <<store, expiring>>
           \/ H!Apply(w, H!Calls(script[job[w].n])[job[w].made + 1])
    BY <1>3, Zenon DEF H!CallThrows
  <2>2. H!InternalError \in Service!Errors
    BY CommandsAgree DEF Service!Errors
  <2> QED
    BY <1>1, <2>1, <2>2, FailureImplements
<1>4. CASE H!CallFails(w)
  <2>1. job[w] # H!NoJob /\ H!Command(script[job[w].n]) \in {"LTRIM", "EXPIRE"}
    BY <1>4, Zenon DEF H!CallFails
  <2>2. PICK status \in {"invalid", "other_status"} :
          /\ H!Answer(w, H!StatusError(status))
          /\ UNCHANGED <<store, expiring>> \/ H!Apply(w, H!Calls(script[job[w].n])[1])
    BY <1>4, Zenon DEF H!CallFails
  <2>3. job[w].made + 1 = 1
    BY <2>1 DEF RInv, JobsInv
  <2>4. H!StatusError(status) \in Service!Errors
    BY CommandsAgree DEF Service!Errors
  <2> QED
    BY <1>1, <2>1, <2>2, <2>3, <2>4, FailureImplements
<1> QED
  BY <1>2, <1>3, <1>4 DEF Work

\* What the service knows of an answered request, in terms of its task.
LEMMA AnsweredView ==
  ASSUME RInv, NEW c \in Conns, NEW id, IsAnswered([s |-> c, id |-> id])
  PROVE  /\ id \in Nat /\ id + 1 \in 1 .. last_command_id[c]
         /\ id + 1 \in DOMAIN askedBy[c]
         /\ progressOf[c][id + 1] = Service!Answered(Response([s |-> c, id |-> id]))
<1>1. PICK task : task = [s |-> c, id |-> id]
  OBVIOUS
<1>2. IInv /\ ShapeInv /\ NumbersInv /\ IsAnswered(task) /\ task.s = c /\ task.id = id
  BY <1>1 DEF RInv, IInv
<1>3. /\ task \in Task /\ task.id \in Nat /\ task.id < last_command_id[task.s]
      /\ \A n \in DOMAIN asked : asked[n] = task => n \in DOMAIN replies
  BY <1>2, AnsweredIs
<1>4. last_command_id[c] \in Nat
  BY <1>2 DEF ShapeInv
<1>5. id \in Nat /\ id + 1 \in 1 .. last_command_id[c] /\ (id + 1) - 1 = id
  BY <1>2, <1>3, <1>4
<1>6. PICK n \in DOMAIN asked : n = NumberIn(asked, task) /\ asked[n] = task
  <2>1. PICK n \in DOMAIN asked : asked[n] = task
    BY <1>1, <1>5 DEF RInv, IdsInv
  <2>2. \A m \in DOMAIN asked : asked[m] = asked[n] => m = n
    BY <1>2 DEF NumbersInv
  <2> QED
    BY <2>1, <2>2, NumberIs
<1>7. n \in DOMAIN replies
  BY <1>3, <1>6
<1>8. ProgressIn(job, replies, n) = Service!Answered(replies[n])
  BY <1>7, ProgressIs
<1>9. progressOf[c][id + 1] = ProgressIn(job, replies, n)
  BY <1>1, <1>5, <1>6, ViewsAre DEF ProgressesIn
<1>10. Response(task) = replies[n]
  BY <1>6, ViewsAre
<1>11. id + 1 \in DOMAIN askedBy[c]
  BY <1>5, ViewsAre DEF AskedIn
<1> QED
  BY <1>1, <1>5, <1>8, <1>9, <1>10, <1>11

\* A reply that is written is told, or the client is gone.
LEMMA TellImplements ==
  ASSUME WriteResults \subseteq {"all"}, RInv, NEW t \in Senders, InsertNext(t) \/ DrainOne(t)
  PROVE  [Service!Next]_Service!vars
<1>1. PICK s : s = senderTask[t].s
  OBVIOUS
<1>2. UNCHANGED <<conn, script, asked, last_command_id, job, replies, store, expiring>>
  BY SenderFrame DEF SenderStep
<1>3. UNCHANGED <<askedBy, progressOf>>
  BY <1>2, SameView
<1>4. PICK id, x : id = to_send[s] /\ x = Response([s |-> s, id |-> id])
  OBVIOUS
<1>5. /\ s \in Conns /\ IsAnswered([s |-> s, id |-> id])
      /\ conn[s] = "open" => got' = [got EXCEPT ![s] = Append(@, x)]
      /\ conn[s] # "open" => got' = got
  BY <1>1, <1>4, SendsIs
<1>6. CASE conn[s] # "open"
  BY <1>2, <1>3, <1>5, <1>6 DEF Service!vars
<1>7. CASE conn[s] = "open"
  <2>1. id \in Nat /\ id + 1 \in DOMAIN askedBy[s] /\ progressOf[s][id + 1] = Service!Answered(x)
    BY <1>4, <1>5, AnsweredView
  <2>2. progressOf[s][id + 1].done /\ progressOf[s][id + 1].reply = x
    BY <2>1 DEF Service!Answered
  <2>3. Len(got[s]) + 1 = id + 1
    BY <1>4, <1>5, <1>7 DEF RInv, ToldInv
  <2>4. Service!Tell(s)
    BY <1>2, <1>3, <1>5, <1>7, <2>1, <2>2, <2>3 DEF Service!Tell
  <2> QED
    BY <1>5, <2>4 DEF Service!Next
<1> QED
  BY <1>6, <1>7

\* Every step of the proxy is one of the service, or none.
LEMMA StepImplements ==
  ASSUME WriteResults \subseteq {"all"}, RInv, [Next]_vars
  PROVE  [Service!Next]_Service!vars
<1>1. ASSUME NEW c \in Conns, NEW r \in Requests, Dispatch(c, r)
      PROVE  [Service!Next]_Service!vars
  <2>1. Service!Ask(c, r)
    BY <1>1, DispatchImplements
  <2> QED
    BY <2>1 DEF Service!Next
<1>2. CASE LoopStep
  BY <1>2, LoopImplements
<1>3. ASSUME NEW w \in Workers, WorkerStep(w)
      PROVE  [Service!Next]_Service!vars
  <2>1. CASE Begin(w)
    BY <2>1, BeginImplements
  <2>2. CASE Work(w)
    BY <2>2, WorkImplements
  <2>3. CASE SendReply(w)
    <3>1. UNCHANGED <<conn, got, script, asked, last_command_id, job, replies, store, expiring>>
      BY <2>3, WorkerFrame DEF WorkerStep, SendReply, handlerVars
    <3>2. UNCHANGED <<askedBy, progressOf>>
      BY <3>1, SameView
    <3> QED
      BY <3>1, <3>2 DEF Service!vars
  <2> QED
    BY <1>3, <2>1, <2>2, <2>3 DEF WorkerStep
<1>4. ASSUME NEW t \in Senders, SenderStep(t)
      PROVE  [Service!Next]_Service!vars
  <2>1. CASE InsertNext(t) \/ DrainOne(t)
    BY <2>1, TellImplements
  <2>2. CASE ~InsertNext(t) /\ ~DrainOne(t)
    <3>1. UNCHANGED <<conn, got, script, asked, last_command_id, job, replies, store, expiring>>
      BY <1>4, <2>2, SilentFrame
    <3>2. UNCHANGED <<askedBy, progressOf>>
      BY <3>1, SameView
    <3> QED
      BY <3>1, <3>2 DEF Service!vars
  <2> QED
    BY <2>1, <2>2
<1>5. ASSUME NEW k \in Keys, Expire(k)
      PROVE  [Service!Next]_Service!vars
  <2>1. UNCHANGED <<conn, got, script, asked, last_command_id, job, replies>>
    BY <1>5, ExpireFrame
  <2>2. UNCHANGED <<askedBy, progressOf>>
    BY <2>1, SameView
  <2>3. Service!Expire(k)
    BY <1>5, <2>1, <2>2, CommandsAgree DEF Expire, H!Expire, Service!Expire
  <2> QED
    BY <2>3 DEF Service!Next
<1>6. CASE UNCHANGED vars
  <2>1. UNCHANGED <<conn, got, script, asked, last_command_id, job, replies, store, expiring>>
    BY <1>6, IdleFrame
  <2>2. UNCHANGED <<askedBy, progressOf>>
    BY <2>1, SameView
  <2> QED
    BY <2>1, <2>2 DEF Service!vars
<1> QED
  BY <1>1, <1>2, <1>3, <1>4, <1>5, <1>6 DEF Next

\* At first no client has asked anything.
LEMMA InitImplements ==
  ASSUME Init
  PROVE  Service!Init
<1>1. /\ conn = [c \in Conns |-> "new"] /\ last_command_id = [c \in Conns |-> 0]
      /\ store = [k \in Keys |-> H!Absent] /\ expiring = {} /\ got = [c \in Conns |-> << >>]
  BY DEF Init, P!Init, H!Init
<1>2. \A f : [k \in 1 .. 0 |-> f[k]] = << >>
  OBVIOUS
<1>3. askedBy = [c \in Conns |-> << >>]
  <2>1. \A c \in Conns : 1 .. last_command_id[c] = {}
    BY <1>1
  <2> QED
    BY <2>1, ViewsAre DEF AskedIn
<1>4. progressOf = [c \in Conns |-> << >>]
  <2>1. \A c \in Conns : 1 .. last_command_id[c] = {}
    BY <1>1
  <2> QED
    BY <2>1, ViewsAre DEF ProgressesIn
<1> QED
  BY <1>1, <1>3, <1>4, CommandsAgree DEF Service!Init

\* The whole proxy, whatever its numbers of connections, threads and trees, its
\* requests and the failures of the cluster, implements the service as long as
\* sockets take every reply whole: each request of a client is worked on once, and
\* the k-th reply a client is told is the reply to its k-th request.
THEOREM ServiceImplemented ==
  ASSUME WriteResults \subseteq {"all"}
  PROVE  Spec => ImplementsService
<1>1. Init => Service!Init
  BY InitImplements
<1>2. Init => RInv
  BY RInit
<1>3. RInv /\ [Next]_vars => RInv'
  BY RStep
<1>4. RInv /\ [Next]_vars => [Service!Next]_(Service!vars)
  BY StepImplements
<1> QED
  BY <1>1, <1>2, <1>3, <1>4, PTL DEF Spec, ImplementsService, Service!Spec
=============================================================================
