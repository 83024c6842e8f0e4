------------------------ MODULE ReplyPipelineProofs ------------------------
(* Theorems about ReplyPipeline for every number of connections, threads,  *)
(* descriptors and commands.                                               *)
EXTENDS ReplyPipelineInv, SequenceTheorems, TLAPS

(***************************************************************************)
(* Type correctness.                                                       *)
(***************************************************************************)

\* A thread's task is told apart from no task at all.
LEMMA IdleNotTask == Idle \notin Task
BY ConstantsAssumption DEF Idle, Task

\* What a write() leaves behind is well typed.
LEMMA WriteType ==
  ASSUME TypeOK, NEW s \in Conns, NEW id \in Nat,
         NEW result \in WriteResults \cup {"error"}, Write(s, id, result)
  PROVE  /\ recv' \in [Conns -> Seq([id : Nat, whole : BOOLEAN])]
         /\ foreign' \in [Conns -> SUBSET Task]
<1>1. CASE s \in Holder(s) /\ recv' = [recv EXCEPT ![s] =
             Append(@, [id |-> id, whole |-> result = "all"])] /\ UNCHANGED foreign
  BY <1>1 DEF TypeOK
<1>2. ASSUME NEW c \in Holder(s) \ {s}, UNCHANGED recv,
             foreign' = [foreign EXCEPT ![c] = @ \cup {[s |-> s, id |-> id]}]
      PROVE  /\ recv' \in [Conns -> Seq([id : Nat, whole : BOOLEAN])]
             /\ foreign' \in [Conns -> SUBSET Task]
  BY <1>2 DEF TypeOK, Holder, Task
<1>3. CASE UNCHANGED <<recv, foreign>>
  BY <1>3 DEF TypeOK
<1> QED
  BY <1>1, <1>2, <1>3 DEF Write

\* The initial state is well typed.
LEMMA InitType == Init => TypeOK
BY ConstantsAssumption
DEF Init, TypeOK, NoUpdate, Idle, Task

\* The task of a sender that is not idle.
LEMMA SenderHasTask ==
  ASSUME TypeOK, NEW t \in Senders, senderPc[t] # "idle"
  PROVE  /\ senderTask[t] \in Task
         /\ senderTask[t].s \in Conns
         /\ senderTask[t].id \in Nat
BY DEF TypeOK, Task

\* The event loop's handlers (accept_tcp_handler, read_from_client) keep the
\* shape of the state.
LEMMA LoopType ==
  ASSUME TypeOK,
         \/ \E c \in Conns : Accept(c) \/ Dispatch(c) \/ Disconnect(c)
         \/ AcceptFails \/ FinishAccept \/ FinishErase
  PROVE  TypeOK'
<1> USE DEF TypeOK, loopVars, ctxVars, poolVars, histVars
<1>1. ASSUME NEW c \in Conns, Accept(c) PROVE TypeOK'
  BY <1>1 DEF Accept, LowestFree, FreeFds
<1>2. ASSUME NEW c \in Conns, Dispatch(c) PROVE TypeOK'
  <2>1. [s |-> c, id |-> last_command_id[c]] \in Task
    BY DEF Task
  <2> QED
    BY <1>2, <2>1 DEF Dispatch
<1>3. ASSUME NEW c \in Conns, Disconnect(c) PROVE TypeOK'
  BY <1>3 DEF Disconnect
<1>4. CASE AcceptFails
  BY <1>4 DEF AcceptFails
<1>5. CASE FinishAccept
  BY <1>5 DEF FinishAccept, NoUpdate
<1>6. CASE FinishErase
  BY <1>6 DEF FinishErase, NoUpdate
<1> QED
  BY <1>1, <1>2, <1>3, <1>4, <1>5, <1>6

\* The threads of both pools keep the shape of the state.
LEMMA PoolType ==
  ASSUME TypeOK,
         \/ \E w \in Workers : WorkerStep(w)
         \/ \E t \in Senders : SenderStep(t)
  PROVE  TypeOK'
<1> USE DEF TypeOK, loopVars, ctxVars, poolVars, histVars
<1>1. ASSUME NEW w \in Workers, WorkerTake(w) PROVE TypeOK'
  BY <1>1, IdleNotTask DEF WorkerTake
<1>2. ASSUME NEW w \in Workers, WorkerReply(w) PROVE TypeOK'
  BY <1>2, IdleNotTask DEF WorkerReply
<1>3. ASSUME NEW t \in Senders, SenderTake(t) PROVE TypeOK'
  BY <1>3, IdleNotTask DEF SenderTake
<1>4. ASSUME NEW t \in Senders, LookupHit(t) PROVE TypeOK'
  BY <1>4 DEF LookupHit
<1>5. ASSUME NEW t \in Senders, LookupGone(t) PROVE TypeOK'
  BY <1>5 DEF LookupGone, Finish
<1>6. ASSUME NEW t \in Senders, LookupMiss(t) PROVE TypeOK'
  BY <1>6, SenderHasTask DEF LookupMiss, Finish
<1>7. ASSUME NEW t \in Senders, InsertNext(t) PROVE TypeOK'
  <2>1. /\ senderTask[t].s \in Conns
        /\ senderTask[t].id \in Nat
    BY <1>7, SenderHasTask DEF InsertNext
  <2>2. /\ recv' \in [Conns -> Seq([id : Nat, whole : BOOLEAN])]
        /\ foreign' \in [Conns -> SUBSET Task]
    BY <1>7, <2>1, WriteType DEF InsertNext
  <2>3. /\ is_eof_reach' \in [Conns -> BOOLEAN]
        /\ to_send' \in [Conns -> Nat]
        /\ senderPc' \in [Senders -> {"idle", "lookup", "ready", "drain"}]
        /\ \A u \in Senders : senderTask'[u] = Idle <=> senderPc'[u] = "idle"
    BY <1>7, <2>1 DEF InsertNext, ReplyOk
  <2>4. UNCHANGED <<loopVars, ctx_map, fd, buffered, procQueue, worker,
                    sendQueue, senderTask, missed>>
    BY <1>7 DEF InsertNext
  <2> QED
    BY <2>2, <2>3, <2>4
<1>8. ASSUME NEW t \in Senders, InsertEarly(t) PROVE TypeOK'
  BY <1>8, SenderHasTask DEF InsertEarly
<1>9. ASSUME NEW t \in Senders, DrainOne(t) PROVE TypeOK'
  <2>1. /\ senderTask[t].s \in Conns
        /\ to_send[senderTask[t].s] \in Nat
    BY <1>9, SenderHasTask DEF DrainOne
  <2>2. /\ recv' \in [Conns -> Seq([id : Nat, whole : BOOLEAN])]
        /\ foreign' \in [Conns -> SUBSET Task]
    BY <1>9, <2>1, WriteType DEF DrainOne
  <2>3. /\ is_eof_reach' \in [Conns -> BOOLEAN]
        /\ to_send' \in [Conns -> Nat]
        /\ buffered' \in [Conns -> SUBSET Nat]
    <3>1. CASE UNCHANGED <<buffered, to_send>> /\
               is_eof_reach' = [is_eof_reach EXCEPT ![senderTask[t].s] = TRUE]
      BY <3>1
    <3>2. CASE /\ buffered' = [buffered EXCEPT ![senderTask[t].s] =
                                  @ \ {to_send[senderTask[t].s]}]
               /\ to_send' = [to_send EXCEPT ![senderTask[t].s] = @ + 1]
               /\ UNCHANGED is_eof_reach
      BY <3>2, <2>1
    <3> QED
      BY <1>9, <3>1, <3>2 DEF DrainOne
  <2>4. /\ senderPc' \in [Senders -> {"idle", "lookup", "ready", "drain"}]
        /\ senderTask' \in [Senders -> Task \cup {Idle}]
        /\ \A u \in Senders : senderTask'[u] = Idle <=> senderPc'[u] = "idle"
    BY <1>9 DEF DrainOne, Finish
  <2>5. UNCHANGED <<loopVars, ctx_map, fd, procQueue, worker, sendQueue, missed>>
    BY <1>9 DEF DrainOne
  <2> QED
    BY <2>2, <2>3, <2>4, <2>5
<1>10. ASSUME NEW t \in Senders, DrainDone(t) PROVE TypeOK'
  BY <1>10 DEF DrainDone, Finish
<1> QED
  BY <1>1, <1>2, <1>3, <1>4, <1>5, <1>6, <1>7, <1>8, <1>9, <1>10
  DEF WorkerStep, SenderStep

\* TypeOK is inductive by itself.
LEMMA StepType == TypeOK /\ [Next]_vars => TypeOK'
<1> SUFFICES ASSUME TypeOK, [Next]_vars PROVE TypeOK'
  OBVIOUS
<1>1. CASE Next
  BY <1>1, LoopType, PoolType DEF Next
<1>2. CASE UNCHANGED vars
  BY <1>2 DEF TypeOK, vars, loopVars, ctxVars, poolVars, histVars
<1> QED
  BY <1>1, <1>2

\* Every reachable state has the shape TypeOK, whatever the numbers of
\* connections, threads and descriptors (all of main.cc and SessionManager.cc).
THEOREM TypeCorrect == Spec => []TypeOK
BY InitType, StepType, PTL DEF Spec

(***************************************************************************)
(* The order of replies.                                                   *)
(***************************************************************************)

\* The client of session s was sent the reply its session is waiting for, and
\* the session moved on to the next one.
Sends(s) ==
  /\ \E w \in BOOLEAN :
       recv' = [recv EXCEPT ![s] = Append(@, [id |-> to_send[s], whole |-> w])]
  /\ to_send' = [to_send EXCEPT ![s] = @ + 1]

\* A step that sends nothing to the session's own client: the session may give
\* up a reply (write() failed, or reached another client) but never goes back.
Passes ==
  /\ UNCHANGED recv
  /\ \A c \in Conns : to_send'[c] >= to_send[c]

\* Nothing but InsertNext and DrainOne writes.
LEMMA WriteSteps ==
  ASSUME TypeOK, [Next]_vars
  PROVE  Passes \/ \E s \in Conns : Sends(s)
<1>1. ASSUME NEW t \in Senders, InsertNext(t) \/ DrainOne(t)
      PROVE  Passes \/ \E s \in Conns : Sends(s)
  <2> DEFINE s == senderTask[t].s
  <2>1. /\ s \in Conns
        /\ to_send[s] \in Nat
        /\ to_send \in [Conns -> Nat]
    BY <1>1, SenderHasTask DEF InsertNext, DrainOne, TypeOK
  <2>2. CASE InsertNext(t)
    <3>1. PICK result \in WriteResults \cup {"error"} : Write(s, to_send[s], result)
      BY <2>2 DEF InsertNext, IsNext
    <3>2. to_send' = [to_send EXCEPT ![s] = @ + 1]
      BY <2>2 DEF InsertNext
    <3>3. CASE recv' = [recv EXCEPT ![s] =
                 Append(@, [id |-> to_send[s], whole |-> result = "all"])]
      <4>1. (result = "all") \in BOOLEAN
        OBVIOUS
      <4> QED
        BY <3>2, <3>3, <4>1, <2>1 DEF Sends
    <3>4. CASE UNCHANGED recv
      <4>1. \A c \in Conns : to_send'[c] >= to_send[c]
        BY <3>2, <2>1
      <4> QED
        BY <3>4, <4>1 DEF Passes
    <3> QED
      BY <3>1, <3>3, <3>4 DEF Write
  <2>3. CASE DrainOne(t)
    <3>1. PICK result \in WriteResults \cup {"error"} :
            /\ Write(s, to_send[s], result)
            /\ \/ to_send' = [to_send EXCEPT ![s] = @ + 1]
               \/ ~ReplyOk(result) /\ UNCHANGED to_send
      BY <2>3 DEF DrainOne
    <3>2. CASE UNCHANGED recv
      <4>1. CASE to_send' = [to_send EXCEPT ![s] = @ + 1]
        BY <4>1, <3>2, <2>1 DEF Passes
      <4>2. CASE UNCHANGED to_send
        BY <4>2, <3>2, <2>1 DEF Passes
      <4> QED
        BY <3>1, <4>1, <4>2
    <3>3. CASE /\ result \in {"all", "some"}
               /\ recv' = [recv EXCEPT ![s] =
                    Append(@, [id |-> to_send[s], whole |-> result = "all"])]
      <4>1. (result = "all") \in BOOLEAN
        OBVIOUS
      <4>2. to_send' = [to_send EXCEPT ![s] = @ + 1]
        BY <3>1, <3>3 DEF ReplyOk
      <4> QED
        BY <3>3, <4>1, <4>2, <2>1 DEF Sends
    <3> QED
      BY <3>1, <3>2, <3>3 DEF Write
  <2> QED
    BY <1>1, <2>2, <2>3
<1>2. CASE UNCHANGED <<recv, to_send>>
  BY <1>2 DEF Passes, TypeOK
<1>3. ASSUME ~UNCHANGED <<recv, to_send>>
      PROVE  \E t \in Senders : InsertNext(t) \/ DrainOne(t)
  BY <1>3 DEF Next, vars, loopVars, ctxVars, poolVars, histVars, WorkerStep,
    SenderStep, Accept, AcceptFails, FinishAccept, Dispatch, Disconnect,
    FinishErase, WorkerTake, WorkerReply, SenderTake, LookupHit, LookupGone,
    LookupMiss, InsertEarly, DrainDone
<1> QED
  BY <1>1, <1>2, <1>3

\* What TypeOK says of one session's stream, in the form the provers need.
LEMMA RecvType ==
  ASSUME TypeOK, NEW c \in Conns
  PROVE  /\ recv[c] \in Seq([id : Nat, whole : BOOLEAN])
         /\ DOMAIN recv[c] = 1 .. Len(recv[c]) /\ Len(recv[c]) \in Nat
         /\ \A i \in DOMAIN recv[c] : recv[c][i].id \in Nat
         /\ to_send[c] \in Nat
<1>1. /\ recv[c] \in Seq([id : Nat, whole : BOOLEAN])
      /\ to_send[c] \in Nat
  BY DEF TypeOK
<1>2. DOMAIN recv[c] = 1 .. Len(recv[c]) /\ Len(recv[c]) \in Nat
  BY <1>1
<1>3. ASSUME NEW i \in DOMAIN recv[c] PROVE recv[c][i].id \in Nat
  <2>1. recv[c][i] \in [id : Nat, whole : BOOLEAN]
    BY <1>1, <1>2, ElementOfSeq
  <2> QED
    BY <2>1
<1> QED
  BY <1>1, <1>2, <1>3

\* What keeps the streams in order, inductively.
StreamInv == TypeOK /\ SentBelow /\ RepliesInOrder

\* Every step keeps each stream in order and below to_send: the reply that is
\* added carries the number to_send, which is above all that were sent before.
LEMMA StreamStep == StreamInv /\ [Next]_vars => StreamInv'
<1> SUFFICES ASSUME StreamInv, [Next]_vars PROVE StreamInv'
  OBVIOUS
<1>1. TypeOK /\ TypeOK'
  BY StepType DEF StreamInv
<1>2. CASE Passes
  <2>1. ASSUME NEW c \in Conns, NEW i \in DOMAIN recv[c]
        PROVE  recv[c][i].id < to_send'[c]
    <3>1. recv[c][i].id < to_send[c]
      BY <1>1 DEF StreamInv, SentBelow
    <3>2. to_send'[c] >= to_send[c] /\ to_send'[c] \in Nat
      BY <1>1, <1>2 DEF Passes, TypeOK
    <3> QED
      BY <1>1, <3>1, <3>2, RecvType
  <2> QED
    BY <1>1, <1>2, <2>1 DEF StreamInv, SentBelow, RepliesInOrder, Passes
<1>3. ASSUME NEW s \in Conns, Sends(s) PROVE SentBelow' /\ RepliesInOrder'
  <2>1. PICK w \in BOOLEAN :
          recv' = [recv EXCEPT ![s] = Append(@, [id |-> to_send[s], whole |-> w])]
    BY <1>3 DEF Sends
  <2>2. /\ \A c \in Conns \ {s} : recv'[c] = recv[c] /\ to_send'[c] = to_send[c]
        /\ recv'[s] = Append(recv[s], [id |-> to_send[s], whole |-> w])
        /\ to_send'[s] = to_send[s] + 1
    BY <1>1, <1>3, <2>1 DEF Sends, TypeOK
  <2>3. \A i \in DOMAIN recv[s] :
          /\ recv[s][i].id < to_send[s]
          /\ recv[s][i].id \in Nat
    BY <1>1, RecvType DEF StreamInv, SentBelow
  <2>4. /\ recv[s] \in Seq([id : Nat, whole : BOOLEAN])
        /\ to_send[s] \in Nat
    BY <1>1, RecvType
  <2>5. \A i \in DOMAIN recv'[s] :
          \/ i \in DOMAIN recv[s] /\ recv'[s][i] = recv[s][i]
          \/ i = Len(recv[s]) + 1 /\ recv'[s][i].id = to_send[s]
    BY <2>2, <2>4
  <2>6. DOMAIN recv[s] = 1 .. Len(recv[s]) /\ Len(recv[s]) \in Nat
    BY <2>4
  <2>7. \A i \in DOMAIN recv'[s] : recv'[s][i].id < to_send'[s]
    BY <2>2, <2>3, <2>4, <2>5
  <2>8. \A i, j \in DOMAIN recv'[s] :
          i < j => recv'[s][i].id < recv'[s][j].id
    <3> SUFFICES ASSUME NEW i \in DOMAIN recv'[s], NEW j \in DOMAIN recv'[s], i < j
                 PROVE  recv'[s][i].id < recv'[s][j].id
      OBVIOUS
    <3>1. i \in DOMAIN recv[s] /\ recv'[s][i] = recv[s][i]
      <4>1. j <= Len(recv[s]) + 1 /\ i \in Nat /\ j \in Nat
        BY <2>5, <2>6
      <4> QED
        BY <2>5, <2>6, <4>1
    <3>2. CASE j \in DOMAIN recv[s] /\ recv'[s][j] = recv[s][j]
      BY <3>1, <3>2 DEF StreamInv, RepliesInOrder
    <3>3. CASE recv'[s][j].id = to_send[s]
      BY <3>1, <3>3, <2>3
    <3> QED
      BY <2>5, <3>2, <3>3
  <2> QED
    BY <1>1, <2>2, <2>7, <2>8 DEF StreamInv, SentBelow, RepliesInOrder
<1> QED
  BY <1>1, <1>2, <1>3, WriteSteps DEF StreamInv

\* On every connection the client's own replies come in the order of its
\* commands and none comes twice, however many threads work on them and
\* whatever becomes of the writes (insert_new_response, send_first_response).
THEOREM OrderHolds == Spec => []RepliesInOrder
<1>1. Init => StreamInv
  BY InitType DEF Init, StreamInv, SentBelow, RepliesInOrder
<1>2. StreamInv => RepliesInOrder
  BY DEF StreamInv
<1> QED
  BY <1>1, <1>2, StreamStep, PTL DEF Spec

(***************************************************************************)
(* Tasks move from stage to stage.                                         *)
(***************************************************************************)

\* The elements of a queue, after an element is added and after one is taken.
Elements(q) == {q[i] : i \in DOMAIN q}

\* enqueue adds one element, and no duplicate if the element is new.
LEMMA AppendElements ==
  ASSUME NEW S, NEW q \in Seq(S), NEW x \in S
  PROVE  /\ Elements(Append(q, x)) = Elements(q) \cup {x}
         /\ NoDuplicates(q) /\ x \notin Elements(q) => NoDuplicates(Append(q, x))
<1>1. /\ DOMAIN q = 1 .. Len(q) /\ Len(q) \in Nat
      /\ DOMAIN Append(q, x) = 1 .. Len(q) + 1
      /\ \A i \in 1 .. Len(q) : Append(q, x)[i] = q[i]
      /\ Append(q, x)[Len(q) + 1] = x
  OBVIOUS
<1>2. \A i \in 1 .. Len(q) + 1 : i \in 1 .. Len(q) \/ i = Len(q) + 1
  BY <1>1
<1>3. Elements(Append(q, x)) = Elements(q) \cup {x}
  <2>1. 1 .. Len(q) + 1 = (1 .. Len(q)) \cup {Len(q) + 1}
    BY <1>1
  <2> QED
    BY <1>1, <2>1 DEF Elements
<1>4. ASSUME NoDuplicates(q), x \notin Elements(q)
      PROVE  NoDuplicates(Append(q, x))
  BY <1>1, <1>2, <1>4 DEF NoDuplicates, Elements
<1> QED
  BY <1>3, <1>4

\* Taking a task off a queue without duplicates removes it from the queue.
LEMMA TailElements ==
  ASSUME NEW S, NEW q \in Seq(S), q # << >>, NoDuplicates(q)
  PROVE  /\ Head(q) \in S /\ Head(q) \in Elements(q)
         /\ Elements(Tail(q)) = Elements(q) \ {Head(q)}
         /\ NoDuplicates(Tail(q))
<1>1. /\ DOMAIN q = 1 .. Len(q) /\ Len(q) \in Nat /\ Len(q) # 0
      /\ DOMAIN Tail(q) = 1 .. Len(q) - 1
      /\ \A i \in 1 .. Len(q) - 1 : Tail(q)[i] = q[i + 1]
      /\ Head(q) = q[1] /\ Head(q) \in S
  OBVIOUS
<1>2. Head(q) \in Elements(q)
  BY <1>1 DEF Elements
<1>3. ASSUME NEW x \in Elements(Tail(q)) PROVE x \in Elements(q) \ {Head(q)}
  <2>1. PICK i \in 1 .. Len(q) - 1 : x = q[i + 1]
    BY <1>1, <1>3 DEF Elements
  <2>2. i + 1 \in DOMAIN q /\ 1 \in DOMAIN q /\ i + 1 # 1
    BY <1>1, <2>1
  <2> QED
    BY <1>1, <2>1, <2>2 DEF NoDuplicates, Elements
<1>4. ASSUME NEW x \in Elements(q) \ {Head(q)} PROVE x \in Elements(Tail(q))
  <2>1. PICK i \in 1 .. Len(q) : x = q[i]
    BY <1>1, <1>4 DEF Elements
  <2>2. i - 1 \in 1 .. Len(q) - 1 /\ (i - 1) + 1 = i
    BY <1>1, <1>4, <2>1
  <2>3. Tail(q)[i - 1] = x
    BY <1>1, <2>1, <2>2
  <2> QED
    BY <1>1, <2>2, <2>3 DEF Elements
<1>5. NoDuplicates(Tail(q))
  <2> SUFFICES ASSUME NEW i \in 1 .. Len(q) - 1, NEW j \in 1 .. Len(q) - 1,
                      q[i + 1] = q[j + 1]
               PROVE  i = j
    BY <1>1 DEF NoDuplicates
  <2>1. i + 1 \in DOMAIN q /\ j + 1 \in DOMAIN q
    BY <1>1
  <2> QED
    BY <2>1 DEF NoDuplicates
<1> QED
  BY <1>1, <1>2, <1>3, <1>4, <1>5

\* What the reorder buffers hold, one task at a time.
LEMMA BufferMembers ==
  ASSUME TypeOK, NEW k \in Task
  PROVE  k \in InBuffer <=> k.id \in buffered[k.s]
BY DEF InBuffer, Task, TypeOK

\* Reorder buffers hold tasks.
LEMMA BufferTasks == TypeOK => InBuffer \subseteq Task
BY DEF InBuffer, Task, TypeOK

\* The other stages hold tasks.
LEMMA StagesHoldTasks ==
  ASSUME TypeOK
  PROVE  /\ InProc \subseteq Task /\ InWork \subseteq Task
         /\ InSend \subseteq Task /\ InSender \subseteq Task
<1>1. InProc \subseteq Task
  BY ElementOfSeq DEF TypeOK, InProc
<1>2. InSend \subseteq Task
  BY ElementOfSeq DEF TypeOK, InSend
<1>3. InWork \subseteq Task /\ InSender \subseteq Task
  BY DEF TypeOK, InWork, InSender, Inserting
<1> QED
  BY <1>1, <1>2, <1>3

\* Each task is in one place: the part of the invariant about places.
PlaceInv == TypeOK /\ OncePerStage /\ OneStage

\* A worker that takes a task moves it from the queue to itself.
LEMMA WorkerTakeMoves ==
  ASSUME PlaceInv, NEW w \in Workers, WorkerTake(w)
  PROVE  /\ Head(procQueue) \in InProc
         /\ InProc' = InProc \ {Head(procQueue)}
         /\ InWork' = InWork \cup {Head(procQueue)}
         /\ UNCHANGED <<InSend, InSender, InBuffer>>
         /\ OncePerStage'
<1> DEFINE k == Head(procQueue)
<1>1. /\ procQueue \in Seq(Task) /\ procQueue # << >> /\ NoDuplicates(procQueue)
      /\ worker \in [Workers -> Task \cup {Idle}]
      /\ worker[w] = Idle
      /\ procQueue' = Tail(procQueue)
      /\ worker' = [worker EXCEPT ![w] = k]
      /\ UNCHANGED <<sendQueue, senderPc, senderTask, buffered>>
  BY DEF PlaceInv, OncePerStage, TypeOK, WorkerTake, ctxVars
<1>2. /\ k \in Task /\ k \in InProc
      /\ InProc' = InProc \ {k}
      /\ NoDuplicates(procQueue')
  <2>1. /\ k \in Task /\ k \in Elements(procQueue)
        /\ Elements(Tail(procQueue)) = Elements(procQueue) \ {k}
        /\ NoDuplicates(Tail(procQueue))
    BY <1>1, TailElements
  <2> QED
    BY <1>1, <2>1 DEF InProc, Elements
<1>3. k # Idle /\ k \notin InWork
  <2>1. k # Idle
    BY <1>2, IdleNotTask
  <2>2. k \notin InWork
    BY <1>2 DEF PlaceInv, OneStage
  <2> QED
    BY <2>1, <2>2
<1>4. InWork' = InWork \cup {k}
  BY <1>1, <1>3 DEF InWork
<1>5. \A v, u \in Workers : worker'[v] = worker'[u] /\ worker'[v] # Idle => v = u
  BY <1>1, <1>3 DEF InWork, PlaceInv, OncePerStage
<1>6. UNCHANGED <<InSend, InSender, InBuffer, Inserting>>
  BY <1>1 DEF InSend, InSender, InBuffer, Inserting
<1> QED
  BY <1>1, <1>2, <1>4, <1>5, <1>6 DEF PlaceInv, OncePerStage

\* send_reply moves the task from the worker to the queue of the sender pool.
LEMMA WorkerReplyMoves ==
  ASSUME PlaceInv, NEW w \in Workers, WorkerReply(w)
  PROVE  /\ worker[w] \in InWork
         /\ InWork' = InWork \ {worker[w]}
         /\ InSend' = InSend \cup {worker[w]}
         /\ UNCHANGED <<InProc, InSender, InBuffer>>
         /\ OncePerStage'
<1> DEFINE k == worker[w]
<1>1. /\ sendQueue \in Seq(Task) /\ NoDuplicates(sendQueue)
      /\ worker \in [Workers -> Task \cup {Idle}]
      /\ k # Idle
      /\ sendQueue' = Append(sendQueue, k)
      /\ worker' = [worker EXCEPT ![w] = Idle]
      /\ UNCHANGED <<procQueue, senderPc, senderTask, buffered>>
      /\ \A v, u \in Workers : worker[v] = worker[u] /\ worker[v] # Idle => v = u
  BY DEF PlaceInv, OncePerStage, TypeOK, WorkerReply, ctxVars
<1>2. k \in Task /\ k \in InWork
  BY <1>1 DEF InWork
<1>3. k \notin InSend
  BY <1>2 DEF PlaceInv, OneStage
<1>4. /\ InSend' = InSend \cup {k}
      /\ NoDuplicates(sendQueue')
  BY <1>1, <1>2, <1>3, AppendElements DEF InSend, Elements
<1>5. InWork' = InWork \ {k}
  BY <1>1 DEF InWork
<1>6. \A v, u \in Workers : worker'[v] = worker'[u] /\ worker'[v] # Idle => v = u
  BY <1>1
<1>7. UNCHANGED <<InProc, InSender, InBuffer, Inserting>>
  BY <1>1 DEF InProc, InSender, InBuffer, Inserting
<1> QED
  BY <1>1, <1>2, <1>4, <1>5, <1>6, <1>7 DEF PlaceInv, OncePerStage

\* A sender that takes a task moves it from the queue to itself.
LEMMA SenderTakeMoves ==
  ASSUME PlaceInv, NEW t \in Senders, SenderTake(t)
  PROVE  /\ Head(sendQueue) \in InSend
         /\ InSend' = InSend \ {Head(sendQueue)}
         /\ InSender' = InSender \cup {Head(sendQueue)}
         /\ UNCHANGED <<InProc, InWork, InBuffer>>
         /\ OncePerStage'
<1> DEFINE k == Head(sendQueue)
<1>1. /\ sendQueue \in Seq(Task) /\ sendQueue # << >> /\ NoDuplicates(sendQueue)
      /\ senderTask \in [Senders -> Task \cup {Idle}]
      /\ senderPc \in [Senders -> {"idle", "lookup", "ready", "drain"}]
      /\ senderPc[t] = "idle"
      /\ sendQueue' = Tail(sendQueue)
      /\ senderTask' = [senderTask EXCEPT ![t] = k]
      /\ senderPc' = [senderPc EXCEPT ![t] = "lookup"]
      /\ UNCHANGED <<procQueue, worker, buffered>>
  BY DEF PlaceInv, OncePerStage, TypeOK, SenderTake, ctxVars
<1>2. /\ k \in Task /\ k \in InSend
      /\ InSend' = InSend \ {k}
      /\ NoDuplicates(sendQueue')
  <2>1. /\ k \in Task /\ k \in Elements(sendQueue)
        /\ Elements(Tail(sendQueue)) = Elements(sendQueue) \ {k}
        /\ NoDuplicates(Tail(sendQueue))
    BY <1>1, TailElements
  <2> QED
    BY <1>1, <2>1 DEF InSend, Elements
<1>3. k \notin InSender
  BY <1>2 DEF PlaceInv, OneStage
<1>4. Inserting' = Inserting \cup {t} /\ t \notin Inserting
  BY <1>1 DEF Inserting
<1>5. \A u \in Inserting : u \in Senders /\ senderTask'[u] = senderTask[u]
  BY <1>1, <1>4 DEF Inserting
<1>6. senderTask'[t] = k
  BY <1>1
<1>7. InSender' = InSender \cup {k}
  BY <1>4, <1>5, <1>6 DEF InSender
<1>8. \A v, u \in Inserting' : senderTask'[v] = senderTask'[u] => v = u
  BY <1>3, <1>4, <1>5, <1>6 DEF InSender, PlaceInv, OncePerStage
<1>9. UNCHANGED <<InProc, InWork, InBuffer>>
  BY <1>1 DEF InProc, InWork, InBuffer
<1> QED
  BY <1>1, <1>2, <1>7, <1>8, <1>9 DEF PlaceInv, OncePerStage

\* A sender that finishes its lookup in vain, inserts a reply, or keeps it has
\* one task less to insert.
LEMMA SenderLeaves ==
  ASSUME PlaceInv, NEW t \in Inserting, Inserting' = Inserting \ {t},
         \A u \in Inserting \ {t} : senderTask'[u] = senderTask[u]
  PROVE  /\ senderTask[t] \in InSender
         /\ InSender' = InSender \ {senderTask[t]}
         /\ \A v, u \in Inserting' : senderTask'[v] = senderTask'[u] => v = u
<1>1. \A v, u \in Inserting : senderTask[v] = senderTask[u] => v = u
  BY DEF PlaceInv, OncePerStage
<1>2. senderTask[t] \in InSender
  BY DEF InSender
<1>3. InSender' = InSender \ {senderTask[t]}
  BY <1>1 DEF InSender
<1>4. \A v, u \in Inserting' : senderTask'[v] = senderTask'[u] => v = u
  BY <1>1
<1> QED
  BY <1>2, <1>3, <1>4

\* A lookup in vain takes the task out of the pipeline.
LEMMA DropMoves ==
  ASSUME PlaceInv, NEW t \in Senders, LookupGone(t) \/ LookupMiss(t)
  PROVE  /\ senderTask[t] \in InSender
         /\ InSender' = InSender \ {senderTask[t]}
         /\ UNCHANGED <<InProc, InWork, InSend, InBuffer>>
         /\ OncePerStage'
<1>1. /\ t \in Inserting /\ Inserting' = Inserting \ {t}
      /\ \A u \in Inserting \ {t} : senderTask'[u] = senderTask[u]
  BY DEF LookupGone, LookupMiss, Finish, Inserting, PlaceInv, TypeOK
<1>2. UNCHANGED <<procQueue, worker, sendQueue, buffered>>
  BY DEF LookupGone, LookupMiss, ctxVars
<1>3. UNCHANGED <<InProc, InWork, InSend, InBuffer>>
  BY <1>2 DEF InProc, InWork, InSend, InBuffer
<1> QED
  BY <1>1, <1>2, <1>3, SenderLeaves DEF PlaceInv, OncePerStage

\* A lookup that finds the session leaves the task where it is.
LEMMA LookupHitMoves ==
  ASSUME PlaceInv, NEW t \in Senders, LookupHit(t)
  PROVE  /\ UNCHANGED <<InProc, InWork, InSend, InSender, InBuffer>>
         /\ OncePerStage'
<1>1. UNCHANGED <<procQueue, worker, sendQueue, buffered, senderTask>>
  BY DEF LookupHit, ctxVars
<1>2. UNCHANGED Inserting
  BY DEF LookupHit, Inserting, PlaceInv, TypeOK
<1> QED
  BY <1>1, <1>2
  DEF InProc, InWork, InSend, InSender, InBuffer, PlaceInv, OncePerStage

\* The session and the number of the task a sender inserts.
LEMMA InsertNextMoves ==
  ASSUME PlaceInv, NEW t \in Senders, InsertNext(t)
  PROVE  /\ senderTask[t] \in InSender /\ senderTask[t] \in Task
         /\ senderTask[t].id = to_send[senderTask[t].s]
         /\ to_send' = [to_send EXCEPT ![senderTask[t].s] = @ + 1]
         /\ InSender' = InSender \ {senderTask[t]}
         /\ UNCHANGED <<InProc, InWork, InSend, InBuffer>>
         /\ OncePerStage'
<1>1. /\ t \in Inserting /\ Inserting' = Inserting \ {t}
      /\ \A u \in Inserting \ {t} : senderTask'[u] = senderTask[u]
  BY DEF InsertNext, Inserting, PlaceInv, TypeOK
<1>2. UNCHANGED <<procQueue, worker, sendQueue, buffered>>
  BY DEF InsertNext
<1>3. UNCHANGED <<InProc, InWork, InSend, InBuffer>>
  BY <1>2 DEF InProc, InWork, InSend, InBuffer
<1>4. senderTask[t] \in Task
  BY SenderHasTask DEF InsertNext, PlaceInv
<1>5. /\ senderTask[t].id = to_send[senderTask[t].s]
      /\ to_send' = [to_send EXCEPT ![senderTask[t].s] = @ + 1]
  BY DEF InsertNext, IsNext
<1> QED
  BY <1>1, <1>2, <1>3, <1>4, <1>5, SenderLeaves DEF PlaceInv, OncePerStage

\* A reply that comes early moves from its sender to the reorder buffer.
LEMMA InsertEarlyMoves ==
  ASSUME PlaceInv, NEW t \in Senders, InsertEarly(t)
  PROVE  /\ senderTask[t] \in InSender /\ senderTask[t] \in Task
         /\ senderTask[t].id # to_send[senderTask[t].s]
         /\ InSender' = InSender \ {senderTask[t]}
         /\ InBuffer' = InBuffer \cup {senderTask[t]}
         /\ UNCHANGED <<InProc, InWork, InSend>>
         /\ OncePerStage'
<1>1. /\ t \in Inserting /\ Inserting' = Inserting \ {t}
      /\ \A u \in Inserting \ {t} : senderTask'[u] = senderTask[u]
  BY DEF InsertEarly, Inserting, PlaceInv, TypeOK
<1>2. UNCHANGED <<procQueue, worker, sendQueue>>
  BY DEF InsertEarly
<1>3. UNCHANGED <<InProc, InWork, InSend>>
  BY <1>2 DEF InProc, InWork, InSend
<1>4. /\ senderTask[t] \in Task
      /\ senderTask[t].s \in Conns /\ senderTask[t].id \in Nat
      /\ senderTask[t] = [s |-> senderTask[t].s, id |-> senderTask[t].id]
  BY SenderHasTask DEF InsertEarly, PlaceInv, Task
<1>5. /\ senderTask[t].id # to_send[senderTask[t].s]
      /\ buffered' = [buffered EXCEPT ![senderTask[t].s] = @ \cup {senderTask[t].id}]
      /\ buffered \in [Conns -> SUBSET Nat]
  BY DEF InsertEarly, IsNext, PlaceInv, TypeOK
<1>6. InBuffer' = InBuffer \cup {senderTask[t]}
  BY <1>4, <1>5 DEF InBuffer
<1> QED
  BY <1>1, <1>2, <1>3, <1>4, <1>5, <1>6, SenderLeaves DEF PlaceInv, OncePerStage

\* A turn of the draining loop that succeeds takes the next reply out of the
\* buffer; one that fails ends the session.
LEMMA DrainOneMoves ==
  ASSUME PlaceInv, NEW t \in Senders, DrainOne(t)
  PROVE  /\ senderTask[t].s \in Conns
         /\ to_send[senderTask[t].s] \in buffered[senderTask[t].s]
         /\ UNCHANGED <<InProc, InWork, InSend, InSender>>
         /\ OncePerStage'
         /\ \/ /\ to_send' = [to_send EXCEPT ![senderTask[t].s] = @ + 1]
               /\ InBuffer' = InBuffer \
                    {[s |-> senderTask[t].s, id |-> to_send[senderTask[t].s]]}
               /\ UNCHANGED <<senderPc, senderTask, is_eof_reach>>
            \/ /\ UNCHANGED <<to_send, InBuffer, buffered>>
               /\ is_eof_reach' = [is_eof_reach EXCEPT ![senderTask[t].s] = TRUE]
<1> DEFINE s == senderTask[t].s
<1>1. s \in Conns /\ buffered \in [Conns -> SUBSET Nat]
  BY SenderHasTask DEF DrainOne, PlaceInv, TypeOK
<1>2. UNCHANGED <<procQueue, worker, sendQueue>>
  BY DEF DrainOne
<1>3. /\ \A u \in Inserting : senderTask'[u] = senderTask[u]
      /\ UNCHANGED Inserting
  <2>1. t \notin Inserting
    BY DEF DrainOne, Inserting
  <2> QED
    BY <2>1 DEF DrainOne, Finish, Inserting, PlaceInv, TypeOK
<1>4. UNCHANGED <<InProc, InWork, InSend, InSender>>
  BY <1>2, <1>3 DEF InProc, InWork, InSend, InSender
<1>5. OncePerStage'
  BY <1>2, <1>3 DEF PlaceInv, OncePerStage
<1>6. CASE /\ buffered' = [buffered EXCEPT ![s] = @ \ {to_send[s]}]
           /\ to_send' = [to_send EXCEPT ![s] = @ + 1]
           /\ UNCHANGED <<senderPc, senderTask, is_eof_reach>>
  <2>1. InBuffer' = InBuffer \ {[s |-> s, id |-> to_send[s]]}
    BY <1>1, <1>6 DEF InBuffer
  <2> QED
    BY <1>1, <1>4, <1>5, <1>6, <2>1 DEF DrainOne, FirstIsNext
<1>7. CASE /\ is_eof_reach' = [is_eof_reach EXCEPT ![s] = TRUE]
           /\ UNCHANGED <<buffered, to_send>>
  <2>1. UNCHANGED InBuffer
    BY <1>7 DEF InBuffer
  <2> QED
    BY <1>1, <1>4, <1>5, <1>7, <2>1 DEF DrainOne, FirstIsNext
<1> QED
  BY <1>6, <1>7 DEF DrainOne

\* The decoder's handler puts a task into the queue that is nowhere yet.
LEMMA DispatchMoves ==
  ASSUME PlaceInv, NumbersIssued, NEW c \in Conns, Dispatch(c)
  PROVE  /\ [s |-> c, id |-> last_command_id[c]] \in Task
         /\ [s |-> c, id |-> last_command_id[c]] \notin Unsent
         /\ InProc' = InProc \cup {[s |-> c, id |-> last_command_id[c]]}
         /\ UNCHANGED <<InWork, InSend, InSender, InBuffer>>
         /\ OncePerStage'
<1> DEFINE k == [s |-> c, id |-> last_command_id[c]]
<1>1. /\ procQueue \in Seq(Task) /\ NoDuplicates(procQueue)
      /\ last_command_id[c] \in Nat
      /\ procQueue' = Append(procQueue, k)
      /\ UNCHANGED <<worker, sendQueue, senderPc, senderTask, buffered>>
  BY DEF PlaceInv, OncePerStage, TypeOK, Dispatch, ctxVars
<1>2. k \in Task
  BY <1>1 DEF Task
<1>3. k \notin Unsent
  BY <1>1 DEF NumbersIssued
<1>4. InProc' = InProc \cup {k} /\ NoDuplicates(procQueue')
  BY <1>1, <1>2, <1>3, AppendElements DEF InProc, Unsent, Elements
<1>5. UNCHANGED <<InWork, InSend, InSender, InBuffer, Inserting>>
  BY <1>1 DEF InWork, InSend, InSender, InBuffer, Inserting
<1> QED
  BY <1>1, <1>2, <1>3, <1>4, <1>5 DEF PlaceInv, OncePerStage

(***************************************************************************)
(* The effect of a step on the replies that are still to be sent.          *)
(***************************************************************************)

\* The steps that touch neither queues, tasks nor buffers.
QuietStep ==
  \/ \E c \in Conns : Accept(c) \/ Disconnect(c)
  \/ AcceptFails \/ FinishAccept \/ FinishErase
  \/ \E t \in Senders : DrainDone(t)
  \/ UNCHANGED vars

\* The other steps move no task and change no number.
LEMMA QuietMoves ==
  ASSUME PlaceInv, QuietStep
  PROVE  /\ UNCHANGED <<InProc, InWork, InSend, InSender, InBuffer>>
         /\ OncePerStage'
         /\ UNCHANGED <<to_send, last_command_id>>
<1>1. UNCHANGED <<procQueue, worker, sendQueue, buffered, to_send, last_command_id>>
  BY DEF QuietStep, Accept, Disconnect, AcceptFails, FinishAccept, FinishErase,
    DrainDone, vars, loopVars, ctxVars, poolVars, histVars
<1>2. /\ \A u \in Inserting : senderTask'[u] = senderTask[u]
      /\ UNCHANGED Inserting
  <2>1. CASE UNCHANGED <<senderPc, senderTask>>
    BY <2>1 DEF Inserting
  <2>2. ASSUME NEW t \in Senders, DrainDone(t)
        PROVE  /\ \A u \in Inserting : senderTask'[u] = senderTask[u]
               /\ UNCHANGED Inserting
    <3>1. t \notin Inserting
      BY <2>2 DEF DrainDone, Inserting
    <3> QED
      BY <2>2, <3>1 DEF DrainDone, Finish, Inserting, PlaceInv, TypeOK
  <2> QED
    BY <2>1, <2>2 DEF QuietStep, Accept, Disconnect, AcceptFails, FinishAccept,
      FinishErase, vars, poolVars
<1> QED
  BY <1>1, <1>2
  DEF InProc, InWork, InSend, InSender, InBuffer, PlaceInv, OncePerStage

\* A step moves replies from stage to stage and leaves the numbers alone, or
\* adds the next command of a session, or drops a reply of a session that is
\* then not live, or passes the reply that is next to send.
Moves == UNCHANGED <<Unsent, to_send, last_command_id>>

Issues(c) ==
  /\ Unsent' = Unsent \cup {[s |-> c, id |-> last_command_id[c]]}
  /\ last_command_id' = [last_command_id EXCEPT ![c] = @ + 1]
  /\ UNCHANGED to_send

Drops(k) ==
  /\ is_eof_reach'[k.s] \/ k.s \in missed'
  /\ Unsent' = Unsent \ {k}
  /\ UNCHANGED <<to_send, last_command_id>>

Answers(k) ==
  /\ k \in Unsent
  /\ k.id = to_send[k.s]
  /\ Unsent' = Unsent \ {k}
  /\ to_send' = [to_send EXCEPT ![k.s] = @ + 1]
  /\ UNCHANGED last_command_id

\* Every step is one of these four as far as the unsent replies are concerned,
\* and leaves each task in one place.
LEMMA UnsentSteps ==
  ASSUME PlaceInv, LoopInv, NumbersIssued, [Next]_vars
  PROVE  /\ OncePerStage' /\ OneStage'
         /\ \/ Moves
            \/ \E c \in Conns : Issues(c)
            \/ \E k \in Task : Drops(k) \/ Answers(k)
<1> USE DEF Unsent
<1>1. CASE QuietStep
  BY <1>1, QuietMoves DEF PlaceInv, OneStage, Moves
<1>2. ASSUME NEW c \in Conns, Dispatch(c)
      PROVE  OncePerStage' /\ OneStage' /\ Issues(c)
  <2>1. /\ last_command_id' = [last_command_id EXCEPT ![c] = @ + 1]
        /\ UNCHANGED to_send
    BY <1>2 DEF Dispatch, ctxVars
  <2> QED
    BY <1>2, <2>1, DispatchMoves DEF PlaceInv, OneStage, Issues
<1>3. ASSUME NEW w \in Workers, WorkerTake(w)
      PROVE  OncePerStage' /\ OneStage' /\ Moves
  <2>1. UNCHANGED <<to_send, last_command_id>>
    BY <1>3 DEF WorkerTake, ctxVars, loopVars
  <2> QED
    BY <1>3, <2>1, WorkerTakeMoves DEF PlaceInv, OneStage, Moves
<1>4. ASSUME NEW w \in Workers, WorkerReply(w)
      PROVE  OncePerStage' /\ OneStage' /\ Moves
  <2>1. UNCHANGED <<to_send, last_command_id>>
    BY <1>4 DEF WorkerReply, ctxVars, loopVars
  <2> QED
    BY <1>4, <2>1, WorkerReplyMoves DEF PlaceInv, OneStage, Moves
<1>5. ASSUME NEW t \in Senders, SenderTake(t)
      PROVE  OncePerStage' /\ OneStage' /\ Moves
  <2>1. UNCHANGED <<to_send, last_command_id>>
    BY <1>5 DEF SenderTake, ctxVars, loopVars
  <2> QED
    BY <1>5, <2>1, SenderTakeMoves DEF PlaceInv, OneStage, Moves
<1>6. ASSUME NEW t \in Senders, LookupHit(t)
      PROVE  OncePerStage' /\ OneStage' /\ Moves
  <2>1. UNCHANGED <<to_send, last_command_id>>
    BY <1>6 DEF LookupHit, ctxVars, loopVars
  <2> QED
    BY <1>6, <2>1, LookupHitMoves DEF PlaceInv, OneStage, Moves
<1>7. ASSUME NEW t \in Senders, LookupGone(t) \/ LookupMiss(t)
      PROVE  /\ OncePerStage' /\ OneStage'
             /\ senderTask[t] \in Task /\ Drops(senderTask[t])
  <2>1. /\ senderTask[t] \in InSender
        /\ InSender' = InSender \ {senderTask[t]}
        /\ UNCHANGED <<InProc, InWork, InSend, InBuffer>>
        /\ OncePerStage'
    BY <1>7, DropMoves
  <2>2. OneStage' /\ Unsent' = Unsent \ {senderTask[t]}
    BY <2>1 DEF PlaceInv, OneStage
  <2>3. UNCHANGED <<to_send, last_command_id>>
    BY <1>7 DEF LookupGone, LookupMiss, ctxVars, loopVars
  <2>4. /\ senderTask[t] \in Task
        /\ senderTask[t].s \in Conns /\ senderTask[t].id \in Nat
    BY <1>7, SenderHasTask DEF PlaceInv, LookupGone, LookupMiss
  <2>5. is_eof_reach'[senderTask[t].s] \/ senderTask[t].s \in missed'
    <3>1. CASE LookupMiss(t)
      BY <3>1 DEF LookupMiss
    <3>2. CASE LookupGone(t)
      <4>1. senderTask[t].id < last_command_id[senderTask[t].s]
        BY <2>1 DEF NumbersIssued
      <4>2. last_command_id[senderTask[t].s] > 0
        BY <2>4, <4>1 DEF PlaceInv, TypeOK
      <4>3. is_eof_reach[senderTask[t].s]
        BY <2>4, <3>2, <4>2 DEF LookupGone, LoopInv
      <4> QED
        BY <3>2, <4>3 DEF LookupGone, ctxVars
    <3> QED
      BY <1>7, <3>1, <3>2
  <2> QED
    BY <2>1, <2>2, <2>3, <2>4, <2>5 DEF Drops
<1>8. ASSUME NEW t \in Senders, InsertNext(t)
      PROVE  /\ OncePerStage' /\ OneStage'
             /\ senderTask[t] \in Task /\ Answers(senderTask[t])
  <2>1. UNCHANGED last_command_id
    BY <1>8 DEF InsertNext, loopVars
  <2>2. /\ senderTask[t] \in InSender /\ senderTask[t] \in Task
        /\ senderTask[t].id = to_send[senderTask[t].s]
        /\ to_send' = [to_send EXCEPT ![senderTask[t].s] = @ + 1]
        /\ InSender' = InSender \ {senderTask[t]}
        /\ UNCHANGED <<InProc, InWork, InSend, InBuffer>>
        /\ OncePerStage'
    BY <1>8, InsertNextMoves
  <2>3. OneStage' /\ Unsent' = Unsent \ {senderTask[t]}
    BY <2>2 DEF PlaceInv, OneStage
  <2> QED
    BY <2>1, <2>2, <2>3 DEF Answers
<1>9. ASSUME NEW t \in Senders, InsertEarly(t)
      PROVE  OncePerStage' /\ OneStage' /\ Moves
  <2>1. UNCHANGED <<to_send, last_command_id>>
    BY <1>9 DEF InsertEarly, loopVars
  <2> QED
    BY <1>9, <2>1, InsertEarlyMoves DEF PlaceInv, OneStage, Moves
<1>10. ASSUME NEW t \in Senders, DrainOne(t)
       PROVE  /\ OncePerStage' /\ OneStage'
              /\ Moves \/ \E k \in Task : Answers(k)
  <2> DEFINE s == senderTask[t].s
             k == [s |-> s, id |-> to_send[s]]
  <2>1. UNCHANGED last_command_id
    BY <1>10 DEF DrainOne, loopVars
  <2>2. /\ s \in Conns /\ to_send[s] \in buffered[s]
        /\ UNCHANGED <<InProc, InWork, InSend, InSender>>
        /\ OncePerStage'
    BY <1>10, DrainOneMoves
  <2>3. k \in Task /\ k \in InBuffer
    BY <2>2, BufferMembers DEF Task, PlaceInv, TypeOK
  <2>4. CASE /\ to_send' = [to_send EXCEPT ![s] = @ + 1]
             /\ InBuffer' = InBuffer \ {k}
    <3>1. OneStage' /\ Unsent' = Unsent \ {k}
      BY <2>2, <2>3, <2>4 DEF PlaceInv, OneStage
    <3>2. k.s = s /\ k.id = to_send[s]
      OBVIOUS
    <3>3. Answers(k)
      BY <2>1, <2>3, <2>4, <3>1, <3>2 DEF Answers
    <3> QED
      BY <2>2, <2>3, <3>1, <3>3
  <2>5. CASE UNCHANGED <<to_send, InBuffer>>
    BY <2>1, <2>2, <2>5 DEF PlaceInv, OneStage, Moves
  <2> QED
    BY <1>10, <2>4, <2>5, DrainOneMoves
<1> QED
  <2>1. CASE Next
    BY <2>1, <1>1, <1>2, <1>3, <1>4, <1>5, <1>6, <1>7, <1>8, <1>9, <1>10
    DEF Next, WorkerStep, SenderStep, QuietStep
  <2>2. CASE UNCHANGED vars
    BY <2>2, <1>1 DEF QuietStep
  <2> QED
    BY <2>1, <2>2

\* A session that is live after a step was live before it.
LEMMA LiveBefore ==
  ASSUME TypeOK, [Next]_vars
  PROVE  /\ \A c \in Conns : is_eof_reach[c] => is_eof_reach'[c]
         /\ missed \subseteq missed'
<1> USE DEF vars, loopVars, ctxVars, poolVars, histVars
<1>1. ASSUME NEW t \in Senders, InsertNext(t) \/ DrainOne(t) \/ LookupMiss(t)
      PROVE  /\ \A c \in Conns : is_eof_reach[c] => is_eof_reach'[c]
             /\ missed \subseteq missed'
  <2>1. is_eof_reach \in [Conns -> BOOLEAN]
    BY DEF TypeOK
  <2>2. senderTask[t].s \in Conns
    BY <1>1, SenderHasTask DEF InsertNext, DrainOne, LookupMiss
  <2>3. CASE InsertNext(t)
    BY <2>1, <2>2, <2>3 DEF InsertNext
  <2>4. CASE DrainOne(t)
    BY <2>1, <2>2, <2>4 DEF DrainOne
  <2>5. CASE LookupMiss(t)
    BY <2>5 DEF LookupMiss
  <2> QED
    BY <1>1, <2>3, <2>4, <2>5
<1>2. ASSUME NEW c \in Conns, Disconnect(c)
      PROVE  /\ \A d \in Conns : is_eof_reach[d] => is_eof_reach'[d]
             /\ missed \subseteq missed'
  BY <1>2 DEF Disconnect, TypeOK
<1>3. CASE UNCHANGED <<is_eof_reach, missed>>
  BY <1>3
<1>4. ASSUME ~UNCHANGED <<is_eof_reach, missed>>
      PROVE  \/ \E t \in Senders : InsertNext(t) \/ DrainOne(t) \/ LookupMiss(t)
             \/ \E c \in Conns : Disconnect(c)
  BY <1>4 DEF Next, WorkerStep, SenderStep, Accept, AcceptFails, FinishAccept,
    Dispatch, FinishErase, WorkerTake, WorkerReply, SenderTake, LookupHit,
    LookupGone, InsertEarly, DrainDone
<1> QED
  BY <1>1, <1>2, <1>3, <1>4

\* Every step keeps tasks and to_send within the numbers the decoder gave out.
LEMMA NumbersStep ==
  ASSUME PlaceInv, LoopInv, NumbersIssued, [Next]_vars
  PROVE  NumbersIssued'
<1>1. /\ last_command_id \in [Conns -> Nat] /\ to_send \in [Conns -> Nat]
      /\ \A k \in Unsent : k \in Task /\ k.s \in Conns /\ k.id \in Nat
  BY StagesHoldTasks, BufferTasks DEF PlaceInv, TypeOK, Unsent, Task
<1>2. CASE Moves
  BY <1>2 DEF Moves, NumbersIssued
<1>3. ASSUME NEW c \in Conns, Issues(c) PROVE NumbersIssued'
  <2> DEFINE k == [s |-> c, id |-> last_command_id[c]]
  <2>1. \A d \in Conns : last_command_id[d] <= last_command_id'[d]
                        /\ last_command_id'[d] \in Nat
    BY <1>1, <1>3 DEF Issues
  <2>2. k.s = c /\ k.id < last_command_id'[c]
    BY <1>1, <1>3 DEF Issues
  <2>3. \A j \in Unsent : j.id < last_command_id'[j.s]
    BY <1>1, <2>1 DEF NumbersIssued
  <2>4. \A d \in Conns : to_send'[d] <= last_command_id'[d]
    BY <1>1, <1>3, <2>1 DEF NumbersIssued, Issues
  <2> QED
    BY <1>3, <2>2, <2>3, <2>4 DEF NumbersIssued, Issues
<1>4. ASSUME NEW k \in Task, Drops(k) PROVE NumbersIssued'
  BY <1>4 DEF Drops, NumbersIssued
<1>5. ASSUME NEW k \in Task, Answers(k) PROVE NumbersIssued'
  <2>1. /\ k.s \in Conns
        /\ to_send[k.s] < last_command_id[k.s]
    BY <1>1, <1>5 DEF Answers, NumbersIssued
  <2>2. \A d \in Conns : to_send'[d] <= last_command_id'[d]
    BY <1>1, <1>5, <2>1 DEF Answers, NumbersIssued
  <2> QED
    BY <1>5, <2>2 DEF Answers, NumbersIssued
<1> QED
  BY <1>2, <1>3, <1>4, <1>5, UnsentSteps

\* No step loses a reply of a session that stays live, and none sends one twice.
LEMMA NothingLostStep ==
  ASSUME PlaceInv, LoopInv, NumbersIssued, NothingLost, [Next]_vars
  PROVE  NothingLost'
<1>1. /\ last_command_id \in [Conns -> Nat] /\ to_send \in [Conns -> Nat]
      /\ \A k \in Unsent : k \in Task /\ k.s \in Conns /\ k.id \in Nat
  BY StagesHoldTasks, BufferTasks DEF PlaceInv, TypeOK, Unsent, Task
<1>2. \A c \in Conns : Live(c)' => Live(c)
  BY LiveBefore DEF PlaceInv, Live
<1>3. CASE Moves
  BY <1>1, <1>2, <1>3 DEF Moves, NothingLost
<1>4. ASSUME NEW c \in Conns, Issues(c) PROVE NothingLost'
  <2> DEFINE k == [s |-> c, id |-> last_command_id[c]]
  <2>1. /\ Unsent' = Unsent \cup {k}
        /\ k.s = c /\ k.id = last_command_id[c] /\ k.id >= to_send[c]
        /\ UNCHANGED to_send
    BY <1>1, <1>4 DEF Issues, NumbersIssued
  <2>2. ASSUME NEW d \in Conns, Live(d)',
               NEW id \in to_send'[d] .. last_command_id'[d] - 1
        PROVE  [s |-> d, id |-> id] \in Unsent'
    <3>1. \/ id \in to_send[d] .. last_command_id[d] - 1
          \/ d = c /\ id = last_command_id[c]
      BY <1>1, <1>4, <2>1, <2>2 DEF Issues
    <3> QED
      BY <1>2, <2>1, <2>2, <3>1 DEF NothingLost
  <2>3. \A j \in Unsent' : Live(j.s)' => j.id >= to_send'[j.s]
    BY <1>1, <1>2, <2>1 DEF NothingLost
  <2> QED
    BY <2>2, <2>3 DEF NothingLost
<1>5. ASSUME NEW k \in Task, Drops(k) PROVE NothingLost'
  <2>1. k.s \in Conns /\ k = [s |-> k.s, id |-> k.id]
    BY DEF Task
  <2>2. \A c \in Conns : Live(c)' => c # k.s
    BY <1>5 DEF Drops, Live
  <2>3. \A c \in Conns, id \in Nat : c # k.s => [s |-> c, id |-> id] # k
    BY <2>1
  <2>4. ASSUME NEW c \in Conns, Live(c)',
               NEW id \in to_send'[c] .. last_command_id'[c] - 1
        PROVE  [s |-> c, id |-> id] \in Unsent'
    <3>1. /\ [s |-> c, id |-> id] \in Unsent
          /\ id \in Nat
      BY <1>1, <1>2, <1>5, <2>4 DEF Drops, NothingLost
    <3> QED
      BY <1>5, <2>2, <2>3, <2>4, <3>1 DEF Drops
  <2>5. \A j \in Unsent' : Live(j.s)' => j.id >= to_send'[j.s]
    BY <1>1, <1>2, <1>5 DEF Drops, NothingLost
  <2> QED
    BY <2>4, <2>5 DEF NothingLost
<1>6. ASSUME NEW k \in Task, Answers(k) PROVE NothingLost'
  <2>1. /\ k.s \in Conns /\ k.id = to_send[k.s]
        /\ k = [s |-> k.s, id |-> k.id]
        /\ Unsent' = Unsent \ {k}
        /\ to_send'[k.s] = to_send[k.s] + 1
        /\ \A c \in Conns \ {k.s} : to_send'[c] = to_send[c]
        /\ UNCHANGED last_command_id
    BY <1>1, <1>6 DEF Answers, Task
  <2>2. ASSUME NEW c \in Conns, Live(c)',
               NEW id \in to_send'[c] .. last_command_id'[c] - 1
        PROVE  [s |-> c, id |-> id] \in Unsent'
    <3>1. /\ id \in to_send[c] .. last_command_id[c] - 1
          /\ c = k.s => id # k.id
      BY <1>1, <2>1, <2>2
    <3>2. [s |-> c, id |-> id] \in Unsent
      BY <1>2, <2>2, <3>1 DEF NothingLost
    <3>3. [s |-> c, id |-> id] # k
      BY <2>1, <3>1
    <3> QED
      BY <2>1, <3>2, <3>3
  <2>3. ASSUME NEW j \in Unsent', Live(j.s)'
        PROVE  j.id >= to_send'[j.s]
    <3>1. j \in Unsent /\ j # k /\ j.s \in Conns /\ j.id \in Nat /\ j \in Task
      BY <1>1, <2>1, <2>3
    <3>2. j.id >= to_send[j.s]
      BY <1>2, <2>3, <3>1 DEF NothingLost
    <3>3. CASE j.s = k.s
      <4>1. j.id # k.id
        BY <3>1, <3>3 DEF Task
      <4> QED
        BY <1>1, <2>1, <3>1, <3>2, <3>3, <4>1
    <3>4. CASE j.s # k.s
      BY <2>1, <3>1, <3>2, <3>4
    <3> QED
      BY <3>3, <3>4
  <2> QED
    BY <2>2, <2>3 DEF NothingLost
<1> QED
  BY <1>3, <1>4, <1>5, <1>6, UnsentSteps

\* Every step keeps the event loop's events, the connections and ctx_map in
\* agreement.
LEMMA LoopStep ==
  ASSUME TypeOK, LoopInv, [Next]_vars
  PROVE  LoopInv'
<1> USE DEF vars, loopVars, ctxVars, poolVars, histVars
<1>1. \A c \in Conns : is_eof_reach[c] => is_eof_reach'[c]
  BY LiveBefore
<1>2. ASSUME NEW c \in Conns, Accept(c) PROVE LoopInv'
  BY <1>2 DEF TypeOK, LoopInv, Accept, LoopFree, NoUpdate
<1>3. ASSUME NEW c \in Conns, Dispatch(c) PROVE LoopInv'
  BY <1>3 DEF TypeOK, LoopInv, Dispatch, LoopFree, NoUpdate
<1>4. ASSUME NEW c \in Conns, Disconnect(c) PROVE LoopInv'
  BY <1>4 DEF TypeOK, LoopInv, Disconnect, LoopFree, NoUpdate
<1>5. CASE AcceptFails
  BY <1>5 DEF TypeOK, LoopInv, AcceptFails, LoopFree, NoUpdate
<1>6. CASE FinishAccept
  BY <1>6 DEF TypeOK, LoopInv, FinishAccept, NoUpdate
<1>7. CASE FinishErase
  BY <1>7 DEF TypeOK, LoopInv, FinishErase, NoUpdate
<1>8. CASE UNCHANGED <<loopVars, ctx_map>>
  <2>1. \A c \in Conns : updating.op = "erase" => is_eof_reach'[updating.s]
    BY <1>1 DEF LoopInv
  <2> QED
    BY <1>1, <1>8, <2>1 DEF LoopInv, TypeOK
<1>9. ASSUME \/ \E w \in Workers : WorkerStep(w)
             \/ \E t \in Senders : SenderStep(t)
             \/ UNCHANGED vars
      PROVE  UNCHANGED <<loopVars, ctx_map>>
  BY <1>9 DEF WorkerStep, SenderStep, WorkerTake, WorkerReply, SenderTake,
    LookupHit, LookupGone, LookupMiss, InsertNext, InsertEarly, DrainOne, DrainDone
<1> QED
  BY <1>2, <1>3, <1>4, <1>5, <1>6, <1>7, <1>8, <1>9 DEF Next

\* Every step keeps the descriptors of open connections distinct: accept() gives
\* out free ones only.
LEMMA FdsStep ==
  ASSUME TypeOK, DistinctFds, [Next]_vars
  PROVE  DistinctFds'
<1>1. ASSUME NEW c \in Conns, Accept(c) PROVE DistinctFds'
  <2>1. PICK f \in Fds : LowestFree(f) /\ fd' = [fd EXCEPT ![c] = f]
    BY <1>1 DEF Accept
  <2>2. \A d \in Conns : conn[d] = "open" => fd[d] # f
    BY <2>1 DEF LowestFree, FreeFds
  <2>3. conn' = [conn EXCEPT ![c] = "open"] /\ conn[c] = "new"
    BY <1>1 DEF Accept
  <2> QED
    BY <2>1, <2>2, <2>3 DEF DistinctFds, TypeOK
<1>2. ASSUME NEW c \in Conns, Disconnect(c) PROVE DistinctFds'
  BY <1>2 DEF Disconnect, DistinctFds, TypeOK
<1>3. CASE UNCHANGED <<conn, fd>>
  BY <1>3 DEF DistinctFds
<1>4. ASSUME ~UNCHANGED <<conn, fd>>
      PROVE  \E c \in Conns : Accept(c) \/ Disconnect(c)
  BY <1>4 DEF Next, vars, loopVars, ctxVars, poolVars, histVars, WorkerStep,
    SenderStep, AcceptFails, FinishAccept, Dispatch, FinishErase, WorkerTake,
    WorkerReply, SenderTake, LookupHit, LookupGone, LookupMiss, InsertNext,
    InsertEarly, DrainOne, DrainDone
<1> QED
  BY <1>1, <1>2, <1>3, <1>4

\* The draining senders: a step of any other thread leaves them alone.
Draining == {t \in Senders : senderPc[t] = "drain"}

\* Every step that leaves the next reply in a buffer leaves a sender draining
\* it: an insertion drains before it releases the mutex.
LEMMA DrainStep ==
  ASSUME PlaceInv, NothingLost, DrainPending, [Next]_vars
  PROVE  DrainPending'
<1> USE DEF vars, loopVars, ctxVars, poolVars, histVars
<1>1. /\ senderPc \in [Senders -> {"idle", "lookup", "ready", "drain"}]
      /\ senderTask \in [Senders -> Task \cup {Idle}]
      /\ to_send \in [Conns -> Nat] /\ buffered \in [Conns -> SUBSET Nat]
      /\ is_eof_reach \in [Conns -> BOOLEAN]
  BY DEF PlaceInv, TypeOK
<1>2. \A c \in Conns : Live(c)' => Live(c)
  BY LiveBefore DEF PlaceInv, Live
<1>3. CASE /\ UNCHANGED <<to_send, buffered>>
           /\ \A t \in Draining : t \in Draining' /\ senderTask'[t] = senderTask[t]
  BY <1>2, <1>3 DEF DrainPending, Locked, Draining
<1>4. ASSUME NEW t \in Senders, InsertNext(t) \/ InsertEarly(t)
      PROVE  DrainPending'
  <2> DEFINE s == senderTask[t].s
  <2>1. /\ s \in Conns /\ senderPc[t] = "ready"
        /\ senderPc' = [senderPc EXCEPT ![t] = "drain"]
        /\ UNCHANGED senderTask
    BY <1>4, SenderHasTask DEF InsertNext, InsertEarly, PlaceInv
  <2>2. Locked(s)'
    BY <1>1, <2>1 DEF Locked
  <2>3. \A c \in Conns \ {s} : /\ to_send'[c] = to_send[c]
                              /\ buffered'[c] = buffered[c]
    BY <1>1, <1>4, <2>1 DEF InsertNext, InsertEarly
  <2>4. \A c \in Conns : Locked(c) => Locked(c)'
    BY <1>1, <2>1 DEF Locked
  <2>5. ASSUME NEW c \in Conns, Live(c)', to_send'[c] \in buffered'[c]
        PROVE  Locked(c)'
    <3>1. CASE c = s
      BY <1>1, <2>1, <3>1 DEF Locked
    <3>2. CASE c # s
      BY <1>2, <2>3, <2>4, <2>5, <3>2 DEF DrainPending
    <3> QED
      BY <3>1, <3>2
  <2> QED
    BY <2>5 DEF DrainPending
<1>5. ASSUME NEW t \in Senders, DrainOne(t) PROVE DrainPending'
  <2> DEFINE s == senderTask[t].s
  <2>1. s \in Conns /\ senderPc[t] = "drain"
    BY <1>5, SenderHasTask DEF DrainOne, PlaceInv
  <2>2. CASE /\ UNCHANGED <<senderPc, senderTask>>
             /\ buffered' = [buffered EXCEPT ![s] = @ \ {to_send[s]}]
             /\ to_send' = [to_send EXCEPT ![s] = @ + 1]
    <3>1. \A c \in Conns : Locked(c)' <=> Locked(c)
      BY <2>2 DEF Locked
    <3>2. Locked(s)
      BY <2>1 DEF Locked
    <3>3. \A c \in Conns \ {s} : /\ to_send'[c] = to_send[c]
                                /\ buffered'[c] = buffered[c]
      BY <1>1, <2>1, <2>2
    <3> QED
      BY <1>2, <3>1, <3>2, <3>3 DEF DrainPending
  <2>3. CASE /\ is_eof_reach' = [is_eof_reach EXCEPT ![s] = TRUE]
             /\ Finish(t)
             /\ UNCHANGED <<buffered, to_send>>
    <3>1. \A c \in Conns : Live(c)' => c # s
      BY <1>1, <2>3 DEF Live
    <3>2. \A c \in Conns \ {s} : Locked(c) => Locked(c)'
      BY <1>1, <2>3 DEF Locked, Finish
    <3> QED
      BY <1>2, <2>3, <3>1, <3>2 DEF DrainPending
  <2> QED
    BY <1>5, <2>2, <2>3 DEF DrainOne
<1>6. ASSUME NEW t \in Senders, DrainDone(t) PROVE DrainPending'
  <2> DEFINE s == senderTask[t].s
  <2>1. /\ s \in Conns /\ senderPc[t] = "drain" /\ ~FirstIsNext(s)
        /\ Finish(t) /\ UNCHANGED <<to_send, buffered>>
    BY <1>6, SenderHasTask DEF DrainDone, PlaceInv
  <2>2. ASSUME Live(s) PROVE to_send[s] \notin buffered[s]
    <3>1. ASSUME NEW id \in buffered[s] PROVE to_send[s] <= id
      <4>1. [s |-> s, id |-> id] \in Unsent
        BY <1>1, <2>1 DEF Unsent, InBuffer
      <4> QED
        BY <1>1, <2>1, <2>2, <4>1 DEF NothingLost
    <3> QED
      BY <2>1, <3>1 DEF FirstIsNext
  <2>3. \A c \in Conns \ {s} : Locked(c) => Locked(c)'
    BY <1>1, <2>1 DEF Locked, Finish
  <2> QED
    BY <1>2, <2>1, <2>2, <2>3 DEF DrainPending
<1>7. ASSUME NEW t \in Senders,
             \/ SenderTake(t) \/ LookupHit(t) \/ LookupGone(t) \/ LookupMiss(t)
      PROVE  /\ UNCHANGED <<to_send, buffered>>
             /\ \A u \in Draining : u \in Draining' /\ senderTask'[u] = senderTask[u]
  <2>1. t \notin Draining
    BY <1>7 DEF Draining, SenderTake, LookupHit, LookupGone, LookupMiss
  <2>2. \A u \in Senders \ {t} : /\ senderPc'[u] = senderPc[u]
                                /\ senderTask'[u] = senderTask[u]
    BY <1>1, <1>7 DEF SenderTake, LookupHit, LookupGone, LookupMiss, Finish
  <2>3. UNCHANGED <<to_send, buffered>>
    BY <1>7 DEF SenderTake, LookupHit, LookupGone, LookupMiss
  <2> QED
    BY <2>1, <2>2, <2>3 DEF Draining
<1>8. ASSUME \/ \E c \in Conns : Accept(c) \/ Dispatch(c) \/ Disconnect(c)
             \/ AcceptFails \/ FinishAccept \/ FinishErase
             \/ \E w \in Workers : WorkerStep(w)
             \/ UNCHANGED vars
      PROVE  UNCHANGED <<to_send, buffered, senderPc, senderTask>>
  BY <1>8 DEF Accept, Dispatch, Disconnect, AcceptFails, FinishAccept,
    FinishErase, WorkerStep, WorkerTake, WorkerReply
<1>9. CASE UNCHANGED <<to_send, buffered, senderPc, senderTask>>
  BY <1>3, <1>9 DEF Draining
<1> QED
  BY <1>3, <1>4, <1>5, <1>6, <1>7, <1>8, <1>9 DEF Next, SenderStep

\* The inductive invariant holds initially.
LEMMA InitInv == Init => IInv
<1> SUFFICES ASSUME Init PROVE IInv
  OBVIOUS
<1>1. TypeOK
  BY InitType
<1>2. LoopInv /\ DistinctFds /\ SentBelow
  BY DEF Init, LoopInv, DistinctFds, SentBelow, NoUpdate
<1>3. /\ InProc = {} /\ InWork = {} /\ InSend = {}
      /\ Inserting = {} /\ InSender = {} /\ InBuffer = {}
  BY DEF Init, InProc, InWork, InSend, Inserting, InSender, InBuffer
<1>4. OncePerStage /\ OneStage
  BY <1>3 DEF Init, OncePerStage, OneStage, NoDuplicates
<1>5. NumbersIssued /\ NothingLost
  BY <1>3 DEF Init, NumbersIssued, NothingLost, Unsent
<1>6. DrainPending
  BY DEF Init, DrainPending
<1> QED
  BY <1>1, <1>2, <1>4, <1>5, <1>6 DEF IInv

\* RepliesInOrder rides along: SentBelow is preserved only together with it.
LEMMA InvStep == IInv /\ RepliesInOrder /\ [Next]_vars => IInv' /\ RepliesInOrder'
<1> SUFFICES ASSUME IInv, RepliesInOrder, [Next]_vars
             PROVE  IInv' /\ RepliesInOrder'
  OBVIOUS
<1>1. TypeOK /\ PlaceInv /\ StreamInv
  BY DEF IInv, PlaceInv, StreamInv
<1>2. TypeOK' /\ SentBelow' /\ RepliesInOrder'
  BY <1>1, StreamStep DEF StreamInv
<1>3. LoopInv' /\ DistinctFds'
  BY <1>1, LoopStep, FdsStep DEF IInv
<1>4. OncePerStage' /\ OneStage' /\ NumbersIssued' /\ NothingLost' /\ DrainPending'
  BY <1>1, UnsentSteps, NumbersStep, NothingLostStep, DrainStep DEF IInv
<1> QED
  BY <1>2, <1>3, <1>4 DEF IInv

\* The inductive invariant holds of every reachable state.
THEOREM Inductive == Spec => []IInv
<1>1. Init => RepliesInOrder
  BY DEF Init, RepliesInOrder
<1> QED
  BY <1>1, InitInv, InvStep, PTL DEF Spec

\* No reply is left behind: whenever both pools are at rest, a session whose
\* connection has not ended, and of which no lookup raced with an update of
\* the map, has passed all its commands by, whatever the number of threads, the
\* order in which they finished and what write() took of each reply
\* (sender_worker, insert_new_response, send_first_response).
THEOREM NoReplyLeftBehind == Spec => []IdleMeansAnswered
<1>1. IInv => IdleMeansAnswered
  <2> SUFFICES ASSUME IInv, PoolsIdle, NEW c \in Conns, Live(c)
               PROVE  to_send[c] = last_command_id[c]
    BY DEF IdleMeansAnswered
  <2>1. InProc = {} /\ InWork = {} /\ InSend = {} /\ InSender = {}
    BY DEF PoolsIdle, InProc, InWork, InSend, Inserting, InSender
  <2>2. to_send[c] \in Nat /\ last_command_id[c] \in Nat
        /\ to_send[c] <= last_command_id[c]
    BY DEF IInv, TypeOK, NumbersIssued
  <2>3. ASSUME to_send[c] < last_command_id[c] PROVE FALSE
    <3>1. [s |-> c, id |-> to_send[c]] \in Unsent
      BY <2>2, <2>3 DEF IInv, NothingLost
    <3>2. [s |-> c, id |-> to_send[c]] \in Task
      BY <2>2 DEF Task
    <3>3. to_send[c] \in buffered[c]
      BY <2>1, <3>1, <3>2, BufferMembers DEF Unsent, IInv
    <3>4. Locked(c)
      BY <3>3 DEF IInv, DrainPending
    <3> QED
      BY <3>4 DEF Locked, PoolsIdle
  <2> QED
    BY <2>2, <2>3
<1> QED
  BY <1>1, Inductive, PTL

(***************************************************************************)
(* Isolation of sessions.                                                  *)
(***************************************************************************)

\* A sender that writes works for a session that has issued a command.
LEMMA WriterHasIssued ==
  ASSUME IInv, NEW t \in Senders, InsertNext(t) \/ DrainOne(t)
  PROVE  /\ senderTask[t].s \in Conns
         /\ conn[senderTask[t].s] # "new"
         /\ to_send[senderTask[t].s] \in Nat
         /\ to_send[senderTask[t].s] < last_command_id[senderTask[t].s]
<1> DEFINE s == senderTask[t].s
<1>1. /\ s \in Conns /\ senderTask[t] \in Task
      /\ to_send \in [Conns -> Nat] /\ last_command_id \in [Conns -> Nat]
  BY SenderHasTask DEF InsertNext, DrainOne, IInv, TypeOK
<1>2. to_send[s] < last_command_id[s]
  <2>1. CASE InsertNext(t)
    BY <2>1, InsertNextMoves DEF IInv, PlaceInv, NumbersIssued, Unsent
  <2>2. CASE DrainOne(t)
    <3>1. [s |-> s, id |-> to_send[s]] \in Unsent
      BY <1>1, <2>2, DrainOneMoves DEF IInv, PlaceInv, Unsent, InBuffer
    <3> QED
      BY <1>1, <3>1 DEF IInv, NumbersIssued
  <2> QED
    BY <2>1, <2>2
<1> QED
  BY <1>1, <1>2 DEF IInv, LoopInv

\* A write that goes astray is one of a session whose connection is closed, and
\* closed connections stay closed.
LEMMA IsolationStep ==
  IInv /\ OpenSessionsIsolated /\ [Next]_vars => OpenSessionsIsolated'
<1> SUFFICES ASSUME IInv, OpenSessionsIsolated, [Next]_vars
             PROVE  OpenSessionsIsolated'
  OBVIOUS
<1> USE DEF vars, loopVars, ctxVars, poolVars, histVars
<1>1. /\ conn \in [Conns -> {"new", "open", "closed"}]
      /\ foreign \in [Conns -> SUBSET Task]
      /\ \A c \in Conns : \A k \in foreign[c] : k.s \in Conns
  BY DEF IInv, TypeOK, Task
<1>2. CASE UNCHANGED foreign /\ \A c \in Conns : conn[c] = "closed" => conn'[c] = "closed"
  BY <1>1, <1>2 DEF OpenSessionsIsolated
<1>3. ASSUME NEW t \in Senders, InsertNext(t) \/ DrainOne(t)
      PROVE  OpenSessionsIsolated'
  <2> DEFINE s == senderTask[t].s
  <2>1. s \in Conns /\ conn[s] # "new" /\ UNCHANGED conn
    BY <1>3, WriterHasIssued DEF InsertNext, DrainOne
  <2>2. PICK id, result : Write(s, id, result)
    BY <1>3 DEF InsertNext, DrainOne
  <2>3. ASSUME NEW c \in Holder(s) \ {s},
               foreign' = [foreign EXCEPT ![c] = @ \cup {[s |-> s, id |-> id]}]
        PROVE  OpenSessionsIsolated'
    <3>1. conn[s] = "closed"
      BY <1>1, <2>1, <2>3 DEF Holder, IInv, DistinctFds
    <3>2. ASSUME NEW d \in Conns, NEW k \in foreign'[d]
          PROVE  k \in foreign[d] \/ k.s = s
      BY <1>1, <2>3, <3>2 DEF Holder
    <3> QED
      BY <2>1, <3>1, <3>2 DEF OpenSessionsIsolated
  <2>4. CASE UNCHANGED foreign
    BY <1>2, <2>1, <2>4
  <2> QED
    BY <2>2, <2>3, <2>4 DEF Write
<1>4. ASSUME NEW c \in Conns, Accept(c) \/ Disconnect(c)
      PROVE  UNCHANGED foreign /\ \A d \in Conns : conn[d] = "closed" => conn'[d] = "closed"
  BY <1>1, <1>4 DEF Accept, Disconnect
<1>5. ASSUME ~UNCHANGED <<foreign, conn>>
      PROVE  \/ \E t \in Senders : InsertNext(t) \/ DrainOne(t)
             \/ \E c \in Conns : Accept(c) \/ Disconnect(c)
  BY <1>5 DEF Next, WorkerStep, SenderStep, AcceptFails, FinishAccept, Dispatch,
    FinishErase, WorkerTake, WorkerReply, SenderTake, LookupHit, LookupGone,
    LookupMiss, InsertEarly, DrainDone
<1> QED
  BY <1>2, <1>3, <1>4, <1>5

\* Two sessions that are both open never receive each other's replies,
\* although SessionCtx addresses its client by a bare descriptor number: a
\* reply can only stray after the connection it was meant for has been closed.
THEOREM IsolationHolds == Spec => []OpenSessionsIsolated
<1>1. Init => OpenSessionsIsolated
  BY DEF Init, OpenSessionsIsolated
<1> QED
  BY <1>1, Inductive, IsolationStep, PTL DEF Spec

(***************************************************************************)
(* With sockets that take every reply whole: the exact stream, and the     *)
(* implementation of OrderedReplies.                                       *)
(***************************************************************************)

\* A write on behalf of an open session reaches its client, and only it.
LEMMA WholeWrite ==
  ASSUME IInv, WriteResults = {"all"}, NEW s \in Conns, NEW id,
         NEW result \in WriteResults \cup {"error"}, Write(s, id, result)
  PROVE  /\ conn[s] = "open" =>
              /\ result = "all"
              /\ recv' = [recv EXCEPT ![s] = Append(@, [id |-> id, whole |-> TRUE])]
         /\ conn[s] # "open" => UNCHANGED recv
         /\ \/ UNCHANGED recv
            \/ conn[s] = "open"
<1>1. s \in Holder(s) <=> conn[s] = "open"
  BY DEF Holder
<1>2. conn[s] = "open" => Holder(s) = {s}
  BY DEF Holder, IInv, DistinctFds
<1>3. (result = "all") = TRUE \/ result = "error"
  OBVIOUS
<1>4. CASE conn[s] = "open"
  BY <1>1, <1>2, <1>3, <1>4 DEF Write
<1>5. CASE conn[s] # "open"
  BY <1>1, <1>5 DEF Write
<1> QED
  BY <1>4, <1>5

\* A step of the sender pool that writes: an open session sends its next reply,
\* and a session that is not open sends nothing to its own client.
LEMMA WholeWriteStep ==
  ASSUME IInv, WriteResults = {"all"}, NEW t \in Senders,
         InsertNext(t) \/ DrainOne(t)
  PROVE  LET s == senderTask[t].s IN
         /\ UNCHANGED <<conn, last_command_id>>
         /\ to_send' = [to_send EXCEPT ![s] = @ + 1]
         /\ IF conn[s] = "open"
            THEN recv' = [recv EXCEPT ![s] =
                            Append(@, [id |-> to_send[s], whole |-> TRUE])]
            ELSE UNCHANGED recv
<1> DEFINE s == senderTask[t].s
<1>1. s \in Conns
  BY WriterHasIssued
<1>2. UNCHANGED <<conn, last_command_id>>
  BY DEF InsertNext, DrainOne, loopVars
<1>3. PICK result \in WriteResults \cup {"error"} :
        /\ Write(s, to_send[s], result)
        /\ \/ to_send' = [to_send EXCEPT ![s] = @ + 1]
           \/ ~ReplyOk(result)
  <2>1. CASE InsertNext(t)
    BY <2>1 DEF InsertNext, IsNext
  <2>2. CASE DrainOne(t)
    BY <2>2 DEF DrainOne
  <2> QED
    BY <2>1, <2>2
<1>4. ReplyOk(result)
  BY DEF ReplyOk
<1>5. IF conn[s] = "open"
      THEN recv' = [recv EXCEPT ![s] = Append(@, [id |-> to_send[s], whole |-> TRUE])]
      ELSE UNCHANGED recv
  BY <1>1, <1>3, WholeWrite
<1> QED
  BY <1>2, <1>3, <1>4, <1>5

\* The steps that write nothing.
LEMMA RecvUnchanged ==
  ASSUME [Next]_vars, ~\E t \in Senders : InsertNext(t) \/ DrainOne(t)
  PROVE  UNCHANGED <<recv, to_send>>
BY DEF Next, vars, loopVars, ctxVars, poolVars, histVars, WorkerStep,
  SenderStep, Accept, AcceptFails, FinishAccept, Dispatch, Disconnect,
  FinishErase, WorkerTake, WorkerReply, SenderTake, LookupHit, LookupGone,
  LookupMiss, InsertEarly, DrainDone

\* A session that has not been accepted has received and passed nothing.
FreshInv ==
  \A c \in Conns : conn[c] = "new" => recv[c] = << >> /\ to_send[c] = 0

\* Every step leaves sessions that are not accepted yet without replies.
LEMMA FreshStep == IInv /\ FreshInv /\ [Next]_vars => FreshInv'
<1> SUFFICES ASSUME IInv, FreshInv, [Next]_vars PROVE FreshInv'
  OBVIOUS
<1>1. \A c \in Conns : conn'[c] = "new" => conn[c] = "new"
  BY DEF IInv, TypeOK, Next, vars, loopVars, ctxVars, poolVars, histVars, WorkerStep,
    SenderStep, Accept, AcceptFails, FinishAccept, Dispatch, Disconnect,
    FinishErase, WorkerTake, WorkerReply, SenderTake, LookupHit, LookupGone,
    LookupMiss, InsertNext, InsertEarly, DrainOne, DrainDone
<1>2. ASSUME NEW t \in Senders, InsertNext(t) \/ DrainOne(t)
      PROVE  FreshInv'
  <2> DEFINE s == senderTask[t].s
  <2>1. s \in Conns /\ conn[s] # "new"
    BY <1>2, WriterHasIssued
  <2>2. PICK id, result : Write(s, id, result)
    BY <1>2 DEF InsertNext, DrainOne
  <2>3. \A c \in Conns \ {s} : recv'[c] = recv[c]
    BY <2>1, <2>2 DEF Write, IInv, TypeOK
  <2>4. \A c \in Conns \ {s} : to_send'[c] = to_send[c]
    BY <1>2, <2>1 DEF InsertNext, DrainOne, IInv, TypeOK
  <2> QED
    BY <1>1, <2>1, <2>3, <2>4 DEF FreshInv
<1>3. CASE UNCHANGED <<recv, to_send>>
  BY <1>1, <1>3 DEF FreshInv
<1> QED
  BY <1>2, <1>3, RecvUnchanged

\* The first n replies of a session, each whole.
Replies(n) == [i \in 1 .. n |-> [id |-> i - 1, whole |-> TRUE]]

\* The stream of the first n replies, and of one more.
LEMMA NextReply ==
  ASSUME NEW n \in Nat
  PROVE  /\ Len(Replies(n)) = n
         /\ Append(Replies(n), [id |-> n, whole |-> TRUE]) = Replies(n + 1)
<1>1. /\ Replies(n) \in Seq([id : Int, whole : BOOLEAN])
      /\ Replies(n + 1) \in Seq([id : Int, whole : BOOLEAN])
      /\ Len(Replies(n)) = n /\ Len(Replies(n + 1)) = n + 1
  BY DEF Replies
<1>2. [id |-> n, whole |-> TRUE] \in [id : Int, whole : BOOLEAN]
  OBVIOUS
<1>3. /\ Append(Replies(n), [id |-> n, whole |-> TRUE]) \in Seq([id : Int, whole : BOOLEAN])
      /\ Len(Append(Replies(n), [id |-> n, whole |-> TRUE])) = n + 1
  BY <1>1, <1>2
<1>4. ASSUME NEW i \in 1 .. n + 1
      PROVE  Append(Replies(n), [id |-> n, whole |-> TRUE])[i] = Replies(n + 1)[i]
  <2>1. CASE i \in 1 .. n
    <3>1. Append(Replies(n), [id |-> n, whole |-> TRUE])[i] = Replies(n)[i]
      BY <1>1, <1>2, <2>1
    <3> QED
      BY <2>1, <3>1 DEF Replies
  <2>2. CASE i = n + 1
    <3>1. Append(Replies(n), [id |-> n, whole |-> TRUE])[i] = [id |-> n, whole |-> TRUE]
      BY <1>1, <1>2, <2>2
    <3> QED
      BY <2>2, <3>1 DEF Replies
  <2>3. i \in 1 .. n \/ i = n + 1
    OBVIOUS
  <2> QED
    BY <2>1, <2>2, <2>3, Zenon
<1> QED
  BY <1>1, <1>3, <1>4, SeqEqual

\* Every step keeps the stream of an open connection exact.
LEMMA ExactStep ==
  IInv /\ FreshInv /\ ExactStream /\ [Next]_vars => ExactStream'
<1> SUFFICES ASSUME IInv, FreshInv, ExactStream, [Next]_vars,
                    WriteResults = {"all"}, NEW c \in Conns, conn'[c] = "open"
             PROVE  recv'[c] = Replies(to_send'[c])
  BY DEF ExactStream, Replies
<1>1. to_send \in [Conns -> Nat] /\ recv \in [Conns -> Seq([id : Nat, whole : BOOLEAN])]
  BY DEF IInv, TypeOK
<1>2. conn[c] = "open" => recv[c] = Replies(to_send[c])
  BY DEF ExactStream, Replies
<1>3. ASSUME NEW t \in Senders, InsertNext(t) \/ DrainOne(t)
      PROVE  recv'[c] = Replies(to_send'[c])
  <2> DEFINE s == senderTask[t].s
  <2>1. /\ UNCHANGED conn /\ s \in Conns
        /\ to_send' = [to_send EXCEPT ![s] = @ + 1]
        /\ conn[s] = "open" => recv' = [recv EXCEPT ![s] =
              Append(@, [id |-> to_send[s], whole |-> TRUE])]
        /\ conn[s] # "open" => UNCHANGED recv
    BY <1>3, WholeWriteStep, WriterHasIssued
  <2>2. CASE c = s
    BY <1>1, <1>2, <2>1, <2>2, NextReply
  <2>3. CASE c # s
    BY <1>1, <1>2, <2>1, <2>3
  <2> QED
    BY <2>2, <2>3
<1>4. CASE UNCHANGED <<recv, to_send>>
  <2>1. CASE conn[c] = "open"
    BY <1>2, <1>4, <2>1
  <2>2. CASE conn[c] # "open"
    <3>1. conn[c] = "new"
      BY <2>2 DEF IInv, TypeOK, Next, vars, loopVars, ctxVars, poolVars, histVars,
        WorkerStep, SenderStep, Accept, AcceptFails, FinishAccept, Dispatch,
        Disconnect, FinishErase, WorkerTake, WorkerReply, SenderTake, LookupHit,
        LookupGone, LookupMiss, InsertNext, InsertEarly, DrainOne, DrainDone
    <3>2. recv[c] = << >> /\ to_send[c] = 0
      BY <3>1 DEF FreshInv
    <3>3. Replies(0) = << >>
      BY DEF Replies
    <3> QED
      BY <1>4, <3>2, <3>3
  <2> QED
    BY <2>1, <2>2
<1> QED
  BY <1>3, <1>4, RecvUnchanged

\* As long as sockets take every reply whole, an open connection has received
\* exactly the replies its session has passed: nothing missing, nothing twice,
\* nothing out of place (insert_new_response, send_first_response, reply).
THEOREM ExactStreamHolds == Spec => []ExactStream
<1>1. Init => FreshInv /\ ExactStream
  BY DEF Init, FreshInv, ExactStream
<1> QED
  BY <1>1, Inductive, FreshStep, ExactStep, PTL DEF Spec

\* Every step of the pipeline is a step of OrderedReplies or leaves its
\* variables alone.
LEMMA RefinementStep ==
  ASSUME IInv, FreshInv, ExactStream, [Next]_vars, WriteResults = {"all"}
  PROVE  [Abstract!Next]_(Abstract!vars)
<1> USE DEF vars, loopVars, ctxVars, poolVars, histVars, Abstract!vars, Abstract!Next
<1>1. ASSUME NEW c \in Conns, Accept(c) PROVE Abstract!Open(c)
  BY <1>1 DEF Accept, Abstract!Open
<1>2. ASSUME NEW c \in Conns, Dispatch(c) PROVE Abstract!Issue(c)
  BY <1>2 DEF Dispatch, Abstract!Issue, IInv, LoopInv
<1>3. ASSUME NEW c \in Conns, Disconnect(c) PROVE Abstract!Close(c)
  BY <1>3 DEF Disconnect, Abstract!Close, IInv, LoopInv
<1>4. ASSUME NEW t \in Senders, InsertNext(t) \/ DrainOne(t)
      PROVE  \/ \E c \in Conns : Abstract!Answer(c)
             \/ UNCHANGED <<conn, last_command_id, recv>>
  <2> DEFINE s == senderTask[t].s
  <2>1. /\ UNCHANGED <<conn, last_command_id>>
        /\ s \in Conns /\ to_send[s] \in Nat /\ to_send[s] < last_command_id[s]
        /\ conn[s] = "open" => recv' = [recv EXCEPT ![s] =
              Append(@, [id |-> to_send[s], whole |-> TRUE])]
        /\ conn[s] # "open" => UNCHANGED recv
    BY <1>4, WholeWriteStep, WriterHasIssued
  <2>2. CASE conn[s] = "open"
    <3>1. recv[s] = Replies(to_send[s])
      BY <2>1, <2>2 DEF ExactStream, Replies
    <3>2. Len(recv[s]) = to_send[s]
      BY <2>1, <3>1, NextReply
    <3>3. Abstract!Answer(s)
      BY <2>1, <2>2, <3>2 DEF Abstract!Answer
    <3> QED
      BY <2>1, <3>3
  <2>3. CASE conn[s] # "open"
    BY <2>1, <2>3
  <2> QED
    BY <2>2, <2>3
<1>5. ASSUME ~UNCHANGED <<conn, last_command_id, recv>>
      PROVE  \/ \E c \in Conns : Accept(c) \/ Dispatch(c) \/ Disconnect(c)
             \/ \E t \in Senders : InsertNext(t) \/ DrainOne(t)
  BY <1>5 DEF Next, WorkerStep, SenderStep, AcceptFails, FinishAccept,
    FinishErase, WorkerTake, WorkerReply, SenderTake, LookupHit, LookupGone,
    LookupMiss, InsertEarly, DrainDone
<1> QED
  BY <1>1, <1>2, <1>3, <1>4, <1>5

\* The whole pipeline, whatever its numbers of connections and threads, is an
\* implementation of the ordered stream of replies of OrderedReplies as long
\* as sockets take every reply whole.
THEOREM PipelineImplementsOrderedReplies ==
  ASSUME WriteResults = {"all"}
  PROVE  Spec => ImplementsOrderedReplies
<1>1. Init => Abstract!Init
  BY DEF Init, Abstract!Init
<1>2. Init => FreshInv
  BY DEF Init, FreshInv
<1>3. IInv /\ FreshInv /\ ExactStream /\ [Next]_vars => [Abstract!Next]_(Abstract!vars)
  BY RefinementStep
<1> QED
  BY <1>1, <1>2, <1>3, Inductive, FreshStep, ExactStreamHolds, PTL
  DEF Spec, ImplementsOrderedReplies, Abstract!Spec
=============================================================================
