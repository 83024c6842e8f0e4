--------------------------- MODULE ReplyPipeline ---------------------------
(***************************************************************************)
(* The path of a command through the proxy, from the event loop to the     *)
(* client's socket:                                                        *)
(*                                                                         *)
(*   event loop --> pThreadPool --> pSenderThreadPool --> SessionCtx --> fd*)
(*                                                                         *)
(* The event loop (one thread) accepts connections, decodes commands and   *)
(* numbers them per session, and closes connections.  Every command is a   *)
(* task of the processing pool, whose workers call LogCabin and hand the   *)
(* reply to the sender pool.  A sender looks its session up in the map of  *)
(* the SessionManager and gives the reply to the SessionCtx, which writes  *)
(* replies in command order and buffers those that arrive early.           *)
(*                                                                         *)
(* A session is named by the connection it was created for: the session    *)
(* ids of SessionManager are unique as long as the 32-bit counter does not *)
(* come round, so only their uniqueness matters here.  What a command      *)
(* asks and what the reply says are left to module Handlers.               *)
(***************************************************************************)
EXTENDS Integers, Sequences, FiniteSets

CONSTANTS
  Conns,         \* TCP connections; each one is accepted at most once
  Workers,       \* threads of pThreadPool        (main.cc: -t thread_num)
  Senders,       \* threads of pSenderThreadPool  (main.cc: -t thread_num)
  Fds,           \* descriptor numbers the kernel can give to accept()
  SetSize,       \* size of the event loop        (main.cc: -s set_size)
  WriteResults,  \* what write() on an open socket may do, see Write
  MaxCommands,   \* bound: commands read from one connection
  NoConn         \* "no connection"

ASSUME ConstantsAssumption ==
  /\ NoConn \notin Conns
  /\ Fds \subseteq Nat
  /\ SetSize \in Nat
  /\ MaxCommands \in Nat
  /\ WriteResults \subseteq {"all", "some", "zero", "error"}

VARIABLES
  \* the kernel's and the event loop's view of a connection
  conn,             \* "new" (not accepted), "open" or "closed"
  watched,          \* connections whose fd is in the event loop
  updating,         \* the update of ctx_map the event loop is in the middle of
  last_command_id,  \* decode_context.last_command_id
  \* SessionManager and its SessionCtx objects
  ctx_map,          \* sessions that SessionManager.ctx_map holds
  fd,               \* SessionCtx.fd
  is_eof_reach,     \* SessionCtx.is_eof_reach
  to_send,          \* SessionCtx.to_send_command_id
  buffered,         \* keys of SessionCtx.buffered_responses
  \* the two thread pools
  procQueue,        \* tasks of pThreadPool not yet taken
  worker,           \* the task each worker processes
  sendQueue,        \* tasks of pSenderThreadPool not yet taken
  senderPc,         \* where each sender is in sender_worker
  senderTask,       \* the task each sender holds
  \* history: what reached the clients, and which lookups went wrong
  recv,             \* replies of its own session each connection was sent
  foreign,          \* replies of other sessions each connection was sent
  missed            \* sessions of which a lookup that raced found nothing

loopVars == <<conn, watched, updating, last_command_id>>
ctxVars  == <<ctx_map, fd, is_eof_reach, to_send, buffered>>
poolVars == <<procQueue, worker, sendQueue, senderPc, senderTask>>
histVars == <<recv, foreign, missed>>
vars     == <<loopVars, ctxVars, poolVars, histVars>>

Task == [s : Conns, id : Nat]       \* arguments of processer_worker, sender_worker
Idle == [s |-> NoConn, id |-> 0]    \* what a thread without a task holds
NoUpdate == [op |-> "none", s |-> NoConn]
-----------------------------------------------------------------------------
(* The event loop thread.                                                  *)

\* The loop runs one handler at a time; a handler in the middle of a map
\* update keeps the loop busy.
LoopFree == updating = NoUpdate

\* Descriptor numbers not in use; the kernel gives out the lowest.
FreeFds == Fds \ {fd[c] : c \in {d \in Conns : conn[d] = "open"}}
LowestFree(f) == f \in FreeFds /\ \A g \in FreeFds : f <= g

\* Mutant: client_fd keeps its value when accept() fails, and a session is made
\* with the descriptor of an earlier connection.
AcceptKeepsFd(c) ==
  /\ LoopFree
  /\ conn[c] = "new"
  /\ \E f \in Fds :
       /\ LowestFree(f) \/ FreeFds = {}
       /\ fd' = [fd EXCEPT ![c] = f]
  /\ conn' = [conn EXCEPT ![c] = "open"]
  /\ updating' = [op |-> "insert", s |-> c]
  /\ UNCHANGED <<watched, last_command_id, ctx_map, is_eof_reach, to_send,
                 buffered, poolVars, histVars>>

\* accept_tcp_handler up to the insertion of the new SessionCtx: from here on
\* session_map_mutex is held and ctx_map is being modified.
Accept(c) ==
  /\ LoopFree
  /\ conn[c] = "new"
  /\ \E f \in Fds :
       /\ LowestFree(f)
       /\ fd' = [fd EXCEPT ![c] = f]
  /\ conn' = [conn EXCEPT ![c] = "open"]
  /\ updating' = [op |-> "insert", s |-> c]
  /\ UNCHANGED <<watched, last_command_id, ctx_map, is_eof_reach, to_send,
                 buffered, poolVars, histVars>>

\* accept() fails because no descriptor is left.  The result -1 is not
\* tested: a SessionCtx nobody will ever use is inserted all the same.
AcceptFails ==
  /\ LoopFree
  /\ FreeFds = {}
  /\ \E c \in Conns : conn[c] = "new"
  /\ updating' = [op |-> "insert", s |-> NoConn]
  /\ UNCHANGED <<conn, watched, last_command_id, ctxVars, poolVars, histVars>>

\* The insertion is complete; the descriptor is registered with the event
\* loop unless it is too large for it, in which case the handler just returns.
FinishAccept ==
  /\ updating.op = "insert"
  /\ LET c == updating.s IN
       /\ ctx_map' = ctx_map \cup ({c} \ {NoConn})
       /\ watched' = IF c # NoConn /\ fd[c] < SetSize
                     THEN watched \cup {c} ELSE watched
  /\ updating' = NoUpdate
  /\ UNCHANGED <<conn, last_command_id, fd, is_eof_reach, to_send, buffered,
                 poolVars, histVars>>

\* read_from_client has received the last byte of a command: the decoder
\* calls the handler of the connection, which enqueues a processing task.
Dispatch(c) ==
  /\ LoopFree
  /\ c \in watched
  /\ last_command_id[c] < MaxCommands
  /\ procQueue' = Append(procQueue, [s |-> c, id |-> last_command_id[c]])
  /\ last_command_id' = [last_command_id EXCEPT ![c] = @ + 1]
  /\ UNCHANGED <<conn, watched, updating, ctxVars, worker, sendQueue,
                 senderPc, senderTask, histVars>>

\* read_from_client reads end-of-file or an error: the event is deleted and
\* erase_session closes the descriptor, sets the flag, and starts the erase.
Disconnect(c) ==
  /\ LoopFree
  /\ c \in watched
  /\ watched' = watched \ {c}
  /\ conn' = [conn EXCEPT ![c] = "closed"]
  /\ is_eof_reach' = [is_eof_reach EXCEPT ![c] = TRUE]
  /\ updating' = [op |-> "erase", s |-> c]
  /\ UNCHANGED <<last_command_id, ctx_map, fd, to_send, buffered, poolVars,
                 histVars>>

\* The erase is complete.  Senders that already hold the SessionCtx keep it
\* alive through their shared_ptr.
FinishErase ==
  /\ updating.op = "erase"
  /\ ctx_map' = ctx_map \ {updating.s}
  /\ updating' = NoUpdate
  /\ UNCHANGED <<conn, watched, last_command_id, fd, is_eof_reach, to_send,
                 buffered, poolVars, histVars>>
-----------------------------------------------------------------------------
(* The processing pool.                                                    *)

WorkerTake(w) ==
  /\ worker[w] = Idle
  /\ procQueue # << >>
  /\ worker' = [worker EXCEPT ![w] = Head(procQueue)]
  /\ procQueue' = Tail(procQueue)
  /\ UNCHANGED <<loopVars, ctxVars, sendQueue, senderPc, senderTask, histVars>>

\* Mutant: an exception leaves processer_worker and send_reply is not reached.
WorkerReplyLost(w) ==
  /\ worker[w] # Idle
  /\ sendQueue' \in {sendQueue, Append(sendQueue, worker[w])}
  /\ worker' = [worker EXCEPT ![w] = Idle]
  /\ UNCHANGED <<loopVars, ctxVars, procQueue, senderPc, senderTask, histVars>>

\* processer_worker: the LogCabin call has returned or thrown a LogCabin
\* exception; either way there is a reply, and send_reply enqueues it.
WorkerReply(w) ==
  /\ worker[w] # Idle
  /\ sendQueue' = Append(sendQueue, worker[w])
  /\ worker' = [worker EXCEPT ![w] = Idle]
  /\ UNCHANGED <<loopVars, ctxVars, procQueue, senderPc, senderTask, histVars>>
-----------------------------------------------------------------------------
(* The sender pool.  A sender is "idle", has taken a task and is about to  *)
(* look its session up ("lookup"), holds the SessionCtx and waits for its  *)
(* mutex ("ready"), or holds the mutex and sends what is buffered          *)
(* ("drain").                                                              *)

SenderTake(t) ==
  /\ senderPc[t] = "idle"
  /\ sendQueue # << >>
  /\ senderTask' = [senderTask EXCEPT ![t] = Head(sendQueue)]
  /\ senderPc' = [senderPc EXCEPT ![t] = "lookup"]
  /\ sendQueue' = Tail(sendQueue)
  /\ UNCHANGED <<loopVars, ctxVars, procQueue, worker, histVars>>

\* Mutant: the task is not let go.
FinishKeepsTask(t) ==
  /\ senderPc' = [senderPc EXCEPT ![t] = "idle"]
  /\ UNCHANGED senderTask

\* The task of sender t is over.
Finish(t) ==
  /\ senderPc' = [senderPc EXCEPT ![t] = "idle"]
  /\ senderTask' = [senderTask EXCEPT ![t] = Idle]

\* get_ctx finds the session, and its flag is not set: go on to insert.
LookupHit(t) ==
  /\ senderPc[t] = "lookup"
  /\ senderTask[t].s \in ctx_map
  /\ ~is_eof_reach[senderTask[t].s]
  /\ senderPc' = [senderPc EXCEPT ![t] = "ready"]
  /\ UNCHANGED <<loopVars, ctxVars, procQueue, worker, sendQueue, senderTask,
                 histVars>>

\* The session is gone or its connection has ended: the reply is dropped.
LookupGone(t) ==
  /\ senderPc[t] = "lookup"
  /\ senderTask[t].s \in ctx_map => is_eof_reach[senderTask[t].s]
  /\ Finish(t)
  /\ UNCHANGED <<loopVars, ctxVars, procQueue, worker, sendQueue, histVars>>

\* get_ctx takes no lock.  While the event loop modifies the map, find() may
\* walk a tree that is being rebalanced and miss a session that is there.
LookupMiss(t) ==
  /\ senderPc[t] = "lookup"
  /\ senderTask[t].s \in ctx_map
  /\ ~LoopFree
  /\ Finish(t)
  /\ missed' = missed \cup {senderTask[t].s}
  /\ UNCHANGED <<loopVars, ctxVars, procQueue, worker, sendQueue, recv, foreign>>

\* The connection that now has the descriptor number of session s.
Holder(s) == {c \in Conns : conn[c] = "open" /\ fd[c] = fd[s]}

\* reply(): one call of write() on the descriptor.  It may take the whole
\* reply, take some of it (the rest is never sent), return 0, or fail.  The
\* number was that of session s when the SessionCtx was made; it may have
\* been closed since, or closed and given to another connection.
Write(s, id, result) ==
  \/ /\ result \in WriteResults \cap {"all", "some"}
     /\ s \in Holder(s)
     /\ recv' = [recv EXCEPT ![s] = Append(@, [id |-> id, whole |-> result = "all"])]
     /\ UNCHANGED foreign
  \/ /\ result \in WriteResults \cap {"all", "some"}
     /\ \E c \in Holder(s) \ {s} :
          foreign' = [foreign EXCEPT ![c] = @ \cup {[s |-> s, id |-> id]}]
     /\ UNCHANGED recv
  \/ /\ \/ result \in WriteResults \cap {"zero", "error"} /\ Holder(s) # {}
        \/ result = "error" /\ Holder(s) = {}
     /\ UNCHANGED <<recv, foreign>>

\* Mutant: the test of the result is the wrong way round.
ReplyOkInverted(result) == result = "zero"

\* What reply() returns is > 0 unless write() returned 0: a negative result
\* makes sent_size negative, which ends the loop because the comparison with
\* the unsigned length is unsigned, and reply() returns 1.
ReplyOk(result) == result # "zero"

\* Mutants: a reply with a later number counts as the next one; any does.
IsNextOrLater(s, id) == id >= to_send[s]
IsNextAlways(s, id) == TRUE

\* insert_new_response, its test.
IsNext(s, id) == id = to_send[s]

\* response_map_mutex of a session is held by a sender in "drain".
Locked(s) == \E t \in Senders : senderPc[t] = "drain" /\ senderTask[t].s = s

\* insert_new_response, the reply is the next one: write it and advance,
\* whatever became of the write.
InsertNext(t) ==
  LET s == senderTask[t].s  id == senderTask[t].id IN
  /\ senderPc[t] = "ready"
  /\ ~Locked(s)
  /\ IsNext(s, id)
  /\ \E result \in WriteResults \cup {"error"} :
       /\ Write(s, id, result)
       /\ is_eof_reach' = [is_eof_reach EXCEPT ![s] = @ \/ ~ReplyOk(result)]
  /\ to_send' = [to_send EXCEPT ![s] = @ + 1]
  /\ senderPc' = [senderPc EXCEPT ![t] = "drain"]
  /\ UNCHANGED <<loopVars, ctx_map, fd, buffered, procQueue, worker,
                 sendQueue, senderTask, missed>>

\* insert_new_response, an earlier reply is still missing: keep this one.
InsertEarly(t) ==
  LET s == senderTask[t].s  id == senderTask[t].id IN
  /\ senderPc[t] = "ready"
  /\ ~Locked(s)
  /\ ~IsNext(s, id)
  /\ buffered' = [buffered EXCEPT ![s] = @ \cup {id}]
  /\ senderPc' = [senderPc EXCEPT ![t] = "drain"]
  /\ UNCHANGED <<loopVars, ctx_map, fd, is_eof_reach, to_send, procQueue,
                 worker, sendQueue, senderTask, histVars>>

\* Mutant: the loop looks for the id after the one to send next.
FirstIsAfterNext(s) ==
  to_send[s] + 1 \in buffered[s] /\ \A id \in buffered[s] : to_send[s] < id

\* send_first_response, the test of its loop: the first key of the sorted
\* map is the id to send next.
FirstIsNext(s) ==
  to_send[s] \in buffered[s] /\ \A id \in buffered[s] : to_send[s] <= id

\* send_first_response, one turn of its loop: the buffered reply is written
\* and, unless write() returned 0, erased.
DrainOne(t) ==
  LET s == senderTask[t].s IN
  /\ senderPc[t] = "drain"
  /\ FirstIsNext(s)
  /\ \E result \in WriteResults \cup {"error"} :
       /\ Write(s, to_send[s], result)
       /\ \/ /\ ReplyOk(result)
             /\ buffered' = [buffered EXCEPT ![s] = @ \ {to_send[s]}]
             /\ to_send' = [to_send EXCEPT ![s] = @ + 1]
             /\ UNCHANGED <<is_eof_reach, senderPc, senderTask>>
          \/ /\ ~ReplyOk(result)
             /\ is_eof_reach' = [is_eof_reach EXCEPT ![s] = TRUE]
             /\ Finish(t)
             /\ UNCHANGED <<buffered, to_send>>
  /\ UNCHANGED <<loopVars, ctx_map, fd, procQueue, worker, sendQueue, missed>>

\* send_first_response, the loop ends: the mutex is released.
DrainDone(t) ==
  /\ senderPc[t] = "drain"
  /\ ~FirstIsNext(senderTask[t].s)
  /\ Finish(t)
  /\ UNCHANGED <<loopVars, ctxVars, procQueue, worker, sendQueue, histVars>>
-----------------------------------------------------------------------------
Init ==
  /\ conn = [c \in Conns |-> "new"]
  /\ watched = {}
  /\ updating = NoUpdate
  /\ last_command_id = [c \in Conns |-> 0]
  /\ ctx_map = {}
  /\ fd = [c \in Conns |-> -1]
  /\ is_eof_reach = [c \in Conns |-> FALSE]
  /\ to_send = [c \in Conns |-> 0]
  /\ buffered = [c \in Conns |-> {}]
  /\ procQueue = << >>
  /\ worker = [w \in Workers |-> Idle]
  /\ sendQueue = << >>
  /\ senderPc = [t \in Senders |-> "idle"]
  /\ senderTask = [t \in Senders |-> Idle]
  /\ recv = [c \in Conns |-> << >>]
  /\ foreign = [c \in Conns |-> {}]
  /\ missed = {}

WorkerStep(w) == WorkerTake(w) \/ WorkerReply(w)

SenderStep(t) ==
  \/ SenderTake(t)
  \/ LookupHit(t) \/ LookupGone(t) \/ LookupMiss(t)
  \/ InsertNext(t) \/ InsertEarly(t)
  \/ DrainOne(t) \/ DrainDone(t)

Next ==
  \/ \E c \in Conns : Accept(c) \/ Dispatch(c) \/ Disconnect(c)
  \/ AcceptFails \/ FinishAccept \/ FinishErase
  \/ \E w \in Workers : WorkerStep(w)
  \/ \E t \in Senders : SenderStep(t)

\* Every thread keeps running: a handler of the event loop that has begun
\* finishes, and each pool thread takes and completes tasks.  Clients owe
\* nothing: they may never connect, send or disconnect.
Fairness ==
  /\ WF_vars(FinishAccept \/ FinishErase)
  /\ \A w \in Workers : WF_vars(WorkerStep(w))
  /\ \A t \in Senders : WF_vars(SenderStep(t))

Spec == Init /\ [][Next]_vars
FairSpec == Spec /\ Fairness
-----------------------------------------------------------------------------
(* Properties.                                                             *)

\* The shape of the state.  A sender holds a task exactly while it is between
\* taking it and returning from sender_worker.
TypeOK ==
  /\ conn \in [Conns -> {"new", "open", "closed"}]
  /\ watched \subseteq Conns
  /\ updating \in [op : {"none", "insert", "erase"}, s : Conns \cup {NoConn}]
  /\ last_command_id \in [Conns -> Nat]
  /\ ctx_map \subseteq Conns
  /\ fd \in [Conns -> Fds \cup {-1}]
  /\ is_eof_reach \in [Conns -> BOOLEAN]
  /\ to_send \in [Conns -> Nat]
  /\ buffered \in [Conns -> SUBSET Nat]
  /\ procQueue \in Seq(Task)
  /\ worker \in [Workers -> Task \cup {Idle}]
  /\ sendQueue \in Seq(Task)
  /\ senderPc \in [Senders -> {"idle", "lookup", "ready", "drain"}]
  /\ senderTask \in [Senders -> Task \cup {Idle}]
  /\ \A t \in Senders : senderTask[t] = Idle <=> senderPc[t] = "idle"
  /\ recv \in [Conns -> Seq([id : Nat, whole : BOOLEAN])]
  /\ foreign \in [Conns -> SUBSET Task]
  /\ missed \subseteq Conns

\* Whatever the threads do and whatever becomes of the writes, the replies a
\* client receives for its own commands are in the order of the commands and
\* none comes twice (insert_new_response, send_first_response).
RepliesInOrder ==
  \A c \in Conns : \A i, j \in DOMAIN recv[c] :
    i < j => recv[c][i].id < recv[c][j].id

\* No thread of the two pools has anything to do.
PoolsIdle ==
  /\ procQueue = << >> /\ sendQueue = << >>
  /\ \A w \in Workers : worker[w] = Idle
  /\ \A t \in Senders : senderPc[t] = "idle"

\* Sessions the pipeline still owes replies: the connection has not ended and
\* no lookup of theirs went wrong.
Live(c) == ~is_eof_reach[c] /\ c \notin missed

\* When the pools come to rest no reply is left behind in a reorder buffer:
\* every command read from a live session has been passed by, that is, its reply
\* was given to write() in its turn.  What write() took of it is another matter:
\* reply() passes a reply by that was cut short or not taken at all.
IdleMeansAnswered ==
  PoolsIdle => \A c \in Conns : Live(c) => to_send[c] = last_command_id[c]

\* A reply goes to a connection that did not ask for it only after the
\* connection that did has been closed: sessions that are both open never
\* receive each other's replies, although replies are addressed by the bare
\* descriptor number SessionCtx.fd and numbers are reused.
OpenSessionsIsolated ==
  \A c \in Conns : \A k \in foreign[c] : conn[k.s] = "closed"

\* With sockets that take every reply whole, an open connection has received
\* exactly the replies 0 .. to_send - 1.
ExactStream ==
  WriteResults = {"all"} =>
    \A c \in Conns : conn[c] = "open" =>
      recv[c] = [i \in 1 .. to_send[c] |-> [id |-> i - 1, whole |-> TRUE]]

\* Every command of a session that stays live is passed by in the end: it is given
\* to write() in its turn, and no reply waits forever in a queue or in a reorder
\* buffer.  That the client gets it does not follow, as write() may fail or take a
\* part of it; with sockets that take every reply whole it does, by ExactStream.
EveryCommandAnswered ==
  \A c \in Conns : \A id \in 0 .. MaxCommands - 1 :
    (id < last_command_id[c]) ~> (id < to_send[c] \/ ~Live(c))

\* Replies reach nobody but the client that asked: as a client of the "redis
\* compatible" proxy (README.md:3) takes for granted, every reply it reads is
\* one to a command of its own.
NoForeignReply == \A c \in Conns : foreign[c] = {}

\* When the pools come to rest every command read from an open connection
\* whose writes all worked has been answered: pipelining clients of the redis
\* protocol (README.md:3) count replies, and wait for each.
RestingMeansAnswered ==
  PoolsIdle => \A c \in Conns :
    conn[c] = "open" /\ ~is_eof_reach[c] => to_send[c] = last_command_id[c]

\* The pipeline implements the ordered stream of replies.  The stream is that
\* of the connection's own replies: see NoForeignReply for the others.
Abstract == INSTANCE OrderedReplies WITH
  status <- conn, issued <- last_command_id, stream <- recv

ImplementsOrderedReplies == Abstract!Spec
ImplementsFairReplies == Abstract!FairSpec
=============================================================================
