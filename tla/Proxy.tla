-------------------------------- MODULE Proxy --------------------------------
(***************************************************************************)
(* The proxy as a whole: the ReplyPipeline, which numbers requests and puts *)
(* replies in order, and the Handlers, which say what a worker does with a *)
(* request.  Variables of the two that have the same name are the same;    *)
(* what the composition adds is the content of requests and replies on     *)
(* their way through the pools and the reorder buffers.                    *)
(***************************************************************************)
EXTENDS Commands, FiniteSets, TLC

CONSTANTS
  Conns, Workers, Senders, Fds, SetSize, WriteResults, MaxCommands, NoConn,
  Keys, NumTrees, Faults,
  Requests,     \* what a client may ask, as the decoder delivers it
  MaxRequests   \* bound: requests of all clients together

VARIABLES
  conn, watched, updating, last_command_id, ctx_map, fd, is_eof_reach, to_send,
  buffered, procQueue, worker, sendQueue, senderPc, senderTask, recv, foreign,
  missed,                                             \* of ReplyPipeline
  script, taken, job, ptree_counter, store, expiring, applied, replies,
                                                      \* of Handlers
  asked,               \* the task of each request, in the order of script
  buffered_responses,  \* SessionCtx.buffered_responses: replies by number
  got,                 \* history: the replies of its own a client was sent
  waits                \* history: requests asked when all before were answered

P == INSTANCE ReplyPipeline
H == INSTANCE Handlers WITH Scripts <- {<< >>}

pipeVars == <<conn, watched, updating, last_command_id, ctx_map, fd, is_eof_reach,
              to_send, buffered, procQueue, worker, sendQueue, senderPc, senderTask,
              recv, foreign, missed>>
handlerVars == <<script, taken, job, ptree_counter, store, expiring, applied, replies>>
ownVars == <<asked, buffered_responses, got, waits>>
vars == <<pipeVars, handlerVars, ownVars>>

\* The number in script of a task; the reply a task carries after its worker.
NumberOf(task) == CHOOSE n \in DOMAIN asked : asked[n] = task
Response(task) == replies[NumberOf(task)]
-----------------------------------------------------------------------------
(* The event loop.                                                         *)

\* The decoder hands request r to the handler of the connection.
Dispatch(c, r) ==
  /\ Len(script) < MaxRequests
  /\ P!Dispatch(c)
  /\ script' = Append(script, r)
  /\ asked' = Append(asked, [s |-> c, id |-> last_command_id[c]])
  /\ waits' = IF Len(got[c]) = last_command_id[c]
              THEN waits \cup {Len(script) + 1} ELSE waits
  /\ UNCHANGED <<taken, job, ptree_counter, store, expiring, applied, replies,
                 buffered_responses, got>>

LoopStep ==
  /\ \/ \E c \in Conns : P!Accept(c) \/ P!Disconnect(c)
     \/ P!AcceptFails \/ P!FinishAccept \/ P!FinishErase
  /\ UNCHANGED <<handlerVars, ownVars>>
-----------------------------------------------------------------------------
(* The workers: processer_worker calls the handler of the command and then *)
(* send_reply.                                                             *)

Begin(w) == P!WorkerTake(w) /\ H!Take(w) /\ UNCHANGED ownVars

Work(w) ==
  /\ H!CallReturns(w) \/ H!CallThrows(w) \/ H!CallFails(w)
  /\ UNCHANGED <<pipeVars, ownVars>>

\* Mutant: the reply is sent off, empty, before the handler is done.
SendReplyAtOnce(w) ==
  /\ P!WorkerReply(w)
  /\ IF NumberOf(worker[w]) \in DOMAIN replies THEN UNCHANGED replies
     ELSE H!Reply(NumberOf(worker[w]), << >>)
  /\ UNCHANGED <<script, taken, job, ptree_counter, store, expiring, applied, ownVars>>

SendReply(w) ==
  /\ P!WorkerReply(w)
  /\ NumberOf(worker[w]) \in DOMAIN replies
  /\ UNCHANGED <<handlerVars, ownVars>>

WorkerStep(w) == Begin(w) \/ Work(w) \/ SendReply(w)
-----------------------------------------------------------------------------
(* The senders.                                                            *)

\* What was written reached the client, unless the descriptor was another's.
Sent(s, response) ==
  got' = IF recv' = recv THEN got ELSE [got EXCEPT ![s] = Append(@, response)]

InsertNext(t) ==
  /\ P!InsertNext(t)
  /\ Sent(senderTask[t].s, Response(senderTask[t]))
  /\ UNCHANGED <<handlerVars, asked, buffered_responses, waits>>

InsertEarly(t) ==
  LET s == senderTask[t].s  id == senderTask[t].id IN
  /\ P!InsertEarly(t)
  /\ buffered_responses' =
       [buffered_responses EXCEPT ![s] = [i \in buffered'[s] |->
          IF i = id THEN Response(senderTask[t]) ELSE buffered_responses[s][i]]]
  /\ UNCHANGED <<handlerVars, asked, got, waits>>

\* Mutant: the drain writes the reply its own task brought.
DrainOwn(t) ==
  /\ P!DrainOne(t)
  /\ Sent(senderTask[t].s, Response(senderTask[t]))
  /\ UNCHANGED <<handlerVars, asked, buffered_responses, waits>>

DrainOne(t) ==
  LET s == senderTask[t].s IN
  /\ P!DrainOne(t)
  /\ Sent(s, buffered_responses[s][to_send[s]])
  /\ buffered_responses' =
       [buffered_responses EXCEPT ![s] =
          [id \in buffered'[s] |-> buffered_responses[s][id]]]
  /\ UNCHANGED <<handlerVars, asked, waits>>

SenderStep(t) ==
  \/ InsertNext(t) \/ InsertEarly(t) \/ DrainOne(t)
  \/ /\ \/ P!SenderTake(t) \/ P!DrainDone(t)
        \/ P!LookupHit(t) \/ P!LookupGone(t) \/ P!LookupMiss(t)
     /\ UNCHANGED <<handlerVars, ownVars>>
\* External: a key's time to live is over.
Expire(k) == H!Expire(k) /\ UNCHANGED <<pipeVars, ownVars>>
-----------------------------------------------------------------------------
Init ==
  /\ P!Init /\ H!Init
  /\ asked = << >>
  /\ buffered_responses = [c \in Conns |-> << >>]
  /\ got = [c \in Conns |-> << >>]
  /\ waits = {}

Next ==
  \/ \E c \in Conns, r \in Requests : Dispatch(c, r)
  \/ LoopStep
  \/ \E w \in Workers : WorkerStep(w)
  \/ \E t \in Senders : SenderStep(t)
  \/ \E k \in Keys : Expire(k)

\* As in ReplyPipeline; that a worker gets on means that the cluster's calls
\* return or throw in the end.
Fairness ==
  /\ WF_vars((P!FinishAccept \/ P!FinishErase) /\ UNCHANGED <<handlerVars, ownVars>>)
  /\ \A w \in Workers : WF_vars(WorkerStep(w))
  /\ \A t \in Senders : WF_vars(SenderStep(t))

Spec == Init /\ [][Next]_vars
FairSpec == Spec /\ Fairness
-----------------------------------------------------------------------------
(* Properties.                                                             *)

\* A client that waits for each reply before it asks the next request has its
\* calls applied in the order it asked them, whichever workers take them and
\* whatever else runs: a call of an earlier request never takes effect after
\* one of a request the client asked when it had been told all replies before
\* (processer_worker sends a reply when its calls are over).
WaitingClientsInOrder ==
  \A i, j \in DOMAIN applied :
    i < j /\ asked[applied[i].n].s = asked[applied[j].n].s
          /\ applied[j].n < applied[i].n => applied[i].n \notin waits

\* Every request of a session that stays live is told its reply in the end.
EveryRequestTold ==
  \A c \in Conns : \A k \in 1 .. MaxCommands :
    (k <= last_command_id[c]) ~> (k <= Len(got[c]) \/ ~P!Live(c))

\* The proxy implements the service: seen by a client, requests are asked,
\* worked on and told.  The number in script of its k-th request:
NumberOfAsked(c, k) == NumberOf([s |-> c, id |-> k - 1])

\* What has become of request n.
Progress(n) ==
  LET holders == {w \in Workers : job[w].n = n} IN
  IF n \in DOMAIN replies
  THEN [made |-> 0, read |-> << >>, done |-> TRUE, reply |-> replies[n]]
  ELSE IF holders = {} THEN [made |-> 0, read |-> << >>, done |-> FALSE, reply |-> << >>]
  ELSE LET j == job[CHOOSE w \in holders : TRUE]
       IN [made |-> j.made, read |-> j.read, done |-> FALSE, reply |-> << >>]

askedBy ==
  [c \in Conns |-> [k \in 1 .. last_command_id[c] |-> script[NumberOfAsked(c, k)]]]
progressOf ==
  [c \in Conns |-> [k \in 1 .. last_command_id[c] |-> Progress(NumberOfAsked(c, k))]]

Service == INSTANCE RedisService WITH
  status <- conn, told <- got, asked <- askedBy, progress <- progressOf

ImplementsService == Service!Spec

\* With one connection, whose lookups cannot go wrong, replies are an ordered
\* stream that keeps coming, as OrderedReplies has it.
ImplementsFairReplies == P!ImplementsFairReplies
=============================================================================
