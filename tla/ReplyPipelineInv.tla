-------------------------- MODULE ReplyPipelineInv --------------------------
(***************************************************************************)
(* The inductive invariant of ReplyPipeline, in named parts.  TLC checks   *)
(* it on the instances of MCReplyPipeline; ReplyPipelineProofs proves that *)
(* every step preserves it.                                                *)
(***************************************************************************)
EXTENDS ReplyPipeline

\* Only watched sessions issue commands.  They are open and in the map; a
\* session that has issued a command leaves the map only when it has ended.
LoopInv ==
  /\ \A c \in watched : conn[c] = "open" /\ c \in ctx_map
  /\ updating.op = "insert" /\ updating.s # NoConn => conn[updating.s] = "open"
  /\ updating.op = "erase" =>
       /\ updating.s \in Conns \ watched
       /\ is_eof_reach[updating.s]
  /\ \A c \in Conns : last_command_id[c] > 0 =>
       /\ conn[c] # "new"
       /\ c \in ctx_map \/ is_eof_reach[c]

\* Open connections have descriptors of their own.
DistinctFds ==
  \A c, d \in Conns :
    conn[c] = "open" /\ conn[d] = "open" /\ fd[c] = fd[d] => c = d

\* A client was sent nothing the session has not passed.
SentBelow ==
  \A c \in Conns : \A i \in DOMAIN recv[c] : recv[c][i].id < to_send[c]

\* The tasks at each stage of the pipeline, before their reply is inserted,
\* and those whose reply waits in a reorder buffer.
InProc == {procQueue[i] : i \in DOMAIN procQueue}
InWork == {worker[w] : w \in Workers} \ {Idle}
InSend == {sendQueue[i] : i \in DOMAIN sendQueue}
Inserting == {t \in Senders : senderPc[t] \in {"lookup", "ready"}}
InSender == {senderTask[t] : t \in Inserting}
InBuffer == UNION {{[s |-> c, id |-> i] : i \in buffered[c]} : c \in Conns}
Unsent == InProc \cup InWork \cup InSend \cup InSender \cup InBuffer

\* No two elements of a queue are equal.
NoDuplicates(q) == \A i, j \in DOMAIN q : q[i] = q[j] => i = j

\* A task is in one place of one stage, so it is never processed or answered
\* twice: no stage holds it twice, and no two stages hold it.
OncePerStage ==
  /\ NoDuplicates(procQueue)
  /\ \A v, w \in Workers : worker[v] = worker[w] /\ worker[v] # Idle => v = w
  /\ NoDuplicates(sendQueue)
  /\ \A t, u \in Inserting : senderTask[t] = senderTask[u] => t = u

OneStage ==
  /\ InProc \cap (InWork \cup InSend \cup InSender \cup InBuffer) = {}
  /\ InWork \cap (InSend \cup InSender \cup InBuffer) = {}
  /\ InSend \cap (InSender \cup InBuffer) = {}
  /\ InSender \cap InBuffer = {}

\* Tasks carry numbers the decoder has handed out.
NumbersIssued ==
  /\ \A k \in Unsent : k.id < last_command_id[k.s]
  /\ \A c \in Conns : to_send[c] <= last_command_id[c]

\* Of a live session, what is in the pipeline or in the buffer is exactly
\* what has not been sent.
NothingLost ==
  /\ \A k \in Unsent : Live(k.s) => k.id >= to_send[k.s]
  /\ \A c \in Conns : Live(c) =>
       \A id \in to_send[c] .. last_command_id[c] - 1 :
         [s |-> c, id |-> id] \in Unsent

\* The next reply of a live session is in the buffer only while a sender is
\* draining it.
DrainPending ==
  \A c \in Conns :
    Live(c) /\ to_send[c] \in buffered[c] => Locked(c)

\* The inductive invariant.
IInv ==
  /\ TypeOK
  /\ LoopInv
  /\ DistinctFds
  /\ SentBelow
  /\ OncePerStage
  /\ OneStage
  /\ NumbersIssued
  /\ NothingLost
  /\ DrainPending
=============================================================================
