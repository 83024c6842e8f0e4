--------------------------- MODULE OrderedReplies ---------------------------
(***************************************************************************)
(* What a pipelining client of the proxy relies on, with no threads, pools *)
(* or buffers: on every connection the replies are a stream in the order   *)
(* of the commands, whole, without gaps or repetitions, and as long as the *)
(* connection stays open every command is answered.                        *)
(***************************************************************************)
EXTENDS Integers, Sequences

CONSTANT Conns

VARIABLES
  status,   \* "new", "open" or "closed"
  issued,   \* number of commands the proxy has read from the connection
  stream    \* replies sent on the connection

vars == <<status, issued, stream>>

Init ==
  /\ status = [c \in Conns |-> "new"]
  /\ issued = [c \in Conns |-> 0]
  /\ stream = [c \in Conns |-> << >>]

Open(c) ==
  /\ status[c] = "new"
  /\ status' = [status EXCEPT ![c] = "open"]
  /\ UNCHANGED <<issued, stream>>

Issue(c) ==
  /\ status[c] = "open"
  /\ issued' = [issued EXCEPT ![c] = @ + 1]
  /\ UNCHANGED <<status, stream>>

\* Commands are numbered from 0, so the next one to answer is Len(stream[c]).
Answer(c) ==
  /\ status[c] = "open"
  /\ Len(stream[c]) < issued[c]
  /\ stream' = [stream EXCEPT ![c] =
                  Append(@, [id |-> Len(stream[c]), whole |-> TRUE])]
  /\ UNCHANGED <<status, issued>>

Close(c) ==
  /\ status[c] = "open"
  /\ status' = [status EXCEPT ![c] = "closed"]
  /\ UNCHANGED <<issued, stream>>

Next == \E c \in Conns : Open(c) \/ Issue(c) \/ Answer(c) \/ Close(c)

\* The order of replies alone, and with the promise that they come.
Spec == Init /\ [][Next]_vars
FairSpec == Spec /\ \A c \in Conns : WF_vars(Answer(c))
=============================================================================
