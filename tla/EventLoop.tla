----------------------------- MODULE EventLoop -----------------------------
(***************************************************************************)
(* The event loop of ae.c over epoll, with the two handlers the proxy      *)
(* registers: accept_tcp_handler for the listening socket and              *)
(* read_from_client for every connection.  One thread runs it: it polls,   *)
(* then calls the handler of each descriptor that fired, one after the     *)
(* other.  Clients connect, send and go away at any moment in between, and *)
(* the kernel gives a closed descriptor's number to the next connection.   *)
(*                                                                         *)
(* What arrives is counted in pieces; RespDecoder says what they hold.     *)
(* The sessions the handlers insert and erase are those of ReplyPipeline.  *)
(***************************************************************************)
EXTENDS Integers, Sequences, FiniteSets, SequencesExt

CONSTANTS
  Conns,      \* TCP connections; each one is made at most once
  Fds,        \* descriptor numbers that can be open besides the listening socket
  OthersHold, \* those the rest of the process may hold: a set of choices
  Listener,   \* descriptor of the listening socket
  SetSize,    \* size of the event loop (main.cc: -s set_size)
  MaxPieces,  \* bound: pieces a client sends
  None, Other \* no connection; what the rest of the process holds

\* proxy::run asserts that the listening socket has been registered.
ASSUME ConstantsAssumption ==
  /\ Fds \subseteq Nat
  /\ OthersHold \subseteq SUBSET Fds
  /\ Listener \in Nat \ Fds
  /\ SetSize \in Nat
  /\ Listener < SetSize
  /\ MaxPieces \in Nat
  /\ {None, Other} \cap Conns = {} /\ None # Other

VARIABLES
  \* external: the kernel
  backlog,    \* connections not accepted yet, oldest first
  holder,     \* what each descriptor of Fds is for: a connection, None or Other
  epoll,      \* what the epoll set watches each descriptor for
  unread,     \* pieces received from each client and not read
  sent,       \* pieces each client has sent
  gone,       \* how each client left: "no", "finished" or "reset"
  dropped,    \* connections the proxy has closed
  \* aeEventLoop
  events,     \* per descriptor below SetSize: mask and clientData
  maxfd,
  fired       \* the fired events aeProcessEvents has not come to

kernelVars == <<backlog, holder, epoll, unread, sent, gone, dropped>>
loopVars == <<events, maxfd, fired>>
vars == <<kernelVars, loopVars>>

Readable == "readable"
Writable == "writable"
Slots == 0 .. SetSize - 1
NoEvent == [mask |-> {}, clientData |-> None]
-----------------------------------------------------------------------------
(* File events.                                                            *)

\* aeApiAddEvent: epoll_ctl is told to add the descriptor if the event loop has
\* no event for it and to modify it otherwise, and fails if the epoll set
\* disagrees.
EpollAccepts(f) == events[f].mask = {} <=> epoll[f] = {}

\* Mutants: maxfd is set whether or not it was larger; it counts one past.
MaxfdWithLatest(f) == f
MaxfdAsCount(f) == IF f >= maxfd THEN f + 1 ELSE maxfd

\* aeCreateFileEvent, its update of maxfd.
MaxfdWith(f) == IF f > maxfd THEN f ELSE maxfd

\* aeCreateFileEvent(loop, f, mask, proc, clientData).
CreateFileEvent(f, mask, clientData) ==
  \/ /\ f \in Slots /\ EpollAccepts(f)
     /\ epoll' = [epoll EXCEPT ![f] = events[f].mask \cup mask]
     /\ events' = [events EXCEPT ![f] = [mask |-> @.mask \cup mask,
                                         clientData |-> clientData]]
     /\ maxfd' = MaxfdWith(f)
  \/ /\ ~(f \in Slots /\ EpollAccepts(f))
     /\ UNCHANGED <<epoll, events, maxfd>>

\* aeDeleteFileEvent, its scan: the highest descriptor below f with an event.
HighestBelow(f) ==
  LET below == {g \in Slots : g < f /\ events[g].mask # {}}
  IN CHOOSE m \in below \cup {-1} : \A g \in below : g <= m

\* aeApiDelEvent: the descriptor is watched for what is left, or not at all.
EpollDelete(f, mask) == epoll' = [epoll EXCEPT ![f] = events[f].mask \ mask]

\* Mutant: the descriptor leaves the epoll set, and the table keeps the event.
KeepFileEvent(f, mask) == EpollDelete(f, mask) /\ UNCHANGED <<events, maxfd>>

\* aeDeleteFileEvent(loop, f, mask).
DeleteFileEvent(f, mask) ==
  LET left == events[f].mask \ mask IN
  IF f \notin Slots \/ events[f].mask = {} THEN UNCHANGED <<epoll, events, maxfd>>
  ELSE /\ EpollDelete(f, mask)
       /\ events' = [events EXCEPT ![f] = [mask |-> left, clientData |-> @.clientData]]
       /\ maxfd' = IF f = maxfd /\ left = {} THEN HighestBelow(f) ELSE maxfd
-----------------------------------------------------------------------------
(* The handlers.                                                           *)

FreeFds == {f \in Fds : holder[f] = None}
LowestFree(f) == f \in FreeFds /\ \A g \in FreeFds : f <= g

\* accept_tcp_handler: the oldest connection gets the lowest free descriptor
\* and an event.  A descriptor too large for the event loop stays open with no
\* event.  The listening socket is blocking: if there were nothing to accept,
\* the loop would stop here.
AcceptNext ==
  \E f \in Fds :
    /\ backlog # << >>
    /\ LowestFree(f)
    /\ holder' = [holder EXCEPT ![f] = Head(backlog)]
    /\ backlog' = Tail(backlog)
    /\ CreateFileEvent(f, {Readable}, Head(backlog))
    /\ UNCHANGED <<unread, sent, gone, dropped>>

\* Mutant: the proxy stops listening.
AcceptFailsStops ==
  /\ FreeFds = {}
  /\ DeleteFileEvent(Listener, {Readable})
  /\ UNCHANGED <<backlog, holder, unread, sent, gone, dropped>>

\* accept_tcp_handler when accept() fails for want of a descriptor: the
\* connection stays in the backlog, and aeCreateFileEvent fails for -1.
AcceptFails == FreeFds = {} /\ UNCHANGED <<kernelVars, events, maxfd>>

\* Mutant: the handler reads until read() returns nothing, and takes that for
\* the end.
ReadToTheEnd(f) ==
  LET c == holder[f] IN
  /\ unread[c] > 0
  /\ unread' = [unread EXCEPT ![c] = 0]
  /\ holder' = [holder EXCEPT ![f] = None]
  /\ dropped' = dropped \cup {c}
  /\ DeleteFileEvent(f, {Readable})
  /\ UNCHANGED <<backlog, sent, gone>>

\* read_from_client, read() returns some of what has arrived.
ReadSome(f) ==
  LET c == holder[f] IN
  /\ unread[c] > 0
  /\ \E k \in 1 .. unread[c] : unread' = [unread EXCEPT ![c] = @ - k]
  /\ UNCHANGED <<backlog, holder, epoll, sent, gone, dropped, events, maxfd>>

\* read_from_client, read() returns end-of-file or an error, which it also does
\* when nothing has arrived: the event is deleted for the mask that fired, and
\* erase_session closes the descriptor.
ReadEnd(f, mask) ==
  /\ unread[holder[f]] = 0
  /\ DeleteFileEvent(f, mask)
  /\ holder' = [holder EXCEPT ![f] = None]
  /\ dropped' = dropped \cup {holder[f]}
  /\ UNCHANGED <<backlog, unread, sent, gone>>
-----------------------------------------------------------------------------
(* aeProcessEvents.                                                        *)

\* External: what a descriptor is ready for.  A reset connection reports an
\* error and a hang-up as well, which aeApiPoll turns into writable.
Ready(f) ==
  IF f = Listener THEN IF backlog # << >> THEN {Readable} ELSE {}
  ELSE IF gone[holder[f]] = "reset" THEN {Readable, Writable}
  ELSE IF unread[holder[f]] > 0 \/ gone[holder[f]] = "finished" THEN {Readable}
  ELSE {}

Watched == {f \in Fds \cup {Listener} : epoll[f] # {}}
Fired(f) == [fd |-> f, mask |-> Ready(f)]

\* Mutant: only one event is asked for, and it is always the highest.
PollOne ==
  LET ready == {f \in Watched : Ready(f) # {}} IN
  /\ fired = << >>
  /\ \E f \in ready : (\A g \in ready : g <= f) /\ fired' = <<Fired(f)>>
  /\ UNCHANGED <<kernelVars, events, maxfd>>

\* Mutant: a handler may run the loop again while events are to be processed.
PollAgain ==
  LET ready == {f \in Watched : Ready(f) # {}} IN
  /\ ready # {}
  /\ \E more \in SetToSeqs({Fired(f) : f \in ready}) : fired' = fired \o more
  /\ UNCHANGED <<kernelVars, events, maxfd>>

\* aeApiPoll: every descriptor that is ready, in any order.  No timer is ever
\* created, so epoll_wait waits until there is one.
Poll ==
  LET ready == {f \in Watched : Ready(f) # {}} IN
  /\ fired = << >>
  /\ ready # {}
  /\ fired' \in SetToSeqs({Fired(f) : f \in ready})
  /\ UNCHANGED <<kernelVars, events, maxfd>>

\* aeProcessEvents, one turn of its loop: the handler is called if the event is
\* still registered.  The proxy registers no handler for writable.
ProcessFired ==
  LET f == Head(fired).fd  mask == Head(fired).mask IN
  /\ fired # << >>
  /\ fired' = Tail(fired)
  /\ IF Readable \in events[f].mask \cap mask
     THEN \/ f = Listener /\ AcceptNext
          \/ f = Listener /\ AcceptFails
          \/ f # Listener /\ ReadSome(f)
          \/ f # Listener /\ ReadEnd(f, mask)
     ELSE UNCHANGED <<kernelVars, events, maxfd>>
-----------------------------------------------------------------------------
(* External: the clients.                                                  *)

Connected(c) == c \in Range(backlog) \cup Range(holder)

Connect(c) ==
  /\ ~Connected(c) /\ c \notin dropped
  /\ backlog' = Append(backlog, c)
  /\ UNCHANGED <<holder, epoll, unread, sent, gone, dropped, loopVars>>

Send(c) ==
  /\ Connected(c) /\ gone[c] = "no" /\ sent[c] < MaxPieces
  /\ unread' = [unread EXCEPT ![c] = @ + 1]
  /\ sent' = [sent EXCEPT ![c] = @ + 1]
  /\ UNCHANGED <<backlog, holder, epoll, gone, dropped, loopVars>>

\* A client that finishes lets what it sent be read; one that resets does not.
Leave(c) ==
  /\ Connected(c) /\ gone[c] = "no"
  /\ \/ gone' = [gone EXCEPT ![c] = "finished"] /\ UNCHANGED unread
     \/ gone' = [gone EXCEPT ![c] = "reset"] /\ unread' = [unread EXCEPT ![c] = 0]
  /\ UNCHANGED <<backlog, holder, epoll, sent, dropped, loopVars>>
-----------------------------------------------------------------------------
\* aeCreateEventLoop, and proxy::run up to aeMain.
Init ==
  /\ backlog = << >>
  /\ \E others \in OthersHold :
       holder = [f \in Fds |-> IF f \in others THEN Other ELSE None]
  /\ epoll = [f \in Fds \cup {Listener} |-> IF f = Listener THEN {Readable} ELSE {}]
  /\ unread = [c \in Conns |-> 0]
  /\ sent = [c \in Conns |-> 0]
  /\ gone = [c \in Conns |-> "no"]
  /\ dropped = {}
  /\ events = [f \in Slots |->
       IF f = Listener THEN [NoEvent EXCEPT !.mask = {Readable}] ELSE NoEvent]
  /\ maxfd = Listener
  /\ fired = << >>

LoopStep == Poll \/ ProcessFired
Next == LoopStep \/ \E c \in Conns : Connect(c) \/ Send(c) \/ Leave(c)

\* aeMain runs as long as the process does; clients owe nothing.
Spec == Init /\ [][Next]_vars
FairSpec == Spec /\ WF_vars(LoopStep)
-----------------------------------------------------------------------------
(* Properties.                                                             *)

\* The shape of the state.
TypeOK ==
  /\ backlog \in Seq(Conns)
  /\ holder \in [Fds -> Conns \cup {None, Other}]
  /\ epoll \in [Fds \cup {Listener} -> SUBSET {Readable, Writable}]
  /\ unread \in [Conns -> Nat]
  /\ sent \in [Conns -> Nat]
  /\ gone \in [Conns -> {"no", "finished", "reset"}]
  /\ dropped \subseteq Conns
  /\ events \in [Slots -> [mask : SUBSET {Readable, Writable},
                           clientData : Conns \cup {None}]]
  /\ maxfd \in Slots \cup {-1}
  /\ fired \in Seq([fd : Fds \cup {Listener}, mask : SUBSET {Readable, Writable}])

\* maxfd is the highest descriptor with an event, whatever order descriptors
\* are closed in (aeCreateFileEvent, aeDeleteFileEvent).
MaxfdIsHighest ==
  /\ maxfd \in Slots => events[maxfd].mask # {}
  /\ \A f \in Slots : events[f].mask # {} => f <= maxfd

\* The event table, the epoll set and the descriptor table agree: the loop
\* watches exactly the connections on descriptors below SetSize, each with the
\* decode context of the connection that holds it now, so that a number used
\* again never meets the context of the connection that had it before.
EventsMatchDescriptors ==
  \A f \in Fds :
    IF f \in Slots /\ holder[f] \in Conns
    THEN epoll[f] = {Readable} /\ events[f] = [mask |-> {Readable}, clientData |-> holder[f]]
    ELSE epoll[f] = {} /\ (f \in Slots => events[f].mask = {})

\* A fired event that is still to be processed is no stale one.  Its descriptor
\* is the listening socket, and a connection waits, so that accept() does not
\* block the loop; or it is held by a connection, and read() will not find it
\* empty, which read_from_client would take for the end of a healthy connection.
FiredStillReady ==
  \A i \in DOMAIN fired : LET f == fired[i].fd IN
    /\ f # Listener => holder[f] \in Conns
    /\ Ready(f) # {}

\* The proxy closes no connection whose client has not left
\* (read_from_client treats every error of read() as the end).
OnlyLeaversDropped == \A c \in dropped : gone[c] # "no"

\* Connections the event loop watches.
InLoop(c) == \E f \in Fds \cap Slots : holder[f] = c

\* Whatever the other connections do, and although accept() may go on failing
\* for want of descriptors, what a watched client sends is read.
PiecesRead == \A c \in Conns : InLoop(c) /\ unread[c] > 0 ~> unread[c] = 0

\* A watched client that leaves is noticed, and its descriptor freed.
LeaversDropped == \A c \in Conns : InLoop(c) /\ gone[c] # "no" ~> c \in dropped

\* A connection is accepted in the end unless all descriptors are in use.
ConnectionsAccepted ==
  \A c \in Conns : c \in Range(backlog) ~> (c \notin Range(backlog) \/ FreeFds = {})
=============================================================================
