---------------------------- MODULE EventLoopInv ----------------------------
(***************************************************************************)
(* The inductive invariant of EventLoop, in named parts.  TLC checks it on *)
(* the instance of MCEventLoop; EventLoopProofs proves that every step     *)
(* preserves it.                                                           *)
(***************************************************************************)
EXTENDS EventLoop

\* The listening socket stays registered.
ListenerWatched ==
  /\ epoll[Listener] = {Readable}
  /\ events[Listener].mask = {Readable}

\* Only descriptors the kernel has given out have events.
NoStrayEvents ==
  \A f \in Slots \ (Fds \cup {Listener}) : events[f].mask = {}

\* A connection waits in the backlog, holds one descriptor, or is gone.
OnePlace ==
  /\ \A f, g \in Fds : holder[f] = holder[g] /\ holder[f] \in Conns => f = g
  /\ \A i, j \in DOMAIN backlog : backlog[i] = backlog[j] => i = j
  /\ \A i \in DOMAIN backlog :
       backlog[i] \notin dropped /\ \A f \in Fds : holder[f] # backlog[i]
  /\ \A f \in Fds : holder[f] \notin dropped

\* What fired is watched by the loop, for readable among others, and a
\* descriptor fires once.
FiredInv ==
  /\ \A i \in DOMAIN fired : fired[i].fd \in Slots /\ Readable \in fired[i].mask
  /\ \A i, j \in DOMAIN fired : fired[i].fd = fired[j].fd => i = j

\* The inductive invariant.
IInv ==
  /\ TypeOK
  /\ ListenerWatched
  /\ NoStrayEvents
  /\ OnePlace
  /\ MaxfdIsHighest
  /\ EventsMatchDescriptors
  /\ FiredInv
  /\ FiredStillReady
  /\ OnlyLeaversDropped
=============================================================================
