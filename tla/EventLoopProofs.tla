-------------------------- MODULE EventLoopProofs --------------------------
(* Theorems about EventLoop for every set of connections and descriptors   *)
(* and every size of the event loop.                                       *)
EXTENDS EventLoopInv, FiniteSetTheorems, WellFoundedInduction, TLAPS

(***************************************************************************)
(* The scan of aeDeleteFileEvent.                                          *)
(***************************************************************************)

\* A bounded set of natural numbers that is not empty has a highest element.
LEMMA HighestExists ==
  ASSUME NEW n \in Nat, NEW S \in SUBSET (0 .. n - 1), S # {}
  PROVE  \E m \in S : \A g \in S : g <= m
<1> DEFINE T == {n - 1 - g : g \in S}
<1>1. T \subseteq Nat /\ T # {}
  <2>1. ASSUME NEW g \in S PROVE n - 1 - g \in Nat
    <3>1. g \in Int /\ 0 <= g /\ g <= n - 1
      OBVIOUS
    <3> QED
      BY <3>1
  <2>2. T # {}
    OBVIOUS
  <2> QED
    BY <2>1, <2>2
<1>2. PICK x \in T : \A y \in T : ~(<<y, x>> \in OpToRel(<, Nat))
  <2> HIDE DEF T
  <2> QED
    BY <1>1, WFMin, NatLessThanWellFounded, Zenon
<1>3. \A y \in T : ~(y < x)
  BY <1>1, <1>2 DEF OpToRel
<1>4. PICK m \in S : x = n - 1 - m
  OBVIOUS
<1>5. ASSUME NEW g \in S PROVE g <= m
  <2>1. ~(n - 1 - g < x)
    BY <1>3
  <2> QED
    BY <2>1, <1>4
<1> QED
  BY <1>5

\* aeDeleteFileEvent finds the highest descriptor below f that has an event, or
\* -1 if there is none.
LEMMA HighestBelowIs ==
  ASSUME NEW f \in Slots
  PROVE  LET below == {g \in Slots : g < f /\ events[g].mask # {}}
         IN  /\ HighestBelow(f) \in below \cup {-1}
             /\ \A g \in below : g <= HighestBelow(f)
<1> DEFINE below == {g \in Slots : g < f /\ events[g].mask # {}}
<1>1. \E m \in below \cup {-1} : \A g \in below : g <= m
  <2>1. CASE below = {}
    BY <2>1
  <2>2. CASE below # {}
    <3>1. below \in SUBSET (0 .. SetSize - 1) /\ SetSize \in Nat
      BY ConstantsAssumption DEF Slots
    <3> HIDE DEF below
    <3> QED
      BY <2>2, <3>1, HighestExists
  <2> QED
    BY <2>1, <2>2
<1>2. HighestBelow(f) = CHOOSE m \in below \cup {-1} : \A g \in below : g <= m
  BY DEF HighestBelow
<1> HIDE DEF below
<1>3. /\ HighestBelow(f) \in below \cup {-1}
      /\ \A g \in below : g <= HighestBelow(f)
  BY <1>1, <1>2
<1> QED
  BY <1>3 DEF below

(***************************************************************************)
(* What one turn of the loop of aeProcessEvents does.                      *)
(***************************************************************************)

\* Taking the first element off a sequence moves the others up.
LEMMA TailIs ==
  ASSUME NEW S, NEW q \in Seq(S), q # << >>
  PROVE  /\ 1 \in DOMAIN q /\ Head(q) = q[1] /\ q[1] \in S
         /\ Tail(q) \in Seq(S)
         /\ \A i \in DOMAIN Tail(q) :
              i + 1 \in DOMAIN q /\ i + 1 # 1 /\ Tail(q)[i] = q[i + 1]
         /\ \A i, j \in DOMAIN Tail(q) : i + 1 = j + 1 => i = j
<1>1. Len(q) \in Nat /\ Len(q) > 0 /\ DOMAIN q = 1 .. Len(q)
  OBVIOUS
<1>2. Tail(q) \in Seq(S) /\ Len(Tail(q)) = Len(q) - 1
  OBVIOUS
<1>3. DOMAIN Tail(q) = 1 .. Len(q) - 1
  BY <1>2
<1>4. \A i \in 1 .. Len(q) - 1 : Tail(q)[i] = q[i + 1]
  BY <1>1
<1> QED
  BY <1>1, <1>2, <1>3, <1>4

\* The elements of a sequence over S are in S.
LEMMA ElementOf ==
  \A S : \A q \in Seq(S) : \A i \in DOMAIN q : q[i] \in S
OBVIOUS

\* The effect of accept_tcp_handler: the oldest connection gets descriptor g,
\* and an event if g is not too large.
Accepts(g) ==
  /\ backlog # << >> /\ backlog' = Tail(backlog)
  /\ holder[g] = None /\ holder' = [holder EXCEPT ![g] = Head(backlog)]
  /\ IF g \in Slots
     THEN /\ epoll' = [epoll EXCEPT ![g] = {Readable}]
          /\ events' = [events EXCEPT
               ![g] = [mask |-> {Readable}, clientData |-> Head(backlog)]]
          /\ maxfd' = IF g > maxfd THEN g ELSE maxfd
     ELSE UNCHANGED <<epoll, events, maxfd>>
  /\ UNCHANGED <<unread, sent, gone, dropped>>

\* The effect of read_from_client when it closes descriptor f.
Closes(f) ==
  /\ unread[holder[f]] = 0
  /\ holder' = [holder EXCEPT ![f] = None]
  /\ dropped' = dropped \cup {holder[f]}
  /\ epoll' = [epoll EXCEPT ![f] = {}]
  /\ events' = [events EXCEPT ![f] = [mask |-> {}, clientData |-> holder[f]]]
  /\ maxfd' = IF f = maxfd THEN HighestBelow(f) ELSE maxfd
  /\ UNCHANGED <<backlog, unread, sent, gone>>

\* A fired event other than the listening socket's is of a watched connection.
LEMMA FiredWatched ==
  ASSUME IInv, fired # << >>
  PROVE  LET f == Head(fired).fd IN
         /\ f \in Slots /\ Readable \in Head(fired).mask /\ Ready(f) # {}
         /\ f # Listener => /\ f \in Fds /\ holder[f] \in Conns
                           /\ epoll[f] = {Readable}
                           /\ events[f] = [mask |-> {Readable}, clientData |-> holder[f]]
<1>1. fired \in Seq([fd : Fds \cup {Listener}, mask : SUBSET {Readable, Writable}])
  BY DEF IInv, TypeOK
<1>2. 1 \in DOMAIN fired /\ Head(fired) = fired[1]
  BY <1>1, TailIs
<1>3. Head(fired).fd \in Fds \cup {Listener}
  <2>1. fired[1] \in [fd : Fds \cup {Listener}, mask : SUBSET {Readable, Writable}]
    BY <1>1, TailIs
  <2> QED
    BY <1>2, <2>1
<1>4. /\ Head(fired).fd \in Slots /\ Readable \in Head(fired).mask
      /\ Ready(Head(fired).fd) # {}
      /\ Head(fired).fd # Listener => holder[Head(fired).fd] \in Conns
  BY <1>2 DEF IInv, FiredInv, FiredStillReady
<1> QED
  BY <1>3, <1>4 DEF IInv, EventsMatchDescriptors

\* A free descriptor is not watched, so that epoll_ctl accepts it.
LEMMA AcceptNextIs ==
  ASSUME IInv, AcceptNext
  PROVE  \E g \in Fds : Accepts(g)
<1>1. PICK g \in Fds :
        /\ backlog # << >>
        /\ LowestFree(g)
        /\ holder' = [holder EXCEPT ![g] = Head(backlog)]
        /\ backlog' = Tail(backlog)
        /\ CreateFileEvent(g, {Readable}, Head(backlog))
        /\ UNCHANGED <<unread, sent, gone, dropped>>
  BY DEF AcceptNext
<1>2. holder[g] = None
  BY <1>1 DEF LowestFree, FreeFds
<1>3. epoll[g] = {} /\ (g \in Slots => events[g].mask = {})
  BY <1>2, ConstantsAssumption DEF IInv, EventsMatchDescriptors
<1>4. g \in Slots => EpollAccepts(g)
  BY <1>3 DEF EpollAccepts
<1>5. CASE g \in Slots
  <2>1. events[g].mask \cup {Readable} = {Readable}
    BY <1>3, <1>5
  <2>2. /\ epoll' = [epoll EXCEPT ![g] = {Readable}]
        /\ events' = [events EXCEPT
             ![g] = [mask |-> {Readable}, clientData |-> Head(backlog)]]
        /\ maxfd' = MaxfdWith(g)
    BY <1>1, <1>4, <1>5, <2>1 DEF CreateFileEvent
  <2> QED
    BY <1>1, <1>2, <1>5, <2>2 DEF Accepts, MaxfdWith
<1>6. CASE g \notin Slots
  BY <1>1, <1>2, <1>6 DEF Accepts, CreateFileEvent
<1> QED
  BY <1>5, <1>6

\* The event of the connection that has ended is deleted altogether.
LEMMA ReadEndIs ==
  ASSUME IInv, fired # << >>, Head(fired).fd # Listener,
         ReadEnd(Head(fired).fd, Head(fired).mask)
  PROVE  Closes(Head(fired).fd)
<1> DEFINE f == Head(fired).fd  mask == Head(fired).mask
<1>1. /\ f \in Slots /\ Readable \in mask
      /\ events[f] = [mask |-> {Readable}, clientData |-> holder[f]]
  BY FiredWatched
<1>2. events[f].mask = {Readable} /\ events[f].mask \ mask = {}
  BY <1>1
<1>3. DeleteFileEvent(f, mask)
  BY DEF ReadEnd
<1> HIDE DEF f, mask
<1>4. /\ epoll' = [epoll EXCEPT ![f] = {}]
      /\ events' = [events EXCEPT ![f] = [mask |-> {}, clientData |-> holder[f]]]
      /\ maxfd' = IF f = maxfd THEN HighestBelow(f) ELSE maxfd
  BY <1>1, <1>2, <1>3 DEF DeleteFileEvent, EpollDelete
<1> QED
  BY <1>4 DEF ReadEnd, Closes, f, mask

\* One turn of the loop takes the first fired event and accepts a connection,
\* reads from one, closes one, or does nothing else.
Turn ==
  /\ fired # << >> /\ fired' = Tail(fired)
  /\ \/ Head(fired).fd = Listener /\ \E g \in Fds : Accepts(g)
     \/ Head(fired).fd # Listener /\ ReadSome(Head(fired).fd)
     \/ Head(fired).fd # Listener /\ Closes(Head(fired).fd)
     \/ UNCHANGED <<kernelVars, events, maxfd>>

\* The loop of aeProcessEvents makes such turns.
LEMMA ProcessIs ==
  ASSUME IInv, ProcessFired
  PROVE  Turn
<1>1. fired # << >> /\ fired' = Tail(fired)
  BY DEF ProcessFired
<1>2. \/ Head(fired).fd = Listener /\ AcceptNext
      \/ Head(fired).fd # Listener /\ ReadSome(Head(fired).fd)
      \/ Head(fired).fd # Listener /\ ReadEnd(Head(fired).fd, Head(fired).mask)
      \/ UNCHANGED <<kernelVars, events, maxfd>>
  BY DEF ProcessFired, AcceptFails
<1> QED
  BY <1>1, <1>2, AcceptNextIs, ReadEndIs DEF Turn

\* Whatever is ready for anything is ready to be read.
LEMMA ReadyReadable ==
  ASSUME NEW f, Ready(f) # {}
  PROVE  Readable \in Ready(f) /\ Ready(f) \subseteq {Readable, Writable}
BY DEF Ready

\* Only descriptors below the set size are watched.
LEMMA WatchedInSlots ==
  ASSUME IInv
  PROVE  Watched \subseteq Slots
<1>1. ASSUME NEW f \in Fds, epoll[f] # {} PROVE f \in Slots
  BY <1>1 DEF IInv, EventsMatchDescriptors
<1>2. Listener \in Slots
  BY ConstantsAssumption DEF Slots
<1> QED
  BY <1>1, <1>2 DEF Watched

\* aeApiPoll reports watched descriptors that are ready, each of them once.
LEMMA PollIs ==
  ASSUME IInv, Poll
  PROVE  /\ fired' \in Seq([fd : Fds \cup {Listener}, mask : SUBSET {Readable, Writable}])
         /\ \A i \in DOMAIN fired' : \E f \in Watched :
              Ready(f) # {} /\ fired'[i] = [fd |-> f, mask |-> Ready(f)]
         /\ \A i, j \in DOMAIN fired' : fired'[i].fd = fired'[j].fd => i = j
<1> DEFINE ready == {f \in Watched : Ready(f) # {}}
           S == {Fired(f) : f \in ready}
<1>1. /\ IsFiniteSet(ready)
  <2>1. ready \subseteq 0 .. SetSize - 1
    BY WatchedInSlots DEF Slots
  <2>2. IsFiniteSet(0 .. SetSize - 1)
    BY ConstantsAssumption, FS_Interval
  <2> QED
    BY <2>1, <2>2, FS_Subset
<1>2. IsFiniteSet(S)
  <2> DEFINE F == [f \in ready |-> Fired(f)]
  <2>1. F \in Surjection(ready, S)
    BY DEF Surjection
  <2> HIDE DEF ready, S, F
  <2> QED
    BY <1>1, <2>1, FS_Surjection DEF ExistsSurjection
<1>3. Cardinality(S) \in Nat
  BY <1>2, FS_CardinalityType
<1>4. /\ fired' \in [1 .. Cardinality(S) -> S]
      /\ \A i, j \in 1 .. Cardinality(S) : i # j => fired'[i] # fired'[j]
  BY DEF Poll, SetToSeqs
<1>5. \A x \in S : \E f \in Watched :
        Ready(f) # {} /\ x = [fd |-> f, mask |-> Ready(f)]
  BY DEF Fired
<1>6. S \subseteq [fd : Fds \cup {Listener}, mask : SUBSET {Readable, Writable}]
  BY <1>5, ReadyReadable DEF Watched
<1>7. \A x, y \in S : x.fd = y.fd => x = y
  BY <1>5
<1> HIDE DEF S
<1>8. fired' \in Seq(S) /\ DOMAIN fired' = 1 .. Cardinality(S)
  BY <1>3, <1>4
<1>9. \A i \in DOMAIN fired' : fired'[i] \in S
  BY <1>4, <1>8
<1>10. fired' \in Seq([fd : Fds \cup {Listener}, mask : SUBSET {Readable, Writable}])
  <2> DEFINE T == [fd : Fds \cup {Listener}, mask : SUBSET {Readable, Writable}]
  <2>1. S \subseteq T
    BY <1>6
  <2> HIDE DEF T
  <2>2. fired' \in [1 .. Cardinality(S) -> T]
    BY <1>4, <2>1
  <2>3. fired' \in Seq(T)
    BY <1>3, <2>2
  <2> QED
    BY <2>3 DEF T
<1> QED
  BY <1>4, <1>5, <1>7, <1>8, <1>9, <1>10

\* The steps of the loop and of the clients.
LEMMA StepIs ==
  ASSUME IInv, [Next]_vars
  PROVE  \/ Poll \/ Turn
         \/ \E c \in Conns : Connect(c) \/ Send(c) \/ Leave(c)
         \/ UNCHANGED vars
BY ProcessIs DEF Next, LoopStep

(***************************************************************************)
(* Every step preserves the parts of the invariant.                        *)
(***************************************************************************)

\* The shape of the state.
LEMMA TypeStep ==
  ASSUME IInv, [Next]_vars
  PROVE  TypeOK'
<1> DEFINE FiredSet == [fd : Fds \cup {Listener}, mask : SUBSET {Readable, Writable}]
           Event == [mask : SUBSET {Readable, Writable}, clientData : Conns \cup {None}]
<1> USE DEF TypeOK
<1>0. TypeOK
  BY DEF IInv
<1>1. CASE Poll
  BY <1>0, <1>1, PollIs DEF Poll, kernelVars
<1>2. CASE Turn
  <2>1. fired # << >> /\ fired' \in Seq(FiredSet)
    BY <1>0, <1>2, TailIs DEF Turn
  <2>2. ASSUME NEW g \in Fds, Accepts(g) PROVE TypeOK'
    <3>1. Head(backlog) \in Conns /\ Tail(backlog) \in Seq(Conns)
      BY <1>0, <2>2, TailIs DEF Accepts
    <3>2. holder' \in [Fds -> Conns \cup {None, Other}] /\ backlog' \in Seq(Conns)
      BY <1>0, <2>2, <3>1 DEF Accepts
    <3>3. epoll' \in [Fds \cup {Listener} -> SUBSET {Readable, Writable}]
      <4>1. CASE g \in Slots
        <5>1. epoll' = [epoll EXCEPT ![g] = {Readable}]
          BY <2>2, <4>1 DEF Accepts
        <5>2. {Readable} \in SUBSET {Readable, Writable}
          OBVIOUS
        <5> QED
          BY <1>0, <5>1, <5>2
      <4>2. CASE g \notin Slots
        BY <1>0, <2>2, <4>2 DEF Accepts
      <4> QED
        BY <4>1, <4>2
    <3>4. events' \in [Slots -> Event] /\ maxfd' \in Slots \cup {-1}
      <4>1. CASE g \in Slots
        <5>1. [mask |-> {Readable}, clientData |-> Head(backlog)] \in Event
          BY <3>1
        <5> HIDE DEF Event
        <5>2. events' \in [Slots -> Event]
          BY <1>0, <2>2, <4>1, <5>1 DEF Accepts, Event
        <5>3. maxfd' \in Slots \cup {-1}
          BY <1>0, <2>2, <4>1 DEF Accepts
        <5> QED
          BY <5>2, <5>3
      <4>2. CASE g \notin Slots
        BY <1>0, <2>2, <4>2 DEF Accepts
      <4> QED
        BY <4>1, <4>2
    <3> QED
      BY <1>0, <2>1, <2>2, <3>2, <3>3, <3>4 DEF Accepts
  <2>3. CASE Head(fired).fd # Listener /\ ReadSome(Head(fired).fd)
    <3> DEFINE c == holder[Head(fired).fd]
    <3>1. c \in Conns
      BY <2>1, <2>3, FiredWatched
    <3>2. PICK k \in 1 .. unread[c] : unread' = [unread EXCEPT ![c] = @ - k]
      BY <2>3 DEF ReadSome
    <3>3. unread' \in [Conns -> Nat]
      BY <1>0, <3>1, <3>2
    <3> QED
      BY <1>0, <2>1, <2>3, <3>3 DEF ReadSome
  <2>4. CASE Head(fired).fd # Listener /\ Closes(Head(fired).fd)
    <3> DEFINE f == Head(fired).fd
    <3>1. f \in Fds /\ f \in Slots /\ holder[f] \in Conns
      BY <2>1, <2>4, FiredWatched
    <3>2. HighestBelow(f) \in Slots \cup {-1}
      BY <3>1, HighestBelowIs
    <3>3. maxfd' \in Slots \cup {-1}
      BY <1>0, <2>4, <3>2 DEF Closes
    <3>4. holder' \in [Fds -> Conns \cup {None, Other}] /\ dropped' \subseteq Conns
      BY <1>0, <2>4, <3>1 DEF Closes
    <3>5. epoll' \in [Fds \cup {Listener} -> SUBSET {Readable, Writable}]
      BY <1>0, <2>4 DEF Closes
    <3>6. events' \in [Slots -> Event]
      BY <1>0, <2>4, <3>1 DEF Closes
    <3> QED
      BY <1>0, <2>1, <2>4, <3>3, <3>4, <3>5, <3>6 DEF Closes
  <2>5. CASE UNCHANGED <<kernelVars, events, maxfd>>
    BY <1>0, <2>1, <2>5 DEF kernelVars
  <2> QED
    BY <1>2, <2>2, <2>3, <2>4, <2>5 DEF Turn
<1>3. ASSUME NEW c \in Conns, Connect(c) \/ Send(c) \/ Leave(c)
      PROVE  TypeOK'
  <2>1. CASE Connect(c)
    BY <1>0, <2>1 DEF Connect, loopVars
  <2>2. CASE Send(c)
    BY <1>0, <2>2 DEF Send, loopVars
  <2>3. CASE Leave(c)
    <3>1. gone' \in [Conns -> {"no", "finished", "reset"}]
      BY <1>0, <2>3 DEF Leave
    <3>2. unread' \in [Conns -> Nat]
      BY <1>0, <2>3 DEF Leave
    <3>3. UNCHANGED <<backlog, holder, epoll, sent, dropped, events, maxfd, fired>>
      BY <2>3 DEF Leave, loopVars
    <3> QED
      BY <1>0, <3>1, <3>2, <3>3
  <2> QED
    BY <1>3, <2>1, <2>2, <2>3
<1>4. CASE UNCHANGED vars
  BY <1>0, <1>4 DEF vars, kernelVars, loopVars
<1> QED
  BY <1>1, <1>2, <1>3, <1>4, StepIs

\* The listening socket is never closed, and no event is made for a descriptor
\* that was not accepted.
LEMMA ListenerStep ==
  ASSUME IInv, [Next]_vars
  PROVE  ListenerWatched' /\ NoStrayEvents'
<1> USE ConstantsAssumption DEF ListenerWatched, NoStrayEvents
<1>0. /\ ListenerWatched /\ NoStrayEvents
      /\ Listener \in Slots /\ Listener \notin Fds
      /\ DOMAIN epoll = Fds \cup {Listener} /\ DOMAIN events = Slots
  BY DEF IInv, TypeOK, Slots
<1>1. ASSUME NEW g \in Fds, Accepts(g) PROVE ListenerWatched' /\ NoStrayEvents'
  BY <1>0, <1>1 DEF Accepts
<1>2. CASE Turn /\ Head(fired).fd # Listener /\ Closes(Head(fired).fd)
  <2>1. Head(fired).fd \in Fds
    BY <1>2, FiredWatched DEF Turn
  <2> QED
    BY <1>0, <1>2, <2>1 DEF Closes
<1>3. CASE UNCHANGED <<epoll, events>>
  BY <1>0, <1>3
<1> QED
  BY <1>1, <1>2, <1>3, StepIs DEF Turn, Poll, ReadSome, Connect, Send, Leave,
    vars, kernelVars, loopVars

\* A connection stays in one place: it moves from the backlog to a descriptor,
\* and from there out of the process.
LEMMA OnePlaceStep ==
  ASSUME IInv, [Next]_vars
  PROVE  OnePlace'
<1>0. /\ OnePlace /\ backlog \in Seq(Conns) /\ DOMAIN holder = Fds
      /\ \A f \in Fds : holder[f] \in Conns \cup {None, Other}
      /\ None \notin Conns /\ Other \notin Conns /\ dropped \subseteq Conns
  BY ConstantsAssumption DEF IInv, TypeOK
<1>1. ASSUME NEW g \in Fds, Accepts(g) PROVE OnePlace'
  <2> DEFINE c == Head(backlog)
  <2>1. c \in Conns /\ c = backlog[1] /\ 1 \in DOMAIN backlog
    BY <1>0, <1>1, TailIs DEF Accepts
  <2>2. \A i \in DOMAIN backlog' : i + 1 \in DOMAIN backlog /\ i + 1 # 1
                                  /\ backlog'[i] = backlog[i + 1]
    BY <1>0, <1>1, TailIs DEF Accepts
  <2>3. \A i, j \in DOMAIN backlog' : i + 1 = j + 1 => i = j
    BY <1>0, <1>1, TailIs DEF Accepts
  <2>4. \A f \in Fds : holder'[f] = IF f = g THEN c ELSE holder[f]
    BY <1>0, <1>1 DEF Accepts
  <2>5. dropped' = dropped
    BY <1>1 DEF Accepts
  <2> HIDE DEF c
  <2>6. \A i \in DOMAIN backlog' : backlog'[i] # c
    BY <1>0, <2>1, <2>2 DEF OnePlace
  <2> QED
    BY <1>0, <2>1, <2>2, <2>3, <2>4, <2>5, <2>6 DEF OnePlace
<1>2. CASE Turn /\ Head(fired).fd # Listener /\ Closes(Head(fired).fd)
  <2> DEFINE f == Head(fired).fd
  <2>1. f \in Fds /\ holder[f] \in Conns
    BY <1>2, FiredWatched DEF Turn
  <2>2. \A g \in Fds : holder'[g] = IF g = f THEN None ELSE holder[g]
    BY <1>0, <1>2 DEF Closes
  <2>3. dropped' = dropped \cup {holder[f]} /\ backlog' = backlog
    BY <1>2 DEF Closes
  <2> HIDE DEF f
  <2> QED
    BY <1>0, <2>1, <2>2, <2>3 DEF OnePlace
<1>3. ASSUME NEW c \in Conns, Connect(c) PROVE OnePlace'
  <2>1. /\ backlog' = Append(backlog, c) /\ UNCHANGED <<holder, dropped>>
        /\ \A i \in DOMAIN backlog : backlog[i] # c
        /\ \A f \in Fds : holder[f] # c
        /\ c \notin dropped
    BY <1>0, <1>3 DEF Connect, Connected, Range
  <2>2. \A i \in DOMAIN backlog' :
          \/ i \in DOMAIN backlog /\ backlog'[i] = backlog[i]
          \/ i = Len(backlog) + 1 /\ backlog'[i] = c
    BY <1>0, <2>1
  <2> QED
    BY <1>0, <2>1, <2>2 DEF OnePlace
<1>4. CASE UNCHANGED <<backlog, holder, dropped>>
  BY <1>0, <1>4 DEF OnePlace
<1> QED
  BY <1>1, <1>2, <1>3, <1>4, StepIs DEF Turn, Poll, ReadSome, Send, Leave,
    vars, kernelVars, loopVars

\* maxfd stays the highest descriptor with an event.
LEMMA MaxfdStep ==
  ASSUME IInv, [Next]_vars
  PROVE  MaxfdIsHighest'
<1>0. /\ MaxfdIsHighest /\ maxfd \in Slots \cup {-1} /\ DOMAIN events = Slots
      /\ Slots \subseteq Int
  BY ConstantsAssumption DEF IInv, TypeOK, Slots
<1>1. ASSUME NEW g \in Fds, Accepts(g) PROVE MaxfdIsHighest'
  <2>1. CASE g \in Slots
    <3>1. /\ events'[g].mask = {Readable}
          /\ \A f \in Slots : f # g => events'[f] = events[f]
      BY <1>0, <1>1, <2>1 DEF Accepts
    <3>2. maxfd' = IF g > maxfd THEN g ELSE maxfd
      BY <1>1, <2>1 DEF Accepts
    <3> QED
      BY <1>0, <2>1, <3>1, <3>2 DEF MaxfdIsHighest
  <2>2. CASE g \notin Slots
    BY <1>0, <1>1, <2>2 DEF Accepts, MaxfdIsHighest
  <2> QED
    BY <2>1, <2>2
<1>2. CASE Turn /\ Head(fired).fd # Listener /\ Closes(Head(fired).fd)
  <2> DEFINE f == Head(fired).fd
  <2>1. f \in Slots
    BY <1>2, FiredWatched DEF Turn
  <2>2. \A g \in Slots : events'[g].mask = IF g = f THEN {} ELSE events[g].mask
    BY <1>0, <1>2, <2>1 DEF Closes
  <2>3. maxfd' = IF f = maxfd THEN HighestBelow(f) ELSE maxfd
    BY <1>2 DEF Closes
  <2>4. LET below == {g \in Slots : g < f /\ events[g].mask # {}}
        IN  /\ HighestBelow(f) \in below \cup {-1}
            /\ \A g \in below : g <= HighestBelow(f)
    BY <2>1, HighestBelowIs
  <2> HIDE DEF f
  <2>5. CASE f = maxfd
    <3>1. \A g \in Slots : events'[g].mask # {} => g < f
      <4> SUFFICES ASSUME NEW g \in Slots, events'[g].mask # {} PROVE g < f
        OBVIOUS
      <4>1. g # f /\ events[g].mask # {}
        BY <2>2
      <4>2. g <= f
        BY <1>0, <2>5, <4>1 DEF MaxfdIsHighest
      <4> QED
        BY <1>0, <2>1, <4>1, <4>2
    <3>2. maxfd' = HighestBelow(f)
      BY <2>3, <2>5
    <3>3. ASSUME NEW g \in Slots, events'[g].mask # {} PROVE g <= maxfd'
      <4>1. g < f /\ events[g].mask # {}
        BY <2>2, <3>1, <3>3
      <4> QED
        BY <2>4, <3>2, <4>1
    <3>4. ASSUME maxfd' \in Slots PROVE events'[maxfd'].mask # {}
      <4>1. maxfd' # -1
        BY <3>4 DEF Slots
      <4>2. maxfd' < f /\ events[maxfd'].mask # {}
        BY <2>4, <3>2, <4>1
      <4> QED
        BY <1>0, <2>1, <2>2, <3>4, <4>2
    <3> QED
      BY <3>3, <3>4 DEF MaxfdIsHighest
  <2>6. CASE f # maxfd
    BY <1>0, <2>1, <2>2, <2>3, <2>6 DEF MaxfdIsHighest
  <2> QED
    BY <2>5, <2>6
<1>3. CASE UNCHANGED <<events, maxfd>>
  BY <1>0, <1>3 DEF MaxfdIsHighest
<1> QED
  BY <1>1, <1>2, <1>3, StepIs DEF Turn, Poll, ReadSome, Connect, Send, Leave,
    vars, kernelVars, loopVars

\* Event table, epoll set and descriptors stay in agreement.
LEMMA EventsStep ==
  ASSUME IInv, [Next]_vars
  PROVE  EventsMatchDescriptors'
<1>0. /\ EventsMatchDescriptors /\ DOMAIN events = Slots /\ DOMAIN holder = Fds
      /\ DOMAIN epoll = Fds \cup {Listener} /\ backlog \in Seq(Conns)
      /\ None \notin Conns
  BY ConstantsAssumption DEF IInv, TypeOK
<1>1. ASSUME NEW g \in Fds, Accepts(g) PROVE EventsMatchDescriptors'
  <2> DEFINE c == Head(backlog)
  <2>1. c \in Conns
    BY <1>0, <1>1, TailIs DEF Accepts
  <2>2. \A f \in Fds : holder'[f] = IF f = g THEN c ELSE holder[f]
    BY <1>0, <1>1 DEF Accepts
  <2>3. holder[g] = None
    BY <1>1 DEF Accepts
  <2>4. CASE g \in Slots
    <3>1. /\ \A f \in Fds : epoll'[f] = IF f = g THEN {Readable} ELSE epoll[f]
          /\ \A f \in Slots : events'[f] =
               IF f = g THEN [mask |-> {Readable}, clientData |-> c] ELSE events[f]
      BY <1>0, <1>1, <2>4 DEF Accepts
    <3> HIDE DEF c
    <3> QED
      BY <1>0, <2>1, <2>2, <2>4, <3>1 DEF EventsMatchDescriptors
  <2>5. CASE g \notin Slots
    <3>1. UNCHANGED <<epoll, events>>
      BY <1>1, <2>5 DEF Accepts
    <3> HIDE DEF c
    <3> QED
      BY <1>0, <2>1, <2>2, <2>3, <2>5, <3>1 DEF EventsMatchDescriptors
  <2> QED
    BY <2>4, <2>5
<1>2. CASE Turn /\ Head(fired).fd # Listener /\ Closes(Head(fired).fd)
  <2> DEFINE f == Head(fired).fd
  <2>1. f \in Slots /\ f \in Fds
    BY <1>2, FiredWatched DEF Turn
  <2>2. /\ \A g \in Fds : holder'[g] = IF g = f THEN None ELSE holder[g]
        /\ \A g \in Fds : epoll'[g] = IF g = f THEN {} ELSE epoll[g]
        /\ events'[f].mask = {}
        /\ \A g \in Slots : g # f => events'[g] = events[g]
    BY <1>0, <1>2, <2>1 DEF Closes
  <2> HIDE DEF f
  <2> QED
    BY <1>0, <2>1, <2>2 DEF EventsMatchDescriptors
<1>3. CASE UNCHANGED <<holder, epoll, events>>
  BY <1>0, <1>3 DEF EventsMatchDescriptors
<1> QED
  BY <1>1, <1>2, <1>3, StepIs DEF Turn, Poll, ReadSome, Connect, Send, Leave,
    vars, kernelVars, loopVars

\* What makes a descriptor ready: a connection that waits to be accepted, or
\* something to read, the end included.
Due(f) ==
  IF f = Listener THEN backlog # << >>
  ELSE gone[holder[f]] \in {"reset", "finished"} \/ unread[holder[f]] > 0

\* A descriptor is ready if and only if something is due, before and after a step.
LEMMA ReadyIsDue ==
  \A f : (Ready(f) # {} <=> Due(f)) /\ (Ready(f) # {} <=> Due(f))'
BY DEF Ready, Due

\* What fired and is still to be processed stays ready, whichever handlers run
\* first and whatever clients do: no other handler reads from its connection,
\* closes its descriptor or accepts the connection that waits.
LEMMA FiredStep ==
  ASSUME IInv, [Next]_vars
  PROVE  FiredInv' /\ FiredStillReady'
<1>0. /\ fired \in Seq([fd : Fds \cup {Listener}, mask : SUBSET {Readable, Writable}])
      /\ FiredInv /\ OnePlace
      /\ DOMAIN holder = Fds /\ unread \in [Conns -> Nat]
      /\ gone \in [Conns -> {"no", "finished", "reset"}]
      /\ backlog \in Seq(Conns) /\ None \notin Conns
  BY ConstantsAssumption DEF IInv, TypeOK
<1>1. ASSUME NEW i \in DOMAIN fired
      PROVE  /\ Due(fired[i].fd)
             /\ fired[i].fd # Listener =>
                  fired[i].fd \in Fds /\ holder[fired[i].fd] \in Conns
  <2>1. fired[i] \in [fd : Fds \cup {Listener}, mask : SUBSET {Readable, Writable}]
    BY <1>0, ElementOf
  <2> QED
    BY <2>1, ReadyIsDue DEF IInv, FiredStillReady
<1>2. CASE Poll
  <2>1. UNCHANGED <<backlog, holder, gone, unread>>
    BY <1>2 DEF Poll, kernelVars
  <2>2. ASSUME NEW i \in DOMAIN fired'
        PROVE  /\ fired'[i].fd \in Slots /\ Readable \in fired'[i].mask
               /\ fired'[i].fd # Listener => holder[fired'[i].fd] \in Conns
               /\ Due(fired'[i].fd)
    <3>1. PICK f \in Watched :
            Ready(f) # {} /\ fired'[i] = [fd |-> f, mask |-> Ready(f)]
      BY <1>2, PollIs
    <3>2. f \in Slots
      BY <3>1, WatchedInSlots
    <3>3. f # Listener => holder[f] \in Conns
      BY <3>1 DEF Watched, IInv, EventsMatchDescriptors
    <3> QED
      BY <3>1, <3>2, <3>3, ReadyReadable, ReadyIsDue
  <2>3. \A i \in DOMAIN fired' : Due(fired'[i].fd) => Ready(fired'[i].fd) # {}
    BY ReadyIsDue
  <2>4. \A f : Ready(f)' = Ready(f)
    BY <2>1 DEF Ready
  <2>5. FiredInv'
    BY <1>2, <2>2, PollIs DEF FiredInv
  <2> QED
    BY <2>1, <2>2, <2>3, <2>4, <2>5 DEF FiredStillReady
<1>3. CASE Turn
  <2>1. /\ fired # << >> /\ 1 \in DOMAIN fired /\ Head(fired) = fired[1]
        /\ \A i \in DOMAIN fired' : i + 1 \in DOMAIN fired /\ i + 1 # 1
                                   /\ fired'[i] = fired[i + 1]
        /\ \A i, j \in DOMAIN fired' : i + 1 = j + 1 => i = j
    BY <1>0, <1>3, TailIs DEF Turn
  <2>2. FiredInv'
    BY <1>0, <2>1 DEF FiredInv
  <2> DEFINE h == Head(fired).fd
  <2>3. ASSUME NEW i \in DOMAIN fired'
        PROVE  LET f == fired'[i].fd IN
               /\ f # h
               /\ Due(f) /\ (f # Listener => f \in Fds /\ holder[f] \in Conns)
    BY <1>0, <1>1, <2>1 DEF FiredInv
  <2>4. ASSUME NEW f, f # h, Due(f), f # Listener => f \in Fds /\ holder[f] \in Conns
        PROVE  Due(f)' /\ (f # Listener => holder'[f] \in Conns)
    <3>1. ASSUME NEW g \in Fds, Accepts(g), h = Listener
          PROVE  Due(f)' /\ (f # Listener => holder'[f] \in Conns)
      <4>1. f # Listener /\ f # g /\ f \in Fds
        BY <1>0, <2>4, <3>1 DEF Accepts
      <4>2. holder'[f] = holder[f] /\ UNCHANGED <<unread, gone>>
        BY <1>0, <3>1, <4>1 DEF Accepts
      <4> QED
        BY <2>4, <4>1, <4>2 DEF Due
    <3>2. CASE h # Listener /\ ReadSome(h)
      <4>1. h \in Fds /\ holder[h] \in Conns
        BY <2>1, <3>2, FiredWatched
      <4>2. UNCHANGED <<backlog, holder, gone>>
        BY <3>2 DEF ReadSome
      <4>3. \A c \in Conns : c # holder[h] => unread'[c] = unread[c]
        BY <1>0, <3>2, <4>1 DEF ReadSome
      <4>4. f # Listener => holder[f] # holder[h]
        BY <1>0, <2>4, <4>1 DEF OnePlace
      <4> HIDE DEF h
      <4> QED
        BY <2>4, <4>2, <4>3, <4>4 DEF Due
    <3>3. CASE h # Listener /\ Closes(h)
      <4>1. UNCHANGED <<backlog, unread, gone>>
        BY <3>3 DEF Closes
      <4>2. f # Listener => holder'[f] = holder[f]
        BY <1>0, <2>4, <3>3 DEF Closes
      <4> HIDE DEF h
      <4> QED
        BY <2>4, <4>1, <4>2 DEF Due
    <3>4. CASE UNCHANGED kernelVars
      BY <2>4, <3>4 DEF Due, kernelVars
    <3> QED
      BY <1>3, <3>1, <3>2, <3>3, <3>4 DEF Turn
  <2>5. \A f : Due(f)' => Ready(f)' # {}
    BY ReadyIsDue
  <2> HIDE DEF h
  <2> QED
    BY <2>2, <2>3, <2>4, <2>5 DEF FiredStillReady
<1>4. ASSUME fired' = fired, UNCHANGED holder,
             \A f : Due(f) => Due(f)' \/ (f # Listener /\ holder[f] \notin Conns)
      PROVE  FiredInv' /\ FiredStillReady'
  <2>1. FiredInv'
    BY <1>0, <1>4 DEF FiredInv
  <2>2. \A f : Due(f)' => Ready(f)' # {}
    BY ReadyIsDue
  <2> QED
    BY <1>1, <1>4, <2>1, <2>2 DEF FiredStillReady
<1>5. ASSUME NEW c \in Conns, Connect(c) \/ Send(c) \/ Leave(c)
      PROVE  FiredInv' /\ FiredStillReady'
  <2>1. UNCHANGED <<fired, holder>>
    BY <1>5 DEF Connect, Send, Leave, loopVars
  <2>2. CASE Connect(c)
    <3>1. backlog' # << >> /\ UNCHANGED <<gone, unread>>
      BY <1>0, <2>2 DEF Connect
    <3> QED
      BY <1>4, <2>1, <3>1 DEF Due
  <2>3. CASE Send(c)
    <3>1. UNCHANGED <<backlog, gone>> /\ \A d \in Conns : unread'[d] >= unread[d]
      BY <1>0, <2>3 DEF Send
    <3>2. \A d \in Conns : unread[d] > 0 => unread'[d] > 0
      BY <1>0, <2>3 DEF Send
    <3> QED
      BY <1>4, <2>1, <3>1, <3>2 DEF Due
  <2>4. CASE Leave(c)
    <3>1. /\ UNCHANGED backlog
          /\ \A d \in Conns : d # c => gone'[d] = gone[d] /\ unread'[d] = unread[d]
          /\ gone'[c] \in {"reset", "finished"}
      BY <1>0, <2>4 DEF Leave
    <3> QED
      BY <1>4, <2>1, <3>1 DEF Due
  <2> QED
    BY <1>5, <2>2, <2>3, <2>4
<1>6. CASE UNCHANGED vars
  BY <1>4, <1>6 DEF Due, vars, kernelVars, loopVars
<1> QED
  BY <1>2, <1>3, <1>5, <1>6, StepIs

\* A connection is only closed for the end read() reported, or for finding a
\* fired descriptor empty, which FiredStillReady excludes.
LEMMA LeaversStep ==
  ASSUME IInv, [Next]_vars
  PROVE  OnlyLeaversDropped'
<1>0. OnlyLeaversDropped /\ gone \in [Conns -> {"no", "finished", "reset"}]
      /\ dropped \subseteq Conns
  BY DEF IInv, TypeOK
<1>1. CASE Turn /\ Head(fired).fd # Listener /\ Closes(Head(fired).fd)
  <2> DEFINE f == Head(fired).fd
  <2>1. Ready(f) # {} /\ f # Listener
    BY <1>1, FiredWatched DEF Turn
  <2>2. unread[holder[f]] = 0 /\ dropped' = dropped \cup {holder[f]} /\ UNCHANGED gone
    BY <1>1 DEF Closes
  <2>3. gone[holder[f]] \in {"reset", "finished"}
    BY <2>1, <2>2, ReadyIsDue DEF Due
  <2> HIDE DEF f
  <2> QED
    BY <1>0, <2>2, <2>3 DEF OnlyLeaversDropped
<1>2. ASSUME NEW c \in Conns, Leave(c) PROVE OnlyLeaversDropped'
  BY <1>0, <1>2 DEF Leave, OnlyLeaversDropped
<1>3. CASE UNCHANGED <<dropped, gone>>
  BY <1>0, <1>3 DEF OnlyLeaversDropped
<1> QED
  BY <1>1, <1>2, <1>3, StepIs DEF Turn, Accepts, ReadSome, Poll, Connect, Send,
    vars, kernelVars, loopVars

(***************************************************************************)
(* The theorems.                                                           *)
(***************************************************************************)

\* The inductive invariant holds when proxy::run enters aeMain.
LEMMA InitInv == Init => IInv
<1> SUFFICES ASSUME Init PROVE IInv
  OBVIOUS
<1> USE ConstantsAssumption
<1>1. PICK others \in OthersHold :
        holder = [f \in Fds |-> IF f \in others THEN Other ELSE None]
  BY DEF Init
<1>2. \A f \in Fds : holder[f] \in {None, Other} /\ holder[f] \notin Conns
  BY <1>1
<1>3. Listener \in Slots /\ Slots \subseteq Int
  BY DEF Slots
<1>4. /\ events \in [Slots -> [mask : SUBSET {Readable, Writable},
                               clientData : Conns \cup {None}]]
      /\ events[Listener].mask = {Readable}
      /\ \A f \in Slots : f # Listener => events[f].mask = {}
  <2>1. /\ [NoEvent EXCEPT !.mask = {Readable}] = [mask |-> {Readable}, clientData |-> None]
        /\ NoEvent = [mask |-> {}, clientData |-> None]
    <3>1. NoEvent = [mask |-> {}, clientData |-> None]
      BY DEF NoEvent
    <3>2. [NoEvent EXCEPT !.mask = {Readable}] = [mask |-> {Readable}, clientData |-> None]
      BY <3>1
    <3> QED
      BY <3>1, <3>2
  <2>2. events = [f \in Slots |-> IF f = Listener
                   THEN [mask |-> {Readable}, clientData |-> None]
                   ELSE [mask |-> {}, clientData |-> None]]
    BY <2>1 DEF Init
  <2> QED
    BY <1>3, <2>2
<1>5. TypeOK
  BY <1>1, <1>3, <1>4 DEF Init, TypeOK
<1>6. ListenerWatched /\ NoStrayEvents
  BY <1>4 DEF Init, ListenerWatched, NoStrayEvents
<1>7. OnePlace
  BY <1>2 DEF Init, OnePlace
<1>8. MaxfdIsHighest
  <2>1. maxfd = Listener
    BY DEF Init
  <2>2. \A f \in Slots : events[f].mask # {} => f = Listener
    BY <1>4
  <2>3. events[Listener].mask # {}
    BY <1>4
  <2>4. Listener \in Int /\ Listener <= Listener
    BY <1>3
  <2> QED
    BY <2>1, <2>2, <2>3, <2>4, Zenon DEF MaxfdIsHighest
<1>9. EventsMatchDescriptors
  BY <1>2, <1>4 DEF Init, EventsMatchDescriptors
<1>10. FiredInv /\ FiredStillReady
  BY DEF Init, FiredInv, FiredStillReady
<1>11. OnlyLeaversDropped
  BY DEF Init, OnlyLeaversDropped
<1> QED
  BY <1>5, <1>6, <1>7, <1>8, <1>9, <1>10, <1>11 DEF IInv

\* The inductive invariant of the event loop holds of every reachable state,
\* whatever the connections, the descriptors and the size of the loop.
THEOREM LoopInvariant == Spec => []IInv
<1>1. IInv /\ [Next]_vars => IInv'
  BY TypeStep, ListenerStep, OnePlaceStep, MaxfdStep, EventsStep, FiredStep,
    LeaversStep DEF IInv
<1> QED
  BY <1>1, InitInv, PTL DEF Spec

\* Every index into the event table, the fired array and the epoll set is in range.
THEOREM TypeCorrect == Spec => []TypeOK
<1>1. IInv => TypeOK
  BY DEF IInv
<1> QED
  BY <1>1, LoopInvariant, PTL

\* maxfd is always the highest descriptor with an event (aeCreateFileEvent,
\* aeDeleteFileEvent).
THEOREM MaxfdHolds == Spec => []MaxfdIsHighest
<1>1. IInv => MaxfdIsHighest
  BY DEF IInv
<1> QED
  BY <1>1, LoopInvariant, PTL

\* Event table, epoll set and descriptors agree, although descriptor numbers
\* are used again: no connection is read with the context of another.
THEOREM EventsHold == Spec => []EventsMatchDescriptors
<1>1. IInv => EventsMatchDescriptors
  BY DEF IInv
<1> QED
  BY <1>1, LoopInvariant, PTL

\* No stale event is ever processed, whatever order epoll reports them in.
THEOREM NoStaleEvent == Spec => []FiredStillReady
<1>1. IInv => FiredStillReady
  BY DEF IInv
<1> QED
  BY <1>1, LoopInvariant, PTL

\* The proxy never closes a connection whose client has not left, although
\* read_from_client takes every error for the end.
THEOREM HealthyKept == Spec => []OnlyLeaversDropped
<1>1. IInv => OnlyLeaversDropped
  BY DEF IInv
<1> QED
  BY <1>1, LoopInvariant, PTL
=============================================================================
