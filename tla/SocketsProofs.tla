---------------------------- MODULE SocketsProofs ----------------------------
(* Theorems about Sockets for any descriptors and any number of addresses. *)
EXTENDS Sockets, SequenceTheorems, TLAPS

(***************************************************************************)
(* The inductive invariant.                                                *)
(***************************************************************************)

\* The calls in progress: those of anet.h, and the one that is made again.
Unbound == [op |-> "connect", flags |-> {"nonblock", "best_effort"}]
CallsMade == CallsOf \cup {Unbound}

\* The shape of the state.  There is a socket from the second step on.
ShapeInv ==
  /\ running \in BOOLEAN
  /\ asked \in CallsOf /\ call \in CallsMade
  /\ entries \in Nat /\ entry \in Nat /\ 1 <= entry /\ entry <= entries
  /\ ~Resolves(call) => entries = 1
  /\ at \in 0 .. Len(Steps(call)) /\ (at = 0 /\ running => Resolves(call))
  /\ s \in Fds \cup {ANET_ERR} /\ result \in Fds \cup {ANET_ERR}
  /\ open \subseteq Fds /\ owned \subseteq Fds /\ leaked \subseteq Fds
  /\ running => (s # ANET_ERR <=> at > 1)

\* No descriptor is accounted for twice.
ApartInv ==
  /\ owned \cap leaked = {}
  /\ running => s \notin owned \cup leaked

\* The call in progress is the one asked for, or that one without its source
\* address, which is the end of it.
CallInv ==
  /\ call = asked \/ (Retries(asked) /\ call = Unbound)
  /\ ~running /\ result = ANET_ERR /\ why # "resolve" => ~Retries(call)

\* The steps before the one a call is at have been taken, and all of them when
\* it has returned a descriptor.
DoneInv ==
  \A i \in 1 .. Len(Steps(call)) :
    (running /\ i < at) \/ (~running /\ result # ANET_ERR) => Steps(call)[i] \in done

\* The inductive invariant: the properties need each other and the four parts above.
IInv ==
  ShapeInv /\ DescriptorsAccounted /\ ApartInv /\ EveryAddressTried /\ CallInv /\ DoneInv

(***************************************************************************)
(* The steps of each call.                                                 *)
(***************************************************************************)

\* How the tuples in Steps are put together.
LEMMA OneAndOne == \A a, b : <<a>> \o <<b>> = <<a, b>>
<1> TAKE a, b
<1> DEFINE S == {a, b}
<1>1. <<a>> \in Seq(S) /\ <<b>> \in Seq(S) /\ <<a, b>> \in Seq(S)
  OBVIOUS
<1>2. <<a>> \o <<b>> \in Seq(S) /\ Len(<<a>> \o <<b>>) = 2
  BY <1>1
<1>3. \A i \in 1 .. 2 : (<<a>> \o <<b>>)[i] = <<a, b>>[i]
  BY <1>1
<1> QED
  BY <1>1, <1>2, <1>3, SeqEqual

\* The same for longer tuples.
LEMMA TwoAndOne == \A a, b, c : <<a, b>> \o <<c>> = <<a, b, c>>
<1> TAKE a, b, c
<1> DEFINE S == {a, b, c}
<1>1. <<a, b>> \in Seq(S) /\ <<c>> \in Seq(S) /\ <<a, b, c>> \in Seq(S)
  OBVIOUS
<1>2. <<a, b>> \o <<c>> \in Seq(S) /\ Len(<<a, b>> \o <<c>>) = 3
  BY <1>1
<1>3. \A i \in 1 .. 3 : (<<a, b>> \o <<c>>)[i] = <<a, b, c>>[i]
  BY <1>1
<1> QED
  BY <1>1, <1>2, <1>3, SeqEqual

\* Three elements and one.
LEMMA ThreeAndOne == \A a, b, c, d : <<a, b, c>> \o <<d>> = <<a, b, c, d>>
<1> TAKE a, b, c, d
<1> DEFINE S == {a, b, c, d}
<1>1. <<a, b, c>> \in Seq(S) /\ <<d>> \in Seq(S) /\ <<a, b, c, d>> \in Seq(S)
  OBVIOUS
<1>2. <<a, b, c>> \o <<d>> \in Seq(S) /\ Len(<<a, b, c>> \o <<d>>) = 4
  BY <1>1
<1>3. \A i \in 1 .. 4 : (<<a, b, c>> \o <<d>>)[i] = <<a, b, c, d>>[i]
  BY <1>1
<1> QED
  BY <1>1, <1>2, <1>3, SeqEqual

\* One element and three.
LEMMA OneAndThree == \A a, b, c, d : <<a>> \o <<b, c, d>> = <<a, b, c, d>>
<1> TAKE a, b, c, d
<1> DEFINE S == {a, b, c, d}
<1>1. <<a>> \in Seq(S) /\ <<b, c, d>> \in Seq(S) /\ <<a, b, c, d>> \in Seq(S)
  OBVIOUS
<1>2. <<a>> \o <<b, c, d>> \in Seq(S) /\ Len(<<a>> \o <<b, c, d>>) = 4
  BY <1>1
<1>3. \A i \in 1 .. 4 : (<<a>> \o <<b, c, d>>)[i] = <<a, b, c, d>>[i]
  BY <1>1
<1> QED
  BY <1>1, <1>2, <1>3, SeqEqual

\* Two elements and three.
LEMMA TwoAndThree == \A a, b, c, d, e : <<a, b>> \o <<c, d, e>> = <<a, b, c, d, e>>
<1> TAKE a, b, c, d, e
<1> DEFINE S == {a, b, c, d, e}
<1>1. <<a, b>> \in Seq(S) /\ <<c, d, e>> \in Seq(S) /\ <<a, b, c, d, e>> \in Seq(S)
  OBVIOUS
<1>2. <<a, b>> \o <<c, d, e>> \in Seq(S) /\ Len(<<a, b>> \o <<c, d, e>>) = 5
  BY <1>1
<1>3. \A i \in 1 .. 5 : (<<a, b>> \o <<c, d, e>>)[i] = <<a, b, c, d, e>>[i]
  BY <1>1
<1> QED
  BY <1>1, <1>2, <1>3, SeqEqual

\* Four elements and one.
LEMMA FourAndOne == \A a, b, c, d, e : <<a, b, c, d>> \o <<e>> = <<a, b, c, d, e>>
<1> TAKE a, b, c, d, e
<1> DEFINE S == {a, b, c, d, e}
<1>1. <<a, b, c, d>> \in Seq(S) /\ <<e>> \in Seq(S) /\ <<a, b, c, d, e>> \in Seq(S)
  OBVIOUS
<1>2. <<a, b, c, d>> \o <<e>> \in Seq(S) /\ Len(<<a, b, c, d>> \o <<e>>) = 5
  BY <1>1
<1>3. \A i \in 1 .. 5 : (<<a, b, c, d>> \o <<e>>)[i] = <<a, b, c, d, e>>[i]
  BY <1>1
<1> QED
  BY <1>1, <1>2, <1>3, SeqEqual

\* An empty tuple adds nothing.
LEMMA AndNone == \A a, b, c : <<a>> \o << >> = <<a>> /\ <<a, b>> \o << >> = <<a, b>>
                              /\ <<a, b, c>> \o << >> = <<a, b, c>>
<1> TAKE a, b, c
<1>1. <<a>> \in Seq({a, b, c}) /\ <<a, b>> \in Seq({a, b, c}) /\ <<a, b, c>> \in Seq({a, b, c})
  OBVIOUS
<1> QED
  BY <1>1, ConcatEmptySeq

\* The failure of which steps closes the socket, call by call.
LEMMA ClosesIs ==
  \A c, step :
    /\ c.op = "server" => (Closes(c, step) <=> step \in {"v6only", "bind", "listen"})
    /\ c.op = "connect" => (Closes(c, step) <=> step # "socket")
    /\ c.op = "unix_server" => (Closes(c, step) <=> step \in {"reuse", "bind", "listen"})
    /\ c.op = "unix_connect" => (Closes(c, step) <=> step \in {"reuse", "connect"})
    /\ c.op = "accept" => ~Closes(c, step)
  BY Zenon DEF Closes

\* The names of the steps.
StepNames ==
  {"socket", "v6only", "reuse", "nonblock", "bind", "connect", "listen", "accept"}

\* What the proofs need of the steps of a call: only the first makes a socket; a
\* later one that fails closes it, unless it is a known leak; and a call that
\* has a source address binds.
LEMMA StepFacts ==
  ASSUME NEW c \in CallsMade
  PROVE  /\ Steps(c) \in Seq(StepNames) /\ Len(Steps(c)) \in Nat \ {0}
         /\ \A i \in 1 .. Len(Steps(c)) : LET step == Steps(c)[i] IN
              /\ step \in {"socket", "accept"} <=> i = 1
              /\ i = 1 => ~Closes(c, step) /\ ~KnownLeak(c, step)
              /\ i > 1 => (Closes(c, step) <=> ~KnownLeak(c, step))
              /\ step \in {"socket", "connect"} /\ Resolves(c) => GoesOn(c, step)
         /\ "source" \in c.flags => \E i \in 1 .. Len(Steps(c)) : Steps(c)[i] = "bind"
<1>1. \/ c.op = "server" /\ c.flags = {}
      \/ c.op = "server" /\ c.flags = {"six"}
      \/ c.op = "connect" /\ c.flags = {}
      \/ c.op = "connect" /\ c.flags = {"nonblock"}
      \/ c.op = "connect" /\ c.flags = {"nonblock", "best_effort"}
      \/ c.op = "connect" /\ c.flags = {"nonblock", "source"}
      \/ c.op = "connect" /\ c.flags = {"nonblock", "source", "best_effort"}
      \/ c.op = "unix_server" /\ c.flags = {}
      \/ c.op = "unix_connect" /\ c.flags = {}
      \/ c.op = "unix_connect" /\ c.flags = {"nonblock"}
      \/ c.op = "accept" /\ c.flags = {}
  BY DEF CallsMade, CallsOf, Unbound
<1>2. CASE c.op = "server" /\ c.flags = {}
  <2>0. c.op = "server"
    BY <1>2
  <2>1. "six" \notin c.flags
    BY <1>2
  <2>2. Steps(c) = <<"socket">> \o << >> \o <<"reuse", "bind", "listen">>
    BY <2>0, <2>1, Zenon DEF Steps
  <2>3. Steps(c) = <<"socket", "reuse", "bind", "listen">>
    <3>1. <<"socket">> \o << >> = <<"socket">>
      BY AndNone
    <3>2. <<"socket">> \o <<"reuse", "bind", "listen">> = <<"socket", "reuse", "bind", "listen">>
      BY OneAndThree
    <3> QED
      BY <2>2, <3>1, <3>2
  <2>4. Steps(c) \in Seq(StepNames) /\ Len(Steps(c)) = 4
    BY <2>3 DEF StepNames
  <2>5. Steps(c)[1] = "socket" /\ Steps(c)[2] = "reuse" /\ Steps(c)[3] = "bind" /\ Steps(c)[4] = "listen"
    BY <2>3
  <2>6. ASSUME NEW i \in 1 .. Len(Steps(c))
        PROVE  LET step == Steps(c)[i] IN
               /\ step \in {"socket", "accept"} <=> i = 1
               /\ i = 1 => ~Closes(c, step) /\ ~KnownLeak(c, step)
               /\ i > 1 => (Closes(c, step) <=> ~KnownLeak(c, step))
               /\ step \in {"socket", "connect"} /\ Resolves(c) => GoesOn(c, step)
    <3>1. i \in 1 .. 4
      BY <2>4
    <3>2. \A step : Closes(c, step) <=> step \in {"v6only", "bind", "listen"}
      BY <2>0, ClosesIs
    <3> QED
      BY <2>0, <2>5, <3>1, <3>2 DEF KnownLeak, GoesOn, Resolves
  <2> QED
    BY <1>2, <2>4, <2>5, <2>6
<1>3. CASE c.op = "server" /\ c.flags = {"six"}
  <2>0. c.op = "server"
    BY <1>3
  <2>1. "six" \in c.flags
    BY <1>3
  <2>2. Steps(c) = <<"socket">> \o <<"v6only">> \o <<"reuse", "bind", "listen">>
    BY <2>0, <2>1, Zenon DEF Steps
  <2>3. Steps(c) = <<"socket", "v6only", "reuse", "bind", "listen">>
    <3>1. <<"socket">> \o <<"v6only">> = <<"socket", "v6only">>
      BY OneAndOne
    <3>2. <<"socket", "v6only">> \o <<"reuse", "bind", "listen">> = <<"socket", "v6only", "reuse", "bind", "listen">>
      BY TwoAndThree
    <3> QED
      BY <2>2, <3>1, <3>2
  <2>4. Steps(c) \in Seq(StepNames) /\ Len(Steps(c)) = 5
    BY <2>3 DEF StepNames
  <2>5. Steps(c)[1] = "socket" /\ Steps(c)[2] = "v6only" /\ Steps(c)[3] = "reuse" /\ Steps(c)[4] = "bind" /\ Steps(c)[5] = "listen"
    BY <2>3
  <2>6. ASSUME NEW i \in 1 .. Len(Steps(c))
        PROVE  LET step == Steps(c)[i] IN
               /\ step \in {"socket", "accept"} <=> i = 1
               /\ i = 1 => ~Closes(c, step) /\ ~KnownLeak(c, step)
               /\ i > 1 => (Closes(c, step) <=> ~KnownLeak(c, step))
               /\ step \in {"socket", "connect"} /\ Resolves(c) => GoesOn(c, step)
    <3>1. i \in 1 .. 5
      BY <2>4
    <3>2. \A step : Closes(c, step) <=> step \in {"v6only", "bind", "listen"}
      BY <2>0, ClosesIs
    <3> QED
      BY <2>0, <2>5, <3>1, <3>2 DEF KnownLeak, GoesOn, Resolves
  <2> QED
    BY <1>3, <2>4, <2>5, <2>6
<1>4. CASE c.op = "connect" /\ c.flags = {}
  <2>0. c.op = "connect"
    BY <1>4
  <2>1. "nonblock" \notin c.flags /\ "source" \notin c.flags
    BY <1>4
  <2>2. Steps(c) = <<"socket", "reuse">> \o << >> \o << >> \o <<"connect">>
    BY <2>0, <2>1, Zenon DEF Steps
  <2>3. Steps(c) = <<"socket", "reuse", "connect">>
    <3>1. <<"socket", "reuse">> \o << >> = <<"socket", "reuse">>
      BY AndNone
    <3>2. <<"socket", "reuse">> \o << >> = <<"socket", "reuse">>
      BY AndNone
    <3>3. <<"socket", "reuse">> \o <<"connect">> = <<"socket", "reuse", "connect">>
      BY TwoAndOne
    <3> QED
      BY <2>2, <3>1, <3>2, <3>3
  <2>4. Steps(c) \in Seq(StepNames) /\ Len(Steps(c)) = 3
    BY <2>3 DEF StepNames
  <2>5. Steps(c)[1] = "socket" /\ Steps(c)[2] = "reuse" /\ Steps(c)[3] = "connect"
    BY <2>3
  <2>6. ASSUME NEW i \in 1 .. Len(Steps(c))
        PROVE  LET step == Steps(c)[i] IN
               /\ step \in {"socket", "accept"} <=> i = 1
               /\ i = 1 => ~Closes(c, step) /\ ~KnownLeak(c, step)
               /\ i > 1 => (Closes(c, step) <=> ~KnownLeak(c, step))
               /\ step \in {"socket", "connect"} /\ Resolves(c) => GoesOn(c, step)
    <3>1. i \in 1 .. 3
      BY <2>4
    <3>2. \A step : Closes(c, step) <=> step # "socket"
      BY <2>0, ClosesIs
    <3> QED
      BY <2>0, <2>5, <3>1, <3>2 DEF KnownLeak, GoesOn, Resolves
  <2> QED
    BY <1>4, <2>4, <2>5, <2>6
<1>5. CASE c.op = "connect" /\ c.flags = {"nonblock"}
  <2>0. c.op = "connect"
    BY <1>5
  <2>1. "nonblock" \in c.flags /\ "source" \notin c.flags
    BY <1>5
  <2>2. Steps(c) = <<"socket", "reuse">> \o <<"nonblock">> \o << >> \o <<"connect">>
    BY <2>0, <2>1, Zenon DEF Steps
  <2>3. Steps(c) = <<"socket", "reuse", "nonblock", "connect">>
    <3>1. <<"socket", "reuse">> \o <<"nonblock">> = <<"socket", "reuse", "nonblock">>
      BY TwoAndOne
    <3>2. <<"socket", "reuse", "nonblock">> \o << >> = <<"socket", "reuse", "nonblock">>
      BY AndNone
    <3>3. <<"socket", "reuse", "nonblock">> \o <<"connect">> = <<"socket", "reuse", "nonblock", "connect">>
      BY ThreeAndOne
    <3> QED
      BY <2>2, <3>1, <3>2, <3>3
  <2>4. Steps(c) \in Seq(StepNames) /\ Len(Steps(c)) = 4
    BY <2>3 DEF StepNames
  <2>5. Steps(c)[1] = "socket" /\ Steps(c)[2] = "reuse" /\ Steps(c)[3] = "nonblock" /\ Steps(c)[4] = "connect"
    BY <2>3
  <2>6. ASSUME NEW i \in 1 .. Len(Steps(c))
        PROVE  LET step == Steps(c)[i] IN
               /\ step \in {"socket", "accept"} <=> i = 1
               /\ i = 1 => ~Closes(c, step) /\ ~KnownLeak(c, step)
               /\ i > 1 => (Closes(c, step) <=> ~KnownLeak(c, step))
               /\ step \in {"socket", "connect"} /\ Resolves(c) => GoesOn(c, step)
    <3>1. i \in 1 .. 4
      BY <2>4
    <3>2. \A step : Closes(c, step) <=> step # "socket"
      BY <2>0, ClosesIs
    <3> QED
      BY <2>0, <2>5, <3>1, <3>2 DEF KnownLeak, GoesOn, Resolves
  <2> QED
    BY <1>5, <2>4, <2>5, <2>6
<1>6. CASE c.op = "connect" /\ c.flags = {"nonblock", "best_effort"}
  <2>0. c.op = "connect"
    BY <1>6
  <2>1. "nonblock" \in c.flags /\ "source" \notin c.flags
    BY <1>6
  <2>2. Steps(c) = <<"socket", "reuse">> \o <<"nonblock">> \o << >> \o <<"connect">>
    BY <2>0, <2>1, Zenon DEF Steps
  <2>3. Steps(c) = <<"socket", "reuse", "nonblock", "connect">>
    <3>1. <<"socket", "reuse">> \o <<"nonblock">> = <<"socket", "reuse", "nonblock">>
      BY TwoAndOne
    <3>2. <<"socket", "reuse", "nonblock">> \o << >> = <<"socket", "reuse", "nonblock">>
      BY AndNone
    <3>3. <<"socket", "reuse", "nonblock">> \o <<"connect">> = <<"socket", "reuse", "nonblock", "connect">>
      BY ThreeAndOne
    <3> QED
      BY <2>2, <3>1, <3>2, <3>3
  <2>4. Steps(c) \in Seq(StepNames) /\ Len(Steps(c)) = 4
    BY <2>3 DEF StepNames
  <2>5. Steps(c)[1] = "socket" /\ Steps(c)[2] = "reuse" /\ Steps(c)[3] = "nonblock" /\ Steps(c)[4] = "connect"
    BY <2>3
  <2>6. ASSUME NEW i \in 1 .. Len(Steps(c))
        PROVE  LET step == Steps(c)[i] IN
               /\ step \in {"socket", "accept"} <=> i = 1
               /\ i = 1 => ~Closes(c, step) /\ ~KnownLeak(c, step)
               /\ i > 1 => (Closes(c, step) <=> ~KnownLeak(c, step))
               /\ step \in {"socket", "connect"} /\ Resolves(c) => GoesOn(c, step)
    <3>1. i \in 1 .. 4
      BY <2>4
    <3>2. \A step : Closes(c, step) <=> step # "socket"
      BY <2>0, ClosesIs
    <3> QED
      BY <2>0, <2>5, <3>1, <3>2 DEF KnownLeak, GoesOn, Resolves
  <2> QED
    BY <1>6, <2>4, <2>5, <2>6
<1>7. CASE c.op = "connect" /\ c.flags = {"nonblock", "source"}
  <2>0. c.op = "connect"
    BY <1>7
  <2>1. "nonblock" \in c.flags /\ "source" \in c.flags
    BY <1>7
  <2>2. Steps(c) = <<"socket", "reuse">> \o <<"nonblock">> \o <<"bind">> \o <<"connect">>
    BY <2>0, <2>1, Zenon DEF Steps
  <2>3. Steps(c) = <<"socket", "reuse", "nonblock", "bind", "connect">>
    <3>1. <<"socket", "reuse">> \o <<"nonblock">> = <<"socket", "reuse", "nonblock">>
      BY TwoAndOne
    <3>2. <<"socket", "reuse", "nonblock">> \o <<"bind">> = <<"socket", "reuse", "nonblock", "bind">>
      BY ThreeAndOne
    <3>3. <<"socket", "reuse", "nonblock", "bind">> \o <<"connect">> = <<"socket", "reuse", "nonblock", "bind", "connect">>
      BY FourAndOne
    <3> QED
      BY <2>2, <3>1, <3>2, <3>3
  <2>4. Steps(c) \in Seq(StepNames) /\ Len(Steps(c)) = 5
    BY <2>3 DEF StepNames
  <2>5. Steps(c)[1] = "socket" /\ Steps(c)[2] = "reuse" /\ Steps(c)[3] = "nonblock" /\ Steps(c)[4] = "bind" /\ Steps(c)[5] = "connect"
    BY <2>3
  <2>6. ASSUME NEW i \in 1 .. Len(Steps(c))
        PROVE  LET step == Steps(c)[i] IN
               /\ step \in {"socket", "accept"} <=> i = 1
               /\ i = 1 => ~Closes(c, step) /\ ~KnownLeak(c, step)
               /\ i > 1 => (Closes(c, step) <=> ~KnownLeak(c, step))
               /\ step \in {"socket", "connect"} /\ Resolves(c) => GoesOn(c, step)
    <3>1. i \in 1 .. 5
      BY <2>4
    <3>2. \A step : Closes(c, step) <=> step # "socket"
      BY <2>0, ClosesIs
    <3> QED
      BY <2>0, <2>5, <3>1, <3>2 DEF KnownLeak, GoesOn, Resolves
  <2> QED
    BY <1>7, <2>4, <2>5, <2>6
<1>8. CASE c.op = "connect" /\ c.flags = {"nonblock", "source", "best_effort"}
  <2>0. c.op = "connect"
    BY <1>8
  <2>1. "nonblock" \in c.flags /\ "source" \in c.flags
    BY <1>8
  <2>2. Steps(c) = <<"socket", "reuse">> \o <<"nonblock">> \o <<"bind">> \o <<"connect">>
    BY <2>0, <2>1, Zenon DEF Steps
  <2>3. Steps(c) = <<"socket", "reuse", "nonblock", "bind", "connect">>
    <3>1. <<"socket", "reuse">> \o <<"nonblock">> = <<"socket", "reuse", "nonblock">>
      BY TwoAndOne
    <3>2. <<"socket", "reuse", "nonblock">> \o <<"bind">> = <<"socket", "reuse", "nonblock", "bind">>
      BY ThreeAndOne
    <3>3. <<"socket", "reuse", "nonblock", "bind">> \o <<"connect">> = <<"socket", "reuse", "nonblock", "bind", "connect">>
      BY FourAndOne
    <3> QED
      BY <2>2, <3>1, <3>2, <3>3
  <2>4. Steps(c) \in Seq(StepNames) /\ Len(Steps(c)) = 5
    BY <2>3 DEF StepNames
  <2>5. Steps(c)[1] = "socket" /\ Steps(c)[2] = "reuse" /\ Steps(c)[3] = "nonblock" /\ Steps(c)[4] = "bind" /\ Steps(c)[5] = "connect"
    BY <2>3
  <2>6. ASSUME NEW i \in 1 .. Len(Steps(c))
        PROVE  LET step == Steps(c)[i] IN
               /\ step \in {"socket", "accept"} <=> i = 1
               /\ i = 1 => ~Closes(c, step) /\ ~KnownLeak(c, step)
               /\ i > 1 => (Closes(c, step) <=> ~KnownLeak(c, step))
               /\ step \in {"socket", "connect"} /\ Resolves(c) => GoesOn(c, step)
    <3>1. i \in 1 .. 5
      BY <2>4
    <3>2. \A step : Closes(c, step) <=> step # "socket"
      BY <2>0, ClosesIs
    <3> QED
      BY <2>0, <2>5, <3>1, <3>2 DEF KnownLeak, GoesOn, Resolves
  <2> QED
    BY <1>8, <2>4, <2>5, <2>6
<1>9. CASE c.op = "unix_server" /\ c.flags = {}
  <2>0. c.op = "unix_server"
    BY <1>9
  <2>3. Steps(c) = <<"socket", "reuse", "bind", "listen">>
    BY <2>0, Zenon DEF Steps
  <2>4. Steps(c) \in Seq(StepNames) /\ Len(Steps(c)) = 4
    BY <2>3 DEF StepNames
  <2>5. Steps(c)[1] = "socket" /\ Steps(c)[2] = "reuse" /\ Steps(c)[3] = "bind" /\ Steps(c)[4] = "listen"
    BY <2>3
  <2>6. ASSUME NEW i \in 1 .. Len(Steps(c))
        PROVE  LET step == Steps(c)[i] IN
               /\ step \in {"socket", "accept"} <=> i = 1
               /\ i = 1 => ~Closes(c, step) /\ ~KnownLeak(c, step)
               /\ i > 1 => (Closes(c, step) <=> ~KnownLeak(c, step))
               /\ step \in {"socket", "connect"} /\ Resolves(c) => GoesOn(c, step)
    <3>1. i \in 1 .. 4
      BY <2>4
    <3>2. \A step : Closes(c, step) <=> step \in {"reuse", "bind", "listen"}
      BY <2>0, ClosesIs
    <3> QED
      BY <2>0, <2>5, <3>1, <3>2 DEF KnownLeak, GoesOn, Resolves
  <2> QED
    BY <1>9, <2>4, <2>5, <2>6
<1>10. CASE c.op = "unix_connect" /\ c.flags = {}
  <2>0. c.op = "unix_connect"
    BY <1>10
  <2>1. "nonblock" \notin c.flags
    BY <1>10
  <2>2. Steps(c) = <<"socket", "reuse">> \o << >> \o <<"connect">>
    BY <2>0, <2>1, Zenon DEF Steps
  <2>3. Steps(c) = <<"socket", "reuse", "connect">>
    <3>1. <<"socket", "reuse">> \o << >> = <<"socket", "reuse">>
      BY AndNone
    <3>2. <<"socket", "reuse">> \o <<"connect">> = <<"socket", "reuse", "connect">>
      BY TwoAndOne
    <3> QED
      BY <2>2, <3>1, <3>2
  <2>4. Steps(c) \in Seq(StepNames) /\ Len(Steps(c)) = 3
    BY <2>3 DEF StepNames
  <2>5. Steps(c)[1] = "socket" /\ Steps(c)[2] = "reuse" /\ Steps(c)[3] = "connect"
    BY <2>3
  <2>6. ASSUME NEW i \in 1 .. Len(Steps(c))
        PROVE  LET step == Steps(c)[i] IN
               /\ step \in {"socket", "accept"} <=> i = 1
               /\ i = 1 => ~Closes(c, step) /\ ~KnownLeak(c, step)
               /\ i > 1 => (Closes(c, step) <=> ~KnownLeak(c, step))
               /\ step \in {"socket", "connect"} /\ Resolves(c) => GoesOn(c, step)
    <3>1. i \in 1 .. 3
      BY <2>4
    <3>2. \A step : Closes(c, step) <=> step \in {"reuse", "connect"}
      BY <2>0, ClosesIs
    <3> QED
      BY <2>0, <2>5, <3>1, <3>2 DEF KnownLeak, GoesOn, Resolves
  <2> QED
    BY <1>10, <2>4, <2>5, <2>6
<1>11. CASE c.op = "unix_connect" /\ c.flags = {"nonblock"}
  <2>0. c.op = "unix_connect"
    BY <1>11
  <2>1. "nonblock" \in c.flags
    BY <1>11
  <2>2. Steps(c) = <<"socket", "reuse">> \o <<"nonblock">> \o <<"connect">>
    BY <2>0, <2>1, Zenon DEF Steps
  <2>3. Steps(c) = <<"socket", "reuse", "nonblock", "connect">>
    <3>1. <<"socket", "reuse">> \o <<"nonblock">> = <<"socket", "reuse", "nonblock">>
      BY TwoAndOne
    <3>2. <<"socket", "reuse", "nonblock">> \o <<"connect">> = <<"socket", "reuse", "nonblock", "connect">>
      BY ThreeAndOne
    <3> QED
      BY <2>2, <3>1, <3>2
  <2>4. Steps(c) \in Seq(StepNames) /\ Len(Steps(c)) = 4
    BY <2>3 DEF StepNames
  <2>5. Steps(c)[1] = "socket" /\ Steps(c)[2] = "reuse" /\ Steps(c)[3] = "nonblock" /\ Steps(c)[4] = "connect"
    BY <2>3
  <2>6. ASSUME NEW i \in 1 .. Len(Steps(c))
        PROVE  LET step == Steps(c)[i] IN
               /\ step \in {"socket", "accept"} <=> i = 1
               /\ i = 1 => ~Closes(c, step) /\ ~KnownLeak(c, step)
               /\ i > 1 => (Closes(c, step) <=> ~KnownLeak(c, step))
               /\ step \in {"socket", "connect"} /\ Resolves(c) => GoesOn(c, step)
    <3>1. i \in 1 .. 4
      BY <2>4
    <3>2. \A step : Closes(c, step) <=> step \in {"reuse", "connect"}
      BY <2>0, ClosesIs
    <3> QED
      BY <2>0, <2>5, <3>1, <3>2 DEF KnownLeak, GoesOn, Resolves
  <2> QED
    BY <1>11, <2>4, <2>5, <2>6
<1>12. CASE c.op = "accept" /\ c.flags = {}
  <2>0. c.op = "accept"
    BY <1>12
  <2>3. Steps(c) = <<"accept">>
    BY <2>0, Zenon DEF Steps
  <2>4. Steps(c) \in Seq(StepNames) /\ Len(Steps(c)) = 1
    BY <2>3 DEF StepNames
  <2>5. Steps(c)[1] = "accept"
    BY <2>3
  <2>6. ASSUME NEW i \in 1 .. Len(Steps(c))
        PROVE  LET step == Steps(c)[i] IN
               /\ step \in {"socket", "accept"} <=> i = 1
               /\ i = 1 => ~Closes(c, step) /\ ~KnownLeak(c, step)
               /\ i > 1 => (Closes(c, step) <=> ~KnownLeak(c, step))
               /\ step \in {"socket", "connect"} /\ Resolves(c) => GoesOn(c, step)
    <3>1. i \in 1 .. 1
      BY <2>4
    <3>2. \A step : Closes(c, step) <=> FALSE
      BY <2>0, ClosesIs
    <3> QED
      BY <2>0, <2>5, <3>1, <3>2 DEF KnownLeak, GoesOn, Resolves
  <2> QED
    BY <1>12, <2>4, <2>5, <2>6
<1> QED
  BY <1>1, <1>2, <1>3, <1>4, <1>5, <1>6, <1>7, <1>8, <1>9, <1>10, <1>11, <1>12

\* A call that is made again is one of anet.h, and is not made a third time.
LEMMA RetriedOnce ==
  /\ ~Retries(Unbound) /\ Resolves(Unbound)
  /\ \A c \in CallsMade : Retries(c) => c \in CallsOf /\ WithoutSource(c) = Unbound
<1>1. ~Retries(Unbound) /\ Resolves(Unbound)
  BY DEF Retries, Unbound, Resolves
<1>2. ASSUME NEW c \in CallsMade, Retries(c)
      PROVE  c \in CallsOf /\ WithoutSource(c) = Unbound
  <2>1. c \in CallsOf
    BY <1>1, <1>2 DEF CallsMade
  <2>2. c.op = "connect" /\ c.flags = {"nonblock", "source", "best_effort"}
    BY <1>2, <2>1 DEF Retries, CallsOf
  <2>3. c.flags \ {"source"} = {"nonblock", "best_effort"}
    BY <2>2
  <2>4. c = [op |-> c.op, flags |-> c.flags]
    BY <2>1 DEF CallsOf
  <2> QED
    BY <2>1, <2>2, <2>3, <2>4 DEF WithoutSource, Unbound
<1> QED
  BY <1>1, <1>2

(***************************************************************************)
(* The invariant, action by action.                                        *)
(***************************************************************************)

\* No call is in progress and no descriptor is open.
LEMMA InitInv == Init => IInv
<1> SUFFICES ASSUME Init PROVE IInv
  OBVIOUS
<1>1. call \in CallsMade /\ Len(Steps(call)) \in Nat \ {0}
  BY StepFacts DEF Init, CallsMade
<1>2. ShapeInv
  <2>1. /\ running = FALSE /\ asked \in CallsOf /\ entries = 1 /\ entry = 1 /\ at = 0
        /\ s = ANET_ERR /\ result = ANET_ERR /\ open = {} /\ owned = {} /\ leaked = {}
    BY DEF Init
  <2>2. at \in 0 .. Len(Steps(call))
    BY <1>1, <2>1
  <2>3. entries \in Nat /\ entry \in Nat /\ 1 <= entry /\ entry <= entries
    BY <2>1
  <2>4. running \in BOOLEAN /\ ~running
    BY <2>1
  <2> QED
    BY <1>1, <2>1, <2>2, <2>3, <2>4, Zenon DEF ShapeInv
<1>3. DescriptorsAccounted /\ ApartInv
  BY DEF Init, DescriptorsAccounted, ApartInv
<1>4. EveryAddressTried /\ CallInv /\ DoneInv
  BY DEF Init, EveryAddressTried, CallInv, DoneInv
<1> QED
  BY <1>2, <1>3, <1>4 DEF IInv

\* A call begins.
LEMMA BeginInv ==
  ASSUME IInv, NEW c \in CallsOf, Begin(c)
  PROVE  IInv'
<1>1. /\ c \in CallsMade /\ Len(Steps(c)) \in Nat \ {0}
  BY StepFacts DEF CallsMade
<1>2. ShapeInv'
  BY <1>1 DEF IInv, ShapeInv, Begin, ANET_ERR
<1>3. DescriptorsAccounted' /\ ApartInv'
  <2>1. ANET_ERR \notin Fds
    BY SocketsAssumption DEF ANET_ERR
  <2> QED
    BY <2>1 DEF IInv, ShapeInv, Begin, DescriptorsAccounted, ApartInv
<1>4. EveryAddressTried' /\ CallInv' /\ DoneInv'
  BY DEF Begin, EveryAddressTried, CallInv, DoneInv
<1> QED
  BY <1>2, <1>3, <1>4 DEF IInv

\* The addresses are found, or there are none.
LEMMA ResolveInv ==
  ASSUME IInv, Resolve \/ ResolveFails
  PROVE  IInv'
<1>1. /\ call' = call /\ asked' = asked /\ call \in CallsMade
      /\ Len(Steps(call)) \in Nat \ {0} /\ Resolves(call) /\ running
  BY StepFacts DEF IInv, ShapeInv, Resolve, ResolveFails
<1>2. /\ at = 0 /\ s = ANET_ERR /\ s' = s /\ done' = done /\ open' = open /\ owned' = owned
      /\ leaked' = leaked
  <2>1. at = 0 /\ s = ANET_ERR
    <3>1. at = 0
      BY DEF Resolve, ResolveFails
    <3>2. s # ANET_ERR <=> at > 1
      BY <1>1 DEF IInv, ShapeInv
    <3> QED
      BY <3>1, <3>2
  <2>2. s' = s /\ done' = done /\ open' = open /\ leaked' = leaked
    BY DEF Resolve, ResolveFails, place
  <2>3. owned' = owned
    <3>1. CASE Resolve
      BY <3>1 DEF Resolve
    <3>2. CASE ResolveFails
      BY <3>2 DEF ResolveFails, Return
    <3> QED
      BY <3>1, <3>2
  <2> QED
    BY <2>1, <2>2, <2>3
<1>3. CASE Resolve
  <2>1. /\ entries' \in Nat /\ 1 <= entries' /\ entry' = 1 /\ at' = 1 /\ running' = running
        /\ result' = result /\ why' = why
    BY <1>3, SocketsAssumption DEF Resolve
  <2>2. ShapeInv'
    BY <1>1, <1>2, <2>1 DEF IInv, ShapeInv
  <2>3. DescriptorsAccounted' /\ ApartInv'
    BY <1>1, <1>2, <2>1 DEF IInv, DescriptorsAccounted, ApartInv
  <2>4. EveryAddressTried' /\ CallInv' /\ DoneInv'
    BY <1>1, <1>2, <2>1 DEF IInv, EveryAddressTried, CallInv, DoneInv
  <2> QED
    BY <2>2, <2>3, <2>4 DEF IInv
<1>4. CASE ResolveFails
  <2>1. /\ entries' = entries /\ entry' = entry /\ at' = at /\ running' = FALSE
        /\ result' = ANET_ERR /\ why' = "resolve"
    BY <1>4 DEF ResolveFails, Return, place
  <2>2. ShapeInv'
    BY <1>1, <1>2, <2>1 DEF IInv, ShapeInv
  <2>3. DescriptorsAccounted' /\ ApartInv'
    BY <1>1, <1>2, <2>1 DEF IInv, DescriptorsAccounted, ApartInv
  <2>4. EveryAddressTried' /\ CallInv' /\ DoneInv'
    BY <1>1, <1>2, <2>1 DEF IInv, EveryAddressTried, CallInv, DoneInv
  <2> QED
    BY <2>2, <2>3, <2>4 DEF IInv
<1> QED
  BY <1>3, <1>4

\* The caller closes a descriptor it owns.
LEMMA ReleaseInv ==
  ASSUME IInv, NEW fd \in owned, Release(fd)
  PROVE  IInv'
<1>1. ShapeInv'
  BY DEF IInv, ShapeInv, Release, place
<1>2. DescriptorsAccounted' /\ ApartInv'
  BY DEF IInv, Release, place, DescriptorsAccounted, ApartInv
<1>3. EveryAddressTried' /\ CallInv' /\ DoneInv'
  BY DEF IInv, Release, place, EveryAddressTried, CallInv, DoneInv
<1> QED
  BY <1>1, <1>2, <1>3 DEF IInv

\* A step succeeds: the next one is due, or the call returns its descriptor.
LEMMA SucceedsInv ==
  ASSUME IInv, StepSucceeds
  PROVE  IInv'
<1> DEFINE q == Steps(call)
<1>1. /\ call \in CallsMade /\ Len(q) \in Nat \ {0} /\ at \in 1 .. Len(q) /\ running
      /\ Step = q[at] /\ (Step \in {"socket", "accept"} <=> at = 1)
      /\ call' = call /\ asked' = asked /\ entry' = entry /\ entries' = entries
      /\ why' = why /\ leaked' = leaked
  BY StepFacts DEF IInv, ShapeInv, StepSucceeds, Step
<1>2. /\ s' \in Fds /\ s' # ANET_ERR /\ s' \notin owned \cup leaked
      /\ open' = owned \cup leaked \cup {s'} /\ open' \subseteq Fds
  <2>1. CASE at = 1
    <3>1. PICK fd \in Fds : LowestFree(fd) /\ s' = fd /\ open' = open \cup {fd}
      BY <1>1, <2>1 DEF StepSucceeds
    <3>2. fd \notin open /\ fd # ANET_ERR
      BY <3>1, SocketsAssumption DEF LowestFree, Free, ANET_ERR
    <3>3. s = ANET_ERR
      BY <1>1, <2>1 DEF IInv, ShapeInv
    <3>4. open = owned \cup leaked /\ open \subseteq Fds
      BY <1>1, <3>3 DEF IInv, ShapeInv, DescriptorsAccounted
    <3> QED
      BY <3>1, <3>2, <3>4
  <2>2. CASE at # 1
    <3>1. s' = s /\ open' = open
      BY <1>1, <2>2 DEF StepSucceeds
    <3>2. s # ANET_ERR
      BY <1>1, <2>2 DEF IInv, ShapeInv
    <3>3. open = owned \cup leaked \cup {s} /\ s \notin owned \cup leaked
      BY <1>1, <3>2 DEF IInv, DescriptorsAccounted, ApartInv
    <3> QED
      BY <3>1, <3>2, <3>3 DEF IInv, ShapeInv
  <2> QED
    BY <2>1, <2>2
<1>3. \A i \in 1 .. at : q[i] \in done'
  <2>1. CASE at = 1
    BY <1>1, <2>1 DEF StepSucceeds
  <2>2. CASE at # 1
    BY <1>1, <2>2 DEF StepSucceeds, IInv, DoneInv
  <2> QED
    BY <2>1, <2>2
<1>4. CASE at = Len(q)
  <2>1. running' = FALSE /\ result' = s' /\ owned' = owned \cup {s'} /\ at' = at
    BY <1>2, <1>4 DEF StepSucceeds, Return
  <2>2. ShapeInv'
    BY <1>1, <1>2, <2>1 DEF IInv, ShapeInv
  <2>3. DescriptorsAccounted' /\ ApartInv'
    BY <1>1, <1>2, <2>1 DEF IInv, DescriptorsAccounted, ApartInv
  <2>4. EveryAddressTried' /\ CallInv' /\ DoneInv'
    BY <1>1, <1>2, <1>3, <1>4, <2>1 DEF IInv, EveryAddressTried, CallInv, DoneInv
  <2> QED
    BY <2>2, <2>3, <2>4 DEF IInv
<1>5. CASE at # Len(q)
  <2>1. running' = running /\ result' = result /\ owned' = owned /\ at' = at + 1
    BY <1>5 DEF StepSucceeds
  <2>2. ShapeInv'
    BY <1>1, <1>2, <1>5, <2>1 DEF IInv, ShapeInv
  <2>3. DescriptorsAccounted' /\ ApartInv'
    BY <1>1, <1>2, <2>1 DEF IInv, DescriptorsAccounted, ApartInv
  <2>4. EveryAddressTried' /\ CallInv' /\ DoneInv'
    BY <1>1, <1>3, <2>1 DEF IInv, EveryAddressTried, CallInv, DoneInv
  <2> QED
    BY <2>2, <2>3, <2>4 DEF IInv
<1> QED
  BY <1>4, <1>5

\* A step that fails closes the socket or leaves it at a known place; then there
\* is none.
LEMMA FailureCloses ==
  ASSUME IInv, StepFails
  PROVE  /\ s' = ANET_ERR /\ open' = owned \cup leaked' /\ owned \cap leaked' = {}
         /\ leaked' \subseteq Fds
<1> DEFINE q == Steps(call)
<1>1. /\ call \in CallsMade /\ Len(q) \in Nat \ {0} /\ at \in 1 .. Len(q) /\ running
      /\ Step = q[at] /\ s' = ANET_ERR
  BY StepFacts DEF IInv, ShapeInv, StepFails, Step
<1>2. open' = IF Closes(call, Step) THEN open \ {s} ELSE open
  BY DEF StepFails
<1>3. leaked' = IF KnownLeak(call, Step) THEN leaked \cup {s} ELSE leaked
  BY DEF StepFails
<1>4. CASE at = 1
  <2>1. ~Closes(call, Step) /\ ~KnownLeak(call, Step)
    BY <1>1, <1>4, StepFacts
  <2>2. s = ANET_ERR
    BY <1>1, <1>4 DEF IInv, ShapeInv
  <2> QED
    BY <1>1, <1>2, <1>3, <2>1, <2>2 DEF IInv, ShapeInv, DescriptorsAccounted, ApartInv
<1>5. CASE at # 1
  <2>1. Closes(call, Step) <=> ~KnownLeak(call, Step)
    BY <1>1, <1>5, StepFacts
  <2>2. s # ANET_ERR /\ s \in Fds
    BY <1>1, <1>5 DEF IInv, ShapeInv
  <2>3. open = owned \cup leaked \cup {s} /\ s \notin owned \cup leaked
    BY <1>1, <2>2 DEF IInv, DescriptorsAccounted, ApartInv
  <2> QED
    BY <1>1, <1>2, <1>3, <2>1, <2>2, <2>3 DEF IInv, ShapeInv, ApartInv
<1> QED
  BY <1>4, <1>5

\* A step fails: its socket is closed or leaked, and the next address is tried, or the
\* call is made again without its source address, or it is over.
LEMMA FailsInv ==
  ASSUME IInv, StepFails
  PROVE  IInv'
<1> DEFINE q == Steps(call)
<1> DEFINE again == GoesOn(call, Step) /\ entry < entries
<1>1. /\ call \in CallsMade /\ Len(q) \in Nat \ {0} /\ at \in 1 .. Len(q) /\ running
      /\ Step = q[at] /\ asked' = asked /\ asked \in CallsMade
      /\ (Step \in {"socket", "connect"} /\ Resolves(call) => GoesOn(call, Step))
  BY StepFacts DEF IInv, ShapeInv, StepFails, Step, CallsMade
<1>2. /\ s' = ANET_ERR /\ open' = owned \cup leaked' /\ owned \cap leaked' = {}
      /\ leaked' \subseteq Fds
  BY FailureCloses
<1>3. ANET_ERR \notin owned \cup leaked'
  BY <1>2, SocketsAssumption DEF IInv, ShapeInv, ANET_ERR
<1>4. CASE again
  <2>1. /\ entry' = entry + 1 /\ at' = 1 /\ running' = running /\ call' = call
        /\ entries' = entries /\ result' = result /\ why' = why /\ owned' = owned
    BY <1>4 DEF StepFails
  <2>2. ShapeInv'
    BY <1>1, <1>2, <1>4, <2>1 DEF IInv, ShapeInv
  <2>3. DescriptorsAccounted' /\ ApartInv'
    BY <1>2, <1>3, <2>1 DEF DescriptorsAccounted, ApartInv
  <2>4. EveryAddressTried' /\ CallInv' /\ DoneInv'
    BY <1>1, <2>1 DEF IInv, EveryAddressTried, CallInv, DoneInv
  <2> QED
    BY <2>2, <2>3, <2>4 DEF IInv
<1>5. CASE ~again /\ Retries(call)
  <2>1. /\ call' = Unbound /\ at' = 0 /\ running' = running /\ entries' = entries
        /\ entry' = entry /\ result' = result /\ why' = why /\ owned' = owned
    BY <1>1, <1>5, RetriedOnce DEF StepFails
  <2>2. call = asked
    BY <1>5, RetriedOnce DEF IInv, CallInv
  <2>3. Unbound \in CallsMade /\ Len(Steps(Unbound)) \in Nat \ {0} /\ Resolves(Unbound)
    BY StepFacts, RetriedOnce DEF CallsMade
  <2>4. ShapeInv'
    BY <1>1, <1>2, <2>1, <2>3 DEF IInv, ShapeInv
  <2>5. DescriptorsAccounted' /\ ApartInv'
    BY <1>2, <1>3, <2>1 DEF DescriptorsAccounted, ApartInv
  <2>6. EveryAddressTried' /\ CallInv' /\ DoneInv'
    BY <1>1, <1>5, <2>1, <2>2, <2>3 DEF EveryAddressTried, CallInv, DoneInv
  <2> QED
    BY <2>4, <2>5, <2>6 DEF IInv
<1>6. CASE ~again /\ ~Retries(call)
  <2>1. /\ call' = call /\ at' = at /\ running' = FALSE /\ entries' = entries
        /\ entry' = entry /\ result' = ANET_ERR /\ why' = Step /\ owned' = owned
    BY <1>6 DEF StepFails, Return
  <2>2. ShapeInv'
    BY <1>1, <1>2, <2>1 DEF IInv, ShapeInv
  <2>3. DescriptorsAccounted' /\ ApartInv'
    BY <1>2, <1>3, <2>1 DEF DescriptorsAccounted, ApartInv
  <2>4. EveryAddressTried'
    BY <1>1, <1>6, <2>1 DEF IInv, ShapeInv, EveryAddressTried
  <2>5. CallInv' /\ DoneInv'
    BY <1>1, <1>6, <2>1 DEF IInv, CallInv, DoneInv
  <2> QED
    BY <2>2, <2>3, <2>4, <2>5 DEF IInv
<1> QED
  BY <1>4, <1>5, <1>6

\* Every step preserves the invariant.
LEMMA StepInv == IInv /\ [Next]_vars => IInv'
<1> SUFFICES ASSUME IInv, [Next]_vars PROVE IInv'
  OBVIOUS
<1>1. CASE Resolve \/ ResolveFails
  BY <1>1, ResolveInv
<1>2. CASE StepSucceeds
  BY <1>2, SucceedsInv
<1>3. CASE StepFails
  BY <1>3, FailsInv
<1>4. ASSUME NEW c \in CallsOf, Begin(c) PROVE IInv'
  BY <1>4, BeginInv
<1>5. ASSUME NEW fd \in owned, Release(fd) PROVE IInv'
  BY <1>5, ReleaseInv
<1>6. CASE UNCHANGED vars
  BY <1>6 DEF vars, place, IInv, ShapeInv, DescriptorsAccounted, ApartInv, EveryAddressTried,
              CallInv, DoneInv
<1> QED
  BY <1>1, <1>2, <1>3, <1>4, <1>5, <1>6 DEF Next, CallStep

(***************************************************************************)
(* Theorems.                                                               *)
(***************************************************************************)

\* The inductive invariant.
THEOREM SocketsInvariant == FairSpec => []IInv
<1> QED
  BY InitInv, StepInv, PTL DEF FairSpec

\* Whichever steps fail, no descriptor is lost on a way out but at the two known
\* places, and none of a caller's is closed.
THEOREM DescriptorsHold == FairSpec => []DescriptorsAccounted
<1>1. IInv => DescriptorsAccounted
  BY DEF IInv
<1> QED
  BY <1>1, SocketsInvariant, PTL

\* A call gives up for want of a socket or a connection only after the last
\* address.
THEOREM AddressesTried == FairSpec => []EveryAddressTried
<1>1. IInv => EveryAddressTried
  BY DEF IInv
<1> QED
  BY <1>1, SocketsInvariant, PTL

\* What a call with a source address returns is bound to it, unless the binding
\* is best effort; and then it gives up only after a try without.
THEOREM BindingHolds == FairSpec => []BindsAsAsked
<1>1. IInv => BindsAsAsked
  <2> SUFFICES ASSUME IInv, ~running, "source" \in asked.flags
               PROVE  /\ result # ANET_ERR => "bind" \in done \/ "best_effort" \in asked.flags
                      /\ result = ANET_ERR /\ "best_effort" \in asked.flags /\ why # "resolve"
                           => "source" \notin call.flags
    BY DEF BindsAsAsked
  <2>1. asked \in CallsMade /\ asked.op = "connect"
    BY DEF IInv, ShapeInv, CallsMade, CallsOf
  <2>2. CASE result # ANET_ERR /\ "best_effort" \notin asked.flags
    <3>1. call = asked
      BY <2>2 DEF IInv, CallInv, Retries
    <3>2. \E i \in 1 .. Len(Steps(call)) : Steps(call)[i] = "bind"
      BY <2>1, <3>1, StepFacts
    <3> QED
      BY <2>2, <3>2 DEF IInv, DoneInv
  <2>3. CASE result = ANET_ERR /\ "best_effort" \in asked.flags /\ why # "resolve"
    BY <2>1, <2>3 DEF IInv, CallInv, Retries, Unbound
  <2> QED
    BY <2>2, <2>3
<1> QED
  BY <1>1, SocketsInvariant, PTL
=============================================================================
