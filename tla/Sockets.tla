------------------------------ MODULE Sockets ------------------------------
(***************************************************************************)
(* The functions of anet that open descriptors, system call by system      *)
(* call.  Each takes the same few steps, for one address after another,    *)
(* and differs from the others in what it does when a step fails: close    *)
(* the socket or not, try the next address or give up, and, with best      *)
(* effort binding, begin again without the source address.                 *)
(***************************************************************************)
EXTENDS Integers, Sequences, FiniteSets

CONSTANTS
  Fds,          \* descriptor numbers the kernel has for these calls
  MaxEntries    \* bound: addresses getaddrinfo() returns

ASSUME SocketsAssumption == Fds \subseteq Nat /\ MaxEntries \in Nat \ {0}

VARIABLES
  running,    \* a call has begun and not returned
  asked,      \* the call as its caller made it
  call,       \* the call in progress: asked, or the one without source address
  entries,    \* the number of addresses it has
  entry,      \* the address it is at
  at,         \* the step it is at, 0 for getaddrinfo()
  s,          \* the local s
  done,       \* the steps that have been taken with s
  result,     \* what the last call returned
  why,        \* history: the step whose failure ended it
  open,       \* kernel: descriptors that are open
  owned,      \* descriptors callers were given and have not closed
  leaked      \* history: descriptors left open at the two places named below

place == <<entry, at, s, done>>
vars == <<running, asked, call, entries, place, result, why, open, owned, leaked>>

ANET_ERR == -1
Flags == {"six", "nonblock", "source", "best_effort"}

\* What the functions of anet.h ask for.
CallsOf ==
  [op : {"server"}, flags : {{}, {"six"}}]
  \cup [op : {"connect"},
        flags : {{}, {"nonblock"}, {"nonblock", "source"}, {"nonblock", "source", "best_effort"}}]
  \cup [op : {"unix_server", "accept"}, flags : {{}}]
  \cup [op : {"unix_connect"}, flags : {{}, {"nonblock"}}]

Resolves(c) == c.op \in {"server", "connect"}

Steps(c) ==
  LET If(flag, step) == IF flag \in c.flags THEN <<step>> ELSE << >> IN
  CASE c.op = "server" -> <<"socket">> \o If("six", "v6only") \o <<"reuse", "bind", "listen">>
    [] c.op = "connect" -> <<"socket", "reuse">> \o If("nonblock", "nonblock")
                             \o If("source", "bind") \o <<"connect">>
    [] c.op = "unix_server" -> <<"socket", "reuse", "bind", "listen">>
    [] c.op = "unix_connect" -> <<"socket", "reuse">> \o If("nonblock", "nonblock") \o <<"connect">>
    [] c.op = "accept" -> <<"accept">>

\* Mutant: only a failing connect() closes its socket.
ClosesAfterConnectOnly(c, step) == step \in {"connect", "v6only", "listen"}

\* The failure of a step closes s: anetV6Only and anetListen do it themselves,
\* as anetCreateSocket does; anetTcpGenericConnect does it at the label error
\* and after connect().
Closes(c, step) ==
  CASE c.op = "server" -> step \in {"v6only", "bind", "listen"}
    [] c.op = "connect" -> step # "socket"
    [] c.op = "unix_server" -> step \in {"reuse", "bind", "listen"}
    [] c.op = "unix_connect" -> step \in {"reuse", "connect"}
    [] c.op = "accept" -> FALSE

\* The places where a socket is left open on the way out: SO_REUSEADDR fails in
\* _anetTcpServer, O_NONBLOCK in anetUnixGenericConnect.
KnownLeak(c, step) ==
  \/ c.op = "server" /\ step = "reuse"
  \/ c.op = "unix_connect" /\ step = "nonblock"

\* Mutant: an address that refuses the connection ends the search.
GoesOnUnlessRefused(c, step) == Resolves(c) /\ step = "socket"

\* The failure of a step makes the loop go on with the next address.
GoesOn(c, step) ==
  Resolves(c) /\ step \in (IF c.op = "connect" THEN {"socket", "connect"} ELSE {"socket"})

\* Mutant: every call that has a source address is made again without it.
RetriesAlways(c) == c.op = "connect" /\ "source" \in c.flags

\* A call that found no socket is made again without its source address.
Retries(c) == c.op = "connect" /\ {"source", "best_effort"} \subseteq c.flags

\* Mutant: the source address is passed on.
SameCall(c) == c
WithoutSource(c) == [c EXCEPT !.flags = @ \ {"source"}]
-----------------------------------------------------------------------------
Step == Steps(call)[at]

Free == Fds \ open
LowestFree(fd) == fd \in Free /\ \A g \in Free : fd <= g

Return(value) ==
  /\ running' = FALSE
  /\ result' = value
  /\ owned' = IF value = ANET_ERR THEN owned ELSE owned \cup {value}

Begin(c) ==
  /\ ~running
  /\ running' = TRUE
  /\ asked' = c /\ call' = c
  /\ entries' = 1 /\ entry' = 1
  /\ at' = IF Resolves(c) THEN 0 ELSE 1
  /\ s' = ANET_ERR /\ done' = {}
  /\ why' = "none"
  /\ result' = ANET_ERR
  /\ UNCHANGED <<open, owned, leaked>>

Resolve ==
  /\ running /\ at = 0
  /\ entries' \in 1 .. MaxEntries
  /\ entry' = 1 /\ at' = 1
  /\ UNCHANGED <<running, asked, call, s, done, result, why, open, owned, leaked>>

ResolveFails ==
  /\ running /\ at = 0
  /\ why' = "resolve"
  /\ Return(ANET_ERR)
  /\ UNCHANGED <<asked, call, entries, place, open, leaked>>

\* A step succeeds.  A connect() that is in progress on a non-blocking socket
\* is as good as one that is through.
StepSucceeds ==
  /\ running /\ at > 0
  /\ IF Step \in {"socket", "accept"}
     THEN \E fd \in Fds :
            /\ LowestFree(fd)
            /\ s' = fd /\ open' = open \cup {fd} /\ done' = {Step}
     ELSE s' = s /\ open' = open /\ done' = done \cup {Step}
  /\ IF at = Len(Steps(call))
     THEN Return(s') /\ UNCHANGED at
     ELSE at' = at + 1 /\ UNCHANGED <<running, result, owned>>
  /\ UNCHANGED <<asked, call, entries, entry, why, leaked>>

\* A step fails.  An accept() that was only interrupted is repeated, and is not
\* seen here.
StepFails ==
  /\ running /\ at > 0
  /\ open' = IF Closes(call, Step) THEN open \ {s} ELSE open
  /\ leaked' = IF KnownLeak(call, Step) THEN leaked \cup {s} ELSE leaked
  /\ s' = ANET_ERR /\ done' = {}
  /\ \/ /\ GoesOn(call, Step) /\ entry < entries
        /\ entry' = entry + 1 /\ at' = 1
        /\ UNCHANGED <<running, call, entries, result, why, owned>>
     \/ /\ ~(GoesOn(call, Step) /\ entry < entries)
        /\ IF Retries(call)
           THEN /\ call' = WithoutSource(call)
                /\ at' = 0
                /\ UNCHANGED <<running, entries, entry, result, why, owned>>
           ELSE /\ why' = Step
                /\ Return(ANET_ERR)
                /\ UNCHANGED <<call, entries, entry, at>>
  /\ UNCHANGED asked

\* The caller closes a descriptor it was given.
Release(fd) ==
  /\ ~running
  /\ fd \in owned
  /\ open' = open \ {fd} /\ owned' = owned \ {fd}
  /\ UNCHANGED <<running, asked, call, entries, place, result, why, leaked>>

Init ==
  /\ running = FALSE
  /\ asked \in CallsOf /\ call = asked
  /\ entries = 1 /\ entry = 1 /\ at = 0 /\ s = ANET_ERR /\ done = {}
  /\ result = ANET_ERR /\ why = "resolve"
  /\ open = {} /\ owned = {} /\ leaked = {}

CallStep == Resolve \/ ResolveFails \/ StepSucceeds \/ StepFails

Next ==
  \/ CallStep
  \/ \E c \in CallsOf : Begin(c)
  \/ \E fd \in owned : Release(fd)

\* System calls return.
FairSpec == Init /\ [][Next]_vars /\ WF_vars(CallStep)
-----------------------------------------------------------------------------
(* Properties.                                                             *)

\* Whichever steps fail, a descriptor is open exactly while a caller owns it or
\* the call in progress holds it, except for those left open at KnownLeak: none
\* is lost on another way out, and none of a caller's is closed.
DescriptorsAccounted ==
  open = owned \cup leaked \cup (IF running THEN {s} \ {ANET_ERR} ELSE {})

\* A call that ends because no socket could be made or connected has tried all
\* addresses, the last one too (anetTcpGenericConnect, _anetTcpServer).
EveryAddressTried ==
  ~running /\ result = ANET_ERR /\ why \in {"socket", "connect"} => entry = entries

\* A call with a source address returns a socket that is bound to it, unless
\* the binding is best effort; then it gives up only after a second try without
\* the address (anetTcpGenericConnect).
BindsAsAsked ==
  ~running /\ "source" \in asked.flags =>
    /\ result # ANET_ERR => "bind" \in done \/ "best_effort" \in asked.flags
    /\ result = ANET_ERR /\ "best_effort" \in asked.flags /\ why # "resolve" =>
         "source" \notin call.flags

\* Every call returns: the second try is the last.
CallsReturn == running ~> ~running
=============================================================================
