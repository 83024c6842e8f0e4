---------------------------- MODULE RedisService ----------------------------
(***************************************************************************)
(* What the proxy promises its clients, with no threads, queues, sessions  *)
(* or descriptors.  A client asks as many requests as it likes; requests   *)
(* are worked on in any order, each call of one taking effect at one       *)
(* instant and once at most; and the k-th reply a client is told is the    *)
(* reply to the k-th request it asked.                                     *)
(***************************************************************************)
EXTENDS Commands

CONSTANTS Conns, Keys, Requests

VARIABLES
  status,    \* "new", "open" or "closed"
  store,     \* the value of each key in the cluster
  expiring,  \* keys with a time to live
  asked,     \* per client: the requests it asked
  progress,  \* per client, for each of them: what has become of it
  told       \* per client: the replies it was told

vars == <<status, store, expiring, asked, progress, told>>

\* What has become of a request: calls were made and read something, or it is
\* answered.
UnderWay(made, read) == [made |-> made, read |-> read, done |-> FALSE, reply |-> << >>]
Answered(reply) == [made |-> 0, read |-> << >>, done |-> TRUE, reply |-> reply]

Init ==
  /\ status = [c \in Conns |-> "new"]
  /\ store = [k \in Keys |-> Absent]
  /\ expiring = {}
  /\ asked = [c \in Conns |-> << >>]
  /\ progress = [c \in Conns |-> << >>]
  /\ told = [c \in Conns |-> << >>]

Open(c) ==
  /\ status[c] = "new"
  /\ status' = [status EXCEPT ![c] = "open"]
  /\ UNCHANGED <<store, expiring, asked, progress, told>>

Close(c) ==
  /\ status[c] = "open"
  /\ status' = [status EXCEPT ![c] = "closed"]
  /\ UNCHANGED <<store, expiring, asked, progress, told>>

Ask(c, r) ==
  /\ status[c] = "open"
  /\ asked' = [asked EXCEPT ![c] = Append(@, r)]
  /\ progress' = [progress EXCEPT ![c] = Append(@, UnderWay(0, << >>))]
  /\ UNCHANGED <<status, store, expiring, told>>

Advance(c, i, p) ==
  /\ ~progress[c][i].done
  /\ progress' = [progress EXCEPT ![c][i] = p]
  /\ UNCHANGED <<status, asked, told>>

NextCall(c, i) == Calls(asked[c][i])[progress[c][i].made + 1]

Apply(call) ==
  /\ store' = IF call.op \in Writes THEN [store EXCEPT ![call.key] = Effect(@, call)] ELSE store
  /\ expiring' = IF call.op = "EXPIRE" THEN expiring \cup {call.key} ELSE expiring

NoEffect == UNCHANGED <<store, expiring>>

\* Request i of client c is answered without an effect: it was refused.
Refuse(c, i) ==
  /\ ~ArgumentsOk(asked[c][i])
  /\ Advance(c, i, Answered(UsageError))
  /\ NoEffect

\* Its next call takes effect; the last one answers it.
Call(c, i) ==
  LET p == progress[c][i]
      read == Append(p.read, store[NextCall(c, i).key])
  IN
  /\ ArgumentsOk(asked[c][i])
  /\ Advance(c, i, IF p.made + 1 < Len(Calls(asked[c][i]))
                   THEN UnderWay(p.made + 1, read)
                   ELSE Answered(ReplyTo(asked[c][i], read)))
  /\ Apply(NextCall(c, i))

Errors == {InternalError} \cup {StatusError(x) : x \in {"invalid", "other_status"}}

\* Its next call fails, with an effect or without, and it is given up.
Fail(c, i) ==
  /\ ArgumentsOk(asked[c][i])
  /\ \E error \in Errors : Advance(c, i, Answered(error))
  /\ NoEffect \/ Apply(NextCall(c, i))

\* The next reply in the order of the requests, once there is one.
Tell(c) ==
  LET i == Len(told[c]) + 1 IN
  /\ status[c] = "open"
  /\ i \in DOMAIN asked[c]
  /\ progress[c][i].done
  /\ told' = [told EXCEPT ![c] = Append(@, progress[c][i].reply)]
  /\ UNCHANGED <<status, store, expiring, asked, progress>>

\* A key's time to live is over.
Expire(k) ==
  /\ k \in expiring
  /\ store' = [store EXCEPT ![k] = Absent]
  /\ expiring' = expiring \ {k}
  /\ UNCHANGED <<status, asked, progress, told>>

Next ==
  \/ \E k \in Keys : Expire(k)
  \/ \E c \in Conns :
       \/ Open(c) \/ Close(c) \/ Tell(c)
       \/ \E r \in Requests : Ask(c, r)
       \/ \E i \in DOMAIN asked[c] : Refuse(c, i) \/ Call(c, i) \/ Fail(c, i)

Spec == Init /\ [][Next]_vars
=============================================================================
