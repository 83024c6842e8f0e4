------------------------------ MODULE Handlers ------------------------------
(***************************************************************************)
(* What the workers of the processing pool do with a request: the handler  *)
(* of its command checks the number of arguments, makes one or more calls  *)
(* to the LogCabin cluster, and encodes a reply.  The cluster is external: *)
(* a call takes effect at one instant, and may throw whether or not it has *)
(* taken effect.  Requests of one pipelining client wait in the pool's     *)
(* FIFO queue; several workers process them at the same time.              *)
(***************************************************************************)
EXTENDS Commands, FiniteSets

CONSTANTS
  Workers,    \* threads of pThreadPool
  Scripts,    \* what a client may send: sequences of requests
  Keys,       \* the keys they use
  NumTrees,   \* size of pTreeList (10 in handler.h)
  Faults      \* what a call may do besides succeed: a subset of {"throws",
              \* "throws_after_effect", "invalid", "other_status"}

IsSequence(s) == s \in Seq(ToSet(s))

\* A text is one piece at least, also an empty one.
IsText(value) == IsSequence(value) /\ value # << >>

ASSUME HandlersAssumption ==
  /\ \A s \in Scripts : IsSequence(s) /\ \A n \in DOMAIN s :
       /\ IsSequence(s[n]) /\ \A i \in DOMAIN s[n] : IsText(s[n][i])
       /\ ArgumentsOk(s[n]) => \A i \in DOMAIN Calls(s[n]) : Calls(s[n])[i].key \in Keys
  /\ NumTrees \in Nat \ {0}
  /\ Faults \subseteq {"throws", "throws_after_effect", "invalid", "other_status"}

VARIABLES
  script,         \* the requests, numbered from 1
  taken,          \* how many of them a worker has taken from the queue
  job,            \* per worker: the request's number, the calls made, what they read
  ptree_counter,
  store,          \* external: the value of each key in the cluster
  expiring,       \* external: keys with a time to live
  applied,        \* history: the writing calls in the order they took effect
  replies         \* the encoded replies to the requests that have one, by number

vars == <<script, taken, job, ptree_counter, store, expiring, applied, replies>>

NoJob == [n |-> 0, made |-> 0, read |-> << >>]
-----------------------------------------------------------------------------
Init ==
  /\ script \in Scripts
  /\ taken = 0
  /\ job = [w \in Workers |-> NoJob]
  /\ ptree_counter = 0
  /\ store = [k \in Keys |-> Absent]
  /\ expiring = {}
  /\ applied = << >>
  /\ replies = << >>

\* Request n is answered: the encoded reply is handed to send_reply.
Reply(n, reply) ==
  replies' = [m \in DOMAIN replies \cup {n} |-> IF m = n THEN reply ELSE replies[m]]

\* processer_worker begins: a request with a wrong number of arguments, or an
\* unknown command, is answered without a call.
Take(w) ==
  LET n == taken + 1 IN
  /\ job[w] = NoJob
  /\ n \in DOMAIN script
  /\ taken' = n
  /\ \/ /\ ArgumentsOk(script[n])
        /\ job' = [job EXCEPT ![w] = [NoJob EXCEPT !.n = n]]
        /\ UNCHANGED replies
     \/ /\ ~ArgumentsOk(script[n])
        /\ Reply(n, UsageError)
        /\ UNCHANGED job
  /\ UNCHANGED <<script, ptree_counter, store, expiring, applied>>

\* Mutant: the counter is not reduced.
NextTreeUnbounded == ptree_counter' = ptree_counter + 1

\* getTree: the trees are used in turn.
NextTree == ptree_counter' = (ptree_counter + 1) % NumTrees

\* The call of worker w takes effect in the cluster.
Apply(w, call) ==
  IF call.op \in Writes
  THEN /\ store' = [store EXCEPT ![call.key] = Effect(@, call)]
       /\ expiring' = IF call.op = "EXPIRE" THEN expiring \cup {call.key} ELSE expiring
       /\ applied' = Append(applied, [n |-> job[w].n, call |-> call])
  ELSE UNCHANGED <<store, expiring, applied>>

\* Mutant: after a call that throws the handler goes on with the next.
AnswerAndGoOn(w, reply) ==
  /\ Reply(job[w].n, reply)
  /\ job' = [job EXCEPT ![w] =
       IF @.made + 1 < Len(Calls(script[@.n])) THEN [@ EXCEPT !.made = @ + 1] ELSE NoJob]

\* Worker w answers its request and is done with it.
Answer(w, reply) ==
  /\ Reply(job[w].n, reply)
  /\ job' = [job EXCEPT ![w] = NoJob]

\* A call returns; after the last one the reply is encoded.
CallReturns(w) ==
  LET j == job[w]  r == script[j.n]  call == Calls(r)[j.made + 1]
      read == Append(j.read, store[call.key])
  IN
  /\ j # NoJob
  /\ NextTree
  /\ Apply(w, call)
  /\ IF j.made + 1 < Len(Calls(r))
     THEN /\ job' = [job EXCEPT ![w] = [j EXCEPT !.made = j.made + 1, !.read = read]]
          /\ UNCHANGED replies
     ELSE Answer(w, ReplyTo(r, read))
  /\ UNCHANGED <<script, taken>>

\* Mutant: the exception is not caught; the pool's future swallows it.
CallThrowsUncaught(w) ==
  /\ job[w] # NoJob
  /\ NextTree
  /\ Faults # {}
  /\ job' = [job EXCEPT ![w] = NoJob]
  /\ UNCHANGED <<script, taken, store, expiring, applied, replies>>

\* A call throws a LogCabin exception, before or after it took effect: the
\* handler gives up the calls it has left.
CallThrows(w) ==
  LET j == job[w]  call == Calls(script[j.n])[j.made + 1] IN
  /\ j # NoJob
  /\ NextTree
  /\ \/ "throws" \in Faults /\ UNCHANGED <<store, expiring, applied>>
     \/ "throws_after_effect" \in Faults /\ Apply(w, call)
  /\ Answer(w, InternalError)
  /\ UNCHANGED <<script, taken>>

\* ltrim and expire report a failure by the status they return; unless it is
\* INVALID_ARGUMENT, the call may have taken effect all the same.
CallFails(w) ==
  LET j == job[w]  r == script[j.n] IN
  /\ j # NoJob
  /\ Command(r) \in {"LTRIM", "EXPIRE"}
  /\ NextTree
  /\ \E status \in Faults \cap {"invalid", "other_status"} :
       /\ Answer(w, StatusError(status))
       /\ \/ UNCHANGED <<store, expiring, applied>>
          \/ status = "other_status" /\ Apply(w, Calls(r)[1])
  /\ UNCHANGED <<script, taken>>

\* External: a key's time to live is over.
Expire(k) ==
  /\ k \in expiring
  /\ store' = [store EXCEPT ![k] = Absent]
  /\ expiring' = expiring \ {k}
  /\ UNCHANGED <<script, taken, job, ptree_counter, applied, replies>>

WorkerStep(w) == Take(w) \/ CallReturns(w) \/ CallThrows(w) \/ CallFails(w)

Next == (\E w \in Workers : WorkerStep(w)) \/ (\E k \in Keys : Expire(k))

Spec == Init /\ [][Next]_vars
-----------------------------------------------------------------------------
(* Properties.                                                             *)

\* The shape of the state; the index into pTreeList is always in range.
TypeOK ==
  /\ taken \in 0 .. Len(script)
  /\ \A w \in Workers : job[w] # NoJob =>
       /\ job[w].n \in 1 .. taken
       /\ job[w].made \in 0 .. Len(Calls(script[job[w].n])) - 1
       /\ Len(job[w].read) = job[w].made
  /\ ptree_counter \in 0 .. NumTrees - 1
  /\ expiring \subseteq Keys
  /\ \A i \in DOMAIN applied : applied[i].n \in 1 .. taken

\* The places in applied of the writing calls of request n, and how many of them
\* there are up to place i.
AppliedBy(n) == {i \in DOMAIN applied : applied[i].n = n}
Rank(n, i) == Cardinality({j \in AppliedBy(n) : j <= i})

Elements(r) == SubSeq(r, 3, Len(r))

\* A push is never applied out of order, twice or with a hole: whatever other
\* workers do and whichever call throws, the k-th of its calls that took effect
\* has pushed its k-th element, and there is one for each if the reply is not an
\* error (the loops of handle_rpush_request and handle_lpush_request).
PushAppliesPrefix ==
  \A n \in DOMAIN script : Command(script[n]) \in {"RPUSH", "LPUSH"} =>
    LET elements == Elements(script[n]) IN
    /\ \A i \in AppliedBy(n) : /\ Rank(n, i) \in DOMAIN elements
                               /\ applied[i].call.args[1] = elements[Rank(n, i)]
    /\ n \in DOMAIN replies /\ replies[n][1].t # "-" =>
         Cardinality(AppliedBy(n)) = Len(elements)

\* A simple string with a CR LF in it.
BrokenString(reply) ==
  /\ \E i \in DOMAIN reply : reply[i].t = "+"
  /\ \E i \in DOMAIN reply : reply[i].t = "bare"

\* Each reply is one reply to a client that reads RESP: it neither leaves
\* lines behind, which would be taken for the answer to the next request, nor
\* announces more than it has (encoder::encode).  Values are read whole even
\* with CR LF in them, but for those MGET returns as simple strings.
OneReplyEach ==
  \A n \in DOMAIN replies :
    \/ LinesOfReply(replies[n]) = Len(replies[n])
    \/ Command(script[n]) = "MGET" /\ BrokenString(replies[n])

\* A request that was taken is with exactly one worker until it is answered,
\* whatever the cluster does: none is dropped without a reply, which would
\* block the session in its reorder buffer (processer_worker reaches send_reply
\* after a LogCabin exception too).
TakenUntilAnswered ==
  \A n \in DOMAIN script :
    LET holders == {w \in Workers : job[w].n = n} IN
    IF n <= taken /\ n \notin DOMAIN replies THEN Cardinality(holders) = 1
    ELSE holders = {}
=============================================================================
