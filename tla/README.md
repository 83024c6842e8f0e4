# logcabin-redis-proxy: TLA+ models, checks and proofs

The proxy accepts redis clients over TCP, turns their commands into calls of a
LogCabin cluster and answers each client in the order it asked. This directory
holds models of its parts in TLA+, configurations for TLC, and proofs for TLAPS.
Paths are relative to the root of the repository's sources.

## 1. The system

```
            epoll                enqueue                    enqueue
 client --> event loop --------> pThreadPool -------------> pSenderThreadPool
   ^        accept, read, decode  handler, LogCabin calls    get_ctx, reorder
   |                                                              |
   +------------------------------ write(SessionCtx.fd) <---------+
```

| Part | State | Operations | Talks to |
|---|---|---|---|
| Event loop (`src/ae/ae.c`, `ae_epoll.c`), one thread | event table, `maxfd`, fired events, epoll set | create and delete file events, poll, call handlers | kernel; calls `accept_tcp_handler`, `read_from_client` |
| Handlers of the proxy (`src/proxy/main.cc`, `proxy.cc`) | one `decode_context` per connection | accept, read, disconnect | decoder, SessionManager, pThreadPool |
| RESP decoder (`deps/simple_resp`) | state of the parse, announced sizes, list so far, buffer, next command id | append, decode | calls the connection's handler once per request |
| Processing pool (`main.cc`, `handler.cc`) | FIFO queue, workers, index of the next LogCabin tree | `processer_worker`, twelve `handle_*_request` | LogCabin (calls return or throw), encoder, sender pool |
| RESP encoder | none | encode a value, a list | |
| Sender pool (`main.cc`) | FIFO queue, senders | `sender_worker` | SessionManager, SessionCtx |
| Time events of ae (`src/ae/ae.c`), a library the proxy does not use | list of timers, `lastTime`, the locals of the walk | create and delete timers, walk them once per turn, bound the sleep | handlers that create and delete timers; the wall clock |
| TCP helpers (`src/ae/anet.c`) | none of their own; the descriptors they open | listen, connect, accept, each with one system call after another | kernel, `getaddrinfo` |
| SessionManager and SessionCtx (`SessionManager.cc`) | map of sessions; per session: descriptor, end flag, next id to send, reorder buffer | insert, look up and erase a session; insert a reply, send what is ready | `write()`, `close()` |

What is hard about it:

* **Order.** Commands of a session are numbered when they are decoded, processed
  by many workers, sent by many senders, and put back in order by `SessionCtx`.
  A number that never arrives blocks its session for good.
* **Shared state without locks.** `get_ctx` searches the map while the event loop
  changes it; `sender_worker` tests `is_eof_reach` and uses the session later.
* **Descriptor numbers.** A session is answered on a bare number, which the kernel
  gives to the next connection as soon as it is closed.
* **Partial results.** `write()` may take a part of a reply, or fail; LogCabin may
  throw before or after a call took effect; `accept()` may fail.
* **The stream.** TCP cuts requests anywhere, and CR LF may be part of a payload.
* **Lists that change while they are walked.** Timers are created and deleted by the
  handlers that the walk over the timers calls, and compared with a clock that can be set.
* **Ways out.** A helper of anet that fails half way closes its socket, or does not.

`PROJECT.json` lists every hazard at its line with the properties that watch it.

## 2. Modules

| Module | Models |
|---|---|
| `ReplyPipeline` | the path of a command from the decoder's handler to `write()`: event loop steps that touch sessions, both pools, SessionManager, SessionCtx |
| `OrderedReplies` | the abstract specification: an ordered stream of replies per connection |
| `ReplyPipelineInv` | the inductive invariant of `ReplyPipeline` |
| `ReplyPipelineProofs` | theorems about `ReplyPipeline` |
| `RespDecoder` | `decode_context` and `decoder::parse` on a stream read in pieces |
| `RespEncoder` | `encoder::encode`, and how a client reads its output |
| `Commands` | what each command calls and replies, as functions; extends `RespEncoder` |
| `Handlers` | `processer_worker` and the command handlers over an external store; extends `Commands` |
| `RedisService` | the abstract specification of the whole: requests, their effects and replies, per client |
| `Proxy` | `ReplyPipeline` and `Handlers` composed, with the content of requests and replies |
| `EventLoop` | ae's file events over epoll with the proxy's two handlers |
| `EventLoopInv` | the inductive invariant of `EventLoop` |
| `EventLoopProofs` | theorems about `EventLoop` |
| `TimeEvents` | ae's timers: the list, the walk over it, the time to sleep |
| `Sockets` | the functions of anet that open descriptors |
| `RespDecoderProofs` | theorems about `RespDecoder`, and the lemmas about scans they rest on |
| `SequenceLemmas` | induction over the natural numbers, and `FlattenSeq`; for the decoder and the encoder |
| `HandlersProofs` | theorems about `Handlers`, and the lemmas about `RespEncoder` and `Commands` they rest on |
| `TimeEventsProofs`, `SocketsProofs` | inductive invariants of, and theorems about, these modules |
| `ProxyProofs` | the inductive invariant of `Proxy`, theorems about it, and that it implements `RedisService` |
| `MC*` | instances for TLC |

### ReplyPipeline

A session is named by the connection it was made for. Each thread step that takes
a lock or makes a system call is one action:

| Code | Actions |
|---|---|
| `accept_tcp_handler`, `insert_new_staus` | `Accept` up to the insertion, `AcceptFails` when `accept()` returns -1, `FinishAccept` |
| `read_from_client` | `Dispatch` when the last byte of a command arrives; `Disconnect` and `FinishErase` for end-of-file, an error, and `erase_session` |
| `processer_worker`, `send_reply` | `WorkerTake`, `WorkerReply` |
| `sender_worker`, `get_ctx` | `SenderTake`, `LookupHit`, `LookupGone`, `LookupMiss` |
| `insert_new_response` | `InsertNext`, `InsertEarly` |
| `send_first_response` | `DrainOne`, `DrainDone` |

`updating` is the window in which the event loop holds `session_map_mutex` and is
changing `ctx_map`. `get_ctx` does not take that mutex; in the window its search
may, besides being right, miss a session that is there (`LookupMiss`). Other
outcomes of that data race (a crash) are not modelled. With one connection no lookup of a session
that stays live can miss, because the map changes only when that session itself comes or goes:
the runs with one connection (`PipelineOrder`, `ProxyLiveness`) show what holds when no lookup
misses, and `LookupRace` what happens when one does. `Write` covers every result
of `write()` and every state of the descriptor: open for this session, closed, or
open for another connection. `recv`, `foreign` and `missed` are history variables.
`to_send` moves past a reply when it was given to `write()` in its turn; "passed by" and, in the
names of properties, "answered" mean just this. What `write()` took of the reply is in `recv`.
`is_eof_reach` is set by `Disconnect` together with `close()`; a lookup that would
come between the two finds the flag clear and is then, for all that follows, like a
lookup that came just before.

`OrderedReplies` is what a pipelining client relies on; `ImplementsOrderedReplies`
and `ImplementsFairReplies` map `status`, `issued` and `stream` to `conn`,
`last_command_id` and `recv`. They hold when sockets take every reply whole.

### RespDecoder

The stream is a sequence of symbols: a header (`*3`, `$4`, `:5`) is one symbol,
because nothing looks at it before its CR LF has arrived; CR, LF and the characters
of a payload are symbols of their own. `Parse` is a recursive function over the places of
the buffer with `ScanAt` as one turn of the loop; what the turns work on is a `Decoding`, the
context with the calls made so far. `Read(k)` is one `read()` that returns `k` symbols. Where
`stoi` or `substr` throws, `outcome` becomes `threw`, nothing is taken off the buffer, and
nothing is read any more: no handler catches the exception.

| Code | Definitions |
|---|---|
| `read_from_client`, `append_new_buffer`, `decode` | `Read` |
| `parse` | `Parse`, `ScanAt`; `EndsToken`, `TokenDone`; `HandleToken` with one operator per state (`InitToken`, `ElementToken`, `StringToken`) |
| `push_element` | `PushElement`, `ListComplete`, `CallHandler` |
| `pop_buffer` | the rest of the buffer from `start` on, in `Read` |

The client's side (`EncodeRequest`, `Stream`) is external. The decoder stalls
at a request of no elements, and at one that ends in an integer: `PushElement`, which tests
whether the list is complete, is not reached for these. `DeliveredWhenComplete` counts what
must be delivered up to the first such request (`Stalls`), and says that nothing is delivered
after it, although the list goes on growing.

### RespEncoder, Commands and Handlers

A value is a sequence of pieces, the text between one CR LF and the next; a reply is
a sequence of lines. `LinesOfReply` is a RESP client: how many lines it takes for
one reply. In `Handlers` a request is `redis_args`; a worker makes one cluster call
per step (`CallReturns`, `CallThrows`, `CallFails`), so that calls of other workers
come in between. What a call does to a value (`Effect`) is external and only as
precise as the properties need. What a command calls and replies is a function of the
request and of what its calls read (`Calls`, `ReplyTo` in `Commands`), so that the abstract
specification can use it too. Of the spellings of a command's name, which `to_uppercase` makes one,
the model has two, small letters and capitals.

### Proxy and RedisService

| Code | Definitions |
|---|---|
| the handler of a `decode_context` | `Dispatch`: a step of the pipeline that also records the request |
| `processer_worker` | `Begin`, `Work` once per cluster call, `SendReply` when there is a reply |
| `sender_worker`, `insert_new_response`, `send_first_response` | the pipeline's steps, with the replies they carry (`buffered_responses`, `Sent`) |

`Proxy` holds one instance of `ReplyPipeline` and one of `Handlers` over the same variables.
Each of its steps is a step of the pipeline, of the handlers, or of both, so what is proved
of `ReplyPipeline` holds of `Proxy` as well. The pipeline alone knows numbers, and the
handlers alone know nothing of sessions; the composition can tell whether the reply written
at a number is the one to the request that got that number.

`RedisService` is what a client may rely on: requests are worked on in any order, each call
takes effect at one instant and at most once, and the k-th reply told is the one to the k-th
request. It keeps `told` and `progress` per client; the refinement maps `told` to `got`, and
`progress` to what has become of the request (`Progress`): nothing yet, the calls made and what
they read while a worker has it, or its reply. That a told reply also comes in the end
(`EveryRequestTold`, `ImplementsFairReplies`) is checked with one connection, where no lookup of a
live session can miss; with more, the race in `get_ctx` can hold a client up for good, which is
the finding of the run `LookupRace`.

### EventLoop

| Code | Definitions |
|---|---|
| `aeCreateFileEvent`, `aeApiAddEvent` | `CreateFileEvent`, `EpollAccepts`, `MaxfdWith` |
| `aeDeleteFileEvent`, `aeApiDelEvent` | `DeleteFileEvent`, `HighestBelow`, `EpollDelete` |
| `aeApiPoll` | `Poll`: every ready descriptor, in any order |
| `aeProcessEvents`, one turn of its loop | `ProcessFired`, with the whole handler it calls |
| `accept_tcp_handler` | `AcceptNext`, `AcceptFails` |
| `read_from_client` | `ReadSome`, `ReadEnd` |

Clients connect, send, finish or reset between any two steps. The listening socket is
blocking (`anetTcpServer` sets no flag): `accept_tcp_handler` relies on a fired event
meaning a waiting connection. The proxy registers readable events only, creates no
timer and never resizes the loop, so these are left out.

### TimeEvents

| Code | Actions |
|---|---|
| `aeCreateTimeEvent`, `aeDeleteTimeEvent`, called by any handler | `CreateTimeEvent`, `DeleteTimeEvent` |
| `aeSearchNearestTimer`, `aeProcessEvents` up to `aeApiPoll` | `Sleep` with `Nearest` and `Until` |
| `aeApiPoll` | `Timeout`, which makes an int of the wait (`AsInt`) |
| `epoll_wait` | `TimeIsUp`, `FileEvent` |
| `processTimeEvents` | `BeginPass` with the test for a clock that went back; `RemoveDeleted`, `FinalizerReturns`; `NotDue`; `Fire`, `TimeProcReturns`; `EndPass` |
| the clock | `Tick`, `SetClock` |

A timer is named by the id it was created with; `list` is the chain from `timeEventHead`.
The clock counts ticks, a few to the second: a tick is the finest step the code compares, and
whole seconds matter because `lastTime` and the skew are in seconds. `epoll_wait` sleeps by a
clock that cannot be set. Its timeout is an int (`Ints`): `aeApiPoll` computes
`tv_sec*1000 + tv_usec/1000` as a long and passes it on, so that of a wait of `IntLimit` (2^31 ms)
or more only the lower bits are left. The loop then wakes up too early, or, when the number has
become negative, only for a file event (`SleepsForever`; `tooLong` records that this happened).
The test `te->id > maxId` is left out of the walk, because no timer
it meets passes it: that is `NewTimersWait`, and the code's own comment. With timers put
elsewhere than at the head the property would fail, and the test would then be what keeps them
from being called. Handlers do not call
`aeProcessEvents` again, and `zmalloc` does not fail.

### Sockets

A call of anet is a sequence of steps (`Steps`), each a system call that succeeds
(`StepSucceeds`) or fails (`StepFails`), for one address after another. What sets the
functions apart is in four tables: whether the failure of a step closes the socket
(`Closes`, `KnownLeak`), whether the next address is tried (`GoesOn`), and whether the call is
made again without its source address (`Retries`, `WithoutSource`). The caller may close what
it was given, between calls.

## 3. Checks

The passing runs take from a few seconds to somewhat more than a minute.

| Run | Question | Bounds |
|---|---|---|
| `PipelineOrder` | order, nothing left behind, every command passed by, inductive invariant | 1 connection, 2 workers, 2 senders, 4 commands, every result of `write()` |
| `PipelineSessions` | sessions stay apart; exact stream; refinement of `OrderedReplies` | 3 connections on descriptors 4 and 5 with `SetSize` 5, 1 worker, 2 senders, 2 commands each, writes take all |
| `Decode` | exactly once, in order, unchanged, whatever the cuts | pairs of requests with CR LF at every place of a payload, and the requests the decoder stalls at before and after others, cut anywhere |
| `Handlers` | pushes apply a prefix; one RESP reply per request; no request is dropped | three requests, 2 workers, all faults: all triples of requests for a list, a set and two strings, and pushes of 1 to 3 elements from both ends |
| `Loop` | event table, epoll set and descriptors agree; a fired event is never stale, so that `accept()` and `read()` find what it promised; no healthy connection is closed; everything watched is read and closed; the inductive invariant | 2 connections; descriptors 3, 5 and 6 around a listener on 4, of which others hold none, 3, 5, or 5 and 6; `SetSize` 6; 2 pieces each |
| `Proxy` | refinement of `RedisService`; waiting clients in order | 2 connections, 2 workers, 2 senders, 2 requests together out of a push of two elements and a read of the same list; calls that throw after they took effect; writes take all |
| `ProxyLiveness` | every request is told its reply; fair refinement of `OrderedReplies` | 1 connection, 2 workers, 2 senders, 2 requests out of a push, an `EXPIRE` and an unknown command, with exceptions and failing statuses; writes take all |
| `Timers` | but for those a finalizer created no timer is lost or forever put off; none is called after its end; the sleep is no longer than it may, unless it comes out negative as an int | 3 timers, delays up to a second, 2 ticks to the second, a clock of 3 ticks that is set twice, an int that holds waits of one tick (`IntLimit` 2) |
| `Sockets` | no descriptor lost; addresses tried; best effort binding | descriptors 3 to 6, up to 3 addresses, every step may fail |

Two threads per pool are enough for every order of two replies, and four commands
for a reply that is overtaken by more than one and for a drain that sends several.
Three connections on two descriptors give a number that is used again while a reply
for its first owner is on its way, and an `accept()` that finds none free. One worker
is enough in `PipelineSessions`: two senders already insert replies in either order,
which `PipelineOrder` checks with two of each. A descriptor that is not below `SetSize`
gives the connection that is accepted and never watched. Descriptors below and above
the listener make `maxfd` move both ways. In `Proxy` two requests are enough for two replies
that pass each other on any stage, of one client or of two, and the push of two elements for
calls of one request around a call of the other; it is the numbers that order more than two,
and `PipelineOrder` takes four. Three timers give one that is walked, one behind it and one
created meanwhile; a clock that goes from the start of one second to the start of the next and
two settings, a step back that is noticed, one within a second that is not, and a step forward
and back; an `IntLimit` of a second, waits that fit an int and waits that do not. Four descriptors are enough for
a call in progress while the callers hold others. Symmetry over threads and connections is used
only for invariants and safety refinements; no run with fairness uses it.

Fairness. In `ReplyPipeline` every pool thread, and a handler of the event loop that
has begun, keeps running (weak fairness per thread); clients owe nothing, so no
fairness is assumed of `Accept`, `Dispatch` and `Disconnect`. Nothing blocks a thread
for good: `write()` is on a non-blocking socket and a mutex is released after a
bounded drain. `Proxy` assumes the same, and so that LogCabin's calls return or throw in the
end. `TimeEvents` assumes that the loop runs, that handlers return and that time passes, and
bounds how often the clock is set: a clock that is set back again and again can put a timer
off forever. `Sockets` assumes that a system call returns. `EventLoop` assumes only that the loop runs (`aeMain`), and nothing of
the clients. `Handlers` states no liveness: that a worker gets on is up to the cluster,
and `TakenUntilAnswered` says what the proxy owes.

Runs that fail on purpose each check one statement of the repository's documentation,
comments or tests, and TLC shows how the code departs from it:

| Run | Statement | What happens |
|---|---|---|
| `ForeignReply` | a client gets replies to its own commands | the descriptor number is used again between the test of `is_eof_reach` and `write()` |
| `LookupRace` | pipelined commands are all answered | the unlocked lookup misses, and the session is stuck at that number |
| `EmptyArgument` | an empty string is decoded | its CR LF is taken for the next token; as last argument it throws |

TLC's trace of `LookupRace` is a shortest one, with one session searched for and one inserted. A
map of so few would not be rebalanced by the usual implementation of `std::map`; the race is the
same with more, and its outcome is undefined in either case.

Also met while modelling, without a run of their own:

* `reply()` gives up after one `write()`: when it took a part of the reply, or failed, the reply
  counts as sent (`SessionManager.cc:26` and `31`), although `SessionManager.h:23` says of
  `insert_new_response` "just insert, we will handle the left things". `ReplyPipeline` has these
  outcomes of `write()`, and order is kept all the same.
* The test `deps/simple_resp/test/decode_encode_test.cc:28` expects a list of three integers to be
  delivered; `parse()` appends an integer without testing whether the list is complete
  (`simple_resp.cc:90`). See `Stalls` in `RespDecoder`.
* The commands of one connection are handed to several workers (`main.cc:162`), so pipelined
  commands can take effect in another order than they were sent in. `WaitingClientsInOrder`
  is what remains true.
* `ae.c:321` says that time events are processed before file events; the code does file events
  first (`ae.c:386` and `407`).
* A timer created by a finalizer is lost when the walk has passed no timer that stays, and the
  timer behind the finalized one is deleted too (`ae.c:281`): the new timer becomes the head, `prev`
  is still NULL, and unlinking the next one sets the head past it. `NoTimerLost` and
  `EveryTimerServed` except timers created by a finalizer for that reason.
* `ae.c:323` says of `aeProcessEvents` that it "sleeps until some file event fires, or when the next
  time event occurs". When the next timer is 2^31 ms (24.8 days) or more away, because it was
  created so or because the clock was set back before the wait is computed, the wait does not
  fit the int of `epoll_wait` (`ae_epoll.c:117`); where it becomes negative the loop sleeps until a
  file event comes, however long the timer has been due. The model has this, and `NeverOversleeps`
  and `EveryTimerServed` except just these sleeps (`SleepsForever`); without the exception TLC finds
  both violated in the run `Timers`.
* `_anetTcpServer` leaves its socket open when `SO_REUSEADDR` fails (`anet.c:482`), and
  `anetUnixGenericConnect` when `O_NONBLOCK` does (`anet.c:381`); `KnownLeak` names the two.
  `_anetTcpServer` gives up at the first address that cannot be bound, and tries the others only
  when `socket()` fails.
* `RPUSH` returns the bulk string `1` (`handler.cc:107`; the encoder writes integers as
  bulk strings, `simple_resp.cc:194`), where `README.md:116` says `+OK`.
* A push of several elements is one cluster call per element (`handler.cc:104`), so the
  elements of two pushes can be mixed; `PushAppliesPrefix` is what remains true.
* `MGET` writes values as simple strings (`handler.cc:178`, `simple_resp.cc:159`), so a value
  with CR LF in it breaks the framing. `OneReplyEach` excepts exactly these replies
  (`BrokenString`).
* A session whose descriptor is not below the set size stays accepted and is never read, and
  `accept()` failing leaves a session with descriptor -1 in `ctx_map` (`main.cc:160-166`).

## 4. Proofs

`ReplyPipelineProofs`, checked by tlapm, for any sets of connections, threads and
descriptors, any `SetSize`, `MaxCommands` and results of `write()`:

| Theorem | States |
|---|---|
| `TypeCorrect` | `Spec => []TypeOK` |
| `OrderHolds` | `Spec => []RepliesInOrder` |
| `Inductive` | `Spec => []IInv` |
| `NoReplyLeftBehind` | `Spec => []IdleMeansAnswered` |
| `IsolationHolds` | `Spec => []OpenSessionsIsolated` |
| `ExactStreamHolds` | `Spec => []ExactStream` |
| `PipelineImplementsOrderedReplies` | with `WriteResults = {"all"}`, `Spec => ImplementsOrderedReplies` |

The assumptions are those of `ConstantsAssumption`. `RepliesInOrder` is not inductive:
that a new reply has a larger number than all sent before needs `SentBelow`, that
everything sent is below `to_send`. `IdleMeansAnswered` needs to know where each command
is. `NothingLost` says that the numbers from `to_send` up to `last_command_id` of a live
session are exactly those of tasks in a queue, with a thread, or in the buffer;
`OncePerStage` and `OneStage` say that each is in one place only, so that moving a task on
or sending it removes it from everywhere; `DrainPending` says that the next number is in
the buffer only while a sender holds the mutex and is about to send it. `LoopInv` and
`DistinctFds` relate sessions, connections and descriptors, which gives isolation: a reply
written to a number that belongs to another connection is one of a session whose own
connection is not open any more.

The proofs have one lemma per conjunct of the invariant, and in it one step per action that
can disturb it; actions that leave the variables of the conjunct alone are dealt with
together.

`EventLoopProofs`, for any sets of connections and descriptors, any `SetSize` and
`MaxPieces`:

| Theorem | States |
|---|---|
| `LoopInvariant` | `Spec => []IInv` |
| `MaxfdHolds` | `Spec => []MaxfdIsHighest` |
| `EventsHold` | `Spec => []EventsMatchDescriptors` |
| `NoStaleEvent` | `Spec => []FiredStillReady` |
| `HealthyKept` | `Spec => []OnlyLeaversDropped` |

The assumptions are again those of the module's `ConstantsAssumption`. That a fired event is
not stale is not inductive: a step handles the first of `fired`, and must leave the others
ready. `FiredInv` gives that no other has the same descriptor (epoll reports each once)
and that each is a readable one; `OnePlace`, that no connection holds two descriptors, so
that reading from one takes nothing from another. `OnlyLeaversDropped` then follows: the
handler takes an empty read for the end of the connection, and no read is empty.
`MaxfdIsHighest` needs, when the highest descriptor is deleted, that the scan downwards ends
at the highest of those left: lemma `HighestExists`, from the well-foundedness of the order
of the natural numbers.

`TypeCorrect` (`Spec => []TypeOK`) follows from the same invariant.

`SocketsProofs`, for any descriptors and any number of addresses of a host
(`SocketsAssumption`):

| Theorem | States |
|---|---|
| `SocketsInvariant` | `FairSpec => []IInv` |
| `DescriptorsHold` | `FairSpec => []DescriptorsAccounted` |
| `AddressesTried` | `FairSpec => []EveryAddressTried` |
| `BindingHolds` | `FairSpec => []BindsAsAsked` |

`DescriptorsAccounted` alone does not say that the socket of the call in progress is nobody
else's: `ApartInv` does, and closing the socket on the way out then takes nothing from a
caller. `ShapeInv` has that there is a socket exactly from the second step on, so that a table
of what a failing step closes can be trusted at every step. `BindsAsAsked` needs the history of
the steps of the present socket (`DoneInv`) and that the call in progress is the one asked for,
or that one without its source address (`CallInv`). The steps of each call are a few tuples
put together; `StepFacts` says once what the proofs need of them.

`TimeEventsProofs`, for any clock, any delays, any number of timers and any width of int:

| Theorem | States |
|---|---|
| `TimersInvariant` | `FairSpec => []IInv` |
| `TypeCorrect` | `FairSpec => []TypeOK` |
| `TimersKept` | `FairSpec => []NoTimerLost` |
| `NewTimersHeldBack` | `FairSpec => []NewTimersWait` |
| `SkewForcesAll` | `FairSpec => []SkewFiresAll` |
| `SleepsInTime` | `FairSpec => []NeverOversleeps` |
| `GoneStayGone` | `FairSpec => GoneForGood` |

All of them rest on what a walk knows of the list (`WalkInv`): it is divided at the cursor.
Ahead of the cursor every timer is older than the pass, and all that the pass must still call
are there; just behind it is `prev`, and without `prev` whatever is behind was created by
finalizers. A handler that creates a timer lengthens the part behind, one that deletes a timer
changes neither part, and taking a timer off joins the two at `prev`. `GoneForGood` is an action
property that follows from `TimerInv`: what was deleted stays marked until it is freed.
`TimersKept` is about timers created by the handlers of file events and of timers; it says nothing of
those a finalizer created. `SleepsInTime` needs that the int a wait becomes is the wait itself if
it fits, and never larger (`AsIntIs`): a wait that is cut off ends too early, or, when it is
negative, is the one sleep that `NeverOversleeps` excepts.

`HandlersProofs`, for any workers, any requests, any number of trees and any failures of the
cluster:

| Theorem | States |
|---|---|
| `HandlersInvariant` | `Spec => []IInv` |
| `TypeCorrect` | `Spec => []TypeOK` |
| `PushesInOrder` | `Spec => []PushAppliesPrefix` |
| `NoneDropped` | `Spec => []TakenUntilAnswered` |
| `RepliesReadWhole` | if no GET or MGET of a script reads a key that an SREM of it takes members from (`SetsApart`), `Spec => []OneReplyEach` |

`HandlersAssumption` says of the constants that requests are sequences of texts, that a text is
a sequence of at least one piece (`IsText`: also an empty one is a piece), that the keys of
accepted ones are in `Keys`, that there is at least one tree and that faults are among those
`CallThrows` and `CallFails` know. `HeldInv` is that a request taken is answered or with exactly
one worker. `PushAppliesPrefix` speaks of calls that took effect and of elements, and needs to
know how far the worker is: `PushInv` has that as many calls of a push in progress have taken
effect as its worker has made, so that the next one pushes the next element; a call that throws
after its effect ends the request with one more, and with an error.

`RepliesReadWhole` is about what is written and what a client makes of it, and its proof follows
a text all the way round: from a request into the store, out of it into what a worker has read,
through the encoder and to the client. What the client takes (`LinesOfReply`) is a recursive
function of the lines; `ValuesAreRead` shows by induction over the values of an array that the
client stands, after each of them, exactly where the encoder began the next. That each value is
read whole holds of a bulk string, of a nil and of a simple string or an error of one piece
(`OneValue`); a simple string of more pieces is a `BrokenString`, also inside of an array
(`BrokenIs`), and only `MGET` writes one, which the property excepts. For `GET` and `MGET` there must be something to
show: `ShownInv` adds to `IInv` that whatever the store holds, and whatever a worker has read, is
made of the texts of the requests, and is an empty list only if the key is absent or an `SREM` has
taken members from it (`Stored`). Calls keep it (`EffectStored`) and so does a key that expires.
The hypothesis is about the part that is external: a `GET` of a set is a mismatch of kinds in
LogCabin, and the store of the model keeps no such error. The scripts of the run `Handlers` all
satisfy it. `SMEMBERS` and `SCARD` of an emptied set are within the theorem.

`ProxyProofs`, for any connections, threads, descriptors, requests and
failures, with no assumption on the constants:

| Theorem | States |
|---|---|
| `ProxyInvariant` | `Spec => []IInv` |
| `WaitingHolds` | `Spec => []WaitingClientsInOrder` |
| `ServiceImplemented` | with `WriteResults \subseteq {"all"}`, `Spec => ImplementsService` |

For `WaitingClientsInOrder` a request has to be followed through both pools. `NumbersInv` has that
no two requests share a number of a session; `WorkInv` that the queue holds exactly what is not
taken, and that a worker's task and job are of one request; `SentInv` that whatever is behind the
workers, in the second queue, with a sender or in a reorder buffer, has been answered, and so
has every request whose number its session has passed. A client that has been told all replies
has thus only answered requests behind it (`WaitsInv`), and an answered request makes no more
calls.

`ServiceImplemented` is the refinement, step by step. It adds to the invariant what the
client's view needs (`RInv`): an open connection has a descriptor of its own, and was told as
many replies as its session has passed (`ToldInv`); there is a request for every number given
out (`IdsInv`); the reorder buffer holds, for each number, the reply to the request of that
number (`BufferInv`); and a worker never has a refused request (`JobsInv`). `Dispatch` is then
`Ask`; taking a request nothing or `Refuse`; a call `Call` or `Fail`; `InsertNext` and `DrainOne`
are `Tell` as long as the client is there; handing replies from stage to stage is nothing. The
hypothesis is needed: a reply of which `write()` takes only a part counts as sent, and the client
has not been told it.

`RespDecoderProofs`, for any scripts of requests and any size of a read (`DecoderAssumption`:
scripts are sequences of requests, requests of arguments, arguments of symbols):

| Theorem | States |
|---|---|
| `FragmentationHolds` | `Spec => []FragmentationIrrelevant` |
| `TypeHolds` | `Spec => []TypeOK` |
| `BufferHolds` | `Spec => []OnlyUnfinishedTokenBuffered` |
| `DeliveredHolds` | if no request of a script ends in an empty argument (`NoEmptyEnd`), `Spec => []DeliveredWhenComplete` |

The argument has two parts. The first says that cuts do not matter, and is the inductive
invariant of all four theorems (`FragInv`): what has been read is a beginning of the stream, and
the state is what parsing that beginning at once leads to. A step keeps it by `ParseGoesOn`,
which is about `parse()` alone: parsing what a parse has left over, with more symbols behind it,
in the state it came to, ends where a parse of everything does. For that a scan of a part is
compared with a scan of the whole, place by place (`MovedTurn`, `ScanOfBeginning`); the one place
where they could part is a CR that is the last symbol of the part, and there the turn does
nothing; and what a scan has passed over it would pass over again (`Settled`, `Idle`). This part
needs nothing of the stream, which may be no request at all.

The second part follows one scan of a whole stream: a token (`TokenStep`), an argument
(`ArgStep`), the arguments of a request (`ArgsStep`), a request (`FreshRequest`, or `StuckRequest`
behind one that stalls), the requests of the stream (`StreamStep`, `StreamIsRead`), each with what
holds at every place on the way (`Calm`, `Steady`, `Held`). A payload may hold anything, CR LF
included: while fewer symbols of a string than announced have come no CR LF ends it
(`TokenDone`), and its own CR LF comes behind exactly as many. A state is then the place of the
scan that has come as far, and what has been called there is `Finished` of the requests that have
arrived. The hypothesis of `DeliveredHolds` is the finding of the run `EmptyArgument`: behind a
request that ends in an empty argument the decoder throws. An empty argument anywhere else does
no harm, and the theorem covers it; the other three theorems hold of every stream.

`Parse`, `LinesOfReply` and `FlattenSeq` are recursive functions. That they exist, and what
holds at each of their places, is shown by induction with `NatSet` (`SequenceLemmas`), a form of
the induction principle that takes a set instead of a predicate.

Only model-checked, and why:

* Liveness (`EveryCommandAnswered`, `EveryRequestTold`, `ImplementsFairReplies`, `PiecesRead`,
  `EveryTimerServed`, `CallsReturn`, ...): fairness and ENABLED are not in the provers' reach.

Every safety invariant a passing run checks is stated by a theorem.

## 5. Not modelled

* The 32-bit counters of commands and sessions, and their overflow; `session_counter` starts
  uninitialised. The models have unbounded numbers and unique sessions. At a wrap the sorted
  map of `SessionCtx` would put the smallest negative number before the largest positive one.
* Entries of `ctx_map` for the descriptor -1, which `accept()` failing leaves behind: nothing reads
  or answers such a session.
* Crashes of the process: nothing is persisted, and a restart is `Init`. Reads of freed memory
  that the race in `get_ctx` could cause.
* Resizing, stopping and writable events of ae, `aeWait`, `session_get_eof`, `write_to_client`,
  `split_list_elements`: no code of the proxy uses them.
* Socket options, name resolution by itself, `anetRead`, `anetWrite` and the formatting of
  addresses in anet: they keep no state. Options, logging, start-up: sequential code that runs
  once.
* Exceptions in `processer_worker` that are not LogCabin's: the pool's future swallows them and
  the session is stuck, as in the mutant `WorkerReplyLost`.
* Failing memory allocation.
