----------------------------- MODULE TimeEvents -----------------------------
(***************************************************************************)
(* The time events of ae: a list of timers, walked once per turn of the    *)
(* loop, and the time the loop may sleep.  Handlers create and delete      *)
(* timers while the list is walked, and the wall clock they are compared   *)
(* with can be set, forwards and back, at any time.                        *)
(*                                                                         *)
(* A timer is named by the id it was created with, which te->id loses when *)
(* the timer is deleted.  The clock counts ticks, TicksPerSecond of them   *)
(* to the second; a time in ticks stands for when_sec and when_ms.         *)
(***************************************************************************)
EXTENDS Integers, Sequences, FiniteSets, SequencesExt

CONSTANTS
  TicksPerSecond,
  Delays,          \* milliseconds a timer is created or set again with, in ticks
  IntLimit,        \* the first number of milliseconds too large for an int, in ticks
  MaxTimers,       \* bound: timers ever created
  MaxClock,        \* bound: the clock stops there
  MaxAdjustments   \* bound: how often the clock is set

ASSUME TimeAssumption ==
  /\ TicksPerSecond \in Nat \ {0}
  /\ Delays \subseteq Nat
  /\ IntLimit \in Nat \ {0}
  /\ MaxTimers \in Nat /\ MaxAdjustments \in Nat
  /\ MaxClock \in Nat /\ MaxClock >= TicksPerSecond

VARIABLES
  \* the kernel
  clock,            \* what gettimeofday() returns
  asleep,           \* ticks epoll_wait() has left to sleep, negative: no end to it
  adjustments,      \* how often the clock has been set
  \* the event loop
  phase,            \* where the thread is, see the actions
  lastTime,         \* in seconds
  timeEventNextId,
  list,             \* the ids of the timers from timeEventHead on
  when,             \* te->when_sec and te->when_ms
  deleted,          \* timers whose te->id is AE_DELETED_EVENT_ID
  \* the locals of processTimeEvents
  te, prev, next, maxId,
  \* history
  freed,            \* timers whose memory has been given back
  gone,             \* timers that were deleted or returned AE_NOMORE
  byFinalizer,      \* timers that were created by a finalizer
  forced,           \* timers a pass that saw the clock go back has still to fire
  steady,           \* FALSE if the clock was set while the loop sleeps
  tooLong           \* the wait for a timer was too long for an int and came out negative

kernelVars == <<clock, asleep, adjustments, tooLong>>
walkVars == <<te, prev, next, maxId>>
listVars == <<timeEventNextId, list, when, deleted>>
histVars == <<freed, gone, byFinalizer>>
vars == <<kernelVars, phase, lastTime, listVars, walkVars, histVars, forced, steady>>

Null == -1
Forever == -1
Created == 0 .. timeEventNextId - 1
Live == {n \in ToSet(list) : n \notin deleted}
Seconds(t) == t \div TicksPerSecond
-----------------------------------------------------------------------------
(* The list.                                                               *)

Position(n) == CHOOSE i \in DOMAIN list : list[i] = n

\* te->next.
After(n) == IF Position(n) = Len(list) THEN Null ELSE list[Position(n) + 1]

HeadOf(l) == IF l = << >> THEN Null ELSE Head(l)

\* Mutant: only the first timer is taken off the list when nothing is before te.
WithoutTail == IF prev = Null THEN Tail(list) ELSE SelectSeq(list, LAMBDA n : n # te)

\* The list when te is taken off it: what follows te comes after prev, or is the
\* whole list when there is none.
WithoutTe ==
  (IF prev = Null THEN << >> ELSE SubSeq(list, 1, Position(prev)))
    \o SubSeq(list, Position(te) + 1, Len(list))

\* Mutant: a new timer is put at the end.
LinkLast(n) == Append(list, n)

\* A new timer becomes the head.
Link(n) == <<n>> \o list
-----------------------------------------------------------------------------
(* What handlers of file events, timers' handlers and finalizers may do.   *)

InHandler == phase \in {"files", "firing", "finalizing"}

CreateTimeEvent(delay) ==
  LET n == timeEventNextId IN
  /\ InHandler
  /\ n < MaxTimers
  /\ clock + delay <= MaxClock
  /\ timeEventNextId' = n + 1
  /\ when' = [when EXCEPT ![n] = clock + delay]
  /\ list' = Link(n)
  /\ byFinalizer' = IF phase = "finalizing" THEN byFinalizer \cup {n} ELSE byFinalizer
  /\ UNCHANGED <<kernelVars, phase, lastTime, deleted, walkVars, freed, gone, forced, steady>>

\* Only marked: the walk takes it off the list.
DeleteTimeEvent(n) ==
  /\ InHandler
  /\ n \in Live
  /\ deleted' = deleted \cup {n}
  /\ gone' = gone \cup {n}
  /\ forced' = forced \ {n}
  /\ UNCHANGED <<kernelVars, phase, lastTime, timeEventNextId, list, when, walkVars, freed,
                 byFinalizer, steady>>
-----------------------------------------------------------------------------
(* aeProcessEvents: sleep, handle file events, walk the timers.            *)

\* aeSearchNearestTimer, which does not skip deleted timers.
Nearest == CHOOSE n \in ToSet(list) : \A m \in ToSet(list) : when[n] <= when[m]

\* The time until a timer is due, none if it is past.
Until(n) == IF when[n] > clock THEN when[n] - clock ELSE 0

\* The values of an int, in ticks.
Ints == -IntLimit .. IntLimit - 1

\* Mutant: the number is not taken for a signed one.
AsUnsigned(ms) == ms % (2 * IntLimit)

\* A long handed over as the int that epoll_wait takes: its lower bits.
AsInt(ms) == ((ms + IntLimit) % (2 * IntLimit)) - IntLimit

\* Mutant: the head of the list is taken for the nearest timer.
TimeoutOfHead == IF list = << >> THEN Forever ELSE AsInt(Until(Head(list)))

\* Mutant: a time that has passed is not taken for no time.
TimeoutUnclamped == IF list = << >> THEN Forever ELSE AsInt(when[Nearest] - clock)

\* What aeApiPoll asks of epoll_wait, for which any negative number is forever.
Timeout == IF list = << >> THEN Forever ELSE AsInt(Until(Nearest))

Sleep ==
  /\ phase = "top"
  /\ asleep' = Timeout
  /\ tooLong' = (list # << >> /\ Until(Nearest) >= IntLimit /\ Timeout < 0)
  /\ phase' = "asleep"
  /\ UNCHANGED <<clock, adjustments, lastTime, listVars, walkVars, histVars, forced, steady>>

\* epoll_wait returns because time is up, or for a file event.
TimeIsUp ==
  /\ phase = "asleep" /\ asleep = 0
  /\ phase' = "files"
  /\ steady' = TRUE
  /\ UNCHANGED <<kernelVars, lastTime, listVars, walkVars, histVars, forced>>

FileEvent ==
  /\ phase = "asleep" /\ asleep # 0
  /\ phase' = "files"
  /\ asleep' = 0
  /\ tooLong' = FALSE
  /\ steady' = TRUE
  /\ UNCHANGED <<clock, adjustments, lastTime, listVars, walkVars, histVars, forced>>

\* Mutant: the clock is read into lastTime before it is compared with it.
SkewUnseen == FALSE

\* The clock is behind the time of the last pass.
ClockSkew == Seconds(clock) < lastTime

\* processTimeEvents, up to its loop.  After a skew every timer is due.
BeginPass ==
  /\ phase = "files"
  /\ phase' = "walk"
  /\ when' = IF ClockSkew
             THEN [n \in DOMAIN when |-> IF n \in ToSet(list) THEN when[n] % TicksPerSecond
                                         ELSE when[n]]
             ELSE when
  /\ forced' = IF Seconds(clock) < lastTime THEN Live ELSE {}
  /\ lastTime' = Seconds(clock)
  /\ te' = HeadOf(list)
  /\ prev' = Null
  /\ maxId' = timeEventNextId - 1
  /\ UNCHANGED <<kernelVars, timeEventNextId, list, deleted, next, histVars, steady>>

\* A deleted timer is taken off the list and its finalizer is called; prev stays.
RemoveDeleted ==
  /\ phase = "walk" /\ te # Null
  /\ te \in deleted
  /\ next' = After(te)
  /\ list' = WithoutTe
  /\ phase' = "finalizing"
  /\ UNCHANGED <<kernelVars, lastTime, timeEventNextId, when, deleted, te, prev, maxId,
                 histVars, forced, steady>>

FinalizerReturns ==
  /\ phase = "finalizing"
  /\ freed' = freed \cup {te}
  /\ when' = [when EXCEPT ![te] = 0]
  /\ te' = next
  /\ next' = Null
  /\ phase' = "walk"
  /\ UNCHANGED <<kernelVars, lastTime, timeEventNextId, list, deleted, prev, maxId, gone,
                 byFinalizer, forced, steady>>

\* The walk goes on behind te.
MoveOn == prev' = te /\ te' = After(te)

NotDue ==
  /\ phase = "walk" /\ te # Null
  /\ te \notin deleted
  /\ clock < when[te]
  /\ MoveOn
  /\ UNCHANGED <<kernelVars, phase, lastTime, listVars, next, maxId, histVars, forced, steady>>

Fire ==
  /\ phase = "walk" /\ te # Null
  /\ te \notin deleted
  /\ clock >= when[te]
  /\ phase' = "firing"
  /\ forced' = forced \ {te}
  /\ UNCHANGED <<kernelVars, lastTime, listVars, walkVars, histVars, steady>>

\* Mutant: the id read before the call is written back with the new time.
SetAgainWithId(delay) ==
  /\ when' = [when EXCEPT ![te] = clock + delay]
  /\ deleted' = deleted \ {te}

\* The timer is to fire again after a delay.  It may have deleted itself: then
\* it stays deleted.
SetAgain(delay) ==
  /\ when' = [when EXCEPT ![te] = clock + delay]
  /\ UNCHANGED deleted

TimeProcReturns ==
  /\ phase = "firing"
  /\ \/ /\ \E delay \in Delays : clock + delay <= MaxClock /\ SetAgain(delay)
        /\ UNCHANGED gone
     \/ /\ deleted' = deleted \cup {te}      \* AE_NOMORE
        /\ gone' = gone \cup {te}
        /\ UNCHANGED when
  /\ MoveOn
  /\ phase' = "walk"
  /\ UNCHANGED <<kernelVars, lastTime, timeEventNextId, list, next, maxId, freed, byFinalizer,
                 forced, steady>>

EndPass ==
  /\ phase = "walk" /\ te = Null
  /\ phase' = "top"
  /\ prev' = Null /\ maxId' = Null
  /\ UNCHANGED <<kernelVars, lastTime, listVars, te, next, histVars, forced, steady>>
-----------------------------------------------------------------------------
(* The kernel.  Sleep is not measured by the clock that can be set.        *)

Tick ==
  /\ clock < MaxClock \/ asleep > 0
  /\ clock' = IF clock < MaxClock THEN clock + 1 ELSE clock
  /\ asleep' = IF phase = "asleep" /\ asleep > 0 THEN asleep - 1 ELSE asleep
  /\ UNCHANGED <<adjustments, tooLong, phase, lastTime, listVars, walkVars, histVars, forced, steady>>

SetClock(t) ==
  /\ t # clock
  /\ adjustments < MaxAdjustments
  /\ adjustments' = adjustments + 1
  /\ clock' = t
  /\ steady' = (phase # "asleep")
  /\ UNCHANGED <<asleep, tooLong, phase, lastTime, listVars, walkVars, histVars, forced>>
-----------------------------------------------------------------------------
\* The clock is past its first second, the epoch's.
Times == TicksPerSecond .. MaxClock

Init ==
  /\ clock = TicksPerSecond
  /\ asleep = 0 /\ tooLong = FALSE
  /\ adjustments = 0
  /\ phase = "files"
  /\ lastTime = Seconds(clock)
  /\ timeEventNextId = 0
  /\ list = << >>
  /\ when = [n \in 0 .. MaxTimers - 1 |-> 0]
  /\ deleted = {}
  /\ te = Null /\ prev = Null /\ next = Null /\ maxId = Null
  /\ freed = {} /\ gone = {} /\ byFinalizer = {}
  /\ forced = {}
  /\ steady = TRUE

LoopStep ==
  \/ Sleep \/ TimeIsUp \/ BeginPass \/ EndPass
  \/ RemoveDeleted \/ FinalizerReturns
  \/ NotDue \/ Fire \/ TimeProcReturns

Next ==
  \/ LoopStep \/ FileEvent \/ Tick
  \/ \E delay \in Delays : CreateTimeEvent(delay)
  \/ \E n \in Live : DeleteTimeEvent(n)
  \/ \E t \in Times : SetClock(t)

\* The thread runs, time passes, and handlers return; file events may not come.
FairSpec == Init /\ [][Next]_vars /\ WF_vars(LoopStep) /\ WF_vars(Tick)
-----------------------------------------------------------------------------
(* Properties.                                                             *)

\* The shape of the state.  The thread holds a timer while it handles it, and
\* the ids on the list are those of different timers.
TypeOK ==
  /\ clock \in Times
  /\ asleep \in Ints
  /\ phase \in {"top", "asleep", "files", "walk", "firing", "finalizing"}
  /\ timeEventNextId \in 0 .. MaxTimers
  /\ ToSet(list) \subseteq Created /\ Cardinality(ToSet(list)) = Len(list)
  /\ deleted \subseteq Created
  /\ phase \in {"firing", "finalizing"} => te \in Created

\* Handlers may create and delete timers while the list is walked: whatever
\* they do, the list holds every timer that was created and not freed, and none
\* that was freed.  Excepted are timers created by a finalizer: the walk still
\* has no prev then, and if the next timer is deleted too the new one is
\* unlinked with it (processTimeEvents, aeCreateTimeEvent).
NoTimerLost ==
  LET held == IF phase = "finalizing" THEN {te} ELSE {} IN
  /\ ToSet(list) \cap (freed \cup held) = {}
  /\ Created \ (freed \cup held) \subseteq ToSet(list) \cup byFinalizer

\* "this check is currently useless: we always add new timers on the head"
\* (ae.c:291): the walk never meets a timer created since it began, so a timer
\* that creates one without delay, over and over, does not keep the loop from
\* its file events.  The check the comment speaks of, which would pass such a
\* timer by, is therefore left out of the walk.
NewTimersWait == te # Null => te <= maxId

\* A timer that was deleted, by itself in its own handler too, or has returned
\* AE_NOMORE is never called again.
GoneForGood ==
  [][phase # "firing" /\ phase' = "firing" => te' \notin gone]_vars

\* When the clock is set back by a second or more between two passes, the next
\* one calls every timer that is not deleted meanwhile, however far its time now
\* is: none is put off ("force all the time events to be processed ASAP").
SkewFiresAll == phase \in {"top", "asleep"} => forced = {}

\* Excepted from both properties below: the nearest timer is IntLimit or more
\* away, which aeApiPoll turns into a negative int, and epoll_wait sleeps until a
\* file event comes.
SleepsForever == phase = "asleep" /\ tooLong

\* The loop never sleeps past the time of a timer, unless the clock is set
\* while it sleeps or the wait is too long for an int (aeSearchNearestTimer,
\* aeProcessEvents, aeApiPoll).
NeverOversleeps ==
  phase = "asleep" /\ steady /\ ~SleepsForever =>
    \A n \in Live : asleep >= 0 /\ (asleep = 0 \/ clock + asleep <= when[n])

\* Every timer is called or deleted in the end, although the clock is set now
\* and then; and every timer that is deleted is freed.  Excepted are timers
\* created by a finalizer, see NoTimerLost, and a loop that sleeps forever
\* because the wait was too long for an int.
EveryTimerServed ==
  \A n \in 0 .. MaxTimers - 1 :
    /\ (n \in Created \ byFinalizer)
         ~> (n \in gone \/ (phase = "firing" /\ te = n) \/ SleepsForever)
    /\ (n \in gone \ byFinalizer) ~> (n \in freed \/ SleepsForever)
=============================================================================
