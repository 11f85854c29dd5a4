----------------------------- MODULE ReactorLoop -----------------------------
(***************************************************************************)
(* The loop of the reactor thread in time (Runtime::run in                  *)
(* io-reactor/src/reactor.rs): how long poll may wait, given the timers,    *)
(* and which of the handlers run after it has returned with events, with    *)
(* nothing, or with an error. The timers are those of Timeouts.             *)
(*                                                                         *)
(* The time is the wall clock (SystemTime), which can be set back and       *)
(* forth; poll itself waits for a duration. Taking the time, computing the  *)
(* timeout and entering poll are one step. What the service asks for other  *)
(* than timers is left to Runtime: here it is one kind of action, which may *)
(* fail.                                                                    *)
(***************************************************************************)
EXTENDS Naturals, Sequences, FiniteSets

CONSTANTS
    Threshold,      \* what Runtime gives to TimeoutManager::new
    WAIT_TIMEOUT,   \* how long poll waits without timers
    MaxTime,        \* bound on the clock
    MaxDuration,    \* bound on the durations of Action::SetTimer
    MaxActions      \* bound: actions the service queues in all

ASSUME ReactorLoopAssumption ==
    /\ Threshold \in Nat
    /\ WAIT_TIMEOUT \in Nat \ {0}
    /\ MaxTime \in Nat /\ MaxDuration \in Nat /\ MaxActions \in Nat

VARIABLES
    clock,          \* SystemTime::now() since the epoch
    adjusted,       \* history: the clock was set since before_poll was taken
    before_poll,    \* the time the timeout was computed for
    timeout,        \* what is left of the timeout given to poll
    now,            \* the time the last events were handled at
    ready,          \* a descriptor, or the waker, has something to report
    phase,          \* where the thread is in run
    queue,          \* actions the service has queued
    queued,         \* how many it has queued so far
    asked,          \* history: the times SetTimer actions have asked for
    threshold, timeouts, fired, due, checked    \* Runtime::timeouts

timers == <<threshold, timeouts, fired, due, checked>>
vars == <<clock, adjusted, before_poll, timeout, now, ready, phase, queue, queued, asked,
          threshold, timeouts, fired, due, checked>>

T == INSTANCE Timeouts WITH Thresholds <- {Threshold}, MaxTime <- MaxTime + MaxDuration,
                            MaxTimers <- MaxActions

(* Action::SetTimer, or anything else; `by` is who queued it.               *)
Sources == {"launch", "poll_error", "turn"}
Action == [timer : BOOLEAN, duration : 0..MaxDuration, by : Sources]

(* What the service may queue, once more, in one of its handlers.           *)
React(q, source) ==
    \/ queue' = q /\ queued' = queued
    \/ /\ queued < MaxActions
       /\ \E a \in Action : a.by = source /\ (~a.timer => a.duration = 0)
                                          /\ queue' = Append(q, a)
       /\ queued' = queued + 1

(* Runtime::with, and the actions the service was launched with.            *)
Init ==
    /\ clock \in 0..MaxTime
    /\ adjusted = FALSE
    /\ before_poll = 0 /\ timeout = 0 /\ now = 0
    /\ ready = FALSE
    /\ phase = "top"
    /\ queue \in {<<>>} \cup {<<a>> : a \in {b \in Action : b.by = "launch" /\ b.timer}}
    /\ queued = Len(queue) /\ queued <= MaxActions
    /\ asked = {}
    /\ T!Init

-----------------------------------------------------------------------------
(* The world.                                                               *)

(* Time passes; poll returns when its timeout is over or there is           *)
(* something to report.                                                     *)
elapse ==
    /\ clock < MaxTime
    /\ phase = "poll" => timeout > 0 /\ ~ready
    /\ clock' = clock + 1
    /\ timeout' = IF phase = "poll" THEN timeout - 1 ELSE timeout
    /\ UNCHANGED <<adjusted, before_poll, now, ready, phase, queue, queued, asked, timers>>

clock_set ==
    /\ clock' \in 0..MaxTime \ {clock}
    /\ adjusted' = (phase = "poll")
    /\ UNCHANGED <<before_poll, timeout, now, ready, phase, queue, queued, asked, timers>>

becomes_ready ==
    /\ ~ready
    /\ ready' = TRUE
    /\ UNCHANGED <<clock, adjusted, before_poll, timeout, now, phase, queue, queued, asked, timers>>

-----------------------------------------------------------------------------
(* One turn of the loop. *)

(* The timeout is computed for the time of the events before. *)
begin_poll_Stale ==
    /\ phase = "top"
    /\ before_poll' = clock
    /\ timeout' = IF timeouts = <<>> THEN WAIT_TIMEOUT
                  ELSE CHOOSE d \in T!next(timeouts, now) : TRUE
    /\ adjusted' = FALSE
    /\ phase' = "poll"
    /\ UNCHANGED <<clock, now, ready, queue, queued, asked, timers>>

(* The timeout: the time to the next timer, or an hour without timers.      *)
begin_poll ==
    /\ phase = "top"
    /\ before_poll' = clock
    /\ timeout' = IF timeouts = <<>> THEN WAIT_TIMEOUT
                  ELSE CHOOSE d \in T!next(timeouts, clock) : TRUE
    /\ adjusted' = FALSE
    /\ phase' = "poll"
    /\ UNCHANGED <<clock, now, ready, queue, queued, asked, timers>>

(* before_poll and timeout are local to the turn: their values go with poll. *)
PollReturns ==
    /\ phase = "poll"
    /\ before_poll' = 0 /\ timeout' = 0 /\ adjusted' = FALSE

(* Ok(0): the loop goes on, no handler is called.                           *)
poll_timeout ==
    /\ PollReturns
    /\ timeout = 0 /\ ~ready
    /\ phase' = "top"
    /\ UNCHANGED <<clock, now, ready, queue, queued, asked, timers>>

(* Err: the service is told, and the loop goes on; its actions wait.        *)
poll_error ==
    /\ PollReturns
    /\ React(queue, "poll_error")
    /\ phase' = "top"
    /\ UNCHANGED <<clock, now, ready, asked, timers>>

(* A loop that takes the end of the timeout for having no events. *)
poll_events_NotWhenOver ==
    /\ PollReturns
    /\ ready
    /\ IF timeout = 0
       THEN phase' = "top" /\ UNCHANGED <<now, queue, queued>>
       ELSE now' = clock /\ phase' = "events" /\ React(queue, "turn")
    /\ UNCHANGED <<clock, ready, asked, timers>>

(* Ok(count), also when the timeout was zero: Handler::tick is told the     *)
(* time.                                                                    *)
poll_events ==
    /\ PollReturns
    /\ ready
    /\ now' = clock
    /\ phase' = "events"
    /\ React(queue, "turn")
    /\ UNCHANGED <<clock, ready, asked, timers>>

(* handle_events, and the commands if the waker was among the events: the   *)
(* service may react to any of them.                                        *)
handle_events ==
    /\ phase = "events"
    /\ ready' = FALSE
    /\ phase' = "actions"
    /\ React(queue, "turn")
    /\ UNCHANGED <<clock, adjusted, before_poll, timeout, now, asked, timers>>

(* SetTimer with the duration taken for a time. *)
set_timer_FromEpoch ==
    /\ phase = "actions" /\ queue # <<>> /\ Head(queue).timer
    /\ LET d == Head(queue).duration
       IN  /\ T!register(d) \/ T!register_refused(d)
           /\ asked' = asked \cup {now + d}
    /\ queue' = Tail(queue)
    /\ UNCHANGED <<clock, adjusted, before_poll, timeout, now, ready, phase, queued>>

(* Action::SetTimer: a time counted from the turn's events. Whether the     *)
(* timer was refused, for being close to another, nobody asks.              *)
set_timer ==
    /\ phase = "actions" /\ queue # <<>> /\ Head(queue).timer
    /\ LET t == now + Head(queue).duration
       IN  /\ T!register(t) \/ T!register_refused(t)
           /\ asked' = asked \cup {t}
    /\ queue' = Tail(queue)
    /\ UNCHANGED <<clock, adjusted, before_poll, timeout, now, ready, phase, queued>>

(* Another action, and handle_error if it fails.                            *)
handle_action ==
    /\ phase = "actions" /\ queue # <<>> /\ ~Head(queue).timer
    /\ React(Tail(queue), "turn")
    /\ UNCHANGED <<clock, adjusted, before_poll, timeout, now, ready, phase, asked, timers>>

(* One action a turn. *)
actions_done_One ==
    /\ phase = "actions"
    /\ phase' = "top"
    /\ UNCHANGED <<clock, adjusted, before_poll, timeout, now, ready, queue, queued, asked, timers>>

(* handle_actions leaves its loop when the service has no more.             *)
actions_done ==
    /\ phase = "actions" /\ queue = <<>>
    /\ phase' = "top"
    /\ UNCHANGED <<clock, adjusted, before_poll, timeout, now, ready, queue, queued, asked, timers>>

turn == begin_poll \/ poll_timeout \/ handle_events \/ set_timer \/ handle_action \/ actions_done

Next == elapse \/ clock_set \/ becomes_ready \/ turn \/ poll_events \/ poll_error

Spec == Init /\ [][Next]_vars

(* The thread runs, and poll does not fail for ever while there is          *)
(* something to report. Nothing need ever become ready.                     *)
FairSpec == Spec /\ WF_vars(turn) /\ SF_vars(poll_events)

-----------------------------------------------------------------------------
(* Every variable ranges over the values the program can give it.           *)
TypeOK ==
    /\ clock \in 0..MaxTime /\ before_poll \in 0..MaxTime /\ now \in 0..MaxTime
    /\ timeout \in Nat
    /\ {adjusted, ready} \subseteq BOOLEAN
    /\ phase \in {"top", "poll", "events", "actions"}
    /\ queue \in Seq(Action) /\ queued \in 0..MaxActions
    /\ asked \subseteq 0..MaxTime + MaxDuration
    /\ T!TypeOK

(* poll wakes for the timers: the thread never sleeps past one that was     *)
(* ahead when it took the time, nor longer than WAIT_TIMEOUT without any,   *)
(* unless the clock is set while it sleeps. Timers that are over stay,      *)
(* check being never called, so that it does not sleep at all from then on. *)
PollOutlastsNoTimer ==
    phase = "poll" /\ ~adjusted =>
        /\ \A e \in T!Entries(timeouts) :
              IF e.at > before_poll THEN clock <= e.at ELSE clock = before_poll
        /\ timeouts = <<>> => clock <= before_poll + WAIT_TIMEOUT

(* A timer the service has asked for is not lost when the TimeoutManager    *)
(* refuses it: there is one closer to it than the threshold, in the past or *)
(* ahead, for which poll wakes.                                             *)
AskedTimersCovered ==
    \A t \in asked : \E e \in T!Entries(timeouts) :
        e.at = t \/ T!Distance(e.at, t) < threshold

(* What the service queues in the handlers of a turn is handled in that     *)
(* turn: when the thread goes to sleep only the actions it was launched     *)
(* with, or queued when poll had failed, may be waiting.                    *)
NothingLeftWaiting ==
    phase = "poll" => \A i \in 1..Len(queue) : queue[i].by \in {"launch", "poll_error"}

(* Descriptors are served although a timer that is over makes poll return   *)
(* at once in every turn, and the next events also bring to an end the wait *)
(* of the actions that were queued when poll had failed.                    *)
EventsHandled ==
    /\ ready ~> ~ready
    /\ ready /\ queue # <<>> ~> queue = <<>>
=============================================================================
