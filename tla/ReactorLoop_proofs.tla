-------------------------- MODULE ReactorLoop_proofs --------------------------
(***************************************************************************)
(* The reactor thread sleeps past no timer, loses none it was asked for and *)
(* leaves no action of a turn behind, for every threshold, clock and        *)
(* service. The timers' own invariant comes from Timeouts_proofs.           *)
(***************************************************************************)
EXTENDS ReactorLoop, TLAPS

TP == INSTANCE Timeouts_proofs WITH Thresholds <- {Threshold},
                                    MaxTime <- MaxTime + MaxDuration,
                                    MaxTimers <- MaxActions

(* The bounds of the loop are bounds a TimeoutManager may have.             *)
LEMMA TimerBounds == TP!TimeoutsAssumption
  BY ReactorLoopAssumption DEF TP!TimeoutsAssumption

(* The manager of the loop is the one Timeouts_proofs speaks of.            *)
LEMMA SameCardinality == ASSUME NEW S PROVE T!Cardinality(S) = TP!Cardinality(S)
  BY DEF T!Cardinality, TP!Cardinality

(* The operators of both instances on the timers are the same.              *)
LEMMA SameManager ==
    /\ T!Init => TP!Init
    /\ \A t : T!register(t) => TP!register(t)
    /\ \A t : T!register_refused(t) => TP!register_refused(t)
    /\ TP!TypeOK => T!TypeOK
    /\ \A ts : T!Entries(ts) = TP!Entries(ts)
  <1>1. T!Init => TP!Init
    BY DEF T!Init, TP!Init
  <1>2. \A ts : T!Entries(ts) = TP!Entries(ts)
    BY DEF T!Entries, TP!Entries
  <1>3. \A a, b : T!Distance(a, b) = TP!Distance(a, b)
    BY DEF T!Distance, TP!Distance
  <1>4. \A t : T!TooClose(t) <=> TP!TooClose(t)
    BY <1>2, <1>3 DEF T!TooClose, TP!TooClose
  <1>5. ASSUME NEW S PROVE T!Sortings(S) = TP!Sortings(S)
    BY <1>2, SameCardinality DEF T!Sortings, TP!Sortings
  <1>6. ASSUME NEW t, T!register(t) PROVE TP!register(t)
    BY <1>2, <1>4, <1>5, <1>6 DEF T!register, TP!register
  <1>7. ASSUME NEW t, T!register_refused(t) PROVE TP!register_refused(t)
    BY <1>4, <1>7 DEF T!register_refused, TP!register_refused
  <1>8. TP!TypeOK => T!TypeOK
    BY DEF TP!TypeOK, T!TypeOK, TP!Entry, T!Entry, TP!Times, T!Times
  <1> QED
    BY <1>1, <1>2, <1>6, <1>7, <1>8

(* What a registration does to the entries and to the history.              *)
LEMMA RegisterAdds ==
    ASSUME NEW t, T!register(t)
    PROVE  /\ T!Entries(timeouts') = T!Entries(timeouts) \cup {[key |-> Len(due) + 1, at |-> t]}
           /\ threshold' = threshold
  BY DEF T!register, T!Sortings

-----------------------------------------------------------------------------
(* While the thread sleeps undisturbed its time and what is left of the     *)
(* timeout add up to no more than the next timer, or WAIT_TIMEOUT.          *)
SleepsWithin ==
    phase = "poll" /\ ~adjusted =>
        /\ \A e \in T!Entries(timeouts) :
              IF e.at > before_poll THEN clock + timeout <= e.at
                                    ELSE clock = before_poll /\ timeout = 0
        /\ timeouts = <<>> => clock + timeout <= before_poll + WAIT_TIMEOUT

(* Only the actions of the launch and of failed polls wait from the end of  *)
(* a turn to the next events.                                               *)
WaitingBetweenTurns ==
    phase \in {"top", "poll"} =>
        \A i \in 1..Len(queue) : queue[i].by \in {"launch", "poll_error"}

(* TypeOK but for the timers, whose part is in TP!TimerInv.                 *)
LoopTypes ==
    /\ clock \in 0..MaxTime /\ before_poll \in 0..MaxTime /\ now \in 0..MaxTime
    /\ timeout \in Nat
    /\ adjusted \in BOOLEAN /\ ready \in BOOLEAN
    /\ phase \in {"top", "poll", "events", "actions"}
    /\ queue \in Seq(Action) /\ queued \in 0..MaxActions
    /\ asked \subseteq 0..MaxTime + MaxDuration

LoopInv ==
    /\ LoopTypes
    /\ TP!TimerInv
    /\ SleepsWithin
    /\ AskedTimersCovered
    /\ WaitingBetweenTurns

(* The thread starts at the top of the loop, with the actions of the launch. *)
LEMMA LoopInvInit == Init => LoopInv
  <1> SUFFICES ASSUME Init PROVE LoopInv
    OBVIOUS
  <1> USE ReactorLoopAssumption
  <1>1. queue \in Seq(Action) /\ \A i \in 1..Len(queue) : queue[i].by = "launch"
    <2>1. CASE queue = <<>>
      BY <2>1
    <2>2. ASSUME NEW a \in Action, a.by = "launch", queue = <<a>>
          PROVE  queue \in Seq(Action) /\ \A i \in 1..Len(queue) : queue[i].by = "launch"
      BY <2>2
    <2> QED
      BY <2>1, <2>2 DEF Init
  <1>2. LoopTypes
    <2>1. queued \in 0..MaxActions
      BY <1>1 DEF Init
    <2>2. adjusted \in BOOLEAN /\ ready \in BOOLEAN
      BY DEF Init
    <2>3. before_poll \in 0..MaxTime /\ now \in 0..MaxTime /\ timeout \in Nat
      BY DEF Init
    <2> QED
      BY <1>1, <2>1, <2>2, <2>3 DEF Init, LoopTypes
  <1>3. TP!TimerInv
    <2>1. TP!Init
      BY SameManager DEF Init
    <2> QED
      BY <2>1, TP!TimerInvInit
  <1>4. SleepsWithin /\ AskedTimersCovered /\ WaitingBetweenTurns
    BY <1>1 DEF Init, SleepsWithin, AskedTimersCovered, WaitingBetweenTurns
  <1> QED
    BY <1>2, <1>3, <1>4 DEF LoopInv

(* What the service queues are actions of the handler it queues them in.    *)
LEMMA Reacting ==
    ASSUME NEW q \in Seq(Action), NEW source \in Sources, queued \in 0..MaxActions,
           React(q, source), NEW B,
           \A i \in 1..Len(q) : q[i].by \in B
    PROVE  /\ queue' \in Seq(Action) /\ queued' \in 0..MaxActions
           /\ source \in B => \A i \in 1..Len(queue') : queue'[i].by \in B
  <1> USE ReactorLoopAssumption
  <1>1. CASE queue' = q /\ queued' = queued
    BY <1>1
  <1>2. ASSUME NEW a \in Action, a.by = source, queued < MaxActions,
               queue' = Append(q, a), queued' = queued + 1
        PROVE  /\ queue' \in Seq(Action) /\ queued' \in 0..MaxActions
               /\ source \in B => \A i \in 1..Len(queue') : queue'[i].by \in B
    <2>1. queue' \in Seq(Action) /\ queued' \in 0..MaxActions
      BY <1>2
    <2>2. \A i \in 1..Len(queue') : queue'[i] = a \/ \E j \in 1..Len(q) : queue'[i] = q[j]
      BY <1>2
    <2> QED
      BY <1>2, <2>1, <2>2
  <1> QED
    BY <1>1, <1>2 DEF React

(* The times of the timers are numbers.                                     *)
LEMMA TimesOfEntries ==
    ASSUME TP!TimerInv
    PROVE  \A e \in T!Entries(timeouts) : e.at \in Nat
  <1>1. timeouts \in Seq(TP!Entry)
    BY DEF TP!TimerInv, TP!TypeOK
  <1>2. \A i \in 1..Len(timeouts) : timeouts[i].at \in Nat
    BY <1>1, TimerBounds, TP!EntryTypes
  <1> QED
    BY <1>1, <1>2 DEF T!Entries

(* The timeout poll is given ends no later than the next timer.             *)
LEMMA BeginPollWithin ==
    ASSUME LoopTypes, TP!TimerInv, begin_poll
    PROVE  SleepsWithin' /\ timeout' \in Nat
  <1> USE ReactorLoopAssumption
  <1>1. /\ before_poll' = clock /\ clock' = clock /\ timeouts' = timeouts
        /\ timeout' = IF timeouts = <<>> THEN WAIT_TIMEOUT
                      ELSE CHOOSE d \in T!next(timeouts, clock) : TRUE
    BY DEF begin_poll, timers
  <1>2. clock \in Nat
    BY DEF LoopTypes
  <1>3. CASE timeouts = <<>>
    BY <1>1, <1>2, <1>3 DEF SleepsWithin, T!Entries
  <1>4. CASE timeouts # <<>>
    <2>1. PICK t : t = timeouts[Len(timeouts)].at
      OBVIOUS
    <2>2. timeouts \in Seq(TP!Entry) /\ Len(timeouts) \in 1..Len(timeouts)
      BY <1>4 DEF TP!TimerInv, TP!TypeOK
    <2>3. t \in Nat
      BY <2>1, <2>2, TimerBounds, TP!EntryTypes
    <2>4. PICK w : w = IF t >= clock THEN t - clock ELSE 0
      OBVIOUS
    <2>5. w \in Nat
      BY <1>2, <2>3, <2>4
    <2>6. T!next(timeouts, clock) = {w} /\ TP!next(timeouts, clock) = {w}
      BY <1>4, <2>1, <2>4 DEF T!next, TP!next
    <2>7. timeout' = w
      BY <1>1, <1>4, <2>6
    <2>8. clock \in TP!Times
      BY DEF TP!Times, LoopTypes
    <2>9. \A e \in T!Entries(timeouts) : IF e.at <= clock THEN w = 0 ELSE clock + w <= e.at
      <3>1. TP!NextNeverLate
        BY TP!NextFromOrder
      <3>2. T!Entries(timeouts) = TP!Entries(timeouts)
        BY SameManager
      <3> QED
        BY <2>6, <2>8, <3>1, <3>2 DEF TP!NextNeverLate
    <2>10. \A e \in T!Entries(timeouts) : e.at \in Nat
      BY TimesOfEntries
    <2>11. timeouts' = timeouts /\ before_poll' = clock /\ clock' = clock
      BY <1>1
    <2>12. \A e \in T!Entries(timeouts) :
             IF e.at > clock THEN clock + w <= e.at ELSE clock = clock /\ w = 0
      BY <1>2, <2>5, <2>9, <2>10
    <2> QED
      BY <1>4, <2>5, <2>7, <2>11, <2>12 DEF SleepsWithin
  <1> QED
    BY <1>3, <1>4

(* One more timer is covered, and those that were stay so.                  *)
LEMMA SetTimerStep ==
    ASSUME LoopInv, set_timer
    PROVE  LoopInv'
  <1> USE ReactorLoopAssumption
  <1>1. PICK t : t = now + Head(queue).duration
    OBVIOUS
  <1>2. /\ phase = "actions" /\ queue # <<>>
        /\ T!register(t) \/ T!register_refused(t)
        /\ asked' = asked \cup {t} /\ queue' = Tail(queue)
        /\ UNCHANGED <<clock, adjusted, before_poll, timeout, now, ready, phase, queued>>
    BY <1>1 DEF set_timer
  <1>3. Head(queue) \in Action /\ queue' \in Seq(Action)
    BY <1>2 DEF LoopInv, LoopTypes
  <1>4. t \in 0..MaxTime + MaxDuration
    <2>1. Head(queue).duration \in 0..MaxDuration /\ now \in 0..MaxTime
      BY <1>3 DEF LoopInv, LoopTypes, Action
    <2> QED
      BY <1>1, <2>1
  <1>5. LoopTypes'
    BY <1>2, <1>3, <1>4 DEF LoopInv, LoopTypes
  <1>6. TP!TimerInv'
    <2>1. t \in TP!Times /\ TP!TimerInv
      BY <1>4 DEF TP!Times, LoopInv
    <2>2. CASE T!register(t)
      BY <2>1, <2>2, SameManager, TimerBounds, TP!RegisterStep
    <2>3. CASE T!register_refused(t)
      <3>1. TP!register_refused(t)
        BY <2>3, SameManager
      <3>2. TP!Next
        BY <2>1, <3>1 DEF TP!Next
      <3> QED
        BY <2>1, <3>2, TimerBounds, TP!TimerInvNext
    <2> QED
      BY <1>2, <2>2, <2>3
  <1>7. SleepsWithin' /\ WaitingBetweenTurns'
    BY <1>2 DEF SleepsWithin, WaitingBetweenTurns
  <1>8. AskedTimersCovered'
    <2>1. CASE T!register(t)
      <3>1. PICK new : new = [key |-> Len(due) + 1, at |-> t]
        OBVIOUS
      <3>2. T!Entries(timeouts') = T!Entries(timeouts) \cup {new} /\ threshold' = threshold
        BY <2>1, <3>1, RegisterAdds
      <3>3. new.at = t
        BY <3>1
      <3> QED
        BY <1>2, <3>2, <3>3 DEF LoopInv, AskedTimersCovered
    <2>2. CASE T!register_refused(t)
      <3>1. T!TooClose(t) /\ UNCHANGED <<threshold, timeouts>>
        BY <2>2 DEF T!register_refused
      <3> QED
        BY <1>2, <3>1 DEF LoopInv, AskedTimersCovered, T!TooClose
    <2> QED
      BY <1>2, <2>1, <2>2
  <1> QED
    BY <1>5, <1>6, <1>7, <1>8 DEF LoopInv

(* Steps that do not touch the timers.                                      *)
LEMMA TimersStay ==
    ASSUME LoopInv, UNCHANGED <<timers, asked>>
    PROVE  TP!TimerInv' /\ AskedTimersCovered'
  <1>1. UNCHANGED <<threshold, timeouts, fired, due, checked>>
    BY DEF timers
  <1>2. TP!TimerInv'
    BY <1>1, TimerBounds, TP!TimerInvNext DEF LoopInv, TP!vars
  <1>3. AskedTimersCovered'
    BY <1>1 DEF LoopInv, AskedTimersCovered, timers
  <1> QED
    BY <1>2, <1>3

(* The invariant is inductive.                                              *)
LEMMA LoopInvNext == LoopInv /\ [Next]_vars => LoopInv'
  <1> SUFFICES ASSUME LoopInv, [Next]_vars PROVE LoopInv'
    OBVIOUS
  <1> USE ReactorLoopAssumption
  <1>0. /\ clock \in 0..MaxTime /\ before_poll \in 0..MaxTime /\ now \in 0..MaxTime
        /\ timeout \in Nat /\ adjusted \in BOOLEAN /\ ready \in BOOLEAN
        /\ phase \in {"top", "poll", "events", "actions"}
        /\ queue \in Seq(Action) /\ queued \in 0..MaxActions
        /\ asked \subseteq 0..MaxTime + MaxDuration
    BY DEF LoopInv, LoopTypes
  <1>a. ASSUME PollReturns
         PROVE  /\ phase = "poll"
                /\ before_poll' \in 0..MaxTime /\ timeout' \in Nat /\ adjusted' \in BOOLEAN
    <2>1. adjusted' \in BOOLEAN
      BY <1>a DEF PollReturns
    <2>2. phase = "poll" /\ before_poll' \in 0..MaxTime /\ timeout' \in Nat
      BY <1>a DEF PollReturns
    <2> QED
      BY <2>1, <2>2
  <1>1. CASE elapse
    <2>1. LoopTypes'
      BY <1>0, <1>1 DEF elapse, LoopTypes
    <2>2. SleepsWithin'
      <3>1. \A e \in T!Entries(timeouts) : e.at \in Nat
        BY TimesOfEntries DEF LoopInv
      <3>2. timeouts' = timeouts
        BY <1>1 DEF elapse, timers
      <3> QED
        BY <1>0, <1>1, <3>1, <3>2 DEF LoopInv, elapse, SleepsWithin
    <2>3. WaitingBetweenTurns'
      BY <1>1 DEF LoopInv, elapse, WaitingBetweenTurns
    <2> QED
      BY <1>1, <2>1, <2>2, <2>3, TimersStay DEF LoopInv, elapse
  <1>2. CASE clock_set
    <2>1. LoopTypes'
      BY <1>0, <1>2 DEF clock_set, LoopTypes
    <2>2. SleepsWithin' /\ WaitingBetweenTurns'
      BY <1>2 DEF LoopInv, clock_set, SleepsWithin, WaitingBetweenTurns
    <2> QED
      BY <1>2, <2>1, <2>2, TimersStay DEF LoopInv, clock_set
  <1>3. CASE becomes_ready
    <2>1. LoopTypes'
      BY <1>0, <1>3 DEF becomes_ready, LoopTypes
    <2>2. SleepsWithin' /\ WaitingBetweenTurns'
      BY <1>3 DEF LoopInv, becomes_ready, SleepsWithin, WaitingBetweenTurns, timers
    <2> QED
      BY <1>3, <2>1, <2>2, TimersStay DEF LoopInv, becomes_ready
  <1>4. CASE begin_poll
    <2>1. SleepsWithin' /\ timeout' \in Nat
      BY <1>4, BeginPollWithin DEF LoopInv
    <2>2. LoopTypes'
      BY <1>0, <1>4, <2>1 DEF begin_poll, LoopTypes
    <2>3. WaitingBetweenTurns'
      BY <1>4 DEF LoopInv, begin_poll, WaitingBetweenTurns
    <2> QED
      BY <1>4, <2>1, <2>2, <2>3, TimersStay DEF LoopInv, begin_poll
  <1>5. CASE poll_timeout
    <2>1. LoopTypes'
      BY <1>0, <1>5, <1>a DEF poll_timeout, LoopTypes
    <2>2. SleepsWithin' /\ WaitingBetweenTurns'
      BY <1>5 DEF LoopInv, poll_timeout, PollReturns, SleepsWithin, WaitingBetweenTurns
    <2> QED
      BY <1>5, <2>1, <2>2, TimersStay DEF LoopInv, poll_timeout
  <1>6. CASE poll_error
    <2>1. /\ phase = "poll" /\ phase' = "top" /\ React(queue, "poll_error")
          /\ before_poll' \in 0..MaxTime /\ timeout' \in Nat /\ adjusted' \in BOOLEAN
          /\ UNCHANGED <<clock, now, ready, asked, timers>>
      BY <1>6, <1>a DEF poll_error
    <2>2. /\ queue' \in Seq(Action) /\ queued' \in 0..MaxActions
          /\ \A i \in 1..Len(queue') : queue'[i].by \in {"launch", "poll_error"}
      <3>1. \A i \in 1..Len(queue) : queue[i].by \in {"launch", "poll_error"}
        BY <2>1 DEF LoopInv, WaitingBetweenTurns
      <3>2. "poll_error" \in Sources /\ "poll_error" \in {"launch", "poll_error"}
        BY DEF Sources
      <3> QED
        BY <1>0, <2>1, <3>1, <3>2, Reacting
    <2>3. LoopTypes'
      BY <1>0, <2>1, <2>2 DEF LoopTypes
    <2>4. SleepsWithin' /\ WaitingBetweenTurns'
      BY <2>1, <2>2 DEF SleepsWithin, WaitingBetweenTurns
    <2> QED
      BY <2>1, <2>3, <2>4, TimersStay DEF LoopInv
  <1>7. ASSUME NEW q \in Seq(Action), React(q, "turn"),
               clock' = clock, before_poll' \in 0..MaxTime, now' \in 0..MaxTime,
               timeout' \in Nat, adjusted' \in BOOLEAN, ready' \in BOOLEAN,
               phase' \in {"events", "actions"}, UNCHANGED <<asked, timers>>
        PROVE  LoopInv'
    <2>1. queue' \in Seq(Action) /\ queued' \in 0..MaxActions
      <3>1. \A i \in 1..Len(q) : q[i].by \in Sources
        <4>1. \A i \in 1..Len(q) : q[i] \in Action
          OBVIOUS
        <4> QED
          BY <4>1 DEF Action
      <3>2. "turn" \in Sources
        BY DEF Sources
      <3> QED
        BY <1>0, <1>7, <3>1, <3>2, Reacting
    <2>2. LoopTypes'
      BY <1>0, <1>7, <2>1 DEF LoopTypes
    <2>3. SleepsWithin' /\ WaitingBetweenTurns'
      BY <1>7 DEF SleepsWithin, WaitingBetweenTurns
    <2> QED
      BY <1>7, <2>2, <2>3, TimersStay DEF LoopInv
  <1>8. CASE poll_events
    BY <1>0, <1>7, <1>8, <1>a DEF poll_events
  <1>9. CASE handle_events
    BY <1>0, <1>7, <1>9 DEF handle_events
  <1>10. CASE handle_action
    <2>1. Tail(queue) \in Seq(Action)
      BY <1>0, <1>10 DEF handle_action
    <2> QED
      BY <1>0, <1>7, <1>10, <2>1 DEF handle_action
  <1>11. CASE set_timer
    BY <1>11, SetTimerStep
  <1>12. CASE actions_done
    <2>1. LoopTypes'
      BY <1>0, <1>12 DEF actions_done, LoopTypes
    <2>2. SleepsWithin' /\ WaitingBetweenTurns'
      BY <1>12 DEF LoopInv, actions_done, SleepsWithin, WaitingBetweenTurns
    <2> QED
      BY <1>12, <2>1, <2>2, TimersStay DEF LoopInv, actions_done
  <1>13. CASE UNCHANGED vars
    <2>1. LoopTypes'
      BY <1>0, <1>13 DEF vars, LoopTypes
    <2>2. SleepsWithin' /\ WaitingBetweenTurns'
      BY <1>13 DEF LoopInv, vars, SleepsWithin, WaitingBetweenTurns
    <2>3. UNCHANGED <<timers, asked>>
      BY <1>13 DEF vars, timers
    <2> QED
      BY <2>1, <2>2, <2>3, TimersStay DEF LoopInv
  <1> QED
    BY <1>1, <1>2, <1>3, <1>4, <1>5, <1>6, <1>8, <1>9, <1>10, <1>11, <1>12, <1>13
       DEF Next, turn

-----------------------------------------------------------------------------
(* The loop and its timers keep their types, however the clock is set.      *)
THEOREM LoopTypesKept == Spec => []TypeOK
  <1>1. LoopInv => TypeOK
    <2>1. ASSUME LoopInv PROVE T!TypeOK
      BY <2>1, SameManager DEF LoopInv, TP!TimerInv
    <2> QED
      BY <2>1 DEF LoopInv, LoopTypes, TypeOK
  <1> QED
    BY LoopInvInit, LoopInvNext, <1>1, PTL DEF Spec

(* The thread sleeps past no timer, nor longer than WAIT_TIMEOUT without    *)
(* any, unless the clock is set while it sleeps.                            *)
THEOREM NoTimerOverslept == Spec => []PollOutlastsNoTimer
  <1>1. LoopInv => PollOutlastsNoTimer
    <2> SUFFICES ASSUME LoopInv PROVE PollOutlastsNoTimer
      OBVIOUS
    <2>1. \A e \in T!Entries(timeouts) : e.at \in Nat
      BY TimesOfEntries DEF LoopInv
    <2>2. clock \in Nat /\ timeout \in Nat /\ before_poll \in Nat
      BY ReactorLoopAssumption DEF LoopInv, LoopTypes
    <2> QED
      BY <2>1, <2>2, ReactorLoopAssumption DEF LoopInv, SleepsWithin, PollOutlastsNoTimer
  <1> QED
    BY LoopInvInit, LoopInvNext, <1>1, PTL DEF Spec

(* Every timer the service has asked for has one closer to it than the      *)
(* threshold in the manager, itself if it was not refused.                  *)
THEOREM TimersCovered == Spec => []AskedTimersCovered
  <1>1. LoopInv => AskedTimersCovered
    BY DEF LoopInv
  <1> QED
    BY LoopInvInit, LoopInvNext, <1>1, PTL DEF Spec

(* The thread does not go to sleep with an action of the turn unhandled.    *)
THEOREM TurnsFinished == Spec => []NothingLeftWaiting
  <1>1. LoopInv => NothingLeftWaiting
    BY DEF LoopInv, WaitingBetweenTurns, NothingLeftWaiting
  <1> QED
    BY LoopInvInit, LoopInvNext, <1>1, PTL DEF Spec
=============================================================================
