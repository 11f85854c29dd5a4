------------------------------- MODULE Timeouts -------------------------------
(***************************************************************************)
(* TimeoutManager (io-reactor/src/timeouts.rs): a vector of (key, time)     *)
(* pairs kept in descending order of time, so that the earliest is popped   *)
(* from the end. Keys are numbered in the order they were accepted, which   *)
(* lets the history tell apart timers the code may give equal keys.         *)
(***************************************************************************)
EXTENDS Naturals, Sequences, FiniteSets

CONSTANTS
    Thresholds,  \* the values TimeoutManager::new may be given
    MaxTime,     \* bound on every time
    MaxTimers    \* bound on the number of timers accepted

ASSUME TimeoutsAssumption ==
    /\ Thresholds \subseteq Nat
    /\ MaxTime \in Nat
    /\ MaxTimers \in Nat

Times == 0..MaxTime
Entry == [key : 1..MaxTimers, at : Times]

VARIABLES
    threshold,  \* TimeoutManager::threshold
    timeouts,   \* TimeoutManager::timeouts
    fired,      \* the vector the caller passes to check
    due,        \* history: the time of every timer accepted, by key
    checked     \* history: the time the service gave to check, if that was the last call

vars == <<threshold, timeouts, fired, due, checked>>

Entries(ts) == {ts[i] : i \in DOMAIN ts}

(* TimeoutManager::new *)
Init ==
    /\ threshold \in Thresholds
    /\ timeouts = <<>>
    /\ fired = <<>>
    /\ due = <<>>
    /\ checked = {}

(* The vectors that sort_unstable_by may leave: any descending arrangement. *)
Sortings(S) ==
    {s \in [1..Cardinality(S) -> S] :
        /\ Entries(s) = S
        /\ \A i, j \in 1..Cardinality(S) : i < j => s[i].at >= s[j].at}

Distance(a, b) == IF a < b THEN b - a ELSE a - b

(* A check that only looks at timers ahead of the new one. *)
TooClose_OneSided(t) ==
    \E e \in Entries(timeouts) : e.at >= t /\ Distance(e.at, t) < threshold

TooClose(t) == \E e \in Entries(timeouts) : Distance(e.at, t) < threshold

(* TimeoutManager::register, returning true ... *)
register(t) ==
    /\ Len(due) < MaxTimers
    /\ ~TooClose(t)
    /\ timeouts' \in Sortings(Entries(timeouts) \cup {[key |-> Len(due) + 1, at |-> t]})
    /\ due' = Append(due, t)
    /\ checked' = {}
    /\ UNCHANGED <<threshold, fired>>

(* ... and returning false. *)
register_refused(t) ==
    /\ TooClose(t)
    /\ checked' = {}
    /\ UNCHANGED <<threshold, timeouts, fired, due>>

(* A next that takes the first entry for the earliest. *)
next_FromFront(ts, time) ==
    IF ts = <<>> THEN {}
    ELSE LET t == ts[1].at IN {IF t >= time THEN t - time ELSE 0}

(* A next that does not look whether the timer is over already. *)
next_Unsaturated(ts, time) ==
    IF ts = <<>> THEN {} ELSE {ts[Len(ts)].at - time}

(* TimeoutManager::next: the time to wait, or None without timers. *)
next(ts, time) ==
    IF ts = <<>> THEN {}
    ELSE LET t == ts[Len(ts)].at IN {IF t >= time THEN t - time ELSE 0}

(* Where the loop of check stops: it pops from the end until it meets a     *)
(* timer that is not over, which it pushes back.                            *)
StopsAt(n, time) ==
    /\ n # 0 => time < timeouts[n].at
    /\ \A i \in n + 1..Len(timeouts) : time >= timeouts[i].at

(* Firing the timers that are over by the given time, the last one first.   *)
Fire(time) ==
    \E n \in 0..Len(timeouts) :
        /\ StopsAt(n, time)
        /\ timeouts' = SubSeq(timeouts, 1, n)
        /\ fired' = fired \o [i \in 1..Len(timeouts) - n |->
                                timeouts[Len(timeouts) + 1 - i].key]
        /\ UNCHANGED <<threshold, due>>

(* A loop that does not push back the timer that is not over. *)
check_NotPushedBack(time) ==
    /\ \E n \in 0..Len(timeouts) :
        /\ StopsAt(n, time)
        /\ timeouts' = SubSeq(timeouts, 1, IF n = 0 THEN 0 ELSE n - 1)
        /\ fired' = fired \o [i \in 1..Len(timeouts) - n |->
                                timeouts[Len(timeouts) + 1 - i].key]
    /\ checked' = {time}
    /\ UNCHANGED <<threshold, due>>

(* A comparison that lets a timer wait until after its time. *)
check_Strict(time) ==
    /\ IF time = 0 THEN UNCHANGED <<threshold, timeouts, fired, due>> ELSE Fire(time - 1)
    /\ checked' = {time}

(* TimeoutManager::check *)
check(time) == Fire(time) /\ checked' = {time}

(* TimeoutManager::check_now calls check with a zero duration, where its     *)
(* documentation promises the current time: what fires is what is over by   *)
(* time zero.                                                               *)
check_now == Fire(0) /\ checked' = {}

Next ==
    \/ \E t \in Times : register(t) \/ register_refused(t) \/ check(t)
    \/ check_now

Spec == Init /\ [][Next]_vars

-----------------------------------------------------------------------------
(* Every variable ranges over the values the program can give it. *)
TypeOK ==
    /\ threshold \in Thresholds
    /\ timeouts \in Seq(Entry)
    /\ fired \in Seq(1..MaxTimers)
    /\ due \in Seq(Times)
    /\ Len(due) <= MaxTimers
    /\ checked \subseteq Times

(* register keeps the vector in descending order, which next and check      *)
(* rely on.                                                                 *)
Sorted == \A i, j \in 1..Len(timeouts) : i < j => timeouts[i].at >= timeouts[j].at

(* No two timers are closer than the threshold, in whatever order they were *)
(* registered and fired ("a threshold below which two timeouts cannot       *)
(* overlap").                                                               *)
Separated ==
    \A e, f \in Entries(timeouts) : e # f => Distance(e.at, f.at) >= threshold

(* The time next gives never oversleeps a timer that is still ahead and is  *)
(* zero as soon as one is over: poll with it and no timer is late.          *)
NextNeverLate ==
    \A time \in Times : \A e \in Entries(timeouts) : \A d \in next(timeouts, time) :
        IF e.at <= time THEN d = 0 ELSE time + d <= e.at

(* Every timer accepted is either still waiting, with its own time, or has  *)
(* fired, once.                                                             *)
NoTimerLost ==
    /\ \A k \in 1..Len(due) :
          (\E e \in Entries(timeouts) : e.key = k) <=> ~\E i \in 1..Len(fired) : fired[i] = k
    /\ \A i, j \in 1..Len(timeouts) : timeouts[i].key = timeouts[j].key => i = j
    /\ \A i, j \in 1..Len(fired) : fired[i] = fired[j] => i = j
    /\ \A e \in Entries(timeouts) : e.key \in 1..Len(due) /\ due[e.key] = e.at

(* One call of check(time) fires the timers that are over by that time, all *)
(* of them and no others, the earliest first. Only check is meant, "given a *)
(* specific time": nothing is claimed of check_now, which does not do what  *)
(* its documentation says.                                                  *)
ChecksExactly(time) ==
    LET new == SubSeq(fired', Len(fired) + 1, Len(fired'))
    IN  /\ Entries(new) = {e.key : e \in {f \in Entries(timeouts) : f.at <= time}}
        /\ \A i, j \in 1..Len(new) : i < j => due[new[i]] <= due[new[j]]
        /\ Entries(timeouts') = {e \in Entries(timeouts) : e.at > time}

CheckFiresExactlyTheDue == [][\A time \in checked' : ChecksExactly(time)]_vars
=============================================================================
