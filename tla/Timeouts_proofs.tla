--------------------------- MODULE Timeouts_proofs ---------------------------
(***************************************************************************)
(* TimeoutManager keeps its vector in order, its timers apart and loses     *)
(* none of them, for every threshold and every sequence of calls.           *)
(***************************************************************************)
EXTENDS Timeouts, FiniteSetTheorems, TLAPS

(* A sequence has finitely many entries.                                    *)
LEMMA FiniteEntries ==
    ASSUME NEW S, NEW ts \in Seq(S)
    PROVE  IsFiniteSet(Entries(ts))
  <1>1. ts \in Surjection(1..Len(ts), Entries(ts))
    BY DEF Surjection, Entries
  <1> QED
    BY <1>1, FS_Surjection, FS_Interval

(* What sorting a finite set of timers yields: a sequence of exactly those  *)
(* timers, each once, in descending order.                                  *)
LEMMA SortingProperties ==
    ASSUME NEW S \in SUBSET Entry, IsFiniteSet(S), NEW s \in Sortings(S)
    PROVE  /\ s \in Seq(Entry)
           /\ Entries(s) = S
           /\ \A i, j \in 1..Len(s) : i < j => s[i].at >= s[j].at
           /\ \A i, j \in 1..Len(s) : s[i] = s[j] => i = j
  <1> DEFINE n == Cardinality(S)
  <1>1. n \in Nat
    BY FS_CardinalityType
  <1>2. s \in [1..n -> S] /\ Entries(s) = S
    BY DEF Sortings
  <1>3. s \in Seq(Entry) /\ Len(s) = n
    BY <1>1, <1>2
  <1>4. s \in Surjection(1..n, S)
    BY <1>2 DEF Surjection, Entries
  <1>5. IsFiniteSet(1..n) /\ Cardinality(1..n) = n
    BY <1>1, FS_Interval
  <1>6. s \in Injection(1..n, S)
    BY <1>4, <1>5, FS_Surjection
  <1> QED
    BY <1>2, <1>3, <1>6 DEF Sortings, Injection, IsInjective

(* The vector check leaves is a prefix of the one it found.                 *)
LEMMA PrefixEntries ==
    ASSUME NEW S, NEW ts \in Seq(S), NEW n \in 0..Len(ts)
    PROVE  /\ SubSeq(ts, 1, n) \in Seq(S)
           /\ Len(SubSeq(ts, 1, n)) = n
           /\ \A i \in 1..n : SubSeq(ts, 1, n)[i] = ts[i]
  OBVIOUS

(* The keys and times of the entries of a vector.                           *)
LEMMA EntryTypes ==
    ASSUME NEW ts \in Seq(Entry), NEW i \in 1..Len(ts)
    PROVE  ts[i] \in Entry /\ ts[i].key \in 1..MaxTimers /\ ts[i].at \in Nat
  <1>1. ts[i] \in Entry
    OBVIOUS
  <1> QED
    BY <1>1, TimeoutsAssumption DEF Entry, Times

(* A function on 1..k is a sequence of length k.                            *)
LEMMA FunctionIsSeq ==
    ASSUME NEW S, NEW k \in Nat, NEW f \in [1..k -> S]
    PROVE  f \in Seq(S) /\ Len(f) = k
  OBVIOUS

(* The entries of two vectors put together.                                 *)
LEMMA ConcatEntries ==
    ASSUME NEW S, NEW a \in Seq(S), NEW b \in Seq(S)
    PROVE  /\ a \o b \in Seq(S) /\ Len(a \o b) = Len(a) + Len(b)
           /\ \A i \in 1..Len(a) : (a \o b)[i] = a[i]
           /\ \A i \in Len(a) + 1..Len(a) + Len(b) : (a \o b)[i] = b[i - Len(a)]
  OBVIOUS

-----------------------------------------------------------------------------
(* NoTimerLost with what it needs to survive register: only keys that were  *)
(* given out have fired, so that the next one is new.                       *)
TimerInv ==
    /\ TypeOK
    /\ Sorted
    /\ Separated
    /\ NoTimerLost
    /\ \A i \in 1..Len(fired) : fired[i] \in 1..Len(due)

(* A new manager has no timers.                                             *)
LEMMA TimerInvInit == Init => TimerInv
  BY TimeoutsAssumption DEF Init, TimerInv, TypeOK, Sorted, Separated, NoTimerLost,
                            Entries, Times, Entry

(* Registering puts a new key into the vector, at a distance from all others. *)
LEMMA RegisterStep ==
    ASSUME TimerInv, NEW t \in Times, register(t)
    PROVE  TimerInv'
  <1> DEFINE new == [key |-> Len(due) + 1, at |-> t]
             S   == Entries(timeouts) \cup {new}
  <1> USE TimeoutsAssumption
  <1>1. Entries(timeouts) \subseteq Entry /\ IsFiniteSet(Entries(timeouts))
    <2>1. timeouts \in Seq(Entry)
      BY DEF TimerInv, TypeOK
    <2>2. Entries(timeouts) \subseteq Entry
      BY <2>1, EntryTypes DEF Entries
    <2> QED
      BY <2>1, <2>2, FiniteEntries
  <1>2. Len(due) \in Nat /\ Len(due) + 1 \in 1..MaxTimers /\ new \in Entry
    BY DEF TimerInv, TypeOK, register, Entry
  <1>3. S \in SUBSET Entry /\ IsFiniteSet(S)
    BY <1>1, <1>2, FS_AddElement
  <1>4. timeouts' \in Sortings(S)
    BY DEF register
  <1>5. /\ timeouts' \in Seq(Entry)
        /\ Entries(timeouts') = S
        /\ \A i, j \in 1..Len(timeouts') : i < j => timeouts'[i].at >= timeouts'[j].at
        /\ \A i, j \in 1..Len(timeouts') : timeouts'[i] = timeouts'[j] => i = j
    BY <1>3, <1>4, SortingProperties
  <1>6. /\ due' = Append(due, t) /\ due' \in Seq(Times) /\ Len(due') = Len(due) + 1
        /\ due'[Len(due) + 1] = t
        /\ \A k \in 1..Len(due) : due'[k] = due[k]
        /\ UNCHANGED <<threshold, fired>> /\ checked' = {}
    BY DEF register, TimerInv, TypeOK
  <1>7. TypeOK'
    BY <1>2, <1>5, <1>6 DEF TimerInv, TypeOK, register
  <1>8. Sorted'
    BY <1>5 DEF Sorted
  <1>9. Separated'
    <2>1. \A e \in Entries(timeouts) : Distance(e.at, t) >= threshold
                                    /\ Distance(t, e.at) >= threshold
      BY <1>1 DEF register, TooClose, Distance, TimerInv, TypeOK, Entry, Times
    <2> HIDE DEF new
    <2>2. new.at = t
      BY DEF new
    <2> QED
      BY <1>5, <1>6, <2>1, <2>2 DEF TimerInv, Separated
  <1>10. \A i \in 1..Len(timeouts') : timeouts'[i] \in S
    BY <1>5 DEF Entries
  <1>11. \A e \in Entries(timeouts) : e.key \in 1..Len(due) /\ due[e.key] = e.at
    BY DEF TimerInv, NoTimerLost
  <1>12. NoTimerLost'
    <2>1. ASSUME NEW e \in S, NEW f \in S, e.key = f.key PROVE e = f
      <3>1. ASSUME NEW g \in Entries(timeouts), NEW h \in Entries(timeouts), g.key = h.key
            PROVE  g = h
        <4>1. PICK i \in DOMAIN timeouts, j \in DOMAIN timeouts : g = timeouts[i] /\ h = timeouts[j]
          BY DEF Entries
        <4>2. DOMAIN timeouts = 1..Len(timeouts)
          BY DEF TimerInv, TypeOK
        <4> QED
          BY <3>1, <4>1, <4>2 DEF TimerInv, NoTimerLost
      <3>2. \A g \in Entries(timeouts) : g.key # new.key
        BY <1>2, <1>11
      <3> QED
        BY <2>1, <3>1, <3>2
    <2>2. \A i, j \in 1..Len(timeouts') : timeouts'[i].key = timeouts'[j].key => i = j
      BY <1>5, <1>10, <2>1
    <2>3. \A e \in S : e.key \in 1..Len(due') /\ due'[e.key] = e.at
      BY <1>2, <1>6, <1>11
    <2>4. ASSUME NEW k \in 1..Len(due')
          PROVE  (\E e \in S : e.key = k) <=> ~\E i \in 1..Len(fired) : fired[i] = k
      <3>1. CASE k = Len(due) + 1
        BY <1>2, <3>1 DEF TimerInv
      <3>2. CASE k \in 1..Len(due)
        BY <1>2, <3>2 DEF TimerInv, NoTimerLost
      <3> QED
        BY <1>2, <1>6, <3>1, <3>2
    <2>5. \A i, j \in 1..Len(fired') : fired'[i] = fired'[j] => i = j
      BY <1>6 DEF TimerInv, NoTimerLost
    <2>6. Entries(timeouts') = S /\ fired' = fired
      BY <1>5, <1>6
    <2> HIDE DEF S
    <2> QED
      BY <2>2, <2>3, <2>4, <2>5, <2>6 DEF NoTimerLost
  <1>13. (\A i \in 1..Len(fired) : fired[i] \in 1..Len(due))'
    BY <1>2, <1>6 DEF TimerInv, TypeOK
  <1> QED
    BY <1>7, <1>8, <1>9, <1>12, <1>13 DEF TimerInv

(* Firing moves the keys of a suffix of the vector, last first, to fired.   *)
LEMMA FireStep ==
    ASSUME TimerInv, NEW time \in Times, Fire(time),
           checked' \in SUBSET Times
    PROVE  TimerInv'
  <1> USE TimeoutsAssumption
  <1>0. TypeOK /\ Len(timeouts) \in Nat /\ Len(fired) \in Nat
    BY DEF TimerInv, TypeOK
  <1>1. PICK L \in Nat, F \in Nat : L = Len(timeouts) /\ F = Len(fired)
    BY <1>0
  <1>2. PICK n \in 0..L :
           /\ StopsAt(n, time)
           /\ timeouts' = SubSeq(timeouts, 1, n)
           /\ fired' = fired \o [i \in 1..L - n |-> timeouts[L + 1 - i].key]
           /\ UNCHANGED <<threshold, due>>
    BY <1>1 DEF Fire
  <1> DEFINE out == [i \in 1..L - n |-> timeouts[L + 1 - i].key]
             pos(i) == L + F + 1 - i
             T == F + L - n
  <1>3. /\ timeouts' \in Seq(Entry) /\ Len(timeouts') = n
        /\ \A i \in 1..n : timeouts'[i] = timeouts[i]
    BY <1>0, <1>1, <1>2, PrefixEntries DEF TypeOK
  <1>4. out \in Seq(1..MaxTimers) /\ Len(out) = L - n
    <2>1. \A i \in 1..L - n : L + 1 - i \in 1..L
      BY <1>1, <1>2
    <2>2. \A i \in 1..L : timeouts[i].key \in 1..MaxTimers
      BY <1>0, <1>1, EntryTypes DEF TypeOK
    <2>3. out \in [1..L - n -> 1..MaxTimers] /\ L - n \in Nat
      BY <1>1, <2>1, <2>2
    <2> QED
      BY <2>3, FunctionIsSeq
  <1>5. /\ fired' \in Seq(1..MaxTimers) /\ Len(fired') = T /\ T \in Nat /\ F <= T
        /\ \A i \in 1..F : fired'[i] = fired[i]
        /\ \A i \in F + 1..T : fired'[i] = timeouts[pos(i)].key /\ pos(i) \in n + 1..L
    <2> HIDE DEF out
    <2>1. /\ fired \o out \in Seq(1..MaxTimers) /\ Len(fired \o out) = F + (L - n)
          /\ \A i \in 1..F : (fired \o out)[i] = fired[i]
          /\ \A i \in F + 1..F + (L - n) : (fired \o out)[i] = out[i - F]
      <3>1. fired \in Seq(1..MaxTimers) /\ out \in Seq(1..MaxTimers)
        BY <1>0, <1>4 DEF TypeOK
      <3>2. /\ fired \o out \in Seq(1..MaxTimers)
            /\ Len(fired \o out) = Len(fired) + Len(out)
            /\ \A i \in 1..Len(fired) : (fired \o out)[i] = fired[i]
            /\ \A i \in Len(fired) + 1..Len(fired) + Len(out) :
                  (fired \o out)[i] = out[i - Len(fired)]
        BY <3>1, ConcatEntries
      <3> QED
        BY <1>1, <1>4, <3>2
    <2>2. ASSUME NEW i \in F + 1..T
          PROVE  i - F \in 1..L - n /\ L + 1 - (i - F) = pos(i) /\ pos(i) \in n + 1..L
      BY <1>2
    <2>3. \A i \in F + 1..T : out[i - F] = timeouts[pos(i)].key
      BY <2>2 DEF out
    <2>4. fired' = fired \o out
      BY <1>2 DEF out
    <2>5. F + (L - n) = T /\ T \in Nat /\ F <= T
      BY <1>1, <1>2
    <2> HIDE DEF T, pos
    <2> QED
      BY <2>1, <2>2, <2>3, <2>4, <2>5
  <1>6. ASSUME NEW i \in n + 1..L PROVE pos(i) \in F + 1..T /\ pos(pos(i)) = i
    BY <1>2
  <1>7. /\ \A e : e \in Entries(timeouts) <=> \E i \in 1..L : e = timeouts[i]
        /\ \A e : e \in Entries(timeouts') <=> \E i \in 1..n : e = timeouts[i]
        /\ Entries(timeouts') \subseteq Entries(timeouts)
    <2>1. DOMAIN timeouts = 1..L /\ DOMAIN timeouts' = 1..n /\ 1..n \subseteq 1..L
      BY <1>0, <1>1, <1>2, <1>3 DEF TypeOK
    <2> QED
      BY <1>3, <2>1 DEF Entries
  <1>8. TypeOK'
    BY <1>0, <1>2, <1>3, <1>5 DEF TypeOK
  <1>9. Sorted' /\ Separated'
    <2>1. \A i, j \in 1..n : i \in 1..L /\ j \in 1..L
      BY <1>2
    <2>2. Sorted'
      BY <1>1, <1>3, <2>1 DEF TimerInv, Sorted
    <2>3. Separated'
      BY <1>2, <1>7 DEF TimerInv, Separated
    <2> QED
      BY <2>2, <2>3
  <1>10. \A i \in 1..L : timeouts[i].key \in 1..Len(due)
                      /\ ~\E j \in 1..F : fired[j] = timeouts[i].key
    BY <1>1, <1>7 DEF TimerInv, NoTimerLost
  <1>11. \A i, j \in 1..L : timeouts[i].key = timeouts[j].key => i = j
    BY <1>1 DEF TimerInv, NoTimerLost
  <1>12. n + 1..L \subseteq 1..L /\ 1..n \subseteq 1..L
    BY <1>2
  <1> HIDE DEF T, pos
  <1>13. NoTimerLost'
    <2>1. \A i, j \in 1..T : fired'[i] = fired'[j] => i = j
      <3>1. \A i, j \in 1..F : fired'[i] = fired'[j] => i = j
        BY <1>1, <1>5 DEF TimerInv, NoTimerLost
      <3>2. ASSUME NEW i \in 1..F, NEW j \in F + 1..T PROVE fired'[i] # fired'[j]
        BY <1>5, <1>10, <1>12
      <3>3. ASSUME NEW i \in F + 1..T, NEW j \in F + 1..T, fired'[i] = fired'[j]
            PROVE  i = j
        <4>1. pos(i) = pos(j)
          BY <1>5, <1>11, <1>12, <3>3, SMTT(30)
        <4> QED
          BY <4>1, <1>5 DEF pos
      <3>4. \A i \in 1..T : i \in 1..F \/ i \in F + 1..T
        BY <1>5
      <3> QED
        BY <3>1, <3>2, <3>3, <3>4
    <2>2. ASSUME NEW k \in 1..Len(due)
          PROVE  (\E i \in 1..n : timeouts[i].key = k) <=> ~\E i \in 1..T : fired'[i] = k
      <3>1. CASE \E j \in 1..F : fired[j] = k
        <4>1. \A i \in 1..n : timeouts[i].key # k
          BY <1>10, <1>12, <3>1
        <4>2. \E i \in 1..T : fired'[i] = k
          BY <1>5, <3>1
        <4> QED
          BY <4>1, <4>2
      <3>2. CASE ~\E j \in 1..F : fired[j] = k
        <4>1. PICK i \in 1..L : timeouts[i].key = k
          BY <1>1, <1>7, <3>2 DEF TimerInv, NoTimerLost
        <4>2. CASE i \in 1..n
          <5>1. ASSUME NEW m \in 1..T, fired'[m] = k PROVE FALSE
            <6>1. m \in F + 1..T
              BY <1>5, <3>2, <5>1
            <6>2. pos(m) = i /\ pos(m) \in n + 1..L
              BY <1>5, <1>11, <1>12, <4>1, <5>1, <6>1
            <6> QED
              BY <4>2, <6>2
          <5> QED
            BY <4>1, <4>2, <5>1
        <4>3. CASE i \in n + 1..L
          <5>1. \A j \in 1..n : timeouts[j].key # k
            BY <1>11, <1>12, <4>1, <4>3
          <5>2. pos(i) \in F + 1..T /\ fired'[pos(i)] = k
            BY <1>5, <1>6, <4>1, <4>3
          <5>3. pos(i) \in 1..T
            BY <1>5, <5>2
          <5> QED
            BY <5>1, <5>2, <5>3
        <4> QED
          BY <4>2, <4>3
      <3> QED
        BY <3>1, <3>2
    <2>3. \A i, j \in 1..n : timeouts'[i].key = timeouts'[j].key => i = j
      BY <1>3, <1>11, <1>12
    <2>4. \A e \in Entries(timeouts') : e.key \in 1..Len(due) /\ due[e.key] = e.at
      BY <1>7 DEF TimerInv, NoTimerLost
    <2>5. ASSUME NEW k \in 1..Len(due)
          PROVE  (\E e \in Entries(timeouts') : e.key = k) <=> \E i \in 1..n : timeouts[i].key = k
      BY <1>7
    <2> QED
      BY <1>2, <1>3, <1>5, <2>1, <2>2, <2>3, <2>4, <2>5 DEF NoTimerLost
  <1>14. (\A i \in 1..Len(fired) : fired[i] \in 1..Len(due))'
    <2>1. \A i \in F + 1..T : fired'[i] \in 1..Len(due)
      BY <1>5, <1>10, <1>12
    <2>2. \A i \in 1..F : fired'[i] \in 1..Len(due)
      BY <1>1, <1>5 DEF TimerInv
    <2>3. \A i \in 1..T : i \in 1..F \/ i \in F + 1..T
      BY <1>5
    <2> QED
      BY <1>2, <1>5, <2>1, <2>2, <2>3
  <1> QED
    BY <1>8, <1>9, <1>13, <1>14 DEF TimerInv

(* No call of the manager breaks its invariant.                             *)
LEMMA TimerInvNext == TimerInv /\ [Next]_vars => TimerInv'
  <1> SUFFICES ASSUME TimerInv, [Next]_vars PROVE TimerInv'
    OBVIOUS
  <1>1. ASSUME NEW t \in Times, register(t) PROVE TimerInv'
    BY <1>1, RegisterStep
  <1>2. ASSUME NEW t \in Times, register_refused(t) PROVE TimerInv'
    BY <1>2 DEF register_refused, TimerInv, TypeOK, Sorted, Separated, NoTimerLost
  <1>3. ASSUME NEW t \in Times, check(t) PROVE TimerInv'
    BY <1>3, FireStep DEF check
  <1>4. CASE check_now
    <2>1. 0 \in Times
      BY TimeoutsAssumption DEF Times
    <2> QED
      BY <1>4, <2>1, FireStep DEF check_now
  <1>5. CASE UNCHANGED vars
    BY <1>5 DEF vars, TimerInv, TypeOK, Sorted, Separated, NoTimerLost
  <1> QED
    BY <1>1, <1>2, <1>3, <1>4, <1>5 DEF Next

(* Whatever is registered and checked and in whatever order, the vector     *)
(* stays sorted, its timers at least a threshold apart, and every timer     *)
(* accepted is waiting or has fired, exactly once.                          *)
THEOREM TimersKept == Spec => [](Sorted /\ Separated /\ NoTimerLost)
  <1>1. TimerInv => Sorted /\ Separated /\ NoTimerLost
    BY DEF TimerInv
  <1> QED
    BY TimerInvInit, TimerInvNext, <1>1, PTL DEF Spec

(* Timers that were accepted are at least a threshold apart for as long as  *)
(* they wait.                                                               *)
THEOREM TimersApart == Spec => []Separated
  <1>1. TimerInv => Separated
    BY DEF TimerInv
  <1> QED
    BY TimerInvInit, TimerInvNext, <1>1, PTL DEF Spec

(* What is behind the first part of a concatenation is its second part.     *)
LEMMA SecondPart ==
    ASSUME NEW S, NEW a \in Seq(S), NEW b \in Seq(S)
    PROVE  SubSeq(a \o b, Len(a) + 1, Len(a \o b)) = b
  OBVIOUS

(* Where the loop of check stops everything that is over is behind, and     *)
(* nothing else: the vector is sorted.                                      *)
LEMMA FireExactly ==
    ASSUME TimerInv, NEW time \in Times, Fire(time)
    PROVE  ChecksExactly(time)
  <1> USE TimeoutsAssumption
  <1>0. timeouts \in Seq(Entry) /\ fired \in Seq(1..MaxTimers) /\ Len(timeouts) \in Nat
    BY DEF TimerInv, TypeOK
  <1>1. PICK L \in Nat : L = Len(timeouts)
    BY <1>0
  <1>2. PICK n \in 0..L :
           /\ StopsAt(n, time)
           /\ timeouts' = SubSeq(timeouts, 1, n)
           /\ fired' = fired \o [i \in 1..L - n |-> timeouts[L + 1 - i].key]
           /\ UNCHANGED <<threshold, due>>
    BY <1>1 DEF Fire
  <1>3. PICK out : out = [i \in 1..L - n |-> timeouts[L + 1 - i].key]
    OBVIOUS
  <1>4. \A i \in 1..L : timeouts[i].at \in Nat /\ timeouts[i].key \in 1..MaxTimers
    BY <1>0, <1>1, EntryTypes
  <1>5. out \in Seq(1..MaxTimers) /\ Len(out) = L - n /\ DOMAIN out = 1..L - n
    <2>1. \A i \in 1..L - n : L + 1 - i \in 1..L
      BY <1>2
    <2>2. out \in [1..L - n -> 1..MaxTimers] /\ L - n \in Nat
      BY <1>3, <1>4, <2>1
    <2> QED
      BY <2>2, FunctionIsSeq
  <1>6. SubSeq(fired', Len(fired) + 1, Len(fired')) = out
    BY <1>0, <1>2, <1>3, <1>5, SecondPart
  <1>7. time \in Nat /\ \A i \in 1..L : timeouts[i].at <= time <=> i \in n + 1..L
    <2>1. time \in Nat
      BY DEF Times
    <2> SUFFICES ASSUME NEW i \in 1..L PROVE timeouts[i].at <= time <=> i \in n + 1..L
      BY <2>1
    <2>2. CASE i \in n + 1..L
      BY <1>1, <1>2, <2>2 DEF StopsAt
    <2>3. CASE i \in 1..n
      <3>1. n \in 1..L /\ time < timeouts[n].at
        BY <1>2, <2>3 DEF StopsAt
      <3>2. timeouts[i].at >= timeouts[n].at
        <4>1. CASE i = n
          BY <1>4, <4>1
        <4>2. CASE i < n
          BY <1>1, <3>1, <4>2 DEF TimerInv, Sorted
        <4> QED
          BY <2>3, <4>1, <4>2
      <3> QED
        BY <1>4, <2>1, <2>3, <3>1, <3>2
    <2> QED
      BY <1>2, <2>2, <2>3
  <1>8. /\ timeouts' \in Seq(Entry) /\ Len(timeouts') = n
        /\ \A i \in 1..n : timeouts'[i] = timeouts[i]
    BY <1>0, <1>1, <1>2, PrefixEntries
  <1>9. /\ Entries(timeouts) = {timeouts[i] : i \in 1..L}
        /\ Entries(timeouts') = {timeouts[i] : i \in 1..n}
        /\ Entries(out) = {out[i] : i \in 1..L - n}
    <2>1. DOMAIN timeouts = 1..L /\ DOMAIN timeouts' = 1..n
      BY <1>0, <1>1, <1>8
    <2> QED
      BY <1>5, <1>8, <2>1 DEF Entries
  <1>10. Entries(timeouts') = {e \in Entries(timeouts) : e.at > time}
    <2>1. \A i \in 1..L : timeouts[i].at > time <=> i \in 1..n
      BY <1>2, <1>4, <1>7
    <2>2. 1..n \subseteq 1..L
      BY <1>2
    <2> QED
      BY <1>9, <2>1, <2>2
  <1>11. Entries(out) = {e.key : e \in {f \in Entries(timeouts) : f.at <= time}}
    <2>1. ASSUME NEW k \in Entries(out)
          PROVE  \E e \in {f \in Entries(timeouts) : f.at <= time} : k = e.key
      <3>1. PICK i \in 1..L - n : k = out[i]
        BY <1>9
      <3>2. k = timeouts[L + 1 - i].key /\ L + 1 - i \in n + 1..L
        BY <1>2, <1>3, <3>1
      <3>3. L + 1 - i \in 1..L
        BY <1>2, <3>2
      <3> QED
        BY <1>7, <1>9, <3>2, <3>3
    <2>2. ASSUME NEW e \in Entries(timeouts), e.at <= time
          PROVE  e.key \in Entries(out)
      <3>1. PICK i \in 1..L : e = timeouts[i]
        BY <1>9
      <3>2. i \in n + 1..L
        BY <1>7, <2>2, <3>1
      <3>3. L + 1 - i \in 1..L - n /\ L + 1 - (L + 1 - i) = i
        BY <1>2, <3>2
      <3>4. out[L + 1 - i] = e.key
        BY <1>3, <3>1, <3>3
      <3> QED
        BY <1>9, <3>3, <3>4
    <2> QED
      BY <2>1, <2>2
  <1>12. ASSUME NEW i \in 1..Len(out), NEW j \in 1..Len(out), i < j
         PROVE  due[out[i]] <= due[out[j]]
    <2>1. /\ L + 1 - i \in 1..L /\ L + 1 - j \in 1..L /\ L + 1 - j < L + 1 - i
          /\ out[i] = timeouts[L + 1 - i].key /\ out[j] = timeouts[L + 1 - j].key
      BY <1>2, <1>3, <1>5, <1>12
    <2>2. \A m \in 1..L : due[timeouts[m].key] = timeouts[m].at
      BY <1>9 DEF TimerInv, NoTimerLost
    <2>3. timeouts[L + 1 - j].at >= timeouts[L + 1 - i].at
      BY <1>1, <2>1 DEF TimerInv, Sorted
    <2> QED
      BY <1>4, <2>1, <2>2, <2>3
  <1> QED
    BY <1>6, <1>10, <1>11, <1>12 DEF ChecksExactly

(* check fires the timers that are over, all of them and no others, the     *)
(* earliest first, whatever was registered and fired before.                *)
THEOREM FiresTheDue == Spec => CheckFiresExactlyTheDue
  <1>1. ASSUME TimerInv, [Next]_vars
        PROVE  [\A time \in checked' : ChecksExactly(time)]_vars
    <2>1. ASSUME NEW t \in Times, register(t) \/ register_refused(t) PROVE checked' = {}
      BY <2>1 DEF register, register_refused
    <2>2. ASSUME NEW t \in Times, check(t) PROVE \A time \in checked' : ChecksExactly(time)
      BY <1>1, <2>2, FireExactly DEF check
    <2>3. CASE check_now
      BY <2>3 DEF check_now
    <2> QED
      BY <1>1, <2>1, <2>2, <2>3 DEF Next
  <1> QED
    BY TimerInvInit, TimerInvNext, <1>1, PTL DEF Spec, CheckFiresExactlyTheDue

(* The last entry of the sorted vector is the earliest.                     *)
LEMMA NextFromOrder == TimerInv => NextNeverLate
  <1> SUFFICES ASSUME TimerInv, NEW time \in Times, NEW e \in Entries(timeouts),
                      NEW d \in next(timeouts, time)
               PROVE  IF e.at <= time THEN d = 0 ELSE time + d <= e.at
    BY DEF NextNeverLate
  <1>1. PICK i \in 1..Len(timeouts) : e = timeouts[i]
    BY DEF Entries, TimerInv, TypeOK
  <1>2. Len(timeouts) \in 1..Len(timeouts) /\ timeouts # <<>> /\ timeouts \in Seq(Entry)
    BY <1>1 DEF TimerInv, TypeOK
  <1> DEFINE t == timeouts[Len(timeouts)].at
  <1>3. t \in Nat /\ e.at \in Nat /\ time \in Nat
    BY <1>1, <1>2, TimeoutsAssumption, EntryTypes DEF Times
  <1>5. t <= e.at
    <2>1. CASE i = Len(timeouts)
      BY <1>1, <1>3, <2>1
    <2>2. CASE i < Len(timeouts)
      BY <1>1, <1>2, <1>3, <2>2 DEF TimerInv, Sorted
    <2> QED
      BY <1>1, <1>2, <2>1, <2>2
  <1>4. d = IF t >= time THEN t - time ELSE 0
    BY <1>2 DEF next
  <1> QED
    BY <1>3, <1>4, <1>5

(* Waiting for as long as TimeoutManager::next says is never too long.      *)
THEOREM NextInTime == Spec => []NextNeverLate
  BY TimerInvInit, TimerInvNext, NextFromOrder, PTL DEF Spec
=============================================================================
