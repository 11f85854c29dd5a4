----------------------------- MODULE Tunnel_proofs -----------------------------
(***************************************************************************)
(* The tunnel passes bytes on unaltered and ends by itself only at the end  *)
(* of a stream, whatever the two sides send and poll reports.               *)
(***************************************************************************)
EXTENDS Tunnel, SequenceTheorems, TLAPS

(* What is taken from the front of a sequence and what stays make it up.    *)
LEMMA Cut ==
    ASSUME NEW S, NEW x \in Seq(S), NEW k \in 1..Len(x)
    PROVE  /\ SubSeq(x, 1, k) \in Seq(S) /\ Len(SubSeq(x, 1, k)) = k
           /\ SubSeq(x, k + 1, Len(x)) \in Seq(S)
           /\ SubSeq(x, 1, k) \o SubSeq(x, k + 1, Len(x)) = x
  <1>1. Len(x) \in Nat /\ k \in Int /\ k + 1 \in Int /\ 1 <= k /\ k <= Len(x)
    OBVIOUS
  <1>2. \A i \in 1..Len(x) : x[i] \in S
    OBVIOUS
  <1>3. SubSeq(x, 1, k) \in Seq(S) /\ Len(SubSeq(x, 1, k)) = k
    BY <1>1, <1>2, SubSeqProperties
  <1>4. SubSeq(x, k + 1, Len(x)) \in Seq(S)
    BY <1>1, <1>2, SubSeqProperties
  <1>5. SubSeq(x, 1, k) \o SubSeq(x, k + 1, Len(x)) = SubSeq(x, 1, Len(x))
    <2>1. 1 \in 1..(Len(x) + 1) /\ k \in (1 - 1)..Len(x) /\ Len(x) \in k..Len(x)
      BY <1>1
    <2> QED
      BY <2>1, ConcatAdjacentSubSeq, Zenon
  <1>6. SubSeq(x, 1, Len(x)) = x
    BY <1>1
  <1> QED
    BY <1>3, <1>4, <1>5, <1>6

(* Concatenating three sequences, in either order.                          *)
Associate(a, b, c) == (a \o b) \o c = a \o (b \o c)

(* Bytes that change their place at a border between two sequences leave    *)
(* the concatenation as it is.                                              *)
LEMMA Moved ==
    ASSUME NEW S, NEW a \in Seq(S), NEW b \in Seq(S), NEW c \in Seq(S)
    PROVE  Associate(a, b, c)
  BY DEF Associate

(* The elements of a tail are those behind the head.                        *)
LEMMA Behind ==
    ASSUME NEW S, NEW q \in Seq(S), q # <<>>
    PROVE  /\ Head(q) = q[1] /\ Head(q) \in S /\ 1 \in 1..Len(q)
           /\ Tail(q) \in Seq(S) /\ Len(Tail(q)) = Len(q) - 1
           /\ \A i \in 1..Len(Tail(q)) : i + 1 \in 1..Len(q) /\ Tail(q)[i] = q[i + 1]
  OBVIOUS

-----------------------------------------------------------------------------
(* What is sent, counted: TypeOK bounds the counts by it.                   *)
SentBounded == \A s \in Sides : Len(sent[s]) <= MaxSent

(* A side is polled for writability only while bytes wait for it.           *)
InterestMeansBytes == \A s \in write_interest : buf[s] # <<>>

(* What poll has reported is still true when the report's turn comes: the   *)
(* reports are of different sides, a side reported writable is one that     *)
(* bytes wait for, and one reported readable has something to read or has   *)
(* ended.                                                                   *)
ReportsTrue ==
    /\ \A i, j \in 1..Len(events) : events[i].side = events[j].side => i = j
    /\ \A i \in 1..Len(events) :
          /\ events[i].write \/ events[i].read
          /\ events[i].write => events[i].side \in write_interest
          /\ events[i].read => Readable(events[i].side)

TunnelInv ==
    /\ TypeOK /\ SentBounded
    /\ NothingAltered
    /\ InterestMeansBytes /\ ReportsTrue
    /\ CompletesOnlyAtEnd

(* Nothing has been sent, read or reported yet.                             *)
LEMMA TunnelInvInit == Init => TunnelInv
  <1> SUFFICES ASSUME Init PROVE TunnelInv
    OBVIOUS
  <1> USE TunnelAssumption
  <1>1. TypeOK /\ SentBounded
    BY DEF Init, TypeOK, SentBounded, Sides
  <1>2. NothingAltered
    BY DEF Init, NothingAltered, Sides, Other
  <1>3. InterestMeansBytes /\ ReportsTrue /\ CompletesOnlyAtEnd
    BY DEF Init, InterestMeansBytes, ReportsTrue, CompletesOnlyAtEnd
  <1> QED
    BY <1>1, <1>2, <1>3 DEF TunnelInv

(* There are two sides.                                                     *)
LEMMA TwoSides ==
    /\ \A s \in Sides : Other(s) \in Sides /\ Other(s) # s /\ Other(Other(s)) = s
    /\ \A s, t \in Sides : t # s => t = Other(s)
  BY DEF Sides, Other

-----------------------------------------------------------------------------
(* The bytes.                                                               *)

Bytes == TypeOK /\ SentBounded /\ NothingAltered

(* A byte that is sent goes to the end of the stream and of the inbox.      *)
LEMMA SendKeepsBytes ==
    ASSUME Bytes, NEW s \in Sides, peer_sends(s)
    PROVE  Bytes'
  <1> USE TunnelAssumption
  <1>1. PICK n : n = Len(sent[s]) + 1
    OBVIOUS
  <1>2. /\ sent \in [Sides -> Seq(1..MaxSent)] /\ inbox \in [Sides -> Seq(1..MaxSent)]
        /\ buf \in [Sides -> Seq(1..MaxSent)] /\ got \in [Sides -> Seq(1..MaxSent)]
    BY DEF Bytes, TypeOK
  <1>3. n \in 1..MaxSent
    BY <1>1, <1>2 DEF peer_sends
  <1>4. /\ sent' = [sent EXCEPT ![s] = Append(@, n)]
        /\ inbox' = [inbox EXCEPT ![s] = Append(@, n)]
        /\ UNCHANGED <<closed, buf, got, count, write_interest, events, result, connected>>
    BY <1>1 DEF peer_sends
  <1>5. TypeOK'
    BY <1>2, <1>3, <1>4 DEF Bytes, TypeOK
  <1>6. SentBounded'
    <2>1. Len(Append(sent[s], n)) = n
      BY <1>1, <1>2
    <2> QED
      BY <1>2, <1>3, <1>4, <2>1 DEF Bytes, SentBounded
  <1>7. NothingAltered'
    <2> SUFFICES ASSUME NEW t \in Sides
                 PROVE  /\ got'[t] \o buf'[t] \o inbox'[Other(t)] = sent'[Other(t)]
                        /\ count'[t] = Len(got'[t])
      BY DEF NothingAltered
    <2>1. /\ got[t] \o buf[t] \o inbox[Other(t)] = sent[Other(t)]
          /\ count[t] = Len(got[t])
      BY DEF Bytes, NothingAltered
    <2>2. CASE Other(t) # s
      BY <1>2, <1>4, <2>1, <2>2, TwoSides
    <2>3. CASE Other(t) = s
      <3>1. sent'[s] = Append(sent[s], n) /\ inbox'[s] = Append(inbox[s], n)
        BY <1>2, <1>4
      <3>2. PICK g \in Seq(1..MaxSent), b \in Seq(1..MaxSent), x \in Seq(1..MaxSent) :
              g = got[t] /\ b = buf[t] /\ x = inbox[s]
        BY <1>2
      <3>3. g \o b \o Append(x, n) = Append(g \o b \o x, n)
        BY <1>3
      <3> QED
        BY <1>4, <2>1, <2>3, <3>1, <3>2, <3>3
    <2> QED
      BY <2>2, <2>3
  <1> QED
    BY <1>5, <1>6, <1>7 DEF Bytes

(* Writing moves bytes from the front of the buffer to the end of what was  *)
(* written.                                                                 *)
LEMMA WriteKeepsBytes ==
    ASSUME Bytes, NEW s \in Sides, NEW k \in 1..Len(buf[s]),
           got' = [got EXCEPT ![s] = @ \o SubSeq(buf[s], 1, k)],
           count' = [count EXCEPT ![s] = @ + k],
           buf' = [buf EXCEPT ![s] = SubSeq(@, k + 1, Len(@))],
           UNCHANGED <<sent, inbox, closed, result, connected>>,
           write_interest' \subseteq Sides,
           events' \in Seq([side : Sides, write : BOOLEAN, read : BOOLEAN])
    PROVE  Bytes'
  <1> USE TunnelAssumption
  <1>0. PICK Byte : Byte = 1..MaxSent
    OBVIOUS
  <1>m. \A p, q, w \in Seq(Byte) : Associate(p, q, w)
    BY Moved
  <1>1. /\ sent \in [Sides -> Seq(Byte)] /\ inbox \in [Sides -> Seq(Byte)]
        /\ buf \in [Sides -> Seq(Byte)] /\ got \in [Sides -> Seq(Byte)]
        /\ count \in [Sides -> 0..MaxSent]
    BY <1>0 DEF Bytes, TypeOK
  <1>2. PICK g \in Seq(Byte), b \in Seq(Byte), x \in Seq(Byte) :
          g = got[s] /\ b = buf[s] /\ x = inbox[Other(s)]
    BY <1>1, TwoSides
  <1>3. PICK f \in Seq(Byte), r \in Seq(Byte) :
          f = SubSeq(b, 1, k) /\ r = SubSeq(b, k + 1, Len(b)) /\ f \o r = b /\ Len(f) = k
    BY <1>2, Cut
  <1>4. /\ got'[s] = g \o f /\ buf'[s] = r /\ count'[s] = count[s] + k
        /\ \A t \in Sides \ {s} : /\ got'[t] = got[t] /\ buf'[t] = buf[t]
                                  /\ count'[t] = count[t]
    BY <1>1, <1>2, <1>3
  <1>5. g \o f \in Seq(Byte) /\ Len(g \o f) = Len(g) + k
    BY <1>3
  <1>6. /\ got' \in [Sides -> Seq(Byte)] /\ buf' \in [Sides -> Seq(Byte)]
        /\ count' = [t \in Sides |-> count'[t]]
    BY <1>1, <1>2, <1>3, <1>5
  <1>7. SentBounded'
    BY DEF Bytes, SentBounded
  <1>8. NothingAltered'
    <2>1. (g \o f) \o r \o x = g \o b \o x
      <3>1. (g \o f) \o r = g \o (f \o r)
        <4>1. Associate(g, f, r)
          BY <1>m
        <4> QED
          BY <4>1 DEF Associate
      <3> QED
        BY <1>3, <3>1
    <2>2. g \o b \o x = sent[Other(s)] /\ count[s] = Len(g)
      BY <1>2 DEF Bytes, NothingAltered
    <2>3. \A t \in Sides \ {s} : /\ got[t] \o buf[t] \o inbox[Other(t)] = sent[Other(t)]
                                /\ count[t] = Len(got[t])
      BY DEF Bytes, NothingAltered
    <2>4. /\ got'[s] \o buf'[s] \o inbox'[Other(s)] = sent'[Other(s)]
          /\ count'[s] = Len(got'[s])
      BY <1>2, <1>4, <1>5, <2>1, <2>2
    <2>5. ASSUME NEW t \in Sides \ {s}
          PROVE  /\ got'[t] \o buf'[t] \o inbox'[Other(t)] = sent'[Other(t)]
                 /\ count'[t] = Len(got'[t])
      BY <1>4, <2>3, Zenon
    <2> QED
      BY <2>4, <2>5 DEF NothingAltered
  <1>9. \A t \in Sides : count'[t] \in 0..MaxSent
    <2>1. Len(g \o b \o x) = Len(g) + Len(b) + Len(x) /\ k <= Len(b)
      BY <1>2
    <2>2. Len(g \o b \o x) <= MaxSent /\ count[s] = Len(g)
      BY <1>2, TwoSides DEF Bytes, NothingAltered, SentBounded
    <2>3. count[s] + k \in 0..MaxSent
      BY <2>1, <2>2
    <2> QED
      BY <1>1, <1>4, <2>3
  <1>10. TypeOK'
    BY <1>0, <1>1, <1>6, <1>9 DEF Bytes, TypeOK
  <1> QED
    BY <1>7, <1>8, <1>10 DEF Bytes

(* Reading moves bytes from the front of an inbox to the end of the buffer  *)
(* for the other side.                                                      *)
LEMMA ReadKeepsBytes ==
    ASSUME Bytes, NEW s \in Sides, NEW k \in 1..Len(inbox[s]),
           buf' = [buf EXCEPT ![Other(s)] = @ \o SubSeq(inbox[s], 1, k)],
           inbox' = [inbox EXCEPT ![s] = SubSeq(@, k + 1, Len(@))],
           UNCHANGED <<sent, closed, got, count, result, connected>>,
           write_interest' \subseteq Sides,
           events' \in Seq([side : Sides, write : BOOLEAN, read : BOOLEAN])
    PROVE  Bytes'
  <1> USE TunnelAssumption
  <1>0. PICK Byte : Byte = 1..MaxSent
    OBVIOUS
  <1>m. \A p, q, w \in Seq(Byte) : Associate(p, q, w)
    BY Moved
  <1>1. /\ sent \in [Sides -> Seq(Byte)] /\ inbox \in [Sides -> Seq(Byte)]
        /\ buf \in [Sides -> Seq(Byte)] /\ got \in [Sides -> Seq(Byte)]
    BY <1>0 DEF Bytes, TypeOK
  <1>2. PICK o \in Sides : o = Other(s) /\ o # s /\ Other(o) = s
    BY TwoSides
  <1>3. PICK g \in Seq(Byte), b \in Seq(Byte), x \in Seq(Byte) :
          g = got[o] /\ b = buf[o] /\ x = inbox[s]
    BY <1>1, <1>2
  <1>4. PICK f \in Seq(Byte), r \in Seq(Byte) :
          f = SubSeq(x, 1, k) /\ r = SubSeq(x, k + 1, Len(x)) /\ f \o r = x
    <2>1. k \in 1..Len(x)
      BY <1>3
    <2>2. /\ SubSeq(x, 1, k) \in Seq(Byte) /\ SubSeq(x, k + 1, Len(x)) \in Seq(Byte)
          /\ SubSeq(x, 1, k) \o SubSeq(x, k + 1, Len(x)) = x
      BY <2>1, Cut
    <2> QED
      BY <2>2
  <1>5. /\ buf'[o] = b \o f /\ inbox'[s] = r
        /\ buf'[s] = buf[s] /\ inbox'[o] = inbox[o]
    <2>1. /\ buf' = [buf EXCEPT ![o] = b \o f]
          /\ inbox' = [inbox EXCEPT ![s] = r]
      BY <1>2, <1>3, <1>4, Zenon
    <2> QED
      BY <1>1, <1>2, <2>1, Zenon
  <1>6. b \o f \in Seq(Byte)
    OBVIOUS
  <1>7. inbox' \in [Sides -> Seq(Byte)] /\ buf' \in [Sides -> Seq(Byte)]
    BY <1>1, <1>2, <1>3, <1>4, <1>6
  <1>8. TypeOK' /\ SentBounded'
    BY <1>0, <1>7 DEF Bytes, TypeOK, SentBounded
  <1>9. NothingAltered'
    <2>1. g \o (b \o f) \o r = g \o b \o x
      <3>1. (g \o b) \o f = g \o (b \o f)
        <4>1. Associate(g, b, f)
          BY <1>m
        <4> QED
          BY <4>1 DEF Associate
      <3>2. g \o b \in Seq(Byte)
        OBVIOUS
      <3>3. ((g \o b) \o f) \o r = (g \o b) \o (f \o r)
        <4>1. Associate(g \o b, f, r)
          BY <3>2, <1>m
        <4> QED
          BY <4>1 DEF Associate
      <3> QED
        BY <1>4, <3>1, <3>3
    <2>2. /\ g \o b \o x = sent[s] /\ count[o] = Len(g)
          /\ got[s] \o buf[s] \o inbox[o] = sent[o] /\ count[s] = Len(got[s])
      BY <1>2, <1>3 DEF Bytes, NothingAltered
    <2>3. \A t \in Sides : t = s \/ t = o
      BY <1>2, TwoSides
    <2> QED
      BY <1>2, <1>3, <1>5, <2>1, <2>2, <2>3 DEF NothingAltered
  <1> QED
    BY <1>8, <1>9 DEF Bytes

-----------------------------------------------------------------------------
(* The reports. *)

Polling == InterestMeansBytes /\ ReportsTrue

Report == [side : Sides, write : BOOLEAN, read : BOOLEAN]

(* What is behind the head remains true when nothing changes for its sides. *)
LEMMA RestStaysTrue ==
    ASSUME TypeOK, ReportsTrue, events # <<>>, events' = Tail(events),
           \A s \in Sides \ {Head(events).side} :
              /\ s \in write_interest => s \in write_interest'
              /\ Readable(s) => inbox'[s] # <<>> \/ s \in closed'
    PROVE  ReportsTrue' /\ events' \in Seq(Report)
  <1>0. events \in Seq(Report)
    BY DEF TypeOK, Report
  <1>1. /\ Head(events) = events[1] /\ 1 \in 1..Len(events)
        /\ Tail(events) \in Seq(Report)
        /\ \A i \in 1..Len(Tail(events)) :
              i + 1 \in 1..Len(events) /\ Tail(events)[i] = events[i + 1]
    BY <1>0, Behind
  <1>2. \A i \in 1..Len(events) : events[i].side \in Sides
    <2>1. \A i \in 1..Len(events) : events[i] \in Report
      BY <1>0
    <2> QED
      BY <2>1 DEF Report
  <1>3. ASSUME NEW i \in 1..Len(events')
        PROVE  /\ i + 1 \in 1..Len(events) /\ events'[i] = events[i + 1]
               /\ events[i + 1].side \in Sides \ {Head(events).side}
    <2>1. i + 1 \in 1..Len(events) /\ events'[i] = events[i + 1]
      BY <1>1
    <2>2. i + 1 # 1
      BY <1>1
    <2> QED
      BY <1>1, <1>2, <2>1, <2>2 DEF ReportsTrue
  <1>4. \A i, j \in 1..Len(events') : events'[i].side = events'[j].side => i = j
    <2> SUFFICES ASSUME NEW i \in 1..Len(events'), NEW j \in 1..Len(events'),
                        events'[i].side = events'[j].side
                 PROVE  i = j
      OBVIOUS
    <2>1. i + 1 = j + 1
      BY <1>3 DEF ReportsTrue
    <2> QED
      BY <1>1, <2>1
  <1>5. \A i \in 1..Len(events') :
          /\ events'[i].write \/ events'[i].read
          /\ events'[i].write => events'[i].side \in write_interest'
          /\ events'[i].read => \/ inbox'[events'[i].side] # <<>>
                                \/ events'[i].side \in closed'
    BY <1>3 DEF ReportsTrue
  <1> QED
    BY <1>1, <1>4, <1>5 DEF ReportsTrue, Readable

(* A poll report is of a side it has asked about and says what is so.       *)
LEMMA PollReportsTrue ==
    ASSUME TypeOK, NEW batch \in Batches, events' = batch,
           UNCHANGED <<inbox, closed, write_interest>>
    PROVE  ReportsTrue' /\ events' \in Seq(Report)
  <1> DEFINE say == {r \in Reports("int") \cup Reports("ext") : r.write \/ r.read}
  <1>1. /\ batch \in {<<r>> : r \in say} \cup {<<q, r>> : q \in say, r \in say}
        /\ \A i, j \in DOMAIN batch : batch[i].side = batch[j].side => i = j
    BY DEF Batches
  <1>2. \A s \in Sides : \A r \in Reports(s) :
          /\ r \in Report
          /\ r.write => r.side \in write_interest
          /\ r.read => Readable(r.side)
    <2> SUFFICES ASSUME NEW s \in Sides, NEW r \in Reports(s)
                 PROVE  /\ r \in Report
                        /\ r.write => r.side \in write_interest
                        /\ r.read => Readable(r.side)
      OBVIOUS
    <2>1. PICK w \in IF s \in write_interest THEN BOOLEAN ELSE {FALSE} :
            r = [side |-> s, write |-> w, read |-> Readable(s)]
      BY DEF Reports
    <2>2. r.side = s /\ r.write = w /\ r.read = Readable(s)
      BY <2>1
    <2>3. w \in BOOLEAN /\ (w => s \in write_interest) /\ Readable(s) \in BOOLEAN
      BY DEF Readable
    <2> QED
      BY <2>1, <2>2, <2>3, Zenon DEF Report
  <1>3. \A r \in say : /\ r \in Report
                       /\ r.write \/ r.read
                       /\ r.write => r.side \in write_interest
                       /\ r.read => Readable(r.side)
    BY <1>2 DEF Sides
  <1> HIDE DEF say
  <1>4. batch \in Seq(say)
    BY <1>1
  <1>5. batch \in Seq(Report) /\ \A i \in 1..Len(batch) : batch[i] \in say
    BY <1>3, <1>4
  <1>6. DOMAIN batch = 1..Len(batch)
    BY <1>4
  <1> QED
    BY <1>1, <1>3, <1>5, <1>6 DEF ReportsTrue, Readable

(* Every step keeps the reports true and the interest where bytes wait; the *)
(* tunnel completes only when a side has closed.                            *)
LEMMA PollingStep ==
    ASSUME TypeOK, Polling, CompletesOnlyAtEnd, [Next]_vars
    PROVE  Polling' /\ CompletesOnlyAtEnd' /\ events' \in Seq(Report)
  <1> USE TunnelAssumption
  <1>0. events \in Seq(Report)
    BY DEF TypeOK, Report
  <1>1. CASE /\ UNCHANGED <<buf, write_interest, events>>
             /\ closed \subseteq closed'
             /\ \A s \in Sides : inbox[s] # <<>> => inbox'[s] # <<>>
             /\ result' # "completed" \/ result' = result
    <2>1. \A i \in 1..Len(events) : events[i].side \in Sides
      <3>1. \A i \in 1..Len(events) : events[i] \in Report
        BY <1>0
      <3> QED
        BY <3>1 DEF Report
    <2> QED
      BY <1>0, <1>1, <2>1 DEF Polling, InterestMeansBytes, ReportsTrue, Readable, CompletesOnlyAtEnd
  <1>2. CASE /\ UNCHANGED <<buf, write_interest, closed>> /\ events' = <<>>
             /\ result' = "completed" => closed # {}
    BY <1>2 DEF Polling, InterestMeansBytes, ReportsTrue, CompletesOnlyAtEnd
  <1>3. ASSUME NEW s \in Sides, peer_sends(s) PROVE UNCHANGED <<buf, write_interest, events, result, closed>>
             /\ \A t \in Sides : inbox[t] # <<>> => inbox'[t] # <<>>
    <2>1. inbox \in [Sides -> Seq(1..MaxSent)]
      BY DEF TypeOK
    <2>2. Append(inbox[s], Len(sent[s]) + 1) # <<>>
      BY <2>1
    <2> QED
      BY <1>3, <2>1, <2>2 DEF peer_sends
  <1>4. ASSUME NEW batch \in Batches, poll(batch)
        PROVE  Polling' /\ CompletesOnlyAtEnd' /\ events' \in Seq(Report)
    <2>1. UNCHANGED <<outside, buf, write_interest, result>> /\ events' = batch
      BY <1>4 DEF poll
    <2>2. ReportsTrue' /\ events' \in Seq(Report)
      BY <2>1, PollReportsTrue DEF outside
    <2> QED
      BY <2>1, <2>2 DEF Polling, InterestMeansBytes, CompletesOnlyAtEnd, outside
  <1>5. CASE handle_zero
    <2>1. /\ Turn /\ Returns("completed")
          /\ IF Head(events).write THEN buf[Head(events).side] = <<>>
                                   ELSE inbox[Head(events).side] = <<>>
      BY <1>5 DEF handle_zero
    <2>2. Head(events) = events[1] /\ 1 \in 1..Len(events)
      BY <1>0, <2>1, Behind DEF Turn
    <2>3. closed # {}
      BY <2>1, <2>2 DEF Polling, InterestMeansBytes, ReportsTrue, Readable
    <2> QED
      BY <1>2, <2>1, <2>3 DEF Returns, outside
  <1>6. CASE handle_write
    <2>1. PICK s : s = Head(events).side
      OBVIOUS
    <2>2. PICK k \in 1..Len(buf[s]) :
            /\ Turn /\ Head(events).write /\ Done("write")
            /\ buf' = [buf EXCEPT ![s] = SubSeq(@, k + 1, Len(@))]
            /\ write_interest' = IF buf'[s] = <<>> THEN write_interest \ {s} ELSE write_interest
            /\ UNCHANGED <<outside, result>>
      BY <1>6, <2>1 DEF handle_write
    <2>3. /\ events # <<>> /\ Head(events) = events[1] /\ Head(events) \in Report
          /\ 1 \in 1..Len(events) /\ s \in Sides
      <3>1. /\ events # <<>> /\ Head(events) = events[1] /\ Head(events) \in Report
            /\ 1 \in 1..Len(events)
        BY <1>0, <2>2, Behind DEF Turn
      <3> QED
        BY <2>1, <3>1 DEF Report
    <2>4. InterestMeansBytes'
      <3>1. buf \in [Sides -> Seq(1..MaxSent)] /\ write_interest \subseteq Sides
        BY DEF TypeOK
      <3>2. \A t \in Sides \ {s} : buf'[t] = buf[t]
        BY <2>2, <3>1
      <3> QED
        BY <2>2, <3>1, <3>2 DEF Polling, InterestMeansBytes
    <2>5. /\ \A t \in Sides \ {s} : t \in write_interest => t \in write_interest'
          /\ UNCHANGED <<inbox, closed>>
      BY <2>2 DEF outside
    <2>6. CASE ~Head(events).read
      <3>1. events' = Tail(events)
        BY <2>2, <2>6 DEF Done
      <3>2. ReportsTrue' /\ events' \in Seq(Report)
        BY <2>1, <2>3, <2>5, <3>1, RestStaysTrue DEF Polling, Readable
      <3> QED
        BY <2>2, <2>4, <2>5, <3>2 DEF Polling, CompletesOnlyAtEnd, outside
    <2>7. CASE Head(events).read
      <3>1. PICK r : r = [Head(events) EXCEPT !.write = FALSE]
        OBVIOUS
      <3>2. r \in Report /\ r.side = s /\ ~r.write /\ r.read
        BY <2>1, <2>3, <2>7, <3>1 DEF Report
      <3>3. events' = <<r>> \o Tail(events)
        BY <2>2, <2>7, <3>1 DEF Done
      <3>4. PICK q \in Seq(Report) :
              /\ q = Tail(events) /\ Len(q) = Len(events) - 1
              /\ \A i \in 1..Len(q) : q[i] = events[i + 1]
        BY <1>0, <2>3, Behind
      <3>5. /\ events' \in Seq(Report) /\ Len(events') = Len(events)
            /\ events'[1] = r /\ \A i \in 2..Len(events) : events'[i] = events[i]
        <4>1. /\ <<r>> \o q \in Seq(Report) /\ Len(<<r>> \o q) = 1 + Len(q)
              /\ (<<r>> \o q)[1] = r
              /\ \A i \in 2..1 + Len(q) : (<<r>> \o q)[i] = q[i - 1] /\ i - 1 \in 1..Len(q)
          BY <3>2
        <4>2. Len(q) + 1 = Len(events)
          BY <1>0, <3>4
        <4> QED
          BY <3>3, <3>4, <4>1, <4>2
      <3>6. \A i \in 1..Len(events) : events'[i].side = events[i].side
        BY <1>0, <2>1, <2>3, <3>2, <3>5
      <3>7. \A i \in 2..Len(events) : events[i].side \in Sides \ {s} /\ i \in 1..Len(events)
        <4>1. \A i \in 1..Len(events) : events[i] \in Report
          BY <1>0
        <4> QED
          BY <1>0, <2>1, <2>3, <4>1 DEF Polling, ReportsTrue, Report
      <3>8. ReportsTrue'
        <4>1. \A i, j \in 1..Len(events') : events'[i].side = events'[j].side => i = j
          BY <3>5, <3>6 DEF Polling, ReportsTrue
        <4>2. \A i \in 2..Len(events) :
                /\ events'[i].write \/ events'[i].read
                /\ events'[i].write => events'[i].side \in write_interest'
                /\ events'[i].read => Readable(events[i].side)
          BY <2>5, <3>5, <3>7 DEF Polling, ReportsTrue
        <4>3. Readable(s)
          BY <2>1, <2>3, <2>7 DEF Polling, ReportsTrue
        <4>4. \A i \in 1..Len(events) : i = 1 \/ i \in 2..Len(events)
          BY <1>0
        <4>5. \A i \in 1..Len(events') :
                /\ events'[i].write \/ events'[i].read
                /\ events'[i].write => events'[i].side \in write_interest'
                /\ events'[i].read => Readable(events'[i].side)
          BY <3>2, <3>5, <3>6, <4>2, <4>3, <4>4
        <4> QED
          BY <2>5, <4>1, <4>5 DEF ReportsTrue, Readable
      <3> QED
        BY <2>2, <2>4, <2>5, <3>5, <3>8 DEF Polling, CompletesOnlyAtEnd, outside
    <2> QED
      BY <2>6, <2>7
  <1>7. CASE handle_read
    <2>1. PICK s : s = Head(events).side
      OBVIOUS
    <2>2. PICK k \in 1..Len(inbox[s]) :
            /\ Turn /\ Done("read")
            /\ buf' = [buf EXCEPT ![Other(s)] = @ \o SubSeq(inbox[s], 1, k)]
            /\ inbox' = [inbox EXCEPT ![s] = SubSeq(@, k + 1, Len(@))]
            /\ write_interest' = write_interest \cup {Other(s)}
            /\ UNCHANGED <<closed, result>>
      BY <1>7, <2>1 DEF handle_read
    <2>3. events # <<>> /\ Head(events) \in Report /\ s \in Sides /\ events' = Tail(events)
      <3>1. events # <<>> /\ Head(events) \in Report /\ events' = Tail(events)
        BY <1>0, <2>2, Behind DEF Turn, Done
      <3> QED
        BY <2>1, <3>1 DEF Report
    <2>4. PICK Byte : /\ buf \in [Sides -> Seq(Byte)] /\ inbox \in [Sides -> Seq(Byte)]
                      /\ write_interest \subseteq Sides
      BY DEF TypeOK
    <2>5. PICK o \in Sides : o = Other(s) /\ o # s
      BY <2>3, TwoSides
    <2>6. InterestMeansBytes'
      <3>1. PICK b \in Seq(Byte), f \in Seq(Byte) :
              b = buf[o] /\ f = SubSeq(inbox[s], 1, k) /\ Len(f) = k
        <4>1. inbox[s] \in Seq(Byte)
          BY <2>3, <2>4
        <4>2. SubSeq(inbox[s], 1, k) \in Seq(Byte) /\ Len(SubSeq(inbox[s], 1, k)) = k
          BY <4>1, Cut
        <4> QED
          BY <2>4, <4>2
      <3>2. Len(b \o f) = Len(b) + k /\ k > 0
        BY <2>3, <2>4, <3>1
      <3>3. b \o f # <<>>
        BY <3>2
      <3>4. buf' = [buf EXCEPT ![o] = b \o f]
        BY <2>2, <2>5, <3>1
      <3>5. buf'[o] # <<>> /\ \A t \in Sides \ {o} : buf'[t] = buf[t]
        BY <2>4, <3>3, <3>4, Zenon
      <3> QED
        BY <2>2, <2>4, <2>5, <3>5 DEF Polling, InterestMeansBytes
    <2>7. \A t \in Sides \ {s} : t \in write_interest => t \in write_interest'
      BY <2>2
    <2>8. \A t \in Sides \ {s} : Readable(t) => inbox'[t] # <<>> \/ t \in closed'
      BY <2>2, <2>4 DEF Readable
    <2>9. ReportsTrue' /\ events' \in Seq(Report)
      BY <2>1, <2>3, <2>7, <2>8, RestStaysTrue DEF Polling
    <2> QED
      BY <2>2, <2>6, <2>9 DEF Polling, CompletesOnlyAtEnd
  <1>8. CASE \/ \E s \in Sides : peer_sends(s) \/ peer_closes(s)
             \/ \E ok \in BOOLEAN : with(ok) \/ accept(ok)
             \/ into_session
             \/ UNCHANGED vars
    <2>1. /\ UNCHANGED <<buf, write_interest, events>>
          /\ closed \subseteq closed'
          /\ \A s \in Sides : inbox[s] # <<>> => inbox'[s] # <<>>
          /\ result' # "completed" \/ result' = result
      BY <1>3, <1>8 DEF peer_closes, with, accept, Enters, into_session, outside, vars
    <2> QED
      BY <1>0, <1>1, <2>1
  <1>9. CASE \/ poll_timeout \/ handle_error
             \/ \E s \in Sides, hup \in BOOLEAN : poll_fails(s, hup)
    <2>1. /\ UNCHANGED <<buf, write_interest, closed>> /\ events' = <<>>
          /\ result' = "completed" => closed # {}
      BY <1>9 DEF poll_timeout, handle_error, poll_fails, Returns, outside
    <2> QED
      BY <1>2, <2>1
  <1> QED
    BY <1>4, <1>5, <1>6, <1>7, <1>8, <1>9 DEF Next

-----------------------------------------------------------------------------
(* Every step keeps the bytes.                                              *)
LEMMA BytesStep ==
    ASSUME TunnelInv, [Next]_vars, events' \in Seq(Report)
    PROVE  Bytes'
  <1> USE TunnelAssumption
  <1>0. Bytes /\ events' \in Seq([side : Sides, write : BOOLEAN, read : BOOLEAN])
    BY DEF TunnelInv, Bytes, Report
  <1>1. CASE /\ UNCHANGED <<sent, inbox, buf, got, count>>
             /\ closed' \subseteq Sides /\ write_interest' \subseteq Sides
             /\ result' \in {"bind", "accept", "running", "completed", "timeout", "error"}
             /\ connected' \in BOOLEAN
    BY <1>0, <1>1 DEF Bytes, TypeOK, SentBounded, NothingAltered
  <1>2. /\ closed \subseteq Sides /\ write_interest \subseteq Sides
        /\ result \in {"bind", "accept", "running", "completed", "timeout", "error"}
        /\ connected \in BOOLEAN
    BY <1>0 DEF Bytes, TypeOK
  <1>3. CASE \/ \E s \in Sides : peer_closes(s)
             \/ \E ok \in BOOLEAN : with(ok) \/ accept(ok)
             \/ into_session
             \/ \E batch \in Batches : poll(batch)
             \/ poll_timeout \/ handle_zero \/ handle_error
             \/ \E s \in Sides, hup \in BOOLEAN : poll_fails(s, hup)
             \/ UNCHANGED vars
    <2>1. /\ UNCHANGED <<sent, inbox, buf, got, count>>
          /\ closed' \subseteq Sides /\ write_interest' \subseteq Sides
      BY <1>2, <1>3 DEF peer_closes, with, accept, Enters, into_session, poll, poll_timeout,
                        handle_zero, handle_error, poll_fails, Returns, outside, vars
    <2>2. /\ result' \in {"bind", "accept", "running", "completed", "timeout", "error"}
          /\ connected' \in BOOLEAN
      BY <1>2, <1>3 DEF peer_closes, with, accept, Enters, into_session, poll, poll_timeout,
                        handle_zero, handle_error, poll_fails, Returns, vars
    <2> QED
      BY <1>1, <2>1, <2>2
  <1>4. ASSUME NEW s \in Sides, peer_sends(s) PROVE Bytes'
    BY <1>0, <1>4, SendKeepsBytes
  <1>5. CASE handle_write \/ handle_read
    <2>1. PICK s : s = Head(events).side
      OBVIOUS
    <2>2. s \in Sides
      <3>1. events \in Seq(Report) /\ events # <<>>
        BY <1>0, <1>5 DEF Bytes, TypeOK, Report, handle_write, handle_read, Turn
      <3>2. Head(events) \in Report
        BY <3>1, Behind
      <3> QED
        BY <2>1, <3>2 DEF Report
    <2>3. CASE handle_write
      <3>1. PICK k \in 1..Len(buf[s]) :
              /\ got' = [got EXCEPT ![s] = @ \o SubSeq(buf[s], 1, k)]
              /\ count' = [count EXCEPT ![s] = @ + k]
              /\ buf' = [buf EXCEPT ![s] = SubSeq(@, k + 1, Len(@))]
              /\ UNCHANGED <<sent, inbox, closed, result, connected>>
              /\ write_interest' \subseteq write_interest
        BY <2>1, <2>3 DEF handle_write, outside
      <3>2. write_interest' \subseteq Sides
        BY <1>2, <3>1
      <3> QED
        BY <1>0, <2>2, <3>1, <3>2, WriteKeepsBytes
    <2>4. CASE handle_read
      <3>1. PICK k \in 1..Len(inbox[s]) :
              /\ buf' = [buf EXCEPT ![Other(s)] = @ \o SubSeq(inbox[s], 1, k)]
              /\ inbox' = [inbox EXCEPT ![s] = SubSeq(@, k + 1, Len(@))]
              /\ UNCHANGED <<sent, closed, got, count, result, connected>>
              /\ write_interest' = write_interest \cup {Other(s)}
        BY <2>1, <2>4 DEF handle_read
      <3>2. write_interest' \subseteq Sides
        BY <1>2, <2>2, <3>1, TwoSides
      <3> QED
        BY <1>0, <2>2, <3>1, <3>2, ReadKeepsBytes
    <2> QED
      BY <1>5, <2>3, <2>4
  <1> QED
    BY <1>3, <1>4, <1>5 DEF Next

(* The invariant is inductive.                                              *)
LEMMA TunnelInvNext == TunnelInv /\ [Next]_vars => TunnelInv'
  <1> SUFFICES ASSUME TunnelInv, [Next]_vars PROVE TunnelInv'
    OBVIOUS
  <1>1. Polling' /\ CompletesOnlyAtEnd' /\ events' \in Seq(Report)
    BY PollingStep DEF TunnelInv, Polling
  <1>2. Bytes'
    BY <1>1, BytesStep
  <1> QED
    BY <1>1, <1>2 DEF TunnelInv, Polling, Bytes

(* The variables of the tunnel keep their types; in particular it never     *)
(* counts more bytes than were sent.                                        *)
THEOREM TunnelTypes == Spec => []TypeOK
  <1>1. TunnelInv => TypeOK
    BY DEF TunnelInv
  <1> QED
    BY TunnelInvInit, TunnelInvNext, <1>1, PTL DEF Spec

(* In both directions what was written, buffered and not yet read is what   *)
(* was sent, and the counts are those of the bytes written.                 *)
THEOREM StreamsUnaltered == Spec => []NothingAltered
  <1>1. TunnelInv => NothingAltered
    BY DEF TunnelInv
  <1> QED
    BY TunnelInvInit, TunnelInvNext, <1>1, PTL DEF Spec

(* tunnel_once returns its counts only after a side has ended its stream.   *)
THEOREM EndsOnlyAtEnd == Spec => []CompletesOnlyAtEnd
  <1>1. TunnelInv => CompletesOnlyAtEnd
    BY DEF TunnelInv
  <1> QED
    BY TunnelInvInit, TunnelInvNext, <1>1, PTL DEF Spec
=============================================================================
