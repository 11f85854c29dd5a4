-------------------------------- MODULE Tunnel --------------------------------
(***************************************************************************)
(* The tunnel (src/tunnel.rs) as nsh runs it (Mode::Tunnel in               *)
(* nsh/src/main.rs): a session with the remote (ext) is connected, a local  *)
(* address is bound, one client (int) is accepted, bytes pass between the   *)
(* two, and the session is disconnected. Bytes are read from one side into  *)
(* a buffer for the other and written when poll says so; the two directions *)
(* run the same code.                                                       *)
(*                                                                         *)
(* Per side: buf is what waits to be written to it (in_buf for int, out_buf *)
(* for ext), count what has been written (in_count, out_count) and          *)
(* write_interest whether poll is asked for its writability.                *)
(***************************************************************************)
EXTENDS Naturals, Sequences

CONSTANTS
    Faults,     \* whether polling and I/O may fail and poll may time out
    MaxSent     \* bound: bytes each side sends

ASSUME TunnelAssumption == Faults \in BOOLEAN /\ MaxSent \in Nat

Sides == {"int", "ext"}
Other(s) == IF s = "int" THEN "ext" ELSE "int"

VARIABLES
    sent,           \* history: what each side has sent into the tunnel
    inbox,          \* bytes each side has sent and the tunnel has not read
    closed,         \* sides that have closed their sending end
    buf,            \* bytes waiting to be written to each side
    got,            \* history: bytes written to each side
    count,          \* in_count and out_count
    write_interest, \* sides polled for writability
    events,         \* what poll reported and nobody has handled
    result,         \* what the tunnel waits for, or how it has ended
    connected       \* whether the session with the remote is still there

vars == <<sent, inbox, closed, buf, got, count, write_interest, events, result, connected>>
outside == <<sent, inbox, closed>>

Init ==
    /\ sent = [s \in Sides |-> <<>>] /\ inbox = [s \in Sides |-> <<>>]
    /\ closed = {}
    /\ buf = [s \in Sides |-> <<>>] /\ got = [s \in Sides |-> <<>>]
    /\ count = [s \in Sides |-> 0]
    /\ write_interest = {}
    /\ events = <<>>
    /\ result = "bind"
    /\ connected = TRUE

-----------------------------------------------------------------------------
(* The two ends. The remote may send, and close, before there is a client.  *)

Attached(s) == s = "ext" \/ result \notin {"bind", "accept"}

peer_sends(s) ==
    /\ Attached(s) /\ s \notin closed /\ Len(sent[s]) < MaxSent
    /\ sent' = [sent EXCEPT ![s] = Append(@, Len(sent[s]) + 1)]
    /\ inbox' = [inbox EXCEPT ![s] = Append(@, Len(sent[s]) + 1)]
    /\ UNCHANGED <<closed, buf, got, count, write_interest, events, result, connected>>

peer_closes(s) ==
    /\ Attached(s) /\ s \notin closed
    /\ closed' = closed \cup {s}
    /\ UNCHANGED <<sent, inbox, buf, got, count, write_interest, events, result, connected>>

-----------------------------------------------------------------------------
(* Before and after the loop.                                               *)

Enters(r) ==
    /\ result' = r
    /\ UNCHANGED <<outside, buf, got, count, write_interest, events, connected>>

(* Tunnel::with binds the local address or gives the session back.          *)
with(ok) ==
    /\ result = "bind"
    /\ ok \/ Faults
    /\ Enters(IF ok THEN "accept" ELSE "error")

(* tunnel_once waits, for as long as it takes, for one client; the client's *)
(* socket and the session are made nonblocking and polled for reading.      *)
accept(ok) ==
    /\ result = "accept"
    /\ ok \/ Faults
    /\ Enters(IF ok THEN "running" ELSE "error")

(* However the tunnel has ended, the session goes: into_session and         *)
(* disconnect after it has completed, disconnect when with has failed, and  *)
(* with the tunnel itself when tunnel_once has failed.                      *)
into_session ==
    /\ connected
    /\ result \in {"completed", "timeout", "error"}
    /\ connected' = FALSE
    /\ UNCHANGED <<outside, buf, got, count, write_interest, events, result>>

-----------------------------------------------------------------------------
(* The loop. *)

Readable(s) == inbox[s] # <<>> \/ s \in closed

(* What poll may report of a side: it is readable when there is something   *)
(* to read, an end of the stream included, and may be writable when asked.  *)
Reports(s) ==
    {[side |-> s, write |-> w, read |-> Readable(s)] :
        w \in IF s \in write_interest THEN BOOLEAN ELSE {FALSE}}

(* The reports that say anything, in either order.                          *)
Batches ==
    LET say == {r \in Reports("int") \cup Reports("ext") : r.write \/ r.read}
        ready == {s \in Sides : Readable(s)}
    IN  {b \in {<<r>> : r \in say} \cup {<<q, r>> : q \in say, r \in say} :
            /\ \A i, j \in DOMAIN b : b[i].side = b[j].side => i = j
            /\ \A s \in ready : \E i \in DOMAIN b : b[i].side = s}

poll(batch) ==
    /\ result = "running" /\ events = <<>>
    /\ batch \in Batches
    /\ events' = batch
    /\ UNCHANGED <<outside, buf, got, count, write_interest, result, connected>>

Returns(r) ==
    /\ result' = r /\ events' = <<>>
    /\ UNCHANGED <<outside, buf, got, count, write_interest, connected>>

(* Nothing happens for the time given: an error ends the tunnel.            *)
poll_timeout ==
    /\ Faults
    /\ result = "running" /\ events = <<>>
    /\ \A s \in Sides : ~Readable(s)
    /\ Returns("timeout")

(* poll fails, or reports a failure of a side, among or before the other    *)
(* reports: a hang-up counts as the end of the work, an error does not.     *)
poll_fails(s, hup) ==
    /\ Faults
    /\ result = "running"
    /\ hup => s \in closed
    /\ Returns(IF hup THEN "completed" ELSE "error")

Turn == result = "running" /\ events # <<>>

(* The report at the head has been dealt with, or its read is still due.    *)
Done(what) ==
    LET e == Head(events) IN
    events' = IF what = "write" /\ e.read
              THEN <<[e EXCEPT !.write = FALSE]>> \o Tail(events)
              ELSE Tail(events)

(* A write that does not remove from the buffer what was written.           *)
handle_write_Undrained ==
    LET s == Head(events).side IN
    /\ Turn /\ Head(events).write
    /\ buf[s] # <<>>
    /\ \E k \in 1..Len(buf[s]) :
          /\ got' = [got EXCEPT ![s] = @ \o SubSeq(buf[s], 1, k)]
          /\ count' = [count EXCEPT ![s] = @ + k]
          /\ buf' = [buf EXCEPT ![s] = IF k = Len(@) THEN <<>> ELSE @]
    /\ write_interest' = IF buf'[s] = <<>> THEN write_interest \ {s} ELSE write_interest
    /\ Done("write")
    /\ UNCHANGED <<outside, result, connected>>

(* A write that leaves the interest as it is.                               *)
handle_write_StillInterested ==
    LET s == Head(events).side IN
    /\ Turn /\ Head(events).write
    /\ buf[s] # <<>>
    /\ \E k \in 1..Len(buf[s]) :
          /\ got' = [got EXCEPT ![s] = @ \o SubSeq(buf[s], 1, k)]
          /\ count' = [count EXCEPT ![s] = @ + k]
          /\ buf' = [buf EXCEPT ![s] = SubSeq(@, k + 1, Len(@))]
    /\ write_interest' = write_interest
    /\ Done("write")
    /\ UNCHANGED <<outside, result, connected>>

(* Part of the buffer is written; the interest ends with the buffer.        *)
handle_write ==
    LET s == Head(events).side IN
    /\ Turn /\ Head(events).write
    /\ buf[s] # <<>>
    /\ \E k \in 1..Len(buf[s]) :
          /\ got' = [got EXCEPT ![s] = @ \o SubSeq(buf[s], 1, k)]
          /\ count' = [count EXCEPT ![s] = @ + k]
          /\ buf' = [buf EXCEPT ![s] = SubSeq(@, k + 1, Len(@))]
    /\ write_interest' = IF buf'[s] = <<>> THEN write_interest \ {s} ELSE write_interest
    /\ Done("write")
    /\ UNCHANGED <<outside, result, connected>>

(* Interest is asked for only when bytes are waiting already.               *)
handle_read_NoInterest ==
    LET s == Head(events).side IN
    /\ Turn /\ ~Head(events).write /\ Head(events).read
    /\ inbox[s] # <<>>
    /\ \E k \in 1..Len(inbox[s]) :
          /\ buf' = [buf EXCEPT ![Other(s)] = @ \o SubSeq(inbox[s], 1, k)]
          /\ inbox' = [inbox EXCEPT ![s] = SubSeq(@, k + 1, Len(@))]
    /\ write_interest' = IF buf[Other(s)] = <<>> THEN write_interest ELSE write_interest \cup {Other(s)}
    /\ Done("read")
    /\ UNCHANGED <<sent, closed, got, count, result, connected>>

(* Bytes read for the other side, which becomes interesting for writing.    *)
handle_read ==
    LET s == Head(events).side IN
    /\ Turn /\ ~Head(events).write /\ Head(events).read
    /\ inbox[s] # <<>>
    /\ \E k \in 1..Len(inbox[s]) :
          /\ buf' = [buf EXCEPT ![Other(s)] = @ \o SubSeq(inbox[s], 1, k)]
          /\ inbox' = [inbox EXCEPT ![s] = SubSeq(@, k + 1, Len(@))]
    /\ write_interest' = write_interest \cup {Other(s)}
    /\ Done("read")
    /\ UNCHANGED <<sent, closed, got, count, result, connected>>

(* A read or a write of nothing is passed over. *)
handle_zero_Ignored ==
    LET e == Head(events) IN
    /\ Turn
    /\ IF e.write THEN buf[e.side] = <<>> ELSE inbox[e.side] = <<>>
    /\ events' = Tail(events)
    /\ UNCHANGED <<outside, buf, got, count, write_interest, result, connected>>

(* A read answers 0 at the end of the stream and so does a write of an      *)
(* empty buffer: either way the tunnel has "completed its work".            *)
handle_zero ==
    LET e == Head(events) IN
    /\ Turn
    /\ IF e.write THEN buf[e.side] = <<>> ELSE inbox[e.side] = <<>>
    /\ Returns("completed")

(* A read or a write fails.                                                 *)
handle_error ==
    /\ Faults
    /\ Turn
    /\ Returns("error")

Next ==
    \/ \E s \in Sides : peer_sends(s) \/ peer_closes(s)
    \/ \E ok \in BOOLEAN : with(ok) \/ accept(ok)
    \/ into_session
    \/ \E batch \in Batches : poll(batch)
    \/ poll_timeout
    \/ \E s \in Sides, hup \in BOOLEAN : poll_fails(s, hup)
    \/ handle_write \/ handle_read \/ handle_zero \/ handle_error

Spec == Init /\ [][Next]_vars

(* The loop runs on, and a side that is polled for writability is writable  *)
(* again and again: the peer at that side keeps reading.                    *)
FairSpec ==
    /\ Spec
    /\ WF_vars(\E batch \in Batches : poll(batch))
    /\ WF_vars(handle_write \/ handle_read \/ handle_zero)
    /\ WF_vars(into_session)
    /\ \A s \in Sides :
         SF_vars(\E batch \in Batches :
                    poll(batch) /\ \E i \in DOMAIN batch : batch[i].side = s /\ batch[i].write)

-----------------------------------------------------------------------------
(* Every variable ranges over the values the program can give it. *)
TypeOK ==
    /\ sent \in [Sides -> Seq(1..MaxSent)] /\ inbox \in [Sides -> Seq(1..MaxSent)]
    /\ buf \in [Sides -> Seq(1..MaxSent)] /\ got \in [Sides -> Seq(1..MaxSent)]
    /\ closed \subseteq Sides /\ write_interest \subseteq Sides
    /\ events \in Seq([side : Sides, write : BOOLEAN, read : BOOLEAN])
    /\ count \in [Sides -> 0..MaxSent]
    /\ result \in {"bind", "accept", "running", "completed", "timeout", "error"}
    /\ connected \in BOOLEAN

(* In each direction, what has been written, what is buffered and what is   *)
(* still to be read are, in this order, exactly what was sent, also after   *)
(* the tunnel has ended with bytes it has not passed on: nothing is         *)
(* doubled, reordered or swapped between the directions, and the numbers    *)
(* tunnel_once returns ("Number of bytes which passed through the tunnel")  *)
(* are those of the bytes that got through.                                 *)
NothingAltered ==
    \A s \in Sides : /\ got[s] \o buf[s] \o inbox[Other(s)] = sent[Other(s)]
                     /\ count[s] = Len(got[s])

(* The tunnel never takes the answer to an empty write for the end of a     *)
(* stream: it completes by itself only when a side has closed.              *)
CompletesOnlyAtEnd == result = "completed" => closed # {}

(* What a side has sent arrives at the other while nobody closes.           *)
BytesArrive ==
    \A s \in Sides :
        inbox[s] # <<>> /\ result = "running"
            ~> (inbox[s] = <<>> /\ buf[Other(s)] = <<>>) \/ result # "running" \/ closed # {}

(* With a client in the tunnel the end of either side is noticed, whatever  *)
(* is still buffered for it or for the other: tunnel_once returns and the   *)
(* session is disconnected. (Waiting for the client notices nothing.)       *)
EndsWhenClosed == result = "running" /\ closed # {} ~> ~connected
=============================================================================
