-------------------------- MODULE NetResource_proofs --------------------------
(***************************************************************************)
(* NetResource keeps the promise of WriteAtomic, for messages of any        *)
(* number and length and a socket of any size.                              *)
(***************************************************************************)
EXTENDS NetResource, SequenceTheorems, TLAPS

(* The types the write path relies on.                                      *)
WriteTypes ==
    /\ write_buffer \in Seq(Byte)
    /\ accepted \in Seq(Byte)
    /\ wire \in Seq(Byte)
    /\ offered \in 0..MaxMessages

(* A message is a sequence of bytes.                                        *)
LEMMA MessageType ==
    ASSUME NEW m \in 1..MaxMessages, NEW len \in 1..MaxLength
    PROVE  Message(m, len) \in Seq(Byte) /\ Message(m, len) \in Messages
  <1>1. Message(m, len) \in [1..len -> Byte] /\ len \in Nat
    BY NetResourceAssumption DEF Message, Byte
  <1>2. Message(m, len) \in Messages
    BY DEF Messages
  <1>3. Message(m, len) \in Seq(Byte)
    <2> PICK f \in [1..len -> Byte] : f = Message(m, len)
      BY <1>1
    <2> QED
      BY <1>1, SMTT(30)
  <1> QED
    BY <1>2, <1>3

(* What is sent of a buffer and what stays make up the buffer.              *)
LEMMA TakeDrop ==
    ASSUME NEW S, NEW x \in Seq(S), NEW k \in 0..Len(x)
    PROVE  /\ Take(x, k) \in Seq(S) /\ Drop(x, k) \in Seq(S)
           /\ Take(x, k) \o Drop(x, k) = x
  <1>1. Len(x) \in Nat /\ k \in Int /\ k + 1 \in Int /\ 0 <= k /\ k <= Len(x)
    OBVIOUS
  <1>2. \A i \in 1..Len(x) : x[i] \in S
    OBVIOUS
  <1>3. Take(x, k) \in Seq(S)
    BY <1>1, <1>2, SubSeqProperties DEF Take
  <1>4. Drop(x, k) \in Seq(S)
    BY <1>1, <1>2, SubSeqProperties DEF Drop
  <1>5. SubSeq(x, 1, k) \o SubSeq(x, k + 1, Len(x)) = SubSeq(x, 1, Len(x))
    <2>1. 1 \in 1..(Len(x) + 1) /\ k \in (1 - 1)..Len(x) /\ Len(x) \in k..Len(x)
      BY <1>1
    <2> QED
      BY <2>1, ConcatAdjacentSubSeq, Zenon
  <1>6. SubSeq(x, 1, Len(x)) = x
    BY <1>1
  <1> QED
    BY <1>3, <1>4, <1>5, <1>6 DEF Take, Drop

(* Concatenating three sequences, in either order.                          *)
Associate(a, b, c) == (a \o b) \o c = a \o (b \o c)

(* Concatenation is associative.                                            *)
LEMMA Assoc ==
    ASSUME NEW S, NEW a \in Seq(S), NEW b \in Seq(S), NEW c \in Seq(S)
    PROVE  (a \o b) \o c = a \o (b \o c)
  OBVIOUS

(* The same for the bytes of messages.                                      *)
LEMMA BytesAssoc == \A a, b, c \in Seq(Byte) : Associate(a, b, c)
  BY Assoc DEF Associate

(* The connection takes no more than it is given.                           *)
LEMMA TakesBound ==
    ASSUME NEW S, NEW x \in Seq(S), NEW rm, NEW k \in Takes(x, rm)
    PROVE  k \in 0..Len(x)
  BY DEF Takes

(* The beginning of a sequence put together from two.                       *)
LEMMA PrefixConcat ==
    ASSUME NEW S, NEW a \in Seq(S), NEW b \in Seq(S)
    PROVE  Stream!PrefixOf(a, a \o b)
  BY DEF Stream!PrefixOf

-----------------------------------------------------------------------------
(* The halves of a transport have no buffer: split_io asserts that there is *)
(* nothing in it, which is why a writer cannot overtake older bytes.        *)
NothingBehindTheWriter == held = "halves" => write_buffer = <<>>

(* What every step does to the bytes: some leave the socket's side, at most *)
(* one message is taken, and sent plus buffered stays equal to accepted.    *)
WriteInv == WriteTypes /\ WritesAtomic /\ NothingBehindTheWriter

(* A step keeps what is written behind what was asked to be written.        *)
LEMMA WriteStep ==
    ASSUME WriteInv, [Next]_vars
    PROVE  /\ WriteInv'
           /\ [Stream!Write]_<<accepted, wire>>
  <1> USE NetResourceAssumption
  <1>1. CASE /\ UNCHANGED <<write_buffer, accepted, wire>> /\ offered' \in 0..MaxMessages
             /\ held' = "halves" => held = "halves" \/ write_buffer = <<>>
    BY <1>1 DEF WriteInv, WriteTypes, WritesAtomic, NothingBehindTheWriter
  <1>2. ASSUME NEW b \in Seq(Byte), NEW w \in Seq(Byte), NEW m \in Seq(Byte),
               m = <<>> \/ m \in Messages,
               wire' = wire \o w, write_buffer' = b, accepted' = accepted \o m,
               w \o b = write_buffer \o m, offered' \in 0..MaxMessages,
               held' = "halves" => b = <<>>
        PROVE  WriteInv' /\ Stream!Write
    <2>1. WriteTypes'
      BY <1>2, ConcatProperties DEF WriteInv, WriteTypes
    <2>2. wire' \o write_buffer' = accepted'
      <3>0. wire \in Seq(Byte) /\ write_buffer \in Seq(Byte)
        BY DEF WriteInv, WriteTypes
      <3>1. (wire \o w) \o b = wire \o (w \o b)
        <4>1. Associate(wire, w, b)
          BY <3>0, BytesAssoc
        <4> QED
          BY <4>1 DEF Associate
      <3>2. (wire \o write_buffer) \o m = wire \o (write_buffer \o m)
        <4>1. Associate(wire, write_buffer, m)
          BY <3>0, BytesAssoc
        <4> QED
          BY <4>1 DEF Associate
      <3> QED
        BY <1>2, <3>1, <3>2 DEF WriteInv, WritesAtomic
    <2>3. Stream!PrefixOf(wire, wire')
      BY <1>2, PrefixConcat DEF WriteInv, WriteTypes
    <2>4. Stream!PrefixOf(wire', accepted')
      BY <2>1, <2>2, PrefixConcat DEF WriteTypes
    <2>5. accepted' = accepted \/ \E x \in Messages : accepted' = accepted \o x
      BY <1>2, ConcatEmptySeq DEF WriteInv, WriteTypes
    <2>6. NothingBehindTheWriter'
      BY <1>2 DEF NothingBehindTheWriter
    <2> QED
      BY <2>1, <2>2, <2>3, <2>4, <2>5, <2>6 DEF WriteInv, WritesAtomic, Stream!Write
  <1>12. ASSUME Offer
         PROVE  held' # "halves"
    BY <1>12 DEF Offer, custody
  <1>3. ASSUME NEW len \in 1..MaxLength, write_queued(len)
        PROVE  WriteInv' /\ Stream!Write
    <2>1. offered + 1 \in 1..MaxMessages /\ offered' \in 0..MaxMessages
      BY <1>3 DEF write_queued, Offer, WriteInv, WriteTypes
    <2>2. PICK m \in Seq(Byte) : m = Message(offered + 1, len) /\ m \in Messages
      BY <2>1, MessageType
    <2>3. PICK k \in Takes(write_buffer, room) :
             /\ write_buffer' = Drop(write_buffer, k) \o m
             /\ wire' = wire \o Take(write_buffer, k)
             /\ accepted' = accepted \o m
      BY <1>3, <2>2 DEF write_queued
    <2>4. k \in 0..Len(write_buffer)
      BY TakesBound DEF WriteInv, WriteTypes
    <2>5. /\ Take(write_buffer, k) \in Seq(Byte) /\ Drop(write_buffer, k) \in Seq(Byte)
          /\ Take(write_buffer, k) \o Drop(write_buffer, k) = write_buffer
      BY <2>4, TakeDrop DEF WriteInv, WriteTypes
    <2>6. PICK w \in Seq(Byte), d \in Seq(Byte) :
             w = Take(write_buffer, k) /\ d = Drop(write_buffer, k)
      BY <2>5
    <2>7. w \o (d \o m) = write_buffer \o m
      <3>1. (w \o d) \o m = w \o (d \o m)
        BY Assoc
      <3> QED
        BY <2>5, <2>6, <3>1
    <2>8. PICK b \in Seq(Byte) : b = d \o m
      BY ConcatProperties
    <2>9. /\ m \in Messages /\ wire' = wire \o w /\ write_buffer' = b
          /\ accepted' = accepted \o m /\ w \o b = write_buffer \o m
          /\ offered' \in 0..MaxMessages
      BY <2>1, <2>2, <2>3, <2>6, <2>7, <2>8
    <2> QED
      BY <1>2, <1>12, <1>3, <2>9 DEF write_queued
  <1>4. ASSUME NEW len \in 1..MaxLength, write_direct(len)
        PROVE  WriteInv' /\ Stream!Write
    <2>1. offered + 1 \in 1..MaxMessages /\ offered' \in 0..MaxMessages
      BY <1>4 DEF write_direct, Offer, WriteInv, WriteTypes
    <2>2. PICK m \in Seq(Byte) : m = Message(offered + 1, len) /\ m \in Messages
      BY <2>1, MessageType
    <2>3. PICK k \in Takes(m, room - Len(write_buffer)) :
             /\ write_buffer' = Drop(m, k)
             /\ wire' = wire \o write_buffer \o Take(m, k)
             /\ accepted' = accepted \o m
      BY <1>4, <2>2 DEF write_direct
    <2>4. k \in 0..Len(m)
      BY TakesBound
    <2>5. /\ Take(m, k) \in Seq(Byte) /\ Drop(m, k) \in Seq(Byte)
          /\ Take(m, k) \o Drop(m, k) = m
      BY <2>4, TakeDrop
    <2>6. PICK t \in Seq(Byte), d \in Seq(Byte) : t = Take(m, k) /\ d = Drop(m, k)
      BY <2>5
    <2>7. PICK w \in Seq(Byte) : w = write_buffer \o t
      BY ConcatProperties DEF WriteInv, WriteTypes
    <2>8. wire' = wire \o w
      <3>0. wire \in Seq(Byte) /\ write_buffer \in Seq(Byte)
        BY DEF WriteInv, WriteTypes
      <3>1. (wire \o write_buffer) \o t = wire \o (write_buffer \o t)
        <4>1. Associate(wire, write_buffer, t)
          BY <3>0, BytesAssoc
        <4> QED
          BY <4>1 DEF Associate
      <3> QED
        BY <2>3, <2>6, <2>7, <3>1
    <2>9. w \o d = write_buffer \o m
      <3>0. write_buffer \in Seq(Byte)
        BY DEF WriteInv, WriteTypes
      <3>1. (write_buffer \o t) \o d = write_buffer \o (t \o d)
        <4>1. Associate(write_buffer, t, d)
          BY <3>0, BytesAssoc
        <4> QED
          BY <4>1 DEF Associate
      <3> QED
        BY <2>5, <2>6, <2>7, <3>1
    <2>10. /\ m \in Messages /\ wire' = wire \o w /\ write_buffer' = d
           /\ accepted' = accepted \o m /\ w \o d = write_buffer \o m
           /\ offered' \in 0..MaxMessages
      BY <2>1, <2>2, <2>3, <2>6, <2>8, <2>9
    <2> QED
      BY <1>2, <1>12, <1>4, <2>10 DEF write_direct
  <1>5. ASSUME NEW len \in 1..MaxLength, write_refused(len)
        PROVE  WriteInv' /\ Stream!Write
    <2>1. offered' \in 0..MaxMessages
      BY <1>5 DEF write_refused, Offer, WriteInv, WriteTypes
    <2>2. PICK w \in Seq(Byte) : w = write_buffer
      BY DEF WriteInv, WriteTypes
    <2>3. wire' = wire \o w /\ write_buffer' = <<>> /\ accepted' = accepted \o <<>>
      BY <1>5, <2>2, ConcatEmptySeq DEF write_refused, WriteInv, WriteTypes
    <2>4. <<>> \in Seq(Byte)
      OBVIOUS
    <2> QED
      BY <1>2, <1>12, <1>5, <2>1, <2>2, <2>3, <2>4 DEF write_refused
  <1>6. CASE handle_io
    <2>1. UNCHANGED outgoing /\ UNCHANGED custody
      BY <1>6 DEF handle_io, handle_writable_handshake, handle_writable_flush, read_act,
                  read_credentials, read_nothing, read_session, Readable, Conclude
    <2> QED
      BY <1>1, <2>1 DEF outgoing, custody, WriteInv, WriteTypes
  <1>7. ASSUME NEW readable \in BOOLEAN, poll(readable)
        PROVE  /\ UNCHANGED <<write_buffer, accepted, wire>> /\ offered' \in 0..MaxMessages
               /\ held' = held
    BY <1>7 DEF poll, outgoing, custody, WriteInv, WriteTypes
  <1>8. CASE write_not_ready \/ write_fails
    BY <1>1, <1>12, <1>8 DEF write_not_ready, write_fails, Offer, WriteInv, WriteTypes
  <1>11. ASSUME NEW ok \in BOOLEAN, write_certifies(ok)
         PROVE  /\ UNCHANGED <<write_buffer, accepted, wire>> /\ offered' \in 0..MaxMessages
                /\ held' # "halves"
    BY <1>11, <1>12 DEF write_certifies, Offer, WriteInv, WriteTypes
  <1>9. CASE peer_reads \/ peer_sends \/ peer_closes
    BY <1>1, <1>9 DEF peer_reads, peer_sends, peer_closes, outgoing, custody, WriteInv, WriteTypes
  <1>10. CASE UNCHANGED vars
    BY <1>1, <1>10 DEF vars, WriteInv, WriteTypes
  <1>13. CASE handover_transport \/ register_transport \/ read \/ disconnect \/ split_io
             \/ split_io_panics \/ from_split_io \/ reader_read \/ reader_read_credentials
             \/ writer_flush
    <2>1. UNCHANGED outgoing
      BY <1>13 DEF handover_transport, register_transport, read, disconnect, split_io,
                   split_io_panics, from_split_io, reader_read, reader_read_credentials,
                   writer_flush
    <2>2. held' = "halves" => held = "halves" \/ write_buffer = <<>>
      BY <1>13 DEF handover_transport, register_transport, read, disconnect, split_io,
                   split_io_panics, from_split_io, reader_read, reader_read_credentials,
                   writer_flush, custody
    <2> QED
      BY <1>1, <2>1, <2>2 DEF outgoing, WriteInv, WriteTypes
  <1>14. ASSUME NEW len \in 1..MaxLength, writer_write(len)
         PROVE  WriteInv' /\ [Stream!Write]_<<accepted, wire>>
    <2>1. /\ write_buffer = <<>> /\ write_buffer' = <<>>
          /\ offered + 1 \in 1..MaxMessages /\ offered' \in 0..MaxMessages
      BY <1>14 DEF writer_write, WriteInv, WriteTypes, NothingBehindTheWriter
    <2>2. PICK m \in Seq(Byte) : m = Message(offered + 1, len) /\ m \in Messages
      BY <2>1, MessageType
    <2>3. CASE wire' = wire \o m /\ accepted' = accepted \o m
      <3>1. <<>> \in Seq(Byte) /\ m \o <<>> = write_buffer \o m
        BY <2>1, ConcatEmptySeq
      <3> QED
        BY <1>2, <2>1, <2>2, <2>3, <3>1
    <2>4. CASE UNCHANGED <<wire, accepted>>
      BY <1>1, <2>1, <2>4
    <2> QED
      BY <1>14, <2>2, <2>3, <2>4 DEF writer_write
  <1> QED
    BY <1>1, <1>3, <1>4, <1>5, <1>6, <1>7, <1>8, <1>9, <1>10, <1>11, <1>13, <1>14
    DEF Next, write_atomic, owner

(* A new transport has accepted and sent nothing.                           *)
LEMMA WriteInit == Init => WriteInv /\ Stream!Init
  BY NetResourceAssumption DEF Init, WriteInv, WriteTypes, WritesAtomic, NothingBehindTheWriter, Stream!Init

(* Whatever the socket takes at each attempt, what it got followed by what  *)
(* is buffered is the concatenation of the messages accepted: none is cut,  *)
(* doubled or reordered, and of a refused one nothing is written.           *)
THEOREM AtomicWrites == Spec => []WritesAtomic
  <1>1. WriteInv /\ [Next]_vars => WriteInv'
    BY WriteStep
  <1>2. WriteInv => WritesAtomic
    BY DEF WriteInv
  <1> QED
    BY WriteInit, <1>1, <1>2, PTL DEF Spec

(* NetResource implements the abstract stream of trait WriteAtomic.         *)
THEOREM RefinesAtomicStream == Spec => ImplementsAtomicStream
  <1>1. WriteInv /\ [Next]_vars => WriteInv' /\ [Stream!Write]_<<accepted, wire>>
    BY WriteStep
  <1> QED
    BY WriteInit, <1>1, PTL DEF Spec, ImplementsAtomicStream, Stream!Spec, Stream!streamVars

-----------------------------------------------------------------------------
(* The session. *)

(* poll puts the readiness for writing first, and Read is handled last.     *)
Batches == {<<>>, <<"Write">>, <<"Read">>, <<"Write", "Read">>}

(* Only the reactor handles readiness; a transport in Init was asked about  *)
(* writing only; a terminated one has at most a Read left, behind a flush   *)
(* that failed on an established session.                                   *)
BatchInv ==
    /\ batch \in Batches
    /\ batch # <<>> => held = "reactor"
    /\ state = "Init" => batch \in {<<>>, <<"Write">>}
    /\ state = "Terminated" /\ batch # <<>> =>
          batch = <<"Read">> /\ Established /\ "error" \in told

(* An active session is established, its handshake is over before the       *)
(* credentials of the peer are looked at, and ours are tried before.        *)
SessionInv ==
    /\ state = "Active" => Established
    /\ verified => acts = 0 /\ (certified \/ botched \/ early)
    /\ impostor => verified
    /\ Plain => certified

(* While our credentials are not even tried, nothing has been written; once *)
(* the handshake is over the next readiness to be handled is Write.         *)
CredentialsInv ==
    /\ ~certified /\ ~early => wire = <<>> /\ room = MaxRoom /\ held # "halves"
    /\ acts = 0 /\ ~certified /\ ~botched /\ ~early /\ state # "Terminated" =>
          /\ state = "Handshake" /\ write_intent
          /\ batch # <<>> => Head(batch) = "Write"

(* Only with_session leaves the read buffer empty.                          *)
ResetInv ==
    /\ read_buffer = 0 => origin.start = "session"
    /\ ResetOnlyByPeer

StageInv == TypeOK /\ given + inbox <= sent /\ BatchInv /\ SessionInv /\ CredentialsInv /\ ResetInv

(* What holds as well of transports that enter the reactor before their     *)
(* session is established, or active.                                       *)
FreshInv ==
    /\ state = "Handshake" => ~Established
    /\ state = "Active" \/ (state = "Terminated" /\ batch # <<>>) =>
          origin.start = "session" \/ "established" \in told
    /\ InputGiven

-----------------------------------------------------------------------------
(* What the steps do. *)

(* Everything handle_io leaves alone, whatever it handles.                  *)
IoKeeps ==
    UNCHANGED <<origin, read_buffer, held, needs_flush, early, strayed, write_buffer,
                accepted, wire, room, offered, sent, closed>>

(* handle_io after handle_readable or handle_writable, case by case.        *)
LEMMA Concluded ==
    ASSUME NEW io, NEW forced, NEW st, NEW wi, NEW resp,
           Conclude(io, forced, st, wi, resp)
    PROVE  /\ IoKeeps /\ batch' = Tail(batch)
           /\ write_intent' \in BOOLEAN
           /\ wi \/ (io = "Read" /\ st = "Handshake") => write_intent'
           /\ st = "Handshake" /\ Established' =>
                 state' = "Active" /\ told' = told \cup {"established"} /\ given' = given
           /\ ~(st = "Handshake" /\ Established') =>
                 /\ resp = "none" => state' = st /\ told' = told /\ given' = given
                 /\ resp = "error" => state' = st /\ told' = told \cup {"error"} /\ given' = given
                 /\ resp = "data" => /\ state' = st /\ told' = told \cup {"data"}
                                     /\ given' = given + inbox - inbox'
                 /\ resp = "reset" /\ st # "Handshake" =>
                       state' = "Terminated" /\ told' = told \cup {"terminated"} /\ given' = given
  <1>1. IoKeeps /\ batch' = Tail(batch)
    BY DEF Conclude, IoKeeps, custody, outgoing
  <1>2. write_intent' \in BOOLEAN
    BY DEF Conclude
  <1>3. wi \/ (io = "Read" /\ st = "Handshake") => write_intent'
    BY DEF Conclude
  <1>4. st = "Handshake" /\ Established' =>
                 state' = "Active" /\ told' = told \cup {"established"} /\ given' = given
    BY DEF Conclude
  <1>5. ASSUME ~(st = "Handshake" /\ Established')
        PROVE    /\ resp = "none" => state' = st /\ told' = told /\ given' = given
                 /\ resp = "error" => state' = st /\ told' = told \cup {"error"} /\ given' = given
                 /\ resp = "data" => /\ state' = st /\ told' = told \cup {"data"}
                                     /\ given' = given + inbox - inbox'
                 /\ resp = "reset" /\ st # "Handshake" =>
                       state' = "Terminated" /\ told' = told \cup {"terminated"} /\ given' = given
    BY <1>5 DEF Conclude
  <1> QED
    BY <1>1, <1>2, <1>3, <1>4, <1>5

(* The first readiness of a batch, and what is left.                        *)
LEMMA BatchHead ==
    ASSUME BatchInv, NEW io, Handling(io)
    PROVE  /\ io = "Read" => batch = <<"Read">> /\ Tail(batch) = <<>> /\ state # "Init"
           /\ io = "Write" => /\ Tail(batch) \in {<<>>, <<"Read">>} /\ state # "Terminated"
                              /\ state = "Init" => Tail(batch) = <<>>
           /\ batch # <<>> /\ held = "reactor"
  <1>1. batch # <<>> /\ Head(batch) = io /\ held = "reactor"
    BY DEF BatchInv, Handling
  <1>2. CASE batch = <<"Write">>
    <2>1. io = "Write" /\ Tail(batch) = <<>> /\ <<"Write">> # <<"Read">>
      BY <1>1, <1>2
    <2> QED
      BY <1>1, <1>2, <2>1 DEF BatchInv
  <1>3. CASE batch = <<"Read">>
    <2>1. io = "Read" /\ Tail(batch) = <<>> /\ <<"Write">> # <<"Read">>
      BY <1>1, <1>3
    <2> QED
      BY <1>1, <1>3, <2>1 DEF BatchInv
  <1>4. CASE batch = <<"Write", "Read">>
    <2>1. /\ io = "Write" /\ Tail(batch) = <<"Read">>
          /\ Len(<<"Write", "Read">>) = 2 /\ Len(<<"Write">>) = 1 /\ Len(<<"Read">>) = 1
      BY <1>1, <1>4
    <2> QED
      BY <1>1, <1>4, <2>1 DEF BatchInv
  <1> QED
    BY <1>1, <1>2, <1>3, <1>4 DEF BatchInv, Batches

(* handle_readable and what follows, by the answer of session.read.         *)
LEMMA ReadDone ==
    ASSUME BatchInv, Handling("Read"), NEW answer, Readable(answer)
    PROVE  /\ IoKeeps /\ batch = <<"Read">> /\ batch' = <<>> /\ state # "Init"
           /\ write_intent' \in BOOLEAN
           /\ answer \in {"error", "reset"} => state' = "Terminated" /\ given' = given
           /\ answer = "error" => told' = told \cup {"error"}
           /\ answer = "reset" => told' = told \cup {"terminated"}
           /\ answer \in {"zero", "block", "data"} /\ state = "Handshake" =>
                 /\ write_intent'
                 /\ Established' => /\ state' = "Active" /\ given' = given
                                    /\ told' = told \cup {"established"}
                 /\ ~Established' => /\ state' = state
                                     /\ answer # "data" => told' = told /\ given' = given
                                     /\ answer = "data" => /\ told' = told \cup {"data"}
                                                           /\ given' = given + inbox - inbox'
           /\ state # "Handshake" =>
                 /\ answer = "block" \/ (answer = "zero" /\ ~Established') =>
                       state' = state /\ told' = told /\ given' = given
                 /\ answer = "zero" /\ Established' =>
                       /\ state' = "Terminated" /\ told' = told \cup {"terminated"}
                       /\ given' = given
                 /\ answer = "data" =>
                       /\ state' = state /\ told' = told \cup {"data"}
                       /\ given' = given + inbox - inbox'
  <1>1. batch = <<"Read">> /\ Tail(batch) = <<>> /\ state # "Init"
    BY BatchHead
  <1>2. Entered = state
    BY <1>1 DEF Entered
  <1>3. PICK st, resp :
          /\ st = IF answer \in {"error", "reset"} THEN "Terminated" ELSE state
          /\ answer = "zero" /\ ~Established' => resp = "none"
          /\ answer = "zero" /\ Established' => resp = "reset"
          /\ answer = "data" => resp = "data"
          /\ answer = "block" => resp = "none"
          /\ answer = "reset" => resp = "reset"
          /\ answer = "error" => resp = "error"
          /\ Conclude("Read", Forced, st, write_intent, resp)
    <2> DEFINE rs == CASE answer = "zero" /\ ~Established' -> "none"
                       [] answer = "zero" /\ Established'  -> "reset"
                       [] answer = "data"  -> "data"
                       [] answer = "block" -> "none"
                       [] answer = "reset" -> "reset"
                       [] answer = "error" -> "error"
               s == IF answer \in {"error", "reset"} THEN "Terminated" ELSE state
    <2>1. Conclude("Read", Forced, s, write_intent, rs)
      BY <1>2 DEF Readable
    <2>2. /\ answer = "zero" /\ ~Established' => rs = "none"
          /\ answer = "zero" /\ Established' => rs = "reset"
          /\ answer = "data" => rs = "data"
          /\ answer = "block" => rs = "none"
          /\ answer = "reset" => rs = "reset"
          /\ answer = "error" => rs = "error"
      OBVIOUS
    <2> QED
      BY <2>1, <2>2
  <1>4. /\ IoKeeps /\ batch' = <<>> /\ write_intent' \in BOOLEAN
        /\ st = "Handshake" => write_intent'
        /\ st = "Handshake" /\ Established' =>
              state' = "Active" /\ told' = told \cup {"established"} /\ given' = given
        /\ ~(st = "Handshake" /\ Established') =>
              /\ resp = "none" => state' = st /\ told' = told /\ given' = given
              /\ resp = "error" => state' = st /\ told' = told \cup {"error"} /\ given' = given
              /\ resp = "data" => /\ state' = st /\ told' = told \cup {"data"}
                                  /\ given' = given + inbox - inbox'
              /\ resp = "reset" /\ st # "Handshake" =>
                    state' = "Terminated" /\ told' = told \cup {"terminated"} /\ given' = given
    BY <1>1, <1>3, Concluded
  <1>5. CASE answer \in {"error", "reset"}
    BY <1>1, <1>3, <1>4, <1>5
  <1>6. CASE answer \notin {"error", "reset"}
    BY <1>1, <1>3, <1>4, <1>6
  <1> QED
    BY <1>5, <1>6

(* handle_io(Write) before the session is established.                      *)
LEMMA WritableHandshake ==
    ASSUME StageInv, NEW ok \in BOOLEAN, handle_writable_handshake(ok)
    PROVE  /\ IoKeeps /\ batch' = Tail(batch) /\ batch' \in {<<>>, <<"Read">>}
           /\ batch # <<>> /\ held = "reactor"
           /\ state' = "Handshake" /\ told' = told /\ given' = given /\ inbox' = inbox
           /\ write_intent' \in BOOLEAN /\ write_intent'
           /\ UNCHANGED <<acts, verified, impostor>> /\ ~Established
           /\ acts = 0 => certified' \/ botched'
           /\ acts # 0 => UNCHANGED <<certified, botched>>
           /\ certified => certified'
           /\ botched => botched'
           /\ spoken' \in BOOLEAN /\ certified' \in BOOLEAN /\ botched' \in BOOLEAN
  <1>1. /\ batch' = Tail(batch) => batch' \in {<<>>, <<"Read">>}
        /\ batch # <<>> /\ held = "reactor" /\ state # "Terminated"
    BY BatchHead DEF StageInv, handle_writable_handshake
  <1>2. ~Established /\ UNCHANGED <<acts, verified, impostor, inbox>> /\ spoken' = TRUE
    BY DEF handle_writable_handshake, DriveHandshake
  <1>3. Conclude("Write", Forced, Entered, TRUE, "none")
    BY DEF handle_writable_handshake
  <1>4. IoKeeps
    BY <1>3, Concluded
  <1>5. ~Established'
    BY <1>2, <1>4 DEF Established, Plain, IoKeeps
  <1>6. Entered = "Handshake"
    BY <1>1, <1>2 DEF StageInv, SessionInv, TypeOK, Entered
  <1>7. /\ batch' = Tail(batch) /\ write_intent' \in BOOLEAN /\ write_intent'
        /\ state' = "Handshake" /\ told' = told /\ given' = given
    <2>1. PICK st : st = "Handshake" /\ Conclude("Write", Forced, st, TRUE, "none")
      BY <1>3, <1>6
    <2>2. batch' = Tail(batch) /\ write_intent' \in BOOLEAN
      BY <1>3, Concluded
    <2>3. write_intent'
      BY <1>3 DEF Conclude
    <2>4. state' = "Handshake" /\ told' = told /\ given' = given
      BY <1>5, <2>1 DEF Conclude
    <2> QED
      BY <2>2, <2>3, <2>4
  <1>8. certified \in BOOLEAN /\ botched \in BOOLEAN
    BY DEF StageInv, TypeOK
  <1>9. CASE acts = 0
    <2>1. /\ certified' = (certified \/ ok)
          /\ botched' = (botched \/ ~(certified \/ ok))
      BY <1>9 DEF handle_writable_handshake, DriveHandshake, Certify
    <2>2. certified' \in BOOLEAN /\ botched' \in BOOLEAN
      BY <2>1
    <2>3. (certified' \/ botched') /\ (certified => certified') /\ (botched => botched')
      BY <2>1
    <2> QED
      BY <1>1, <1>2, <1>4, <1>7, <1>9, <2>2, <2>3
  <1>10. CASE acts # 0
    <2>1. UNCHANGED <<certified, botched>>
      BY <1>10 DEF handle_writable_handshake, DriveHandshake
    <2> QED
      BY <1>1, <1>2, <1>4, <1>7, <1>8, <1>10, <2>1
  <1> QED
    BY <1>9, <1>10

(* handle_io(Write) on an established session.                              *)
LEMMA WritableFlush ==
    ASSUME StageInv, NEW answer, handle_writable_flush(answer)
    PROVE  /\ IoKeeps /\ batch' = Tail(batch) /\ batch' \in {<<>>, <<"Read">>}
           /\ batch # <<>> /\ held = "reactor" /\ state # "Terminated"
           /\ state = "Init" => batch' = <<>>
           /\ UNCHANGED <<acts, spoken, certified, botched, verified, impostor, inbox>>
           /\ Established /\ Established' /\ given' = given /\ write_intent' \in BOOLEAN
           /\ answer = "error" => state' = "Terminated" /\ told' = told \cup {"error"}
           /\ answer # "error" =>
                 /\ state' = "Active"
                 /\ state \in {"Init", "Handshake"} => told' = told \cup {"established"}
                 /\ state = "Active" => told' = told
  <1>1. /\ batch' = Tail(batch) => batch' \in {<<>>, <<"Read">>}
        /\ batch # <<>> /\ held = "reactor" /\ state # "Terminated"
        /\ state = "Init" /\ batch' = Tail(batch) => batch' = <<>>
    BY BatchHead DEF StageInv, handle_writable_flush
  <1>2. Established /\ UNCHANGED <<acts, spoken, certified, botched, verified, impostor, inbox>>
    BY DEF handle_writable_flush, session
  <1>3. state \in {"Init", "Handshake", "Active"}
    BY <1>1 DEF StageInv, TypeOK
  <1>4. CASE answer = "error"
    <2>1. Conclude("Write", Forced, "Terminated", write_intent, "error")
      BY <1>4 DEF handle_writable_flush
    <2>2. /\ IoKeeps /\ batch' = Tail(batch) /\ write_intent' \in BOOLEAN
          /\ state' = "Terminated" /\ told' = told \cup {"error"} /\ given' = given
      BY <2>1, Concluded
    <2>3. Established'
      BY <1>2, <2>2 DEF Established, Plain, IoKeeps
    <2> QED
      BY <1>1, <1>2, <1>4, <2>2, <2>3
  <1>5. CASE answer # "error"
    <2>1. Conclude("Write", Forced, Entered, answer = "block", "none")
      BY <1>5 DEF handle_writable_flush
    <2>2. IoKeeps /\ batch' = Tail(batch) /\ write_intent' \in BOOLEAN
      BY <2>1, Concluded
    <2>3. Established'
      BY <1>2, <2>2 DEF Established, Plain, IoKeeps
    <2>4. CASE state = "Active"
      <3>1. Entered = "Active"
        BY <2>4 DEF Entered
      <3>2. state' = "Active" /\ told' = told /\ given' = given
        BY <2>1, <3>1, Concluded
      <3> QED
        BY <1>1, <1>2, <1>5, <2>2, <2>3, <2>4, <3>2
    <2>5. CASE state \in {"Init", "Handshake"}
      <3>1. Entered = "Handshake"
        BY <2>5 DEF Entered
      <3>2. state' = "Active" /\ told' = told \cup {"established"} /\ given' = given
        BY <2>1, <2>3, <3>1, Concluded
      <3> QED
        BY <1>1, <1>2, <1>5, <2>2, <2>3, <2>5, <3>2
    <2> QED
      BY <1>3, <2>4, <2>5
  <1> QED
    BY <1>4, <1>5

(* What the reads do to the session: an act is read of an unfinished        *)
(* handshake, credentials after it, data from an established session.       *)
LEMMA Reading ==
    ASSUME StageInv,
           \/ read_act
           \/ \E wrong \in BOOLEAN : read_credentials(wrong)
           \/ \E answer \in {"block", "error", "reset"} : read_nothing(answer)
           \/ read_session
    PROVE  /\ Handling("Read")
           /\ UNCHANGED <<spoken, certified, botched>>
           /\ \/ /\ ~Plain /\ acts > 0 /\ acts' = acts - 1
                 /\ UNCHANGED <<verified, impostor, inbox>>
                 /\ Readable("zero")
              \/ \E wrong \in BOOLEAN :
                 /\ ~Plain /\ acts = 0 /\ ~verified
                 /\ acts' = acts /\ inbox' = inbox /\ verified' = TRUE /\ impostor' = wrong
                 /\ wrong => Readable("reset")
                 /\ ~wrong => Readable("zero")
              \/ \E answer \in {"block", "error", "reset"} :
                 /\ UNCHANGED <<acts, verified, impostor, inbox>>
                 /\ answer = "reset" => closed
                 /\ Readable(answer)
              \/ /\ Established /\ UNCHANGED <<acts, verified, impostor>>
                 /\ inbox > 0 /\ inbox' \in 0..inbox - 1 /\ Readable("data")
              \/ /\ Established /\ UNCHANGED <<acts, verified, impostor, inbox>>
                 /\ closed \/ (inbox > 0 /\ ~(read_buffer > 0))
                 /\ Readable("zero")
  <1>1. CASE read_act
    BY <1>1 DEF read_act
  <1>2. ASSUME NEW wrong \in BOOLEAN, read_credentials(wrong)
        PROVE  /\ Handling("Read") /\ UNCHANGED <<spoken, certified, botched>>
               /\ ~Plain /\ acts = 0 /\ ~verified
               /\ acts' = acts /\ inbox' = inbox /\ verified' = TRUE /\ impostor' = wrong
               /\ wrong => Readable("reset")
               /\ ~wrong => Readable("zero")
    BY <1>2 DEF read_credentials
  <1>3. ASSUME NEW answer \in {"block", "error", "reset"}, read_nothing(answer)
        PROVE  /\ Handling("Read") /\ UNCHANGED <<spoken, certified, botched>>
               /\ UNCHANGED <<acts, verified, impostor, inbox>>
               /\ answer = "reset" => closed
               /\ Readable(answer)
    BY <1>3 DEF read_nothing, session
  <1>4. CASE read_session
    <2>1. /\ Handling("Read") /\ UNCHANGED <<spoken, certified, botched>>
          /\ Established /\ UNCHANGED <<acts, verified, impostor>>
          /\ inbox > 0 \/ closed
      BY <1>4 DEF read_session, session
    <2>2. CASE inbox > 0 /\ read_buffer > 0
      BY <1>4, <2>1, <2>2 DEF read_session
    <2>3. CASE ~(inbox > 0 /\ read_buffer > 0)
      BY <1>4, <2>1, <2>3 DEF read_session
    <2> QED
      BY <2>2, <2>3
  <1> QED
    BY <1>1, <1>2, <1>3, <1>4

-----------------------------------------------------------------------------
(* The parts of the invariant, kept by handle_io. *)

(* Handling readiness for writing.                                          *)
LEMMA WritableKeeps ==
    ASSUME StageInv,
           \/ \E ok \in BOOLEAN : handle_writable_handshake(ok)
           \/ \E f \in FlushOutcomes : handle_writable_flush(f)
    PROVE  BatchInv' /\ SessionInv' /\ CredentialsInv' /\ ResetInv'
  <1>0. /\ batch \in Batches /\ state \in {"Init", "Handshake", "Active", "Terminated"}
        /\ SessionInv /\ CredentialsInv /\ ResetInv
    BY DEF StageInv, BatchInv, TypeOK
  <1>1. \A x \in {<<>>, <<"Read">>} : x \in Batches /\ (x # <<>> => x = <<"Read">>)
    BY DEF Batches
  <1>2. ASSUME NEW ok \in BOOLEAN, handle_writable_handshake(ok)
        PROVE  BatchInv' /\ SessionInv' /\ CredentialsInv' /\ ResetInv'
    <2>1. /\ IoKeeps /\ batch' \in {<<>>, <<"Read">>} /\ held = "reactor"
          /\ state' = "Handshake" /\ told' = told
          /\ write_intent'
          /\ UNCHANGED <<acts, verified, impostor>> /\ ~Established
          /\ acts = 0 => certified' \/ botched'
          /\ acts # 0 => UNCHANGED <<certified, botched>>
          /\ certified => certified'
          /\ botched => botched'
      BY <1>2, WritableHandshake
    <2>2. BatchInv'
      BY <1>1, <2>1 DEF BatchInv, IoKeeps
    <2>3. SessionInv'
      BY <1>0, <2>1 DEF SessionInv, IoKeeps, Plain
    <2>4. CredentialsInv'
      BY <1>0, <2>1 DEF CredentialsInv, IoKeeps
    <2>5. ResetInv'
      BY <1>0, <2>1 DEF ResetInv, ResetOnlyByPeer, IoKeeps
    <2> QED
      BY <2>2, <2>3, <2>4, <2>5
  <1>3. ASSUME NEW f, handle_writable_flush(f)
        PROVE  BatchInv' /\ SessionInv' /\ CredentialsInv' /\ ResetInv'
    <2>1. /\ IoKeeps /\ batch' \in {<<>>, <<"Read">>} /\ held = "reactor"
          /\ UNCHANGED <<acts, certified, botched, verified, impostor>>
          /\ Established /\ Established'
          /\ f = "error" => state' = "Terminated" /\ told' = told \cup {"error"}
          /\ f # "error" =>
                state' = "Active" /\ (told' = told \cup {"established"} \/ told' = told)
      <3>1. state \in {"Init", "Handshake", "Active"}
        BY <1>0, <1>3, WritableFlush
      <3> QED
        BY <1>3, <3>1, WritableFlush
    <2>2. BatchInv'
      <3>1. batch' \in Batches /\ held' = "reactor" /\ state' \in {"Active", "Terminated"}
        BY <1>1, <2>1 DEF IoKeeps
      <3>2. state' = "Terminated" /\ batch' # <<>> =>
               batch' = <<"Read">> /\ Established' /\ "error" \in told'
        BY <1>1, <2>1
      <3> QED
        BY <3>1, <3>2 DEF BatchInv
    <2>3. SessionInv'
      BY <1>0, <2>1 DEF SessionInv, IoKeeps, Plain
    <2>4. certified \/ botched \/ early
      BY <1>0, <2>1 DEF SessionInv, Established
    <2>5. CredentialsInv'
      BY <1>0, <2>1, <2>4 DEF CredentialsInv, IoKeeps
    <2>6. ResetInv'
      BY <1>0, <2>1 DEF ResetInv, ResetOnlyByPeer, IoKeeps
    <2> QED
      BY <2>2, <2>3, <2>5, <2>6
  <1> QED
    BY <1>2, <1>3

(* Handling readiness for reading.                                          *)
LEMMA ReadableKeeps ==
    ASSUME StageInv,
           \/ read_act
           \/ \E wrong \in BOOLEAN : read_credentials(wrong)
           \/ \E answer \in {"block", "error", "reset"} : read_nothing(answer)
           \/ read_session
    PROVE  BatchInv' /\ SessionInv' /\ CredentialsInv' /\ ResetInv'
  <1>0. /\ BatchInv /\ SessionInv /\ CredentialsInv /\ ResetInv
        /\ state \in {"Init", "Handshake", "Active", "Terminated"} /\ acts \in 0..2
        /\ read_buffer \in {0, 1} /\ Handling("Read")
        /\ UNCHANGED <<certified, botched>>
    BY Reading DEF StageInv, TypeOK
  <1>1. /\ batch = <<"Read">> /\ state # "Init"
        /\ Head(batch) # "Write" /\ batch # <<>>
    BY <1>0, BatchHead DEF Handling
  <1>2. /\ state \in {"Handshake", "Active", "Terminated"}
        /\ state = "Active" \/ state = "Terminated" => Established
    BY <1>0, <1>1 DEF BatchInv, SessionInv
  <1>3. ASSUME NEW answer, Readable(answer)
        PROVE  IoKeeps /\ batch' = <<>>
    BY <1>0, <1>3, ReadDone
  <1>4. ASSUME IoKeeps, batch' = <<>>, state' \in {"Handshake", "Active", "Terminated"},
               state' = "Active" => Established',
               verified' => acts' = 0 /\ (certified \/ botched \/ early),
               impostor' => verified',
               acts' = 0 /\ ~certified /\ ~botched /\ ~early /\ state' # "Terminated" =>
                  state' = "Handshake" /\ write_intent',
               "terminated" \in told' => closed \/ impostor' \/ origin.start = "session"
        PROVE  BatchInv' /\ SessionInv' /\ CredentialsInv' /\ ResetInv'
    <2>1. BatchInv'
      BY <1>4 DEF BatchInv, Batches
    <2>2. SessionInv'
      BY <1>0, <1>4 DEF SessionInv, IoKeeps, Plain
    <2>3. CredentialsInv'
      BY <1>0, <1>4 DEF CredentialsInv, IoKeeps
    <2>4. ResetInv'
      BY <1>0, <1>4 DEF ResetInv, ResetOnlyByPeer, IoKeeps
    <2> QED
      BY <2>1, <2>2, <2>3, <2>4
  <1>5. \* a message of the handshake
        ASSUME ~Plain, acts > 0, acts' = acts - 1, UNCHANGED <<verified, impostor>>, Readable("zero")
        PROVE  BatchInv' /\ SessionInv' /\ CredentialsInv' /\ ResetInv'
    <2>1. IoKeeps /\ batch' = <<>>
      BY <1>3, <1>5
    <2>2. ~verified /\ ~Established /\ ~impostor
      BY <1>0, <1>5 DEF SessionInv, Established
    <2>3. state = "Handshake"
      BY <1>2, <2>2
    <2>4. ~Established'
      BY <1>5, <2>1, <2>2 DEF Established, Plain, IoKeeps
    <2>5. state' = "Handshake" /\ told' = told /\ write_intent'
      BY <1>0, <1>5, <2>3, <2>4, ReadDone
    <2> QED
      BY <1>0, <1>4, <1>5, <2>1, <2>2, <2>4, <2>5 DEF ResetInv, ResetOnlyByPeer
  <1>6. \* the credentials of the peer
        ASSUME NEW wrong \in BOOLEAN, ~Plain, acts = 0, ~verified, acts' = acts, verified' = TRUE,
               impostor' = wrong, wrong => Readable("reset"), ~wrong => Readable("zero")
        PROVE  BatchInv' /\ SessionInv' /\ CredentialsInv' /\ ResetInv'
    <2>1. IoKeeps /\ batch' = <<>>
      BY <1>3, <1>6
    <2>2. state = "Handshake"
      BY <1>2, <1>6 DEF Established
    <2>3. certified \/ botched \/ early
      BY <1>0, <1>1, <1>6, <2>2 DEF CredentialsInv
    <2>4. Established'
      BY <1>6, <2>1 DEF Established
    <2>5. CASE wrong
      <3>1. state' = "Terminated" /\ impostor'
        BY <1>0, <1>6, <2>5, ReadDone
      <3> QED
        BY <1>4, <1>6, <2>1, <2>3, <2>4, <3>1
    <2>6. CASE ~wrong
      <3>1. state' = "Active" /\ told' = told \cup {"established"}
        BY <1>0, <1>6, <2>2, <2>4, <2>6, ReadDone
      <3>2. ~impostor'
        BY <1>6, <2>6
      <3>3. ~impostor
        BY <1>0, <1>6 DEF SessionInv
      <3>4. "terminated" \in told' => closed \/ origin.start = "session"
        BY <1>0, <3>1, <3>3 DEF ResetInv, ResetOnlyByPeer
      <3> QED
        BY <1>4, <1>6, <2>1, <2>3, <2>4, <3>1, <3>2, <3>4
    <2> QED
      BY <2>5, <2>6
  <1>7. \* the session and its credentials stay as they are
        ASSUME UNCHANGED <<acts, verified, impostor>>, NEW answer, Readable(answer),
               answer \in {"block", "error", "reset", "data", "zero"},
               answer = "reset" => closed,
               answer = "zero" => Established /\ (closed \/ origin.start = "session")
        PROVE  BatchInv' /\ SessionInv' /\ CredentialsInv' /\ ResetInv'
    <2>1. IoKeeps /\ batch' = <<>>
      BY <1>3, <1>7
    <2>2. Established' <=> Established
      BY <1>7, <2>1 DEF Established, Plain, IoKeeps
    <2>3. ~("terminated" \in told) => ("terminated" \in told' => closed \/ origin.start = "session")
      BY <1>0, <1>2, <1>7, <2>2, ReadDone
    <2>4. "terminated" \in told' => closed \/ impostor \/ origin.start = "session"
      BY <1>0, <2>3 DEF ResetInv, ResetOnlyByPeer
    <2>5. state' \in {"Handshake", "Active", "Terminated"}
      BY <1>0, <1>2, <1>7, <2>2, ReadDone
    <2>6. state' = "Active" => Established'
      BY <1>0, <1>2, <1>7, <2>2, ReadDone
    <2>7. acts = 0 /\ ~certified /\ ~botched /\ ~early => state = "Terminated"
      BY <1>0, <1>1 DEF CredentialsInv
    <2>8. Established => certified \/ botched \/ early
      BY <1>0 DEF SessionInv, Established
    <2>9. state = "Terminated" => Established
      BY <1>2
    <2> QED
      BY <1>0, <1>4, <1>7, <2>1, <2>4, <2>5, <2>6, <2>7, <2>8, <2>9 DEF SessionInv
  <1>8. read_buffer > 0 \/ origin.start = "session"
    BY <1>0 DEF ResetInv
  <1> QED
    BY <1>5, <1>6, <1>7, <1>8, Reading

-----------------------------------------------------------------------------
(* The steps outside handle_io. *)

(* poll puts Write before Read, and asks a transport in Init for Write only. *)
LEMMA PollBatch ==
    ASSUME StageInv, NEW readable \in BOOLEAN, poll(readable)
    PROVE  /\ batch' \in Batches /\ held = "reactor"
           /\ state = "Init" => batch' \in {<<>>, <<"Write">>}
           /\ state # "Terminated"
           /\ WriteInterest /\ room > 0 /\ batch' # <<>> => Head(batch') = "Write"
           /\ UNCHANGED <<origin, read_buffer, held, needs_flush, early, strayed, state,
                          write_intent, acts, spoken, certified, botched, verified, impostor,
                          write_buffer, accepted, wire, room, offered, inbox, sent, given,
                          closed, told>>
  <1>1. PICK w, r : /\ w \in BOOLEAN /\ r \in BOOLEAN
                    /\ w = (WriteInterest /\ room > 0) /\ r = (ReadInterest /\ readable)
    OBVIOUS
  <1>2. /\ held = "reactor" /\ (w \/ r)
        /\ batch' = (IF w THEN <<"Write">> ELSE <<>>) \o (IF r THEN <<"Read">> ELSE <<>>)
        /\ UNCHANGED <<origin, read_buffer, held, needs_flush, early, strayed, state,
                       write_intent, acts, spoken, certified, botched, verified, impostor,
                       write_buffer, accepted, wire, room, offered, inbox, sent, given,
                       closed, told>>
    <2>1. UNCHANGED <<origin, custody, state, write_intent, session, outgoing, incoming, told>>
      BY DEF poll
    <2>2. held = "reactor" /\ (w \/ r)
      BY <1>1 DEF poll
    <2>3. batch' = (IF w THEN <<"Write">> ELSE <<>>) \o (IF r THEN <<"Read">> ELSE <<>>)
      BY <1>1 DEF poll
    <2> QED
      BY <2>1, <2>2, <2>3 DEF custody, session, outgoing, incoming
  <1>3. held = "reactor"
    BY DEF poll
  <1>4. /\ w /\ r => batch' = <<"Write", "Read">>
        /\ w /\ ~r => batch' = <<"Write">>
        /\ ~w /\ r => batch' = <<"Read">>
    <2>1. /\ <<"Write">> \o <<"Read">> = <<"Write", "Read">>
          /\ <<"Write">> \o <<>> = <<"Write">> /\ <<>> \o <<"Read">> = <<"Read">>
      <3>1. PICK S : S = {"Read", "Write"}
        OBVIOUS
      <3>2. "Write" \in S /\ "Read" \in S
        BY <3>1
      <3>3. <<"Write">> \in Seq(S) /\ <<"Read">> \in Seq(S)
        BY <3>2
      <3>4. <<"Write">> \o <<"Read">> = Append(<<"Write">>, "Read")
        BY <3>2, <3>3, AppendIsConcat
      <3>5. Append(<<"Write">>, "Read") = <<"Write", "Read">>
        <4>1. PICK a : a = Append(<<"Write">>, "Read")
          OBVIOUS
        <4>2. Len(<<"Write">>) = 1 /\ <<"Write">>[1] = "Write"
          OBVIOUS
        <4>3. a \in Seq(S) /\ Len(a) = 2 /\ a[1] = "Write" /\ a[2] = "Read"
          BY <3>2, <3>3, <4>1, <4>2
        <4>4. PICK b : b = <<"Write", "Read">>
          OBVIOUS
        <4>5. b \in Seq(S) /\ Len(b) = 2 /\ b[1] = "Write" /\ b[2] = "Read"
          BY <3>2, <4>4
        <4>6. \A i \in 1..Len(a) : a[i] = b[i]
          BY <4>3, <4>5
        <4> QED
          BY <4>1, <4>3, <4>4, <4>5, <4>6, SeqEqual
      <3>6. <<"Write">> \o <<>> = <<"Write">> /\ <<>> \o <<"Read">> = <<"Read">>
        BY <3>3, ConcatEmptySeq
      <3> QED
        BY <3>4, <3>5, <3>6
    <2> QED
      BY <1>2, <2>1
  <1>5. state = "Init" => ~r
    BY <1>1 DEF ReadInterest
  <1>6. state # "Terminated"
    BY <1>1, <1>2 DEF ReadInterest, WriteInterest, poll
  <1>7. /\ batch' \in Batches
        /\ ~r => batch' \in {<<>>, <<"Write">>}
        /\ w /\ batch' # <<>> => Head(batch') = "Write"
    <2>1. w => Head(<<"Write", "Read">>) = "Write" /\ Head(<<"Write">>) = "Write"
      OBVIOUS
    <2>2. CASE w /\ r
      BY <1>4, <2>1, <2>2 DEF Batches
    <2>3. CASE w /\ ~r
      BY <1>4, <2>1, <2>3 DEF Batches
    <2>4. CASE ~w /\ r
      BY <1>4, <2>4 DEF Batches
    <2> QED
      BY <1>1, <1>2, <2>2, <2>3, <2>4
  <1> QED
    BY <1>1, <1>2, <1>3, <1>5, <1>6, <1>7

(* Steps that handle no readiness keep what was found out about the peer,   *)
(* and do not write while our credentials are not tried.                    *)
Aside ==
    /\ UNCHANGED <<origin, state, batch, told, acts, verified, impostor>>
    /\ certified => certified'
    /\ botched => botched'
    /\ early => early'
    /\ closed => closed'
    /\ held' = held \/ batch = <<>>
    /\ read_buffer' \in {read_buffer, 1}
    /\ ~certified' /\ ~early' =>
          /\ wire' = wire /\ (room' = room \/ room < MaxRoom) /\ held' # "halves"
          /\ write_intent' = write_intent

(* Writes, moves of the transport and moves of the peer are such steps.     *)
LEMMA AsideSteps ==
    ASSUME StageInv,
           write_atomic \/ owner \/ peer_reads \/ peer_sends \/ peer_closes \/ UNCHANGED vars
    PROVE  Aside
  <1>0. /\ ~certified /\ ~early => held # "halves"
        /\ held # "reactor" => batch = <<>>
        /\ held \in {"reactor", "owner", "halves", "dropped"}
        /\ certified \in BOOLEAN /\ botched \in BOOLEAN /\ early \in BOOLEAN
    BY DEF StageInv, CredentialsInv, BatchInv, TypeOK
  <1>1. CASE UNCHANGED vars
    BY <1>0, <1>1 DEF vars, Aside
  <1>2. CASE peer_reads \/ peer_sends \/ peer_closes
    BY <1>0, <1>2 DEF peer_reads, peer_sends, peer_closes, Aside, custody, session, outgoing, incoming
  <1>3. ASSUME NEW ok \in BOOLEAN, write_certifies(ok)
        PROVE  Aside
    <2>1. /\ certified' = (certified \/ ok)
          /\ botched' = (botched \/ ~(certified \/ ok))
      BY <1>3 DEF write_certifies, Certify
    <2>2. (certified => certified') /\ (botched => botched')
      BY <2>1
    <2>3. /\ UNCHANGED <<origin, state, batch, told, acts, verified, impostor, early, closed, held,
                         read_buffer, wire, room, write_intent>>
          /\ held # "halves"
      BY <1>3 DEF write_certifies, Offer, custody, incoming
    <2> QED
      BY <2>2, <2>3 DEF Aside
  <1>4. CASE write_not_ready \/ write_fails
    <2>1. /\ UNCHANGED <<origin, state, batch, told, acts, certified, botched, verified, impostor,
                         early, closed, held, read_buffer, wire, room, write_intent>>
          /\ held # "halves"
      BY <1>4 DEF write_not_ready, write_fails, Offer, custody, session, incoming
    <2> QED
      BY <2>1 DEF Aside
  <1>5. ASSUME NEW len, write_queued(len) \/ write_direct(len) \/ write_refused(len)
        PROVE  Aside
    <2>1. /\ UNCHANGED <<origin, state, batch, told, acts, certified, botched, verified, impostor,
                         early, closed, held, read_buffer, write_intent>>
          /\ certified
      BY <1>5 DEF write_queued, write_direct, write_refused, Offer, Passes, custody, session, incoming
    <2> QED
      BY <2>1 DEF Aside
  <1>6. CASE handover_transport \/ register_transport \/ disconnect \/ split_io_panics
    <2>1. /\ UNCHANGED <<origin, state, batch, told, acts, certified, botched, verified, impostor,
                         early, closed, read_buffer, wire, room, write_intent>>
          /\ held # "reactor" \/ batch = <<>>
          /\ held' # "halves"
      BY <1>6 DEF handover_transport, register_transport, disconnect, split_io_panics,
                  idle, session, outgoing, incoming
    <2> QED
      BY <1>0, <2>1 DEF Aside
  <1>7. CASE read \/ reader_read \/ reader_read_credentials \/ writer_flush
    <2>1. /\ UNCHANGED <<origin, state, batch, told, acts, certified, botched, verified, impostor,
                         early, closed, read_buffer, wire, room, write_intent, held>>
      BY <1>7 DEF read, reader_read, reader_read_credentials, writer_flush,
                  idle, session, outgoing, incoming, custody
    <2> QED
      BY <1>0, <2>1 DEF Aside
  <1>8. CASE split_io
    <2>1. /\ UNCHANGED <<origin, state, batch, told, acts, certified, botched, verified, impostor,
                         closed, read_buffer, wire, room>>
          /\ held = "owner" /\ early' = (early \/ ~Established \/ ~certified)
      BY <1>8 DEF split_io, idle, session, outgoing, incoming
    <2>2. (early => early') /\ (~certified => early')
      BY <2>1
    <2> QED
      BY <1>0, <2>1, <2>2 DEF Aside
  <1>9. CASE from_split_io
    <2>1. /\ UNCHANGED <<origin, state, batch, told, acts, certified, botched, verified, impostor,
                         early, closed, wire, room>>
          /\ held = "halves" /\ read_buffer' = 1
      BY <1>9 DEF from_split_io, idle, session, outgoing, incoming
    <2> QED
      BY <1>0, <2>1 DEF Aside
  <1>10. ASSUME NEW len, writer_write(len)
         PROVE  Aside
    <2>1. /\ UNCHANGED <<origin, state, batch, told, acts, certified, botched, verified, impostor,
                         early, closed, read_buffer, held>>
          /\ held = "halves"
      BY <1>10 DEF writer_write, idle, session, incoming
    <2> QED
      BY <1>0, <2>1 DEF Aside
  <1> QED
    BY <1>1, <1>2, <1>3, <1>4, <1>5, <1>6, <1>7, <1>8, <1>9, <1>10 DEF write_atomic, owner

(* They keep the parts of the invariant, and so does poll.                  *)
LEMMA ElsewhereKeeps ==
    ASSUME StageInv, Aside \/ \E readable \in BOOLEAN : poll(readable)
    PROVE  BatchInv' /\ SessionInv' /\ CredentialsInv' /\ ResetInv'
  <1>0. /\ BatchInv /\ SessionInv /\ CredentialsInv /\ ResetInv /\ room \in 0..MaxRoom
        /\ MaxRoom > 0 /\ MaxRoom \in Nat
    BY NetResourceAssumption DEF StageInv, TypeOK
  <1>1. ASSUME NEW readable \in BOOLEAN, poll(readable)
        PROVE  BatchInv' /\ SessionInv' /\ CredentialsInv' /\ ResetInv'
    <2>1. /\ batch' \in Batches /\ held = "reactor"
          /\ state = "Init" => batch' \in {<<>>, <<"Write">>}
          /\ state # "Terminated"
          /\ WriteInterest /\ room > 0 /\ batch' # <<>> => Head(batch') = "Write"
          /\ UNCHANGED <<origin, read_buffer, held, early, state, write_intent, acts, certified,
                         botched, verified, impostor, wire, room, closed, told>>
      BY <1>1, PollBatch
    <2>2. BatchInv'
      BY <2>1 DEF BatchInv
    <2>3. SessionInv'
      BY <1>0, <2>1 DEF SessionInv, Established, Plain
    <2>4. CredentialsInv'
      BY <1>0, <2>1 DEF CredentialsInv, WriteInterest
    <2>5. ResetInv'
      BY <1>0, <2>1 DEF ResetInv, ResetOnlyByPeer
    <2> QED
      BY <2>2, <2>3, <2>4, <2>5
  <1>2. CASE Aside
    <2>1. Established' <=> Established
      BY <1>2 DEF Aside, Established, Plain
    <2>2. BatchInv'
      BY <1>0, <1>2, <2>1 DEF BatchInv, Aside
    <2>3. SessionInv'
      BY <1>0, <1>2, <2>1 DEF SessionInv, Aside, Plain
    <2>4. CredentialsInv'
      BY <1>0, <1>2 DEF CredentialsInv, Aside
    <2>5. ResetInv'
      BY <1>0, <1>2 DEF ResetInv, ResetOnlyByPeer, Aside
    <2> QED
      BY <2>2, <2>3, <2>4, <2>5
  <1> QED
    BY <1>1, <1>2

-----------------------------------------------------------------------------
(* The types. *)

(* The types of the variables handle_io changes or the socket limits; those *)
(* of the write path are part of WriteInv.                                  *)
FlagTypes ==
    /\ spoken \in BOOLEAN /\ certified \in BOOLEAN /\ botched \in BOOLEAN /\ verified \in BOOLEAN
    /\ impostor \in BOOLEAN /\ closed \in BOOLEAN /\ write_intent \in BOOLEAN
    /\ needs_flush \in BOOLEAN /\ early \in BOOLEAN /\ strayed \in BOOLEAN

ValueTypes ==
    /\ origin \in Origins
    /\ state \in {"Init", "Handshake", "Active", "Terminated"}
    /\ acts \in 0..2 /\ read_buffer \in {0, 1}
    /\ held \in {"reactor", "owner", "halves", "dropped"}
    /\ told \subseteq {"established", "data", "terminated", "error"}
    /\ room \in 0..MaxRoom

ChunkTypes ==
    /\ inbox \in 0..MaxInput /\ sent \in 0..MaxInput /\ given \in 0..MaxInput
    /\ given + inbox <= sent

(* Together they are the type invariant.                                    *)
LEMMA TypeParts ==
    /\ TypeOK /\ given + inbox <= sent => FlagTypes /\ ValueTypes /\ ChunkTypes /\ WriteTypes
    /\ FlagTypes /\ ValueTypes /\ ChunkTypes /\ WriteTypes /\ batch \in Batches
          => TypeOK /\ given + inbox <= sent
  <1>1. \A x \in Batches : x \in Seq({"Read", "Write"})
    <2>1. PICK S : S = {"Read", "Write"}
      OBVIOUS
    <2>2. "Write" \in S /\ "Read" \in S
      BY <2>1
    <2>3. <<>> \in Seq(S) /\ <<"Write">> \in Seq(S) /\ <<"Read">> \in Seq(S)
      BY <2>2
    <2>4. <<"Write", "Read">> \in Seq(S)
      BY <2>2
    <2> QED
      BY <2>1, <2>3, <2>4 DEF Batches
  <1>2. TypeOK /\ given + inbox <= sent => FlagTypes /\ ValueTypes /\ ChunkTypes /\ WriteTypes
    BY DEF TypeOK, FlagTypes, ValueTypes, ChunkTypes, WriteTypes
  <1>3. FlagTypes /\ ValueTypes /\ ChunkTypes /\ WriteTypes /\ batch \in Batches
          => TypeOK /\ given + inbox <= sent
    BY <1>1 DEF TypeOK, FlagTypes, ValueTypes, ChunkTypes, WriteTypes
  <1> QED
    BY <1>2, <1>3

(* handle_io keeps them.                                                    *)
LEMMA HandleIoTypes ==
    ASSUME StageInv, handle_io
    PROVE  FlagTypes' /\ ValueTypes' /\ ChunkTypes'
  <1>0. FlagTypes /\ ValueTypes /\ ChunkTypes /\ MaxInput \in Nat /\ BatchInv
    BY TypeParts, NetResourceAssumption DEF StageInv
  <1>1. ASSUME NEW ok \in BOOLEAN, handle_writable_handshake(ok)
        PROVE  FlagTypes' /\ ValueTypes' /\ ChunkTypes'
    <2>1. /\ IoKeeps /\ state' = "Handshake" /\ told' = told /\ given' = given /\ inbox' = inbox
          /\ write_intent' \in BOOLEAN /\ UNCHANGED <<acts, verified, impostor>>
          /\ spoken' \in BOOLEAN /\ certified' \in BOOLEAN /\ botched' \in BOOLEAN
      BY <1>1, WritableHandshake
    <2>2. FlagTypes'
      BY <1>0, <2>1 DEF FlagTypes, IoKeeps
    <2>3. ValueTypes' /\ ChunkTypes'
      BY <1>0, <2>1 DEF ValueTypes, ChunkTypes, IoKeeps
    <2> QED
      BY <2>2, <2>3
  <1>2. ASSUME NEW f, handle_writable_flush(f)
        PROVE  FlagTypes' /\ ValueTypes' /\ ChunkTypes'
    <2>1. /\ IoKeeps /\ state' \in {"Active", "Terminated"}
          /\ told' \subseteq told \cup {"error", "established"}
          /\ UNCHANGED <<acts, spoken, certified, botched, verified, impostor, inbox, given>>
          /\ write_intent' \in BOOLEAN
      <3>1. state \in {"Init", "Handshake", "Active"}
        BY <1>0, <1>2, WritableFlush DEF ValueTypes
      <3> QED
        BY <1>2, <3>1, WritableFlush
    <2>2. FlagTypes'
      BY <1>0, <2>1 DEF FlagTypes, IoKeeps
    <2>3. ValueTypes' /\ ChunkTypes'
      BY <1>0, <2>1 DEF ValueTypes, ChunkTypes, IoKeeps
    <2> QED
      BY <2>2, <2>3
  <1>3. CASE \/ read_act
             \/ \E wrong \in BOOLEAN : read_credentials(wrong)
             \/ \E answer \in {"block", "error", "reset"} : read_nothing(answer)
             \/ read_session
    <2>1. /\ Handling("Read") /\ UNCHANGED <<spoken, certified, botched>>
          /\ acts' \in 0..2 /\ verified' \in BOOLEAN /\ impostor' \in BOOLEAN
      <3>1. Handling("Read") /\ UNCHANGED <<spoken, certified, botched>>
        BY <1>3, Reading
      <3>0. acts' = acts \/ (acts > 0 /\ acts' = acts - 1)
        BY <1>3, Reading
      <3>2. acts' \in 0..2
        BY <1>0, <3>0 DEF ValueTypes
      <3>3. verified' \in BOOLEAN /\ impostor' \in BOOLEAN
        BY <1>0, <1>3, Reading DEF FlagTypes
      <3> QED
        BY <3>1, <3>2, <3>3
    <2>2. PICK answer \in {"block", "error", "reset", "data", "zero"} :
             /\ Readable(answer)
             /\ inbox' = inbox \/ inbox' \in 0..inbox - 1
      BY <1>3, Reading
    <2>3. /\ IoKeeps /\ state' \in {"Handshake", "Active", "Terminated"}
          /\ write_intent' \in BOOLEAN
          /\ told' \subseteq told \cup {"established", "data", "terminated", "error"}
          /\ given' = given \/ given' = given + inbox - inbox'
      <3>1. state \in {"Init", "Handshake", "Active", "Terminated"}
        BY <1>0 DEF ValueTypes
      <3> QED
        BY <1>0, <2>1, <2>2, <3>1, ReadDone
    <2>4. FlagTypes'
      BY <1>0, <2>1, <2>3 DEF FlagTypes, IoKeeps
    <2>5. ValueTypes'
      BY <1>0, <2>1, <2>3 DEF ValueTypes, IoKeeps
    <2>6. ChunkTypes'
      BY <1>0, <2>2, <2>3 DEF ChunkTypes, IoKeeps
    <2> QED
      BY <2>4, <2>5, <2>6
  <1> QED
    BY <1>1, <1>2, <1>3 DEF handle_io

(* What a write takes from the room of the socket was there.                *)
LEMMA RoomLeft ==
    ASSUME StageInv, write_atomic \/ \E len \in 1..MaxLength : writer_write(len)
    PROVE  room' \in 0..MaxRoom
  <1>0. /\ room \in 0..MaxRoom /\ MaxRoom \in Nat /\ MaxLength \in Nat
        /\ write_buffer \in Seq(Byte) /\ Len(write_buffer) \in Nat
    BY NetResourceAssumption DEF StageInv, TypeOK
  <1>1. ASSUME NEW x, NEW rm \in Int, rm >= 0, NEW k \in Takes(x, rm)
        PROVE  k \in Nat /\ k <= rm
    BY <1>1 DEF Takes
  <1>2. CASE write_not_ready \/ write_fails \/ \E ok \in BOOLEAN : write_certifies(ok)
    BY <1>0, <1>2 DEF write_not_ready, write_fails, write_certifies
  <1>3. ASSUME NEW len \in 1..MaxLength, write_queued(len)
        PROVE  room' \in 0..MaxRoom
    <2>1. PICK k \in Takes(write_buffer, room) : room' = room - k
      BY <1>3 DEF write_queued
    <2> QED
      BY <1>0, <1>1, <2>1
  <1>4. ASSUME NEW len \in 1..MaxLength, write_direct(len)
        PROVE  room' \in 0..MaxRoom
    <2>1. Len(write_buffer) <= room
      BY <1>0, <1>1, <1>4 DEF write_direct
    <2>2. PICK k \in Takes(Message(offered + 1, len), room - Len(write_buffer)) :
             room' = room - Len(write_buffer) - k
      BY <1>4 DEF write_direct
    <2>3. k \in Nat /\ k <= room - Len(write_buffer)
      BY <1>0, <1>1, <2>1, <2>2
    <2> QED
      BY <1>0, <2>1, <2>2, <2>3
  <1>5. ASSUME NEW len \in 1..MaxLength, write_refused(len)
        PROVE  room' \in 0..MaxRoom
    <2>1. Len(write_buffer) <= room /\ room' = room - Len(write_buffer)
      BY <1>0, <1>1, <1>5 DEF write_refused
    <2> QED
      BY <1>0, <2>1
  <1>6. ASSUME NEW len \in 1..MaxLength, writer_write(len)
        PROVE  room' \in 0..MaxRoom
    BY <1>0, <1>6 DEF writer_write
  <1> QED
    BY <1>2, <1>3, <1>4, <1>5, <1>6 DEF write_atomic

(* Chunks taken from the inbox and given.                                   *)
LEMMA Taken ==
    ASSUME NEW n \in Nat, NEW i \in 0..n, NEW s \in 0..n, NEW g \in 0..n, g + i <= s,
           NEW j \in 0..i - 1
    PROVE  /\ j \in 0..n /\ g + i - j \in 0..n /\ (g + i - j) + j <= s
  OBVIOUS

(* The other steps keep the types.                                          *)
LEMMA ElsewhereTypes ==
    ASSUME StageInv,
           \/ \E readable \in BOOLEAN : poll(readable)
           \/ write_atomic \/ owner \/ peer_reads \/ peer_sends \/ peer_closes \/ UNCHANGED vars
    PROVE  FlagTypes' /\ ValueTypes' /\ ChunkTypes'
  <1>0. /\ FlagTypes /\ ValueTypes /\ ChunkTypes
        /\ MaxInput \in Nat /\ MaxRoom \in Nat
    BY TypeParts, NetResourceAssumption DEF StageInv
  <1>1. ASSUME NEW readable \in BOOLEAN, poll(readable)
        PROVE  FlagTypes' /\ ValueTypes' /\ ChunkTypes'
    <2>1. UNCHANGED <<origin, read_buffer, held, needs_flush, early, strayed, state,
                      write_intent, acts, spoken, certified, botched, verified, impostor,
                      room, inbox, sent, given, closed, told>>
      BY <1>1, PollBatch
    <2> QED
      BY <1>0, <2>1 DEF FlagTypes, ValueTypes, ChunkTypes
  <1>2. CASE UNCHANGED vars
    BY <1>0, <1>2 DEF vars, FlagTypes, ValueTypes, ChunkTypes
  <1>3. CASE write_atomic
    <2>1. room' \in 0..MaxRoom
      BY <1>3, RoomLeft
    <2>2. /\ UNCHANGED <<origin, read_buffer, held, needs_flush, early, strayed, state,
                         write_intent, acts, spoken, verified, impostor,
                         inbox, sent, given, closed, told>>
      BY <1>3 DEF write_atomic, write_not_ready, write_fails, write_certifies, write_queued,
                  write_direct, write_refused, Offer, custody, session, incoming
    <2>3. certified' \in BOOLEAN /\ botched' \in BOOLEAN
      <3>1. CASE UNCHANGED session
        BY <1>0, <3>1 DEF session, FlagTypes
      <3>2. ASSUME NEW ok \in BOOLEAN, write_certifies(ok)
            PROVE  certified' \in BOOLEAN /\ botched' \in BOOLEAN
        BY <3>2 DEF write_certifies, Certify
      <3> QED
        BY <1>3, <3>1, <3>2 DEF write_atomic, write_not_ready, write_fails, write_queued,
                                write_direct, write_refused
    <2>4. FlagTypes'
      BY <1>0, <2>2, <2>3 DEF FlagTypes
    <2>5. ValueTypes' /\ ChunkTypes'
      BY <1>0, <2>1, <2>2 DEF ValueTypes, ChunkTypes
    <2> QED
      BY <2>4, <2>5
  <1>4. CASE handover_transport \/ register_transport \/ disconnect \/ split_io_panics
             \/ split_io \/ from_split_io \/ writer_flush \/ reader_read_credentials
    <2>1. /\ UNCHANGED <<origin, state, acts, spoken, certified, botched, verified, impostor,
                         room, inbox, sent, given, closed, told>>
          /\ held' \in {"reactor", "owner", "halves", "dropped"}
          /\ read_buffer' \in {read_buffer, 1}
      BY <1>0, <1>4 DEF handover_transport, register_transport, disconnect, split_io_panics,
                  split_io, from_split_io, writer_flush, reader_read_credentials,
                  idle, session, outgoing, incoming, ValueTypes
    <2>2. write_intent' \in BOOLEAN /\ needs_flush' \in BOOLEAN
      BY <1>0, <1>4 DEF handover_transport, register_transport, disconnect, split_io_panics,
                  split_io, from_split_io, writer_flush, reader_read_credentials, FlagTypes
    <2>3. early' \in BOOLEAN /\ strayed' \in BOOLEAN
      BY <1>0, <1>4 DEF handover_transport, register_transport, disconnect, split_io_panics,
                  split_io, from_split_io, writer_flush, reader_read_credentials, FlagTypes
    <2>4. FlagTypes'
      BY <1>0, <2>1, <2>2, <2>3 DEF FlagTypes
    <2>5. ValueTypes' /\ ChunkTypes'
      BY <1>0, <2>1 DEF ValueTypes, ChunkTypes
    <2> QED
      BY <2>4, <2>5
  <1>5. CASE read \/ reader_read
    <2>1. /\ UNCHANGED <<origin, read_buffer, held, needs_flush, early, strayed, state,
                         write_intent, acts, spoken, certified, botched, verified, impostor,
                         room, sent, closed, told>>
          /\ inbox' \in 0..inbox - 1 /\ given' = given + inbox - inbox'
      BY <1>5 DEF read, reader_read, idle, session, outgoing, custody
    <2>2. FlagTypes' /\ ValueTypes'
      BY <1>0, <2>1 DEF FlagTypes, ValueTypes
    <2>3. ChunkTypes'
      <3>1. /\ inbox \in 0..MaxInput /\ sent \in 0..MaxInput /\ given \in 0..MaxInput
            /\ given + inbox <= sent
        BY <1>0 DEF ChunkTypes
      <3>2. /\ inbox' \in 0..MaxInput /\ given' \in 0..MaxInput /\ given' + inbox' <= sent
        BY <1>0, <2>1, <3>1, Taken
      <3> QED
        BY <2>1, <3>1, <3>2 DEF ChunkTypes
    <2> QED
      BY <2>2, <2>3
  <1>6. ASSUME NEW len \in 1..MaxLength, writer_write(len)
        PROVE  FlagTypes' /\ ValueTypes' /\ ChunkTypes'
    <2>1. room' \in 0..MaxRoom
      BY <1>6, RoomLeft
    <2>2. /\ UNCHANGED <<origin, read_buffer, held, early, strayed, state, write_intent, acts,
                         spoken, certified, botched, verified, impostor, inbox, sent, given,
                         closed, told>>
          /\ needs_flush' = TRUE
      BY <1>6 DEF writer_write, idle, session, incoming
    <2>3. FlagTypes'
      BY <1>0, <2>2 DEF FlagTypes
    <2>4. ValueTypes' /\ ChunkTypes'
      BY <1>0, <2>1, <2>2 DEF ValueTypes, ChunkTypes
    <2> QED
      BY <2>3, <2>4
  <1>7. CASE peer_reads \/ peer_sends \/ peer_closes
    <2>1. UNCHANGED <<origin, read_buffer, held, needs_flush, early, strayed, state,
                      write_intent, acts, spoken, certified, botched, verified, impostor, told>>
      BY <1>7 DEF peer_reads, peer_sends, peer_closes, custody, session
    <2>2. closed' \in BOOLEAN
      BY <1>0, <1>7 DEF peer_reads, peer_sends, peer_closes, incoming, FlagTypes
    <2>3. room' \in 0..MaxRoom
      BY <1>0, <1>7 DEF peer_reads, peer_sends, peer_closes, outgoing, ValueTypes
    <2>4. ChunkTypes'
      BY <1>0, <1>7 DEF peer_reads, peer_sends, peer_closes, incoming, ChunkTypes
    <2>5. FlagTypes'
      BY <1>0, <2>1, <2>2 DEF FlagTypes
    <2>6. ValueTypes'
      BY <1>0, <2>1, <2>3 DEF ValueTypes
    <2> QED
      BY <2>4, <2>5, <2>6
  <1> QED
    BY <1>1, <1>2, <1>3, <1>4, <1>5, <1>6, <1>7 DEF owner

-----------------------------------------------------------------------------
(* The invariant of the session. *)

(* A new transport, however it was made.                                    *)
LEMMA StageInit ==
    ASSUME Init
    PROVE  StageInv
  <1> USE NetResourceAssumption
  <1>1. /\ origin.kind \in {"noise", "plain"}
        /\ origin.start \in {"accepted", "connecting", "blocking", "session"}
    BY DEF Init
  <1>2. /\ origin \in Origins /\ batch = <<>> /\ told = {} /\ held = "reactor"
        /\ room = MaxRoom /\ inbox = 0 /\ sent = 0 /\ given = 0
        /\ write_intent = FALSE /\ botched = FALSE /\ impostor = FALSE /\ closed = FALSE
        /\ needs_flush = FALSE /\ early = FALSE /\ strayed = FALSE
        /\ wire = <<>> /\ read_buffer = IF origin.start = "session" THEN 0 ELSE 1
    BY DEF Init
  <1>3. /\ state \in {"Init", "Handshake", "Active"}
        /\ state = "Active" => origin.start = "session"
    BY <1>1 DEF Init
  <1>4. /\ acts \in 0..2
        /\ Plain \/ origin.start \in {"blocking", "session"} => acts = 0
        /\ ~Plain /\ origin.start \in {"accepted", "connecting"} => acts \in {1, 2}
    BY <1>1 DEF Init
  <1>5. /\ spoken \in BOOLEAN /\ certified \in BOOLEAN /\ verified \in BOOLEAN
    BY DEF Init
  <1>6. /\ certified <=> Plain \/ origin.start \in {"blocking", "session"}
        /\ verified <=> certified
    BY DEF Init
  <1>7. FlagTypes
    BY <1>2, <1>5 DEF FlagTypes
  <1>8. ValueTypes /\ ChunkTypes
    BY <1>2, <1>3, <1>4 DEF ValueTypes, ChunkTypes
  <1>9. batch \in Batches /\ WriteTypes
    BY <1>2, WriteInit DEF Batches, WriteInv
  <1>10. TypeOK /\ given + inbox <= sent
    BY <1>7, <1>8, <1>9, TypeParts
  <1>11. BatchInv
    BY <1>2, <1>3, <1>9 DEF BatchInv
  <1>12. SessionInv
    BY <1>1, <1>2, <1>3, <1>4, <1>6 DEF SessionInv, Established
  <1>13. CredentialsInv
    BY <1>1, <1>2, <1>4, <1>6 DEF CredentialsInv
  <1>14. ResetInv
    BY <1>2 DEF ResetInv, ResetOnlyByPeer
  <1> QED
    BY <1>10, <1>11, <1>12, <1>13, <1>14 DEF StageInv

(* Every step keeps it.                                                     *)
LEMMA StageNext ==
    ASSUME StageInv, WriteInv, [Next]_vars
    PROVE  StageInv'
  <1>1. WriteTypes'
    BY WriteStep DEF WriteInv
  <1>2. FlagTypes' /\ ValueTypes' /\ ChunkTypes'
    BY HandleIoTypes, ElsewhereTypes DEF Next
  <1>3. BatchInv' /\ SessionInv' /\ CredentialsInv' /\ ResetInv'
    <2>1. CASE handle_io
      BY <2>1, WritableKeeps, ReadableKeeps DEF handle_io
    <2>2. CASE ~handle_io
      BY <2>2, AsideSteps, ElsewhereKeeps DEF Next
    <2> QED
      BY <2>1, <2>2
  <1>4. (batch \in Batches)'
    BY <1>3 DEF BatchInv
  <1>5. FlagTypes' /\ ValueTypes' /\ ChunkTypes' /\ WriteTypes' /\ (batch \in Batches)'
          => TypeOK' /\ (given + inbox <= sent)'
    BY TypeParts, PTL
  <1> QED
    BY <1>1, <1>2, <1>3, <1>4, <1>5 DEF StageInv

-----------------------------------------------------------------------------
(* Transports that enter the reactor before their session is established,   *)
(* or active. *)

(* Constructors after which state and session agree: new of a session that  *)
(* is still to be established, connect_nonblocking and with_session.        *)
Agreeing == \A o \in Origins : /\ o.start # "blocking"
                               /\ o.kind = "plain" => o.start # "accepted"

(* Such a transport starts that way.                                        *)
LEMMA FreshInit ==
    ASSUME Init, Agreeing
    PROVE  FreshInv
  <1>1. /\ origin.kind \in {"noise", "plain"} /\ origin.start # "blocking"
        /\ origin.start \in {"accepted", "connecting", "session"}
        /\ origin.kind = "plain" => origin.start # "accepted"
    BY NetResourceAssumption DEF Init, Agreeing
  <1>2. /\ state = "Handshake" => origin.start = "accepted"
        /\ state = "Active" => origin.start = "session"
        /\ state \in {"Init", "Handshake", "Active"}
    BY <1>1 DEF Init
  <1>3. origin.start = "accepted" => acts = 2 /\ ~Plain
    BY <1>1 DEF Init, Plain
  <1>4. told = {} /\ given = 0 /\ sent = 0 /\ inbox = 0
    BY DEF Init
  <1> QED
    BY <1>2, <1>3, <1>4 DEF FreshInv, Established, InputGiven

(* Steps outside handle_io keep the state, the events told and the account  *)
(* of the input.                                                            *)
LEMMA ElsewhereFresh ==
    ASSUME StageInv, FreshInv,
           \/ \E readable \in BOOLEAN : poll(readable)
           \/ write_atomic \/ owner \/ peer_reads \/ peer_sends \/ peer_closes \/ UNCHANGED vars
    PROVE  FreshInv'
  <1>0. inbox \in Nat /\ sent \in Nat /\ given \in Nat
    BY DEF StageInv, TypeOK
  <1>1. /\ UNCHANGED <<origin, state, told, acts, verified>>
        /\ state = "Terminated" => batch' = batch
    BY AsideSteps, PollBatch DEF Aside
  <1>2. given' = sent' - inbox'
    <2>1. given = sent - inbox
      BY DEF FreshInv, InputGiven
    <2>2. CASE UNCHANGED <<inbox, sent, given>>
      BY <2>1, <2>2
    <2>3. CASE read \/ reader_read
      <3>1. inbox' \in 0..inbox - 1 /\ given' = given + inbox - inbox' /\ sent' = sent
        BY <2>3 DEF read, reader_read
      <3> QED
        BY <1>0, <2>1, <3>1
    <2>4. CASE peer_sends
      BY <1>0, <2>1, <2>4 DEF peer_sends
    <2>5. CASE ~(read \/ reader_read \/ peer_sends)
      <3>1. CASE \E readable \in BOOLEAN : poll(readable)
        BY <2>2, <3>1, PollBatch
      <3>2. CASE write_atomic
        BY <2>2, <3>2 DEF write_atomic, write_not_ready, write_fails, write_certifies,
                          write_queued, write_direct, write_refused, Offer, incoming
      <3>3. CASE owner
        BY <2>2, <2>5, <3>3 DEF owner, handover_transport, register_transport, disconnect,
                  split_io_panics, split_io, from_split_io, writer_flush,
                  reader_read_credentials, writer_write, incoming
      <3>4. CASE peer_reads \/ peer_closes \/ UNCHANGED vars
        BY <2>2, <3>4 DEF peer_reads, peer_closes, incoming, vars
      <3> QED
        BY <2>5, <3>1, <3>2, <3>3, <3>4
    <2> QED
      BY <2>3, <2>4, <2>5
  <1>3. Established' <=> Established
    BY <1>1 DEF Established, Plain
  <1> QED
    BY <1>1, <1>2, <1>3 DEF FreshInv, InputGiven

(* handle_io keeps it: data is read only once the session is active, so     *)
(* that completing the handshake replaces no answer that carried data.      *)
LEMMA HandleIoFresh ==
    ASSUME StageInv, FreshInv, handle_io
    PROVE  FreshInv'
  <1>0. /\ inbox \in Nat /\ sent \in Nat /\ given \in Nat /\ acts \in 0..2
        /\ state \in {"Init", "Handshake", "Active", "Terminated"}
        /\ BatchInv /\ SessionInv /\ given = sent - inbox
        /\ state = "Handshake" => ~Established
    BY DEF StageInv, TypeOK, FreshInv, InputGiven
  <1>1. ASSUME NEW ok \in BOOLEAN, handle_writable_handshake(ok)
        PROVE  FreshInv'
    <2>1. /\ IoKeeps /\ state' = "Handshake" /\ told' = told /\ given' = given /\ inbox' = inbox
          /\ UNCHANGED <<acts, verified>> /\ ~Established
      BY <1>1, WritableHandshake
    <2>2. ~Established'
      BY <2>1 DEF Established, Plain, IoKeeps
    <2> QED
      BY <1>0, <2>1, <2>2 DEF FreshInv, InputGiven, IoKeeps
  <1>2. ASSUME NEW f, handle_writable_flush(f)
        PROVE  FreshInv'
    <2>1. /\ IoKeeps /\ given' = given /\ inbox' = inbox /\ Established
          /\ state # "Terminated"
          /\ state = "Init" => batch' = <<>>
          /\ f = "error" => state' = "Terminated" /\ told' = told \cup {"error"}
          /\ f # "error" => /\ state' = "Active"
                            /\ state \in {"Init", "Handshake"} => told' = told \cup {"established"}
                            /\ state = "Active" => told' = told
      BY <1>2, WritableFlush
    <2>2. state \in {"Init", "Active"}
      BY <1>0, <2>1
    <2>3. /\ state = "Active" => origin.start = "session" \/ "established" \in told
          /\ "data" \in told => origin.start = "session" \/ "established" \in told
      BY DEF FreshInv, InputGiven
    <2> QED
      BY <1>0, <2>1, <2>2, <2>3 DEF FreshInv, InputGiven, IoKeeps
  <1>3. CASE \/ read_act
             \/ \E wrong \in BOOLEAN : read_credentials(wrong)
             \/ \E answer \in {"block", "error", "reset"} : read_nothing(answer)
             \/ read_session
    <2>0. /\ Handling("Read")
          /\ state = "Active" \/ state = "Terminated" =>
                origin.start = "session" \/ "established" \in told
          /\ "data" \in told => origin.start = "session" \/ "established" \in told
          /\ state = "Terminated" => Established
      BY <1>0, <1>3, Reading DEF FreshInv, InputGiven, BatchInv, Handling
    <2>1. ASSUME NEW answer, Readable(answer), answer \in {"block", "error", "reset", "zero"},
                 inbox' = inbox
          PROVE  FreshInv'
      <3>1. IoKeeps /\ batch' = <<>> /\ state # "Init"
        BY <1>0, <2>0, <2>1, ReadDone
      <3>2. given' = given
        BY <1>0, <2>0, <2>1, <3>1, ReadDone
      <3>3. state' = "Handshake" => ~Established'
        BY <1>0, <2>0, <2>1, <3>1, ReadDone
      <3>4. state' = "Active" => state = "Active" \/ "established" \in told'
        BY <1>0, <2>0, <2>1, <3>1, ReadDone
      <3>5. "data" \in told' => "data" \in told
        BY <1>0, <2>0, <2>1, <3>1, ReadDone
      <3>6. told \subseteq told'
        BY <1>0, <2>0, <2>1, <3>1, ReadDone
      <3> QED
        BY <1>0, <2>0, <2>1, <3>1, <3>2, <3>3, <3>4, <3>5, <3>6 DEF FreshInv, InputGiven, IoKeeps
    <2>2. ASSUME Readable("data"), Established, inbox > 0, inbox' \in 0..inbox - 1
          PROVE  FreshInv'
      <3>1. state \in {"Active", "Terminated"}
        BY <1>0, <2>0, <2>2, ReadDone
      <3>2. /\ IoKeeps /\ batch' = <<>> /\ state' = state /\ told' = told \cup {"data"}
            /\ given' = given + inbox - inbox'
        BY <1>0, <2>0, <2>2, <3>1, ReadDone
      <3>3. given' = sent - inbox'
        BY <1>0, <2>2, <3>2
      <3> QED
        BY <2>0, <3>1, <3>2, <3>3 DEF FreshInv, InputGiven, IoKeeps
    <2> QED
      BY <1>3, <2>1, <2>2, Reading
  <1> QED
    BY <1>1, <1>2, <1>3 DEF handle_io

-----------------------------------------------------------------------------
(* The theorems about the session. *)

(* The invariant of all transports.                                         *)
LEMMA Staged == Spec => [](StageInv /\ WriteInv)
  <1>1. Init => StageInv /\ WriteInv
    BY StageInit, WriteInit
  <1>2. StageInv /\ WriteInv /\ [Next]_vars => StageInv' /\ WriteInv'
    BY StageNext, WriteStep
  <1> QED
    BY <1>1, <1>2, PTL DEF Spec

(* Every variable ranges over its type: no write takes more room than the   *)
(* socket has and no read more than was sent.                               *)
THEOREM TransportTypes == Spec => []TypeOK
  <1>1. StageInv => TypeOK
    BY DEF StageInv
  <1> QED
    BY Staged, <1>1, PTL

(* However a transport was made, our credentials are out by the time its    *)
(* session is active and before any data, unless sending them failed or the *)
(* transport was split too early.                                           *)
THEOREM CredentialsFirst == Spec => []ActiveMeansCertified
  <1>1. StageInv => ActiveMeansCertified
    BY DEF StageInv, SessionInv, CredentialsInv, ActiveMeansCertified, Established
  <1> QED
    BY Staged, <1>1, PTL

(* A reset is reported only when the peer has closed, is not the one        *)
(* dialled, or the transport was made with an empty read buffer.            *)
THEOREM ResetsAreReal == Spec => []ResetOnlyByPeer
  <1>1. StageInv => ResetOnlyByPeer
    BY DEF StageInv, ResetInv
  <1> QED
    BY Staged, <1>1, PTL

(* Of transports whose state agrees with their session to begin with, no    *)
(* input is lost, and Established is told before data.                      *)
THEOREM NoInputLost ==
    ASSUME Agreeing
    PROVE  Spec => []InputGiven
  <1>1. Init => FreshInv
    BY FreshInit
  <1>2. StageInv /\ FreshInv /\ [Next]_vars => FreshInv'
    BY HandleIoFresh, ElsewhereFresh DEF Next
  <1>3. FreshInv => InputGiven
    BY DEF FreshInv
  <1> QED
    BY Staged, <1>1, <1>2, <1>3, PTL DEF Spec

(* For the same transports the assertions of handle_io hold whenever there  *)
(* is readiness to handle.                                                  *)
THEOREM HandleIoAssertions ==
    ASSUME Agreeing
    PROVE  Spec => []AssertionsHold
  <1>1. Init => FreshInv
    BY FreshInit
  <1>2. StageInv /\ FreshInv /\ [Next]_vars => FreshInv'
    BY HandleIoFresh, ElsewhereFresh DEF Next
  <1>3. StageInv /\ FreshInv => AssertionsHold
    BY DEF StageInv, BatchInv, FreshInv, AssertionsHold
  <1> QED
    BY Staged, <1>1, <1>2, <1>3, PTL DEF Spec
=============================================================================
