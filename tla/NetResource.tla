----------------------------- MODULE NetResource -----------------------------
(***************************************************************************)
(* The transport resource of netservices (src/resources.rs, NetResource)    *)
(* between the reactor, which hands it I/O readiness and data to write, and *)
(* a session: a plain connection (src/session.rs) or a Noise XK session     *)
(* whose handshake is followed by an exchange of credentials                *)
(* (src/noise.rs, src/auth.rs).                                             *)
(*                                                                         *)
(* A service may take the transport out of the reactor, read and write it   *)
(* itself, split it into a reader and a writer, join them again and register *)
(* the result. Debug assertions are on: where one fails the code panics.    *)
(*                                                                         *)
(* Bytes are named after the message they belong to. The peer and the       *)
(* socket are the environment: `room` is what the socket still takes.       *)
(***************************************************************************)
EXTENDS Naturals, Sequences, FiniteSets

CONSTANTS
    Origins,        \* how the transport was made: [kind, start] records
    FlushOutcomes,  \* what Write::flush of the connection may answer
    Handovers,      \* whether the service takes the transport out of the reactor
    MaxMessages,    \* bound: messages the service tries to write
    MaxLength,      \* bound: bytes of a message
    MaxRoom,        \* bound: bytes the socket takes without being drained
    MaxInput        \* bound: chunks of data the peer sends

ASSUME NetResourceAssumption ==
    /\ Origins \subseteq [kind : {"noise", "plain"},
                          start : {"accepted", "connecting", "blocking", "session"}]
    /\ FlushOutcomes \subseteq {"ok", "block", "error"}
    /\ Handovers \in BOOLEAN
    /\ MaxMessages \in Nat /\ MaxLength \in Nat
    /\ MaxRoom \in Nat \ {0} /\ MaxInput \in Nat

VARIABLES
    origin,         \* which constructor made the transport
    state,          \* NetResource::state
    write_intent,   \* NetResource::write_intent
    write_buffer,   \* NetResource::write_buffer
    read_buffer,    \* size of NetResource::read_buffer: none, or enough
    held,           \* who has the transport
    needs_flush,    \* NetWriter::needs_flush
    early,          \* history: it was split before the credentials were exchanged
    strayed,        \* history: a reader took the peer's credentials for data
    acts,           \* Noise handshake messages still to be read
    spoken,         \* the initiator's first handshake message is out
    certified,      \* Authenticator::sent
    verified,       \* Authenticator::remote_id is known
    botched,        \* history: sending our credentials has failed
    impostor,       \* history: the peer proved an identity other than expected
    batch,          \* I/O readiness of this transport still to be handled
    told,           \* history: kinds of events given to the service
    offered,        \* messages the service has tried to write
    accepted,       \* history: bytes of the messages write_atomic took
    wire,           \* history: bytes handed to the socket
    room,           \* free space of the socket
    inbox,          \* chunks the peer has sent and nobody has read
    sent,           \* chunks the peer has sent in all
    given,          \* history: chunks given to the service as Data
    closed          \* the peer has closed its end

session  == <<acts, spoken, certified, botched, verified, impostor>>
outgoing == <<write_buffer, accepted, wire, room, offered>>
incoming == <<inbox, sent, given, closed>>
custody  == <<read_buffer, held, needs_flush, early, strayed>>
vars == <<origin, state, write_intent, write_buffer, acts, spoken, certified,
          botched, verified, impostor, batch, told, offered, accepted, wire, room, inbox,
          sent, given, closed, read_buffer, held, needs_flush, early, strayed>>

Plain == origin.kind = "plain"

(* NetSession::is_session_established *)
Established == Plain \/ (acts = 0 /\ verified)

Byte == (1..MaxMessages) \X (1..MaxLength)
Message(m, len) == [i \in 1..len |-> <<m, i>>]
Messages == {Message(m, len) : m \in 1..MaxMessages, len \in 1..MaxLength}

(* NetResource::new, connect_nonblocking, connect_blocking and with_session. *)
(* connect_blocking and with_session are given a session that is complete.   *)
Init ==
    /\ origin \in Origins
    /\ state = CASE origin.start = "connecting" -> "Init"
                 [] origin.start \in {"accepted", "blocking"} -> "Handshake"
                 [] origin.start = "session" -> "Active"
    /\ write_intent = FALSE
    /\ acts = CASE Plain \/ origin.start \in {"blocking", "session"} -> 0
                [] ~Plain /\ origin.start = "accepted" -> 2
                [] ~Plain /\ origin.start = "connecting" -> 1
    /\ spoken = (origin.start # "connecting")
    /\ certified = (Plain \/ origin.start \in {"blocking", "session"})
    /\ verified = certified
    /\ botched = FALSE /\ impostor = FALSE
    /\ batch = <<>>
    /\ told = {}
    /\ offered = 0
    /\ write_buffer = <<>> /\ accepted = <<>> /\ wire = <<>>
    /\ room = MaxRoom
    /\ inbox = 0 /\ sent = 0 /\ given = 0
    /\ closed = FALSE
    /\ read_buffer = IF origin.start = "session" THEN 0 ELSE 1   \* with_session: vec![]
    /\ held = "reactor"
    /\ needs_flush = FALSE /\ early = FALSE /\ strayed = FALSE

-----------------------------------------------------------------------------
(* Resource::interests *)
WriteInterest == state = "Init" \/ (state \in {"Handshake", "Active"} /\ write_intent)
ReadInterest  == state \in {"Handshake", "Active"}

(* poll reports what the transport is interested in and ready for; an       *)
(* IoType is iterated with Write first. Readability may be spurious.        *)
poll_ReadFirst(readable) ==
    LET w == WriteInterest /\ room > 0
        r == ReadInterest /\ readable
    IN  /\ held = "reactor" /\ batch = <<>>
        /\ w \/ r
        /\ batch' = (IF r THEN <<"Read">> ELSE <<>>) \o (IF w THEN <<"Write">> ELSE <<>>)
        /\ UNCHANGED <<origin, custody, state, write_intent, session, outgoing, incoming, told>>

poll(readable) ==
    LET w == WriteInterest /\ room > 0
        r == ReadInterest /\ readable
    IN  /\ held = "reactor" /\ batch = <<>>
        /\ w \/ r
        /\ batch' = (IF w THEN <<"Write">> ELSE <<>>) \o (IF r THEN <<"Read">> ELSE <<>>)
        /\ UNCHANGED <<origin, custody, state, write_intent, session, outgoing, incoming, told>>

(* No writing after a read of the handshake. *)
Conclude_NoIntent(io, forced, st, wi, resp) ==
    LET done == Established' /\ st = "Handshake"
        reset == resp = "reset" /\ st # "Handshake"
        event == IF ~reset /\ done THEN "established"
                 ELSE IF resp = "reset" THEN "terminated" ELSE resp
    IN  /\ UNCHANGED <<origin, custody, outgoing, sent, closed>>
        /\ state' = IF reset THEN "Terminated" ELSE IF done THEN "Active" ELSE st
        /\ write_intent' = (wi \/ forced \/ (done /\ ~reset))
        /\ told' = told \cup ({event} \ {"none"})
        /\ given' = IF event = "data" THEN given + inbox - inbox' ELSE given
        /\ batch' = Tail(batch)

(* What handle_io does with the answer resp of handle_readable or           *)
(* handle_writable, when that left the transport in state st with write     *)
(* intent wi: completing the handshake replaces the answer by Established.  *)
Conclude(io, forced, st, wi, resp) ==
    LET done == Established' /\ st = "Handshake"
        reset == resp = "reset" /\ st # "Handshake"
        event == IF ~reset /\ done THEN "established"
                 ELSE IF resp = "reset" THEN "terminated" ELSE resp
    IN  /\ UNCHANGED <<origin, custody, outgoing, sent, closed>>
        /\ state' = IF reset THEN "Terminated" ELSE IF done THEN "Active" ELSE st
        /\ write_intent' = (wi \/ forced \/ (io = "Read" /\ st = "Handshake") \/ (done /\ ~reset))
        /\ told' = told \cup ({event} \ {"none"})
        /\ given' = IF event = "data" THEN given + inbox - inbox' ELSE given
        /\ batch' = Tail(batch)

(* An I/O on a transport in Init completes the connection.                  *)
Forced  == state = "Init"
Entered == IF state = "Init" THEN "Handshake" ELSE state

Handling(io) == batch # <<>> /\ Head(batch) = io

(* NoiseXk::write with an empty buffer, called to drive the handshake: it   *)
(* sends the next handshake message or, after the handshake, certifies.     *)
(* The answer is ignored, so that a failed certify is tried again.          *)
Certify(ok) ==
    /\ certified' = (certified \/ ok)
    /\ botched' = (botched \/ ~(certified \/ ok))

DriveHandshake(ok) ==
    /\ spoken' = TRUE
    /\ IF acts = 0 THEN Certify(ok) ELSE UNCHANGED <<certified, botched>>
    /\ UNCHANGED <<acts, verified, impostor>>

(* handle_io(Write) while the session is not established.                   *)
handle_writable_handshake(ok) ==
    /\ Handling("Write")
    /\ ~Established
    /\ DriveHandshake(ok)
    /\ inbox' = inbox
    /\ Conclude("Write", Forced, Entered, TRUE, "none")

(* handle_io(Write) on an established session: flush.                       *)
handle_writable_flush(answer) ==
    /\ Handling("Write")
    /\ Established
    /\ UNCHANGED <<session, inbox>>
    /\ IF answer = "error"
       THEN Conclude("Write", Forced, "Terminated", write_intent, "error")
       ELSE Conclude("Write", Forced, Entered, answer = "block", "none")

(* The bytes read are left in the buffer.                                   *)
Readable_Undrained(answer) ==
    LET broken == answer \in {"error", "reset"}
        resp == CASE answer = "zero" /\ ~Established' -> "none"
                  [] answer = "zero" /\ Established'  -> "reset"
                  [] answer \in {"block", "data"} -> "none"
                  [] answer = "reset" -> "reset"
                  [] answer = "error" -> "error"
    IN  Conclude("Read", Forced, IF broken THEN "Terminated" ELSE Entered, write_intent, resp)

(* A read of nothing is the end of the stream, also during the handshake.   *)
Readable_ZeroIsReset(answer) ==
    LET broken == answer \in {"error", "reset"}
        resp == CASE answer \in {"zero", "reset"} -> "reset"
                  [] answer = "data"  -> "data"
                  [] answer = "block" -> "none"
                  [] answer = "error" -> "error"
    IN  Conclude("Read", Forced, IF broken THEN "Terminated" ELSE Entered, write_intent, resp)

(* handle_readable after session.read has answered.                         *)
Readable(answer) ==
    LET broken == answer \in {"error", "reset"}
        resp == CASE answer = "zero" /\ ~Established' -> "none"
                  [] answer = "zero" /\ Established'  -> "reset"
                  [] answer = "data"  -> "data"
                  [] answer = "block" -> "none"
                  [] answer = "reset" -> "reset"
                  [] answer = "error" -> "error"
    IN  Conclude("Read", Forced, IF broken THEN "Terminated" ELSE Entered, write_intent, resp)

(* Without the test of is_handshake_complete.                               *)
read_act_Again ==
    /\ Handling("Read")
    /\ ~Plain /\ spoken /\ ~verified
    /\ acts' = acts - 1
    /\ UNCHANGED <<spoken, certified, botched, verified, impostor, inbox>>
    /\ Readable("zero")

(* NoiseXk::read during the handshake: one message is read (and, by the     *)
(* initiator, answered).                                                    *)
read_act ==
    /\ Handling("Read")
    /\ ~Plain /\ acts > 0 /\ spoken
    /\ acts' = acts - 1
    /\ UNCHANGED <<spoken, certified, botched, verified, impostor, inbox>>
    /\ Readable("zero")

(* NoiseXk::read after the handshake: Authenticator::verify. Only the side  *)
(* that connected knows whom to expect.                                     *)
read_credentials(wrong) ==
    /\ Handling("Read")
    /\ ~Plain /\ acts = 0 /\ ~verified /\ ~strayed
    /\ wrong => origin.start = "connecting"
    /\ verified' = TRUE
    /\ impostor' = wrong
    /\ UNCHANGED <<acts, spoken, certified, botched, inbox>>
    /\ Readable(IF wrong THEN "reset" ELSE "zero")

(* Nothing to read yet, or the read, the handshake or the signature fails.  *)
read_nothing(answer) ==
    /\ Handling("Read")
    /\ answer = "block" => ~(Established /\ (inbox > 0 \/ closed))
    /\ answer = "reset" => closed
    /\ UNCHANGED <<session, inbox>>
    /\ Readable(answer)

(* Reading from an established session: data, or 0 at the end of the stream *)
(* and with an empty buffer.                                                *)
read_session ==
    /\ Handling("Read")
    /\ Established
    /\ inbox > 0 \/ closed
    /\ UNCHANGED session
    /\ IF inbox > 0 /\ read_buffer > 0
       THEN inbox' \in 0..inbox - 1 /\ Readable("data")
       ELSE inbox' = inbox /\ Readable("zero")

-----------------------------------------------------------------------------
(* WriteAtomic::write_atomic and write_or_buffer.                           *)

(* How many bytes of x the connection takes when it has rm bytes of room.   *)
Takes(x, rm) ==
    IF x = <<>> THEN {0}
    ELSE {k \in 1..Len(x) : k <= rm}

Fails(x, rm) == Takes(x, rm) = {} \/ closed

Drop(x, k) == SubSeq(x, k + 1, Len(x))
Take(x, k) == SubSeq(x, 1, k)

Offer == /\ held \in {"reactor", "owner"} /\ batch = <<>>
         /\ offered < MaxMessages
         /\ offered' = offered + 1
         /\ UNCHANGED <<origin, custody, state, write_intent, batch, told, incoming>>

(* is_ready_to_write *)
Ready == state = "Active"

(* NoiseXk::write passes data on once our credentials are out.              *)
Passes == Ready /\ certified

(* The transport is not active: WriteError::NotReady.                       *)
write_not_ready ==
    /\ ~Ready
    /\ Offer
    /\ UNCHANGED <<session, write_buffer, accepted, wire, room>>

(* The credentials never made it: the write sends them, or fails to, and    *)
(* answers Interrupted either way. The message is refused.                  *)
write_certifies(ok) ==
    /\ Ready /\ ~certified
    /\ Certify(ok)
    /\ Offer
    /\ UNCHANGED <<acts, spoken, verified, impostor, write_buffer, accepted, wire, room>>

(* Writing what is buffered fails: nothing has changed.                     *)
write_fails ==
    /\ Passes
    /\ Fails(write_buffer, room)
    /\ Offer
    /\ UNCHANGED <<session, write_buffer, accepted, wire, room>>

(* The new message overtakes what is buffered.                              *)
write_queued_Overtaking(len) ==
    /\ Passes
    /\ Offer
    /\ \E k \in Takes(write_buffer, room) :
          LET buf == Message(offered + 1, len) IN
          /\ k < Len(write_buffer)
          /\ write_buffer' = buf \o Drop(write_buffer, k)
          /\ wire' = wire \o Take(write_buffer, k)
          /\ accepted' = accepted \o buf
          /\ room' = room - k
    /\ UNCHANGED session

(* The buffer does not go out in full: the new message queues behind it.    *)
write_queued(len) ==
    /\ Passes
    /\ Offer
    /\ \E k \in Takes(write_buffer, room) :
          LET buf == Message(offered + 1, len) IN
          /\ k < Len(write_buffer)
          /\ write_buffer' = Drop(write_buffer, k) \o buf
          /\ wire' = wire \o Take(write_buffer, k)
          /\ accepted' = accepted \o buf
          /\ room' = room - k
    /\ UNCHANGED session

(* A write that forgets to keep what did not fit. *)
write_direct_Truncating(len) ==
    /\ Passes
    /\ Len(write_buffer) \in Takes(write_buffer, room)
    /\ Offer
    /\ \E k \in Takes(Message(offered + 1, len), room - Len(write_buffer)) :
          LET buf == Message(offered + 1, len) IN
          /\ write_buffer' = <<>>
          /\ wire' = wire \o write_buffer \o Take(buf, k)
          /\ accepted' = accepted \o buf
          /\ room' = room - Len(write_buffer) - k
    /\ UNCHANGED session

(* The buffer is out; the new message follows, what does not fit is kept.   *)
write_direct(len) ==
    /\ Passes
    /\ Len(write_buffer) \in Takes(write_buffer, room)
    /\ Offer
    /\ \E k \in Takes(Message(offered + 1, len), room - Len(write_buffer)) :
          LET buf == Message(offered + 1, len) IN
          /\ write_buffer' = Drop(buf, k)
          /\ wire' = wire \o write_buffer \o Take(buf, k)
          /\ accepted' = accepted \o buf
          /\ room' = room - Len(write_buffer) - k
    /\ UNCHANGED session

(* The buffer is out and the write of the new message fails: it is refused. *)
write_refused(len) ==
    /\ Passes
    /\ Len(write_buffer) \in Takes(write_buffer, room)
    /\ Fails(Message(offered + 1, len), room - Len(write_buffer))
    /\ Offer
    /\ write_buffer' = <<>>
    /\ wire' = wire \o write_buffer
    /\ room' = room - Len(write_buffer)
    /\ UNCHANGED <<session, accepted>>

-----------------------------------------------------------------------------
(* Outside the reactor. *)

idle == <<origin, state, batch, told, session>>

(* Runtime::handle_action: UnregisterTransport hands the transport over,    *)
(* RegisterTransport takes it back.                                         *)
handover_transport ==
    /\ Handovers
    /\ held = "reactor" /\ batch = <<>>
    /\ held' = "owner"
    /\ UNCHANGED <<idle, write_intent, outgoing, incoming, read_buffer, needs_flush, early, strayed>>

register_transport ==
    /\ held = "owner"
    /\ held' = "reactor"
    /\ UNCHANGED <<idle, write_intent, outgoing, incoming, read_buffer, needs_flush, early, strayed>>

(* Read::read of the resource, into the caller's buffer; before and after   *)
(* the session it is an error. Neither an error nor the end changes it.     *)
read ==
    /\ held = "owner" /\ state = "Active"
    /\ inbox > 0
    /\ inbox' \in 0..inbox - 1
    /\ given' = given + inbox - inbox'
    /\ UNCHANGED <<idle, custody, write_intent, outgoing, sent, closed>>

(* What split_io of a Noise session needs: the end of the handshake, and    *)
(* the address of the peer, which the responder learns from the credentials.*)
Splits     == Plain \/ acts = 0
KnowsPeer  == Plain \/ verified \/ origin.start = "connecting"

(* SplitIo::split_io: the halves take neither buffers nor the write intent. *)
(* A failure to flush, to clone the socket or to split the session gives    *)
(* the transport back as it was.                                            *)
split_io ==
    /\ held = "owner"
    /\ write_buffer = <<>>
    /\ Splits /\ KnowsPeer
    /\ held' = "halves"
    /\ write_intent' = FALSE /\ needs_flush' = FALSE
    /\ early' = (early \/ ~Established \/ ~certified)
    /\ UNCHANGED <<idle, outgoing, incoming, read_buffer, strayed>>

(* The assertion that nothing is buffered, which into_session shares, and   *)
(* the expectation of an address.                                           *)
split_io_panics ==
    /\ held = "owner"
    /\ write_buffer # <<>> \/ (Splits /\ ~KnowsPeer)
    /\ held' = "dropped"
    /\ UNCHANGED <<idle, write_intent, outgoing, incoming, read_buffer, needs_flush, early, strayed>>

(* Resource::disconnect and into_session: the transport is no more.         *)
disconnect ==
    /\ held = "owner"
    /\ held' = "dropped"
    /\ UNCHANGED <<idle, write_intent, outgoing, incoming, read_buffer, needs_flush, early, strayed>>

(* NetReader::read: data.                                                   *)
reader_read ==
    /\ held = "halves"
    /\ Established
    /\ inbox > 0
    /\ inbox' \in 0..inbox - 1
    /\ given' = given + inbox - inbox'
    /\ UNCHANGED <<idle, custody, write_intent, outgoing, sent, closed>>

(* NoiseXkReader::read takes what the connection has, also the credentials  *)
(* of a peer that are still to be verified, which are lost.                 *)
reader_read_credentials ==
    /\ held = "halves"
    /\ ~Established
    /\ strayed' = TRUE
    /\ UNCHANGED <<idle, write_intent, outgoing, incoming, read_buffer, held, needs_flush, early>>

(* NetWriter::write and NoiseXkWriter::write: the connection takes a part   *)
(* of the message, or none, and the writer is told how much.                *)
writer_write(len) ==
    /\ held = "halves"
    /\ offered < MaxMessages
    /\ offered' = offered + 1
    /\ needs_flush' = TRUE
    /\ \/ /\ len <= room
          /\ wire' = wire \o Message(offered + 1, len)
          /\ accepted' = accepted \o Message(offered + 1, len)
          /\ room' = room - len
       \/ Fails(Message(offered + 1, len), room) /\ UNCHANGED <<wire, accepted, room>>
    /\ UNCHANGED <<idle, write_intent, write_buffer, incoming, read_buffer, held, early, strayed>>

(* NetWriter::flush *)
writer_flush ==
    /\ held = "halves" /\ needs_flush
    /\ needs_flush' = FALSE
    /\ UNCHANGED <<idle, write_intent, outgoing, incoming, read_buffer, held, early, strayed>>

(* SplitIo::from_split_io: fresh buffers, and the intent to flush.          *)
from_split_io ==
    /\ held = "halves"
    /\ held' = "owner"
    /\ write_intent' = needs_flush
    /\ needs_flush' = FALSE
    /\ read_buffer' = 1
    /\ UNCHANGED <<idle, outgoing, incoming, early, strayed>>

-----------------------------------------------------------------------------
(* The peer and the network. *)

peer_reads ==
    /\ room < MaxRoom
    /\ room' \in room + 1..MaxRoom
    /\ UNCHANGED <<origin, custody, state, write_intent, session, batch, told, incoming,
                   write_buffer, accepted, wire, offered>>

peer_sends ==
    /\ Established /\ ~closed
    /\ sent < MaxInput
    /\ sent' = sent + 1
    /\ inbox' = inbox + 1
    /\ UNCHANGED <<origin, custody, state, write_intent, session, batch, told, outgoing,
                   given, closed>>

peer_closes ==
    /\ ~closed
    /\ closed' = TRUE
    /\ UNCHANGED <<origin, custody, state, write_intent, session, batch, told, outgoing,
                   inbox, sent, given>>

handle_io ==
    \/ \E ok \in BOOLEAN : handle_writable_handshake(ok)
    \/ \E f \in FlushOutcomes : handle_writable_flush(f)
    \/ read_act
    \/ \E wrong \in BOOLEAN : read_credentials(wrong)
    \/ \E answer \in {"block", "error", "reset"} : read_nothing(answer)
    \/ read_session

write_atomic ==
    \/ write_not_ready \/ write_fails
    \/ \E ok \in BOOLEAN : write_certifies(ok)
    \/ \E len \in 1..MaxLength : write_queued(len) \/ write_direct(len) \/ write_refused(len)

owner ==
    \/ handover_transport \/ register_transport \/ read \/ disconnect
    \/ split_io \/ split_io_panics \/ from_split_io
    \/ reader_read \/ reader_read_credentials \/ writer_flush
    \/ \E len \in 1..MaxLength : writer_write(len)

Next ==
    \/ \E readable \in BOOLEAN : poll(readable)
    \/ handle_io
    \/ write_atomic
    \/ owner
    \/ peer_reads \/ peer_sends \/ peer_closes

Spec == Init /\ [][Next]_vars

(* The reactor keeps polling and handling, and the peer keeps reading; no   *)
(* service has to write and no peer has to send.                            *)
FairSpec ==
    /\ Spec
    /\ WF_vars(\E readable \in BOOLEAN : poll(readable))
    /\ WF_vars(handle_io)
    /\ WF_vars(peer_reads)

-----------------------------------------------------------------------------
(* Every variable ranges over the values the program can give it. *)
TypeOK ==
    /\ origin \in Origins
    /\ state \in {"Init", "Handshake", "Active", "Terminated"}
    /\ write_intent \in BOOLEAN
    /\ acts \in 0..2
    /\ {spoken, certified, botched, verified, impostor, closed} \subseteq BOOLEAN
    /\ {needs_flush, early, strayed} \subseteq BOOLEAN
    /\ read_buffer \in {0, 1}
    /\ held \in {"reactor", "owner", "halves", "dropped"}
    /\ batch \in Seq({"Read", "Write"})
    /\ told \subseteq {"established", "data", "terminated", "error"}
    /\ offered \in 0..MaxMessages
    /\ {write_buffer, accepted, wire} \subseteq Seq(Byte)
    /\ room \in 0..MaxRoom
    /\ inbox \in 0..MaxInput /\ sent \in 0..MaxInput /\ given \in 0..MaxInput

(* "The data are either written in full - or, in case of an error, none of  *)
(* the data is written", in the initial ordering (trait WriteAtomic): what  *)
(* the socket got, followed by what is buffered, is what was accepted.      *)
WritesAtomic == wire \o write_buffer = accepted

(* The same promise as a specification of its own.                          *)
Stream == INSTANCE AtomicStream WITH delivered <- wire

ImplementsAtomicStream == Stream!Spec

(* Everything taken from the session is given to whoever holds the          *)
(* transport, in the reactor, out of it or in halves, and the service hears *)
(* of an established session before it gets Data events from it.            *)
InputGiven ==
    /\ given = sent - inbox
    /\ "data" \in told => origin.start = "session" \/ "established" \in told

(* By the time a Noise session becomes active our own credentials are out,  *)
(* and before that no data is, unless sending them failed: the reads of the *)
(* handshake ask for a write ("During handshake, after each read we need to *)
(* write"), so that a write comes between the last act and the credentials  *)
(* of the peer. A split before both credentials have passed undoes it: the  *)
(* writer does not send any and the write intent is forgotten.              *)
ActiveMeansCertified ==
    /\ state = "Active" => certified \/ botched \/ early
    /\ wire # <<>> => certified \/ early

(* What handle_io asserts when it is called. Nothing is left to handle for  *)
(* a transport that is terminated ("I/O on terminated transport"), unless   *)
(* flush failed, which no connection of the repository does: Read is the    *)
(* last readiness to be handled. And a session in state Handshake is not    *)
(* established, for transports that enter the reactor before their session  *)
(* is complete.                                                             *)
AssertionsHold ==
    batch # <<>> => /\ held = "reactor"
                    /\ state = "Terminated" => "error" \in told
                    /\ state = "Handshake" => ~Established

(* A reset is reported only when the peer has gone or is not the one        *)
(* dialled ("Peer {self} has reset the connection"), whatever else answers  *)
(* 0 to a read: the acts of the handshake and the credentials do. The one   *)
(* exception is a transport made by with_session, whose buffer is empty.    *)
ResetOnlyByPeer == "terminated" \in told => closed \/ impostor \/ origin.start = "session"

(* Buffered bytes leave once the socket has room again: the transport stays *)
(* "notified when the socket is ready to write again".                      *)
BufferedBytesLeave ==
    write_buffer # <<>> /\ ~closed
        ~> write_buffer = <<>> \/ closed \/ state = "Terminated" \/ held # "reactor"
=============================================================================
