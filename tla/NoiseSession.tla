---------------------------- MODULE NoiseSession ----------------------------
(***************************************************************************)
(* The two ends of a Noise XK session (src/noise.rs, src/auth.rs) on one    *)
(* connection: the initiator "I", which either blocks in connect_blocking   *)
(* (the nsh client and its tunnel) or is driven by a reactor                *)
(* (connect_nonblocking, a forwarded command), and the responder "R", which *)
(* a reactor has accepted. Three acts are exchanged, then each end sends    *)
(* credentials, a key with its signature, and then data.                    *)
(*                                                                         *)
(* The connection is a stream without message boundaries: what one end has  *)
(* written arrives at the other in pieces, and read_exact on a nonblocking  *)
(* socket takes the pieces it finds before it answers WouldBlock. Bytes are *)
(* counted in units: an act is two, a key one, a signature two. Writing an  *)
(* act or credentials is taken not to fill the socket (NetResource has the  *)
(* writes that fail). The cryptography is external: it accepts an act only  *)
(* as it was sent and only from somebody who knows the responder's key.     *)
(***************************************************************************)
EXTENDS Naturals, Sequences

CONSTANTS
    Keys,           \* public keys
    None,           \* no key
    Contexts,       \* what an end may be given: [key, cert, valid] records
    Modes,          \* how the initiator may connect
    Fragmentation,  \* whether what is written may arrive in pieces
    MaxData         \* bound: units of data an end sends

ASSUME NoiseSessionAssumption ==
    /\ None \notin Keys
    /\ Contexts \subseteq [key : Keys, cert : Keys, valid : BOOLEAN]
    /\ Modes \subseteq {"blocking", "nonblocking"}
    /\ Fragmentation \subseteq BOOLEAN
    /\ MaxData \in Nat

VARIABLES
    mode,           \* how the initiator connects
    fragmented,     \* whether what is written may arrive in pieces
    target,         \* the key the initiator has dialled
    context,        \* NetSession::Context of each end
    state,          \* TransportState, or where connect_blocking stands
    write_intent,   \* NetResource::write_intent
    batch,          \* I/O readiness still to be handled
    acts,           \* how many acts the transcoder has sent and received
    sent,           \* Authenticator::sent
    remote_id,      \* Authenticator::remote_id
    remote_addr,    \* the key in NoiseXk::remote_addr: None while Partial
    wire,           \* what each end has written and the other has not read
    arrived,        \* how much of it can be read
    closed,         \* the end has closed the connection
    wrote,          \* units of data the end has written
    got             \* history: what the end has been given as data

chosen   == <<mode, fragmented, target, context>>
session  == <<acts, sent, remote_id, remote_addr>>
driver   == <<state, write_intent, batch>>
vars == <<mode, fragmented, target, context, state, write_intent, batch, acts,
          sent, remote_id, remote_addr, wire, arrived, closed, wrote, got>>

Ends == {"I", "R"}
Peer(e) == IF e = "I" THEN "R" ELSE "I"

Unit(is, no, key) == [is |-> is, no |-> no, key |-> key]
Units == [is : {"act", "pk", "sig", "data"}, no : Nat, key : Keys \cup {None}]

(* The acts of the handshake with the owner of the dialled key; act n is    *)
(* the units 2n - 1 and 2n.                                                 *)
Act(n) == <<Unit("act", 2 * n - 1, target), Unit("act", 2 * n, target)>>

(* What Authenticator::certify writes; a signature that is not valid is not *)
(* one of this key.                                                         *)
Credentials(c) ==
    LET signer == IF c.valid THEN c.cert ELSE None
    IN  <<Unit("pk", 0, c.cert), Unit("sig", 1, signer), Unit("sig", 2, signer)>>

Data(from, upto) == [i \in 1..(upto - from) |-> Unit("data", from + i, None)]

(* What an XkAddr knows of the peer: Full has its key, Partial has none.    *)
Addresses == Keys \cup {None}

(* XkAddr::upgrade: an address that is Full stays what it is.               *)
upgrade(addr, id) == IF addr = None THEN id ELSE addr

(* NetAccept::handle_accept gives the responder a nonblocking connection,   *)
(* on which nothing is known of the peer and the handshake is awaited.      *)
accept == [state |-> "Handshake", remote_addr |-> None]

(* A nonblocking connection that is still being made, and one that          *)
(* connect_blocking has made.                                               *)
connect_nonblocking == [state |-> "Init", remote_addr |-> target]
connect_blocking    == [state |-> "Dial", remote_addr |-> target]

Start(e) == CASE e = "R" -> accept
              [] e = "I" /\ mode = "nonblocking" -> connect_nonblocking
              [] e = "I" /\ mode = "blocking" -> connect_blocking

Init ==
    /\ mode \in Modes /\ fragmented \in Fragmentation
    /\ target \in Keys /\ context \in [Ends -> Contexts]
    /\ state = [e \in Ends |-> Start(e).state]
    /\ remote_addr = [e \in Ends |-> Start(e).remote_addr]
    /\ write_intent = [e \in Ends |-> FALSE]
    /\ batch = [e \in Ends |-> <<>>]
    /\ acts = [e \in Ends |-> 0]
    /\ sent = [e \in Ends |-> FALSE]
    /\ remote_id = [e \in Ends |-> None]
    /\ wire = [e \in Ends |-> <<>>]
    /\ arrived = [e \in Ends |-> 0]
    /\ closed = [e \in Ends |-> FALSE]
    /\ wrote = [e \in Ends |-> 0]
    /\ got = [e \in Ends |-> <<>>]

-----------------------------------------------------------------------------
(* NoiseXk::is_session_established with sent and complete mixed up. *)
Established_Sent(e) == acts[e] = 3 /\ sent[e]

(* NoiseXk::is_session_established *)
Established(e) == acts[e] = 3 /\ remote_id[e] # None

Incoming(e) == wire[Peer(e)]
Ready(e)    == arrived[Peer(e)]
AtEnd(e)    == closed[Peer(e)] /\ Ready(e) = Len(Incoming(e))

(* End e reads n units and writes out.                                      *)
ReadWrite(e, n, out) ==
    /\ wire' = [wire EXCEPT ![e] = @ \o out, ![Peer(e)] = SubSeq(@, n + 1, Len(@))]
    /\ arrived' = [arrived EXCEPT ![Peer(e)] = @ - n]

(* Units of the next read_exact: NoiseTranscoder::next_handshake_len, or    *)
(* the key and the signature of verify.                                     *)
Wanted(e) == IF acts[e] < 3 THEN 2 ELSE 3
Input(e)  == SubSeq(Incoming(e), 1, Wanted(e))

(* NoiseTranscoder::advance_handshake: whether it accepts the input as the  *)
(* next act, how many acts that makes with the answer, and the answer.      *)
Accepts(e) == /\ Input(e) = Act(acts[e] + 1)
              /\ e = "R" => target = context[e].key
Advanced(e) == IF acts[e] = 2 THEN 3 ELSE acts[e] + 2
Answer(e)   == IF acts[e] = 2 THEN <<>> ELSE Act(acts[e] + 2)

(* pubkey.verify in Authenticator::verify.                                  *)
Signed(x) == /\ x[1].is = "pk"
             /\ x[2] = Unit("sig", 1, x[1].key)
             /\ x[3] = Unit("sig", 2, x[1].key)

-----------------------------------------------------------------------------
(* NoiseXk::connect_blocking, whose reads wait for all they need.           *)

Stands(s) == mode = "blocking" /\ state["I"] = s

Moves(s) ==
    /\ state' = [state EXCEPT !["I"] = s]
    /\ UNCHANGED <<write_intent, batch>>

(* The first round of the handshake: the first act is sent. *)
connect_begin ==
    /\ Stands("Dial")
    /\ acts' = [acts EXCEPT !["I"] = 1]
    /\ ReadWrite("I", 0, Act(1))
    /\ Moves("Act")
    /\ UNCHANGED <<chosen, sent, remote_id, remote_addr, closed, wrote, got>>

(* The second round: the second act is read and the third one sent, or the  *)
(* handshake fails with ConnectionAborted.                                  *)
connect_act ==
    /\ Stands("Act")
    /\ Ready("I") >= Wanted("I")
    /\ IF Accepts("I")
       THEN /\ acts' = [acts EXCEPT !["I"] = Advanced("I")]
            /\ ReadWrite("I", Wanted("I"), Answer("I"))
            /\ Moves("Certify")
       ELSE /\ ReadWrite("I", Wanted("I"), <<>>)
            /\ Moves("Terminated")
            /\ UNCHANGED acts
    /\ UNCHANGED <<chosen, sent, remote_id, remote_addr, closed, wrote, got>>

connect_certify ==
    /\ Stands("Certify")
    /\ sent' = [sent EXCEPT !["I"] = TRUE]
    /\ ReadWrite("I", 0, Credentials(context["I"]))
    /\ Moves("Verify")
    /\ UNCHANGED <<chosen, acts, remote_id, remote_addr, closed, wrote, got>>

(* Credentials that are only there in part fail as invalid ones do. *)
connect_verify_Short ==
    /\ Stands("Verify")
    /\ Ready("I") > 0
    /\ LET id == Input("I")[1].key
       IN  IF Ready("I") >= Wanted("I") /\ Signed(Input("I")) /\ id = target
           THEN /\ remote_id' = [remote_id EXCEPT !["I"] = id]
                /\ ReadWrite("I", Wanted("I"), <<>>)
                /\ Moves("Active")
           ELSE /\ ReadWrite("I", Ready("I"), <<>>)
                /\ Moves("Panic")
                /\ UNCHANGED remote_id
    /\ UNCHANGED <<chosen, acts, sent, remote_addr, closed, wrote, got>>

(* verify: a signature that is not valid and a key other than the one       *)
(* dialled both panic.                                                      *)
connect_verify ==
    /\ Stands("Verify")
    /\ Ready("I") >= Wanted("I")
    /\ ReadWrite("I", Wanted("I"), <<>>)
    /\ LET id == Input("I")[1].key
       IN  IF Signed(Input("I"))
           THEN /\ remote_id' = [remote_id EXCEPT !["I"] = id]
                /\ Moves(IF id = target THEN "Active" ELSE "Panic")
           ELSE /\ Moves("Panic")
                /\ UNCHANGED remote_id
    /\ UNCHANGED <<chosen, acts, sent, remote_addr, closed, wrote, got>>

(* The connection ends in one of the reads: UnexpectedEof.                  *)
connect_fails ==
    /\ Stands("Act") \/ Stands("Verify")
    /\ AtEnd("I") /\ Ready("I") < Wanted("I")
    /\ ReadWrite("I", Ready("I"), <<>>)
    /\ Moves("Terminated")
    /\ UNCHANGED <<chosen, session, closed, wrote, got>>

(* Client::exec *)
exec ==
    /\ Stands("Active")
    /\ wrote["I"] = 0
    /\ wrote' = [wrote EXCEPT !["I"] = MaxData]
    /\ ReadWrite("I", 0, Data(0, MaxData))
    /\ UNCHANGED <<chosen, driver, session, closed, got>>

(* Client::recv: a part of the answer.                                      *)
recv(n) ==
    /\ Stands("Active")
    /\ wrote["I"] > 0
    /\ n <= Ready("I")
    /\ got' = [got EXCEPT !["I"] = @ \o SubSeq(Incoming("I"), 1, n)]
    /\ ReadWrite("I", n, <<>>)
    /\ UNCHANGED <<chosen, driver, session, closed, wrote>>

(* Client::recv at the end of the stream, followed by Client::disconnect.   *)
recv_end ==
    /\ Stands("Active")
    /\ wrote["I"] > 0
    /\ AtEnd("I") /\ Ready("I") = 0
    /\ Moves("Terminated")
    /\ UNCHANGED <<chosen, session, wire, arrived, closed, wrote, got>>

client == connect_begin \/ connect_act \/ connect_certify \/ connect_verify
          \/ connect_fails \/ exec \/ (\E n \in 1..MaxData : recv(n)) \/ recv_end

-----------------------------------------------------------------------------
(* An end in a reactor: NetResource::handle_io around NoiseXk.              *)

InReactor(e) == e = "R" \/ mode = "nonblocking"

(* Resource::interests *)
WriteInterest(e) == state[e] = "Init" \/ (state[e] \in {"Handshake", "Active"} /\ write_intent[e])
ReadInterest_Handshake(e) == state[e] = "Handshake"
ReadInterest(e)  == state[e] \in {"Handshake", "Active"}

(* One poll and the readiness it reports, writing first.                    *)
poll(e) ==
    LET w == WriteInterest(e)
        r == ReadInterest(e) /\ (Ready(e) > 0 \/ AtEnd(e))
    IN  /\ InReactor(e) /\ batch[e] = <<>>
        /\ w \/ r
        /\ batch' = [batch EXCEPT ![e] = (IF w THEN <<"Write">> ELSE <<>>)
                                          \o (IF r THEN <<"Read">> ELSE <<>>)]
        /\ UNCHANGED <<chosen, state, write_intent, session, wire, arrived, closed, wrote, got>>

Handling(e, io) == batch[e] # <<>> /\ Head(batch[e]) = io

(* No writing after a read of the handshake. *)
Conclude_NoIntent(e, io, answer) ==
    LET st   == IF state[e] = "Init" THEN "Handshake" ELSE state[e]
        done == Established(e)' /\ st = "Handshake"
        over == \/ answer \in {"error", "reset"}
                \/ answer = "zero" /\ Established(e)' /\ ~done
    IN  /\ state' = [state EXCEPT ![e] = IF over THEN "Terminated"
                                          ELSE IF done THEN "Active" ELSE st]
        /\ write_intent' = [write_intent EXCEPT ![e] =
               IF io = "Read" THEN @ \/ (done /\ ~over) ELSE ~Established(e)]
        /\ batch' = [batch EXCEPT ![e] = Tail(@)]
        /\ UNCHANGED <<chosen, closed>>

(* The tail of handle_io after the session has answered. A read that fails  *)
(* has already terminated the transport and asks for no writing.            *)
Conclude(e, io, answer) ==
    LET st   == IF state[e] = "Init" THEN "Handshake" ELSE state[e]
        done == Established(e)' /\ st = "Handshake"
        over == \/ answer \in {"error", "reset"}
                \/ answer = "zero" /\ Established(e)' /\ ~done
    IN  /\ state' = [state EXCEPT ![e] = IF over THEN "Terminated"
                                          ELSE IF done THEN "Active" ELSE st]
        /\ write_intent' = [write_intent EXCEPT ![e] =
               IF io = "Read" THEN @ \/ (st = "Handshake" /\ ~over) ELSE ~Established(e)]
        /\ batch' = [batch EXCEPT ![e] = Tail(@)]
        /\ UNCHANGED <<chosen, closed>>

(* handle_writable, NoiseXk::write(&[]): the initiator's first act.         *)
write_begin(e) ==
    /\ Handling(e, "Write")
    /\ e = "I" /\ acts[e] = 0
    /\ acts' = [acts EXCEPT ![e] = 1]
    /\ ReadWrite(e, 0, Act(1))
    /\ UNCHANGED <<sent, remote_id, remote_addr, wrote, got>>
    /\ Conclude(e, "Write", "none")

(* The handshake is complete and the session is not: certify.               *)
write_certify(e) ==
    /\ Handling(e, "Write")
    /\ acts[e] = 3 /\ ~Established(e) /\ ~sent[e]
    /\ sent' = [sent EXCEPT ![e] = TRUE]
    /\ ReadWrite(e, 0, Credentials(context[e]))
    /\ UNCHANGED <<acts, remote_id, remote_addr, wrote, got>>
    /\ Conclude(e, "Write", "none")

(* It is the other end's turn (advance_handshake(&[]) has nothing to say),  *)
(* or the session is established and flushed.                               *)
write_nothing(e) ==
    /\ Handling(e, "Write")
    /\ (e = "R" \/ acts[e] > 0) /\ (acts[e] < 3 \/ Established(e) \/ sent[e])
    /\ UNCHANGED <<session, wire, arrived, wrote, got>>
    /\ Conclude(e, "Write", "none")

(* handle_readable, NoiseXk::read: read_exact takes the beginning of an act *)
(* or of credentials and answers WouldBlock, or UnexpectedEof.              *)
read_short(e) ==
    /\ Handling(e, "Read")
    /\ ~Established(e)
    /\ Ready(e) < Wanted(e)
    /\ ReadWrite(e, Ready(e), <<>>)
    /\ UNCHANGED <<session, wrote, got>>
    /\ Conclude(e, "Read", IF AtEnd(e) THEN "error" ELSE "block")

(* The next act of the handshake, which is answered if it is not the last.  *)
read_act(e) ==
    /\ Handling(e, "Read")
    /\ acts[e] < 3
    /\ Ready(e) >= Wanted(e)
    /\ IF Accepts(e)
       THEN /\ acts' = [acts EXCEPT ![e] = Advanced(e)]
            /\ ReadWrite(e, Wanted(e), Answer(e))
       ELSE /\ ReadWrite(e, Wanted(e), <<>>)
            /\ UNCHANGED acts
    /\ UNCHANGED <<sent, remote_id, remote_addr, wrote, got>>
    /\ Conclude(e, "Read", IF Accepts(e) THEN "zero" ELSE "error")

(* The key is not compared with the one that was dialled. *)
read_credentials_AnyPeer(e) ==
    /\ Handling(e, "Read")
    /\ acts[e] = 3 /\ ~Established(e)
    /\ Ready(e) >= Wanted(e)
    /\ Signed(Input(e))
    /\ LET id == Input(e)[1].key
       IN  /\ remote_id' = [remote_id EXCEPT ![e] = id]
           /\ remote_addr' = [remote_addr EXCEPT ![e] = upgrade(@, id)]
    /\ ReadWrite(e, Wanted(e), <<>>)
    /\ UNCHANGED <<acts, sent, wrote, got>>
    /\ Conclude(e, "Read", "zero")

(* Authenticator::verify succeeds. A key other than the one dialled resets  *)
(* the connection; an accepted session learns the key of its peer           *)
(* (XkAddr::upgrade).                                                       *)
read_credentials(e) ==
    /\ Handling(e, "Read")
    /\ acts[e] = 3 /\ ~Established(e)
    /\ Ready(e) >= Wanted(e)
    /\ Signed(Input(e))
    /\ LET id    == Input(e)[1].key
           wrong == remote_addr[e] \notin {None, id}
       IN  /\ remote_id' = [remote_id EXCEPT ![e] = id]
           /\ remote_addr' = [remote_addr EXCEPT ![e] = upgrade(@, id)]
           /\ ReadWrite(e, Wanted(e), <<>>)
           /\ UNCHANGED <<acts, sent, wrote, got>>
           /\ Conclude(e, "Read", IF wrong THEN "reset" ELSE "zero")

(* Authenticator::verify answers None: InvalidInput.                        *)
read_credentials_invalid(e) ==
    /\ Handling(e, "Read")
    /\ acts[e] = 3 /\ ~Established(e)
    /\ Ready(e) >= Wanted(e)
    /\ ~Signed(Input(e))
    /\ ReadWrite(e, Wanted(e), <<>>)
    /\ UNCHANGED <<session, wrote, got>>
    /\ Conclude(e, "Read", "error")

(* Reading from an established session.                                     *)
read_data(e, n) ==
    /\ Handling(e, "Read")
    /\ Established(e)
    /\ n <= Ready(e)
    /\ got' = [got EXCEPT ![e] = @ \o SubSeq(Incoming(e), 1, n)]
    /\ ReadWrite(e, n, <<>>)
    /\ UNCHANGED <<session, wrote>>
    /\ Conclude(e, "Read", "data")

read_end(e) ==
    /\ Handling(e, "Read")
    /\ Established(e)
    /\ Ready(e) = 0
    /\ UNCHANGED <<session, wire, arrived, wrote, got>>
    /\ Conclude(e, "Read", "zero")

(* The service sends through an active transport; the credentials are out   *)
(* by then (NetResource: ActiveMeansCertified).                             *)
write_data(e) ==
    /\ InReactor(e) /\ batch[e] = <<>>
    /\ state[e] = "Active" /\ sent[e]
    /\ wrote[e] < MaxData
    /\ wrote' = [wrote EXCEPT ![e] = @ + 1]
    /\ ReadWrite(e, 0, Data(wrote[e], wrote[e] + 1))
    /\ UNCHANGED <<chosen, driver, session, closed, got>>

handle_io(e) ==
    \/ write_begin(e) \/ write_certify(e) \/ write_nothing(e)
    \/ read_short(e) \/ read_act(e) \/ read_credentials(e) \/ read_credentials_invalid(e)
    \/ \E n \in 1..MaxData : read_data(e, n)
    \/ read_end(e)

-----------------------------------------------------------------------------
(* A terminated transport is unregistered and dropped, a client that is     *)
(* done or panics exits: the connection is closed.                          *)
disconnect(e) ==
    /\ state[e] \in {"Terminated", "Panic"}
    /\ ~closed[e]
    /\ closed' = [closed EXCEPT ![e] = TRUE]
    /\ UNCHANGED <<chosen, driver, session, wire, arrived, wrote, got>>

(* The network delivers all that was written or, fragmented, a part of it.  *)
deliver(e) ==
    /\ arrived[e] < Len(wire[e])
    /\ \E n \in (arrived[e] + 1)..Len(wire[e]) :
          /\ fragmented \/ n = Len(wire[e])
          /\ arrived' = [arrived EXCEPT ![e] = n]
    /\ UNCHANGED <<chosen, driver, session, wire, closed, wrote, got>>

Next == \/ client
        \/ \E e \in Ends : poll(e) \/ handle_io(e) \/ write_data(e)
                            \/ disconnect(e) \/ deliver(e)

Spec == Init /\ [][Next]_vars

(* The reactors keep polling, the client runs and the network delivers.     *)
FairSpec == /\ Spec
            /\ WF_vars(client)
            /\ \A e \in Ends : /\ WF_vars(poll(e) \/ handle_io(e))
                               /\ WF_vars(disconnect(e))
                               /\ WF_vars(deliver(e))

-----------------------------------------------------------------------------
TypeOK ==
    /\ mode \in Modes /\ fragmented \in Fragmentation
    /\ target \in Keys /\ context \in [Ends -> Contexts]
    /\ state \in [Ends -> {"Init", "Handshake", "Active", "Terminated",
                           "Dial", "Act", "Certify", "Verify", "Panic"}]
    /\ write_intent \in [Ends -> BOOLEAN]
    /\ batch \in [Ends -> {<<>>, <<"Read">>, <<"Write">>, <<"Write", "Read">>}]
    /\ acts \in [Ends -> 0..3]
    /\ sent \in [Ends -> BOOLEAN]
    /\ remote_id \in [Ends -> Keys \cup {None}]
    /\ remote_addr \in [Ends -> Addresses]
    /\ \A e \in Ends : /\ wire[e] \in Seq(Units) /\ got[e] \in Seq(Units)
                       /\ arrived[e] \in 0..Len(wire[e])
    /\ closed \in [Ends -> BOOLEAN]
    /\ wrote \in [Ends -> 0..MaxData]

(* What an end is given as data is what the other has written as data, from *)
(* its beginning: whatever pieces the stream arrives in, and though a short *)
(* read_exact throws its piece away, no act and no part of the credentials  *)
(* is taken for data (NoiseXk::read).                                       *)
DataUnaltered ==
    \A e \in Ends : /\ Len(got[e]) <= wrote[Peer(e)]
                    /\ got[e] = Data(0, Len(got[e]))

(* An active session has the identity of its peer: the key the other end    *)
(* certifies and, for the end that connected, the key it has dialled.       *)
IdentityAgreed ==
    \A e \in Ends : state[e] = "Active" =>
        /\ remote_addr[e] = context[Peer(e)].cert
        /\ context[Peer(e)].valid
        /\ e = "I" => context["R"].cert = target

(* connect_blocking panics only if the other end's credentials are not      *)
(* valid or not those of the key dialled ("has failed validation", "has a   *)
(* different identity than expected"), however they arrive.                 *)
PanicOnlyOnWrongPeer ==
    state["I"] = "Panic" => context["R"].cert # target \/ ~context["R"].valid

Honest == /\ context["R"].key = target /\ context["R"].cert = target
          /\ context["I"].valid /\ context["R"].valid

(* Two ends that have the keys they claim both become active, as long as    *)
(* the acts and credentials arrive whole: neither waits for the other's     *)
(* next message while the other waits for its own.                          *)
SessionsEstablish ==
    Honest /\ ~fragmented ~> state["I"] = "Active" /\ state["R"] = "Active"

(* Data written to an active session arrives, in pieces or not, while both  *)
(* ends stay.                                                               *)
DataArrives ==
    \A e \in Ends, n \in 1..MaxData :
        wrote[e] >= n /\ state[Peer(e)] = "Active"
            ~> Len(got[Peer(e)]) >= n \/ state[Peer(e)] = "Terminated"
=============================================================================
