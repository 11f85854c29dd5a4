-------------------------------- MODULE Server --------------------------------
(***************************************************************************)
(* The nsh server (nsh/src/server.rs) with its command processor            *)
(* (nsh/src/processor.rs), run by the reactor: a turn handles the events of *)
(* one poll, each descriptor at most once, and then the actions the server  *)
(* has queued, until none is left.                                          *)
(*                                                                         *)
(* Connections are numbered when they are made; their descriptors, which    *)
(* the server knows them by, are reused. A message remembers, for the       *)
(* properties only, the connection it was meant for.                        *)
(***************************************************************************)
EXTENDS Naturals, Sequences, FiniteSets

CONSTANTS
    Fds,        \* descriptors connections may get
    NoMsg,      \* the message of an action that carries none
    MaxConns,   \* bound: connections made in all
    MaxMsgs     \* bound: messages the processor makes in all

ASSUME ServerAssumption ==
    /\ 0 \notin Fds    \* stands for the listener's descriptor
    /\ NoMsg \notin [to : Nat, n : Nat]
    /\ MaxConns \in Nat /\ MaxMsgs \in Nat

VARIABLES
    conns,          \* descriptor of each connection made
    status,         \* state of each connection's transport
    listening,      \* whether the listener is in the reactor
    outbox,         \* Server::outbox
    action_queue,   \* Server::action_queue
    phase,          \* where the reactor is in its turn
    seen,           \* descriptors whose event of this turn has been handled
    made,           \* messages made so far
    delivered,      \* history: messages written, and to which connection
    refused,        \* history: messages dropped with an error
    waited          \* history: messages that have been in the outbox, by number

vars == <<conns, status, listening, outbox, action_queue, phase, seen, made,
          delivered, refused, waited>>

Numbers  == 1..Len(conns)
Message  == [to : 1..MaxConns, n : 1..MaxMsgs]
Do(k, fd, msg) == [kind |-> k, fd |-> fd, msg |-> msg]
Register(fd)   == Do("register", fd, NoMsg)
Unregister(fd) == Do("unregister", fd, NoMsg)
Send(fd, msg)  == Do("send", fd, msg)

(* The transport the reactor has under an id, if any.                       *)
Transport(fd) ==
    {c \in Numbers : conns[c] = fd /\ status[c] \in {"handshake", "active", "terminated"}}

(* Server::with: the listener is registered by the first action.            *)
Init ==
    /\ conns = <<>> /\ status = <<>>
    /\ listening = TRUE
    /\ outbox = [fd \in Fds |-> <<>>]
    /\ action_queue = <<>>
    /\ phase = "events" /\ seen = {}
    /\ made = 0
    /\ delivered = <<>> /\ refused = {} /\ waited = {}

-----------------------------------------------------------------------------
(* Events.                                                                  *)

FreeFds == Fds \ {conns[c] : c \in {d \in Numbers : status[d] # "gone"}}

(* A transport made by the server, to be registered.                        *)
NewTransport(fd) ==
    /\ Len(conns) < MaxConns
    /\ fd \in FreeFds
    /\ conns' = Append(conns, fd)
    /\ status' = Append(status, "new")

ListenerEvent == phase = "events" /\ listening /\ 0 \notin seen /\ seen' = seen \cup {0}

(* handle_listener_event(Accepted)                                          *)
accepted(fd) ==
    /\ ListenerEvent
    /\ NewTransport(fd)
    /\ action_queue' = Append(action_queue, Register(fd))
    /\ UNCHANGED <<listening, outbox, phase, made, delivered, refused, waited>>

(* The listener's error makes the server unregister it: the reactor has     *)
(* dropped a listener that hung up, and hands over one that has not.        *)
listener_error(hup) ==
    /\ ListenerEvent
    /\ listening' = ~hup
    /\ action_queue' = Append(action_queue, Do("unregister_listener", 0, NoMsg))
    /\ UNCHANGED <<conns, status, outbox, phase, made, delivered, refused, waited>>

Event(c) ==
    /\ phase = "events"
    /\ c \in Numbers /\ conns[c] \notin seen
    /\ seen' = seen \cup {conns[c]}
    /\ UNCHANGED <<listening, phase, delivered, refused, waited>>

(* A server that sends the outbox and keeps it.                             *)
established_Kept(c) ==
    LET fd == conns[c] IN
    /\ Event(c)
    /\ status[c] = "handshake"
    /\ status' = [status EXCEPT ![c] = "active"]
    /\ action_queue' = action_queue \o [i \in DOMAIN outbox[fd] |-> Send(fd, outbox[fd][i])]
    /\ UNCHANGED <<conns, made, outbox>>

(* handle_transport_event(Established): what waited for the connection is   *)
(* queued.                                                                  *)
established(c) ==
    LET fd == conns[c] IN
    /\ Event(c)
    /\ status[c] = "handshake"
    /\ status' = [status EXCEPT ![c] = "active"]
    /\ action_queue' = action_queue \o [i \in DOMAIN outbox[fd] |-> Send(fd, outbox[fd][i])]
    /\ outbox' = [outbox EXCEPT ![fd] = <<>>]
    /\ UNCHANGED <<conns, made>>

NewMessage(c) == [to |-> c, n |-> made + 1]

(* The client is dismissed before it is answered.                           *)
input_answered_DismissedFirst(c, dismissed) ==
    /\ Event(c)
    /\ status[c] = "active"
    /\ made < MaxMsgs
    /\ made' = made + 1
    /\ action_queue' = action_queue \o (IF dismissed THEN <<Unregister(conns[c])>> ELSE <<>>)
                       \o <<Send(conns[c], NewMessage(c))>>
    /\ UNCHANGED <<conns, status, outbox>>

(* Processor::input of a command that is answered: echo, a command that is  *)
(* invalid, or one that fails; after all but the first the client is        *)
(* dismissed.                                                               *)
input_answered(c, dismissed) ==
    /\ Event(c)
    /\ status[c] = "active"
    /\ made < MaxMsgs
    /\ made' = made + 1
    /\ action_queue' = action_queue \o <<Send(conns[c], NewMessage(c))>>
                       \o (IF dismissed THEN <<Unregister(conns[c])>> ELSE <<>>)
    /\ UNCHANGED <<conns, status, outbox>>

(* Processor::input of Command::Forward: a connection to the hop is begun   *)
(* and the command is sent to it at once.                                   *)
input_forward(c, fd) ==
    /\ Event(c)
    /\ status[c] = "active"
    /\ made < MaxMsgs
    /\ made' = made + 1
    /\ NewTransport(fd)
    /\ action_queue' = action_queue \o <<Register(fd), Send(fd, NewMessage(Len(conns) + 1))>>
    /\ UNCHANGED outbox

(* handle_transport_event(Terminated)                                       *)
terminated(c) ==
    /\ Event(c)
    /\ status[c] \in {"handshake", "active"}
    /\ status' = [status EXCEPT ![c] = "terminated"]
    /\ action_queue' = Append(action_queue, Unregister(conns[c]))
    /\ UNCHANGED <<conns, outbox, made>>

(* handle_error(TransportDisconnect): the transport is dropped, and that is *)
(* all.                                                                     *)
disconnected(c) ==
    /\ Event(c)
    /\ c \in Transport(conns[c])
    /\ status' = [status EXCEPT ![c] = "gone"]
    /\ UNCHANGED <<conns, action_queue, outbox, made>>

(* handle_error(TransportPollError)                                         *)
poll_error(c) ==
    /\ Event(c)
    /\ c \in Transport(conns[c])
    /\ action_queue' = Append(action_queue, Unregister(conns[c]))
    /\ UNCHANGED <<conns, status, outbox, made>>

events_done ==
    /\ phase = "events"
    /\ phase' = "actions"
    /\ seen' = {}
    /\ UNCHANGED <<conns, status, listening, outbox, action_queue, made, delivered, refused,
                   waited>>

-----------------------------------------------------------------------------
(* Actions, taken from the front of the queue, and handle_error.            *)

Acting(k) ==
    /\ phase = "actions" /\ action_queue # <<>>
    /\ Head(action_queue).kind = k
    /\ UNCHANGED <<conns, phase, seen, made>>

action_register ==
    /\ Acting("register")
    /\ action_queue' = Tail(action_queue)
    /\ status' = [c \in Numbers |->
                    IF conns[c] = Head(action_queue).fd /\ status[c] = "new"
                    THEN "handshake" ELSE status[c]]
    /\ UNCHANGED <<listening, outbox, delivered, refused, waited>>

(* handover_transport: the server drops what it is handed back.             *)
action_unregister ==
    /\ Acting("unregister")
    /\ Transport(Head(action_queue).fd) # {}
    /\ action_queue' = Tail(action_queue)
    /\ status' = [c \in Numbers |->
                    IF c \in Transport(Head(action_queue).fd) THEN "gone" ELSE status[c]]
    /\ UNCHANGED <<listening, outbox, delivered, refused, waited>>

(* A server that tries again to unregister what the reactor does not know.  *)
unregister_unknown_Retried ==
    /\ Acting("unregister")
    /\ Transport(Head(action_queue).fd) = {}
    /\ action_queue' = Append(Tail(action_queue), Head(action_queue))
    /\ UNCHANGED <<status, listening, outbox, delivered, refused, waited>>

(* handle_error(TransportUnknown): logged, and that is all. Two failures of *)
(* one connection unregister it twice.                                      *)
unregister_unknown ==
    /\ Acting("unregister")
    /\ Transport(Head(action_queue).fd) = {}
    /\ action_queue' = Tail(action_queue)
    /\ UNCHANGED <<status, listening, outbox, delivered, refused, waited>>

(* The data are written, or buffered by the transport.                      *)
send_written ==
    /\ Acting("send")
    /\ \E c \in Transport(Head(action_queue).fd) :
          /\ status[c] = "active"
          /\ delivered' = Append(delivered, [msg |-> Head(action_queue).msg, conn |-> c])
    /\ action_queue' = Tail(action_queue)
    /\ UNCHANGED <<status, listening, outbox, refused, waited>>

(* handle_error(WriteFailure)                                               *)
send_failed ==
    /\ Acting("send")
    /\ \E c \in Transport(Head(action_queue).fd) : status[c] = "active"
    /\ refused' = refused \cup {Head(action_queue).msg}
    /\ action_queue' = Append(Tail(action_queue), Unregister(Head(action_queue).fd))
    /\ UNCHANGED <<status, listening, outbox, delivered, waited>>

(* handle_error(WriteLogicError): the message waits in the outbox.          *)
send_not_ready ==
    /\ Acting("send")
    /\ \E c \in Transport(Head(action_queue).fd) : status[c] # "active"
    /\ outbox' = [outbox EXCEPT ![Head(action_queue).fd] = Append(@, Head(action_queue).msg)]
    /\ waited' = waited \cup {Head(action_queue).msg.n}
    /\ action_queue' = Tail(action_queue)
    /\ UNCHANGED <<status, listening, delivered, refused>>

(* handover_listener panics; of a listener that is gone only the error is   *)
(* logged (ListenerUnknown).                                                *)
action_unregister_listener ==
    /\ phase = "actions" /\ action_queue # <<>>
    /\ Head(action_queue).kind = "unregister_listener"
    /\ action_queue' = Tail(action_queue)
    /\ phase' = IF listening THEN "panic" ELSE phase
    /\ listening' = FALSE
    /\ UNCHANGED <<conns, status, outbox, seen, made, delivered, refused, waited>>

actions_done ==
    /\ phase = "actions" /\ action_queue = <<>>
    /\ phase' = "events"
    /\ UNCHANGED <<conns, status, listening, outbox, action_queue, seen, made, delivered, refused,
                   waited>>

handle_actions ==
    \/ action_register \/ action_unregister \/ unregister_unknown
    \/ action_unregister_listener
    \/ send_written \/ send_failed \/ send_not_ready
    \/ actions_done

handle_events ==
    \/ \E fd \in Fds : accepted(fd)
    \/ \E hup \in BOOLEAN : listener_error(hup)
    \/ \E c \in Numbers :
         \/ established(c) \/ terminated(c) \/ disconnected(c) \/ poll_error(c)
         \/ \E dismissed \in BOOLEAN : input_answered(c, dismissed)
         \/ \E fd \in Fds : input_forward(c, fd)
    \/ events_done

Next == handle_events \/ handle_actions

Spec == Init /\ [][Next]_vars

(* The reactor thread goes through the actions of a turn; no peer has to    *)
(* cause an event.                                                          *)
FairSpec == Spec /\ WF_vars(handle_actions)

-----------------------------------------------------------------------------
(* Every variable ranges over the values the program can give it.           *)
TypeOK ==
    /\ conns \in Seq(Fds) /\ Len(conns) <= MaxConns
    /\ status \in [Numbers -> {"new", "handshake", "active", "terminated", "gone"}]
    /\ listening \in BOOLEAN
    /\ outbox \in [Fds -> Seq(Message)]
    /\ action_queue \in Seq([kind : {"register", "unregister", "send", "unregister_listener"},
                             fd : Fds \cup {0}, msg : Message \cup {NoMsg}])
    /\ phase \in {"events", "actions", "panic"}
    /\ seen \subseteq Fds \cup {0}
    /\ made \in 0..MaxMsgs
    /\ delivered \in Seq([msg : Message, conn : 1..MaxConns])
    /\ refused \subseteq Message
    /\ waited \subseteq 1..MaxMsgs

(* Every message of the processor is in one place, once: waiting in the     *)
(* queue or in the outbox, written to a connection, or refused with an      *)
(* error. None is lost or doubled while it moves between action_queue and   *)
(* outbox.                                                                  *)
MessagesAccounted ==
    \A n \in 1..made :
        Cardinality({i \in DOMAIN action_queue :
                        action_queue[i].kind = "send" /\ action_queue[i].msg.n = n})
        + Cardinality({w \in Fds \X (1..MaxMsgs) :
                        w[2] \in DOMAIN outbox[w[1]] /\ outbox[w[1]][w[2]].n = n})
        + Cardinality({i \in DOMAIN delivered : delivered[i].msg.n = n})
        + Cardinality({m \in refused : m.n = n}) = 1

(* Nothing waits in the outbox of a connection that is established: there   *)
(* is no second Established that would send it.                             *)
OutboxDrained == \A c \in Numbers : status[c] = "active" => outbox[conns[c]] = <<>>

(* A message that goes straight from the processor to the reactor finds its *)
(* own connection there: whatever unregisters a connection is queued behind *)
(* the messages to it, also when several of them fail, and its descriptor   *)
(* is not given to another before. A message that has waited in the outbox  *)
(* finds some transport under its descriptor, which need not be the one it  *)
(* was meant for (server_outbox). No message meets TransportUnknown, which  *)
(* would lose it.                                                           *)
SendsFindTheirTransport ==
    phase = "actions" /\ action_queue # <<>> /\ Head(action_queue).kind = "send"
        => LET msg == Head(action_queue).msg IN
           \E c \in Transport(Head(action_queue).fd) : c = msg.to \/ msg.n \in waited

(* The reactor gets out of the loop over the server's actions, although the *)
(* errors of actions queue further actions ("we may never get out of this   *)
(* loop", Runtime::handle_actions).                                         *)
TurnEnds == phase = "actions" ~> phase # "actions"

(* A message is written to the connection it was meant for: the items a     *)
(* "connection with remote peer" that is "successfully established" takes   *)
(* from the outbox were put there because that remote peer was not ready.   *)
MessagesReachTheirPeer ==
    \A i \in DOMAIN delivered : delivered[i].msg.to = delivered[i].conn
=============================================================================
