------------------------------- MODULE Runtime -------------------------------
(***************************************************************************)
(* The registry of the reactor thread (io-reactor/src/reactor.rs, Runtime): *)
(* listeners and transports by id, two indexes from file descriptor to id,  *)
(* and the poller. Descriptors are reused by the operating system as soon   *)
(* as they are closed; a transport's id is its descriptor, a listener's id  *)
(* is its address.                                                          *)
(*                                                                         *)
(* A resource is numbered when it is made and stays the same resource       *)
(* whatever becomes of its descriptor. The service is any Handler that      *)
(* queues its actions first in, first out and drops what is handed back to  *)
(* it, as the server of nsh does (nsh/src/server.rs).                       *)
(***************************************************************************)
EXTENDS Naturals, Sequences, FiniteSets

CONSTANTS
    Fds,            \* file descriptors the process may get
    Addrs,          \* addresses listeners may be bound to
    None,           \* no entry
    ListenerFails,  \* what poll may report of a listener besides readiness
    OtherThreads,   \* whether controllers may make and register transports
    MaxMade,        \* bound: resources made in all
    MaxQueue        \* bound: actions queued at a time

ASSUME RuntimeAssumption ==
    /\ None \notin Fds \cup Addrs \cup Nat
    /\ ListenerFails \subseteq {"hup", "err"}
    /\ OtherThreads \subseteq BOOLEAN
    /\ MaxMade \in Nat /\ MaxQueue \in Nat

VARIABLES
    shared,             \* whether there are controllers in other threads
    made,               \* history: the resources made, in order
    gone,               \* resources dropped, their descriptors closed
    listeners,          \* Runtime::listeners
    transports,         \* Runtime::transports
    listener_map,       \* Runtime::listener_map
    transport_map,      \* Runtime::transport_map
    poller,             \* descriptors registered with the poller
    events,             \* what poll reported and nobody has handled
    unregister_queue,   \* descriptors handle_events has yet to unregister
    ctl,                \* resources in the control channel
    actions,            \* actions the service has queued
    phase,              \* where the reactor thread is in run
    strays              \* history: actions that acted on another resource

vars == <<shared, made, gone, listeners, transports, listener_map, transport_map, poller,
          events, unregister_queue, ctl, actions, phase, strays>>
registry == <<listeners, transports, listener_map, transport_map, poller>>

Resource == [kind : {"listener"}, fd : Fds, id : Addrs]
            \cup {[kind |-> "transport", fd |-> fd, id |-> fd] : fd \in Fds}
Act(k, o) == [kind |-> k, res |-> o]

Numbers == 1..Len(made)
Open(closed) == Numbers \ closed

(* Resources whose descriptor, and for a listener whose address, is free.   *)
Creatable(closed) ==
    {n \in Resource : \A o \in Open(closed) :
        /\ made[o].fd # n.fd
        /\ n.kind = "listener" /\ made[o].kind = "listener" => made[o].id # n.id}

(* Runtime starts with empty registries; the service may have prepared a     *)
(* resource to register (Server::with binds a listener).                    *)
Init ==
    /\ shared \in OtherThreads
    /\ made \in {<<>>} \cup {<<n>> : n \in Resource} /\ Len(made) <= MaxMade
    /\ actions = [i \in DOMAIN made |-> Act("register", i)]
    /\ gone = {}
    /\ listeners = [a \in Addrs |-> None]
    /\ transports = [fd \in Fds |-> None]
    /\ listener_map = [fd \in Fds |-> None]
    /\ transport_map = [fd \in Fds |-> None]
    /\ poller = {}
    /\ events = <<>> /\ unregister_queue = {}
    /\ ctl = <<>>
    /\ phase = "poll"
    /\ strays = {}

-----------------------------------------------------------------------------
(* The service.                                                             *)

(* A queue that serves the latest action first.                             *)
Enqueue_Front(queue, a) == <<a>> \o queue

(* Actions are pushed at the back and taken from the front (Server::next).  *)
Enqueue(queue, a) == Append(queue, a)

(* What the service may do in any of its handlers: nothing; queue an action *)
(* on a resource that is open, or unregister one that it has just got back  *)
(* because it hung up (back; the server does so for a listener); or queue   *)
(* the registration of a resource it has accepted, connected or bound.      *)
React(closed, queue, back) ==
    \/ made' = made /\ actions' = queue
    \/ /\ Len(queue) < MaxQueue
       /\ \E r \in Open(closed) \cup back : \E k \in {"send", "unregister"} :
             /\ made[r].kind = "listener" \/ r \in back => k = "unregister"
             /\ actions' = Enqueue(queue, Act(k, r))
       /\ made' = made
    \/ /\ Len(queue) < MaxQueue /\ Len(made) < MaxMade
       /\ \E n \in Creatable(closed) : made' = Append(made, n)
       /\ actions' = Enqueue(queue, Act("register", Len(made) + 1))

-----------------------------------------------------------------------------
(* poll and handle_events.                                                  *)

(* What poll may report of a descriptor: readiness, a hang-up or an error.  *)
Reports(fd) ==
    {"io"} \cup IF \E o \in Open(gone) : made[o].fd = fd /\ made[o].kind = "listener"
                THEN ListenerFails ELSE {"hup", "err"}

(* Orders in which the descriptors S may be reported.                       *)
Orders(S) == {s \in [1..Cardinality(S) -> S] : \A fd \in S : \E i \in DOMAIN s : s[i] = fd}

poll ==
    /\ phase = "poll"
    /\ \E S \in SUBSET poller \ {{}} : \E s \in Orders(S) :
       \E res \in [S -> {"io", "hup", "err"}] :
          /\ \A fd \in S : res[fd] \in Reports(fd)
          /\ events' = [i \in DOMAIN s |-> [fd |-> s[i], res |-> res[s[i]]]]
    /\ phase' = "events"
    /\ UNCHANGED <<shared, made, gone, registry, unregister_queue, ctl, actions, strays>>

(* The waker alone is reported.                                             *)
poll_awoken ==
    /\ phase = "poll"
    /\ phase' = "ctl"
    /\ UNCHANGED <<shared, made, gone, registry, events, unregister_queue, ctl, actions, strays>>

(* poll fails: the service is told, and its actions wait for another turn.  *)
poll_error ==
    /\ phase = "poll"
    /\ React(gone, actions, {})
    /\ UNCHANGED <<shared, gone, registry, events, unregister_queue, ctl, phase, strays>>

(* The resource an event is handed to: the listener index is asked first.   *)
Target(fd) ==
    IF listener_map[fd] # None THEN listeners[listener_map[fd]]
    ELSE IF transport_map[fd] # None THEN transports[transport_map[fd]] ELSE None

Known(fd) == listener_map[fd] # None \/ transport_map[fd] # None

Handling(res) == phase = "events" /\ events # <<>> /\ Head(events).res = res

(* One turn of the loop over the readiness of a resource, Write and Read:   *)
(* its handle_io may give the service an event.                             *)
handle_event_io ==
    /\ Handling("io")
    /\ Target(Head(events).fd) # None
    /\ events' \in {events, Tail(events)}
    /\ React(gone, actions, {})
    /\ UNCHANGED <<shared, gone, registry, unregister_queue, ctl, phase, strays>>

(* An error the resource survives: the service is told its id.              *)
handle_event_err ==
    /\ Handling("err")
    /\ Known(Head(events).fd)
    /\ events' = Tail(events)
    /\ React(gone, actions, {})
    /\ UNCHANGED <<shared, gone, registry, unregister_queue, ctl, phase, strays>>

(* A hang-up that only closes the descriptor.                               *)
handle_event_hup_Kept ==
    /\ Handling("hup")
    /\ events' = Tail(events)
    /\ LET o == Target(Head(events).fd) IN
       /\ o # None
       /\ gone' = gone \cup {o}
       /\ React(gone', actions, {o})
    /\ UNCHANGED <<shared, registry, unregister_queue, ctl, phase, strays>>

(* A hang-up: the resource leaves the reactor and is dropped by the         *)
(* service. Its descriptor stays in the index and, until the events are     *)
(* done, in the poller.                                                     *)
handle_event_hup ==
    /\ Handling("hup")
    /\ events' = Tail(events)
    /\ LET o == Target(Head(events).fd) IN
       /\ o # None
       /\ listeners' = [a \in Addrs |-> IF listeners[a] = o THEN None ELSE listeners[a]]
       /\ transports' = [fd \in Fds |-> IF transports[fd] = o THEN None ELSE transports[fd]]
       /\ unregister_queue' = unregister_queue \cup {made[o].fd}
       /\ gone' = gone \cup {o}
       /\ React(gone', actions, {o})
    /\ UNCHANGED <<shared, listener_map, transport_map, poller, ctl, phase, strays>>

(* The queue is dropped unread.                                             *)
unregister_hung_Skipped ==
    /\ phase = "events" /\ events = <<>>
    /\ unregister_queue' = {}
    /\ phase' = "ctl"
    /\ UNCHANGED <<shared, made, gone, registry, events, ctl, actions, strays>>

unregister_hung ==
    /\ phase = "events" /\ events = <<>>
    /\ poller' = poller \ unregister_queue
    /\ unregister_queue' = {}
    /\ phase' = "ctl"
    /\ UNCHANGED <<shared, made, gone, listeners, transports, listener_map, transport_map,
                   events, ctl, actions, strays>>

-----------------------------------------------------------------------------
(* handle_action.                                                           *)

(* Action::RegisterListener and Action::RegisterTransport.                  *)
Register(o) ==
    LET fd == made[o].fd
        id == made[o].id
    IN  /\ poller' = poller \cup {fd}
        /\ IF made[o].kind = "listener"
           THEN /\ listeners' = [listeners EXCEPT ![id] = o]
                /\ listener_map' = [listener_map EXCEPT ![fd] = id]
                /\ UNCHANGED <<shared, transports, transport_map>>
           ELSE /\ transports' = [transports EXCEPT ![id] = o]
                /\ transport_map' = [transport_map EXCEPT ![fd] = id]
                /\ UNCHANGED <<shared, listeners, listener_map>>

(* The resource an action finds under the id of the resource it is meant    *)
(* for.                                                                     *)
Found(o) ==
    IF made[o].kind = "listener" THEN listeners[made[o].id] ELSE transports[made[o].id]

Indexed(o) ==
    IF made[o].kind = "listener" THEN listener_map[made[o].fd] ELSE transport_map[made[o].fd]

Acting(k) ==
    /\ phase = "actions" /\ actions # <<>>
    /\ Head(actions).kind = k

Strayed(aim, hit) == strays' = IF aim = hit THEN strays ELSE strays \cup {<<aim, hit>>}

(* A registration the service has queued.                                   *)
action_register ==
    /\ Acting("register")
    /\ Register(Head(actions).res)
    /\ actions' = Tail(actions)
    /\ UNCHANGED <<shared, made, gone, events, unregister_queue, ctl, phase, strays>>

(* The listener is handed over and its index entry stays.                   *)
action_unregister_KeepsIndex ==
    /\ Acting("unregister")
    /\ LET o == Found(Head(actions).res) IN
       /\ o # None
       /\ IF made[o].kind = "listener"
          THEN /\ listeners' = [listeners EXCEPT ![made[o].id] = None]
               /\ UNCHANGED <<shared, transports, listener_map, transport_map>>
          ELSE /\ transports' = [transports EXCEPT ![made[o].id] = None]
               /\ transport_map' = [transport_map EXCEPT ![made[o].fd] = None]
               /\ UNCHANGED <<shared, listeners, listener_map>>
       /\ poller' = poller \ {made[o].fd}
       /\ gone' = gone \cup {o}
       /\ Strayed(Head(actions).res, o)
       /\ React(gone', Tail(actions), {})
    /\ UNCHANGED <<shared, events, unregister_queue, ctl, phase>>

(* Action::UnregisterListener and Action::UnregisterTransport: the resource *)
(* is handed over to the service, which drops it.                           *)
action_unregister ==
    /\ Acting("unregister")
    /\ LET o == Found(Head(actions).res) IN
       /\ o # None
       /\ Indexed(o) # None
       /\ IF made[o].kind = "listener"
          THEN /\ listeners' = [listeners EXCEPT ![made[o].id] = None]
               /\ listener_map' = [listener_map EXCEPT ![made[o].fd] = None]
               /\ UNCHANGED <<shared, transports, transport_map>>
          ELSE /\ transports' = [transports EXCEPT ![made[o].id] = None]
               /\ transport_map' = [transport_map EXCEPT ![made[o].fd] = None]
               /\ UNCHANGED <<shared, listeners, listener_map>>
       /\ poller' = poller \ {made[o].fd}
       /\ gone' = gone \cup {o}
       /\ Strayed(Head(actions).res, o)
       /\ React(gone', Tail(actions), {})
    /\ UNCHANGED <<shared, events, unregister_queue, ctl, phase>>

(* Action::Send: the transport takes the data, or the service is told of    *)
(* the failure.                                                             *)
action_send ==
    /\ Acting("send")
    /\ Found(Head(actions).res) # None
    /\ Strayed(Head(actions).res, Found(Head(actions).res))
    /\ React(gone, Tail(actions), {})
    /\ UNCHANGED <<shared, gone, registry, events, unregister_queue, ctl, phase>>

(* An id the reactor does not know: ListenerUnknown or TransportUnknown.    *)
action_unknown ==
    /\ Acting("send") \/ Acting("unregister")
    /\ Found(Head(actions).res) = None
    /\ React(gone, Tail(actions), {})
    /\ UNCHANGED <<shared, gone, registry, events, unregister_queue, ctl, phase, strays>>

actions_done ==
    /\ phase = "actions" /\ actions = <<>>
    /\ phase' = "poll"
    /\ UNCHANGED <<shared, made, gone, registry, events, unregister_queue, ctl, actions, strays>>

-----------------------------------------------------------------------------
(* Controllers, and the control channel. Whether the waker was among the    *)
(* events is left open here: run may look at the channel or pass it by.     *)

controller_register ==
    /\ shared
    /\ Len(made) < MaxMade
    /\ \E n \in Creatable(gone) : n.kind = "transport" /\ made' = Append(made, n)
    /\ ctl' = Append(ctl, Len(made) + 1)
    /\ UNCHANGED <<shared, gone, registry, events, unregister_queue, actions, phase, strays>>

ctl_register ==
    /\ phase = "ctl" /\ ctl # <<>>
    /\ Register(Head(ctl))
    /\ ctl' = Tail(ctl)
    /\ UNCHANGED <<shared, made, gone, events, unregister_queue, actions, phase, strays>>

ctl_done ==
    /\ phase = "ctl"
    /\ phase' = "actions"
    /\ UNCHANGED <<shared, made, gone, registry, events, unregister_queue, ctl, actions, strays>>

Next ==
    \/ poll \/ poll_awoken \/ poll_error
    \/ handle_event_io \/ handle_event_err \/ handle_event_hup \/ unregister_hung
    \/ ctl_register \/ ctl_done
    \/ action_register \/ action_unregister \/ action_send \/ action_unknown
    \/ actions_done
    \/ controller_register

Spec == Init /\ [][Next]_vars

-----------------------------------------------------------------------------
(* Every variable ranges over the values the program can give it.           *)
TypeOK ==
    /\ shared \in OtherThreads
    /\ made \in Seq(Resource) /\ Len(made) <= MaxMade
    /\ gone \subseteq Numbers
    /\ listeners \in [Addrs -> Numbers \cup {None}]
    /\ transports \in [Fds -> Numbers \cup {None}]
    /\ listener_map \in [Fds -> Addrs \cup {None}]
    /\ transport_map \in [Fds -> Fds \cup {None}]
    /\ poller \subseteq Fds
    /\ events \in Seq([fd : Fds, res : {"io", "hup", "err"}])
    /\ unregister_queue \subseteq Fds
    /\ ctl \in Seq(Numbers)
    /\ actions \in Seq([kind : {"register", "send", "unregister"}, res : Numbers])
    /\ phase \in {"poll", "events", "ctl", "actions"}
    /\ strays \subseteq Numbers \X Numbers

InReactor == {o \in Numbers : (\E a \in Addrs : listeners[a] = o) \/ (\E fd \in Fds : transports[fd] = o)}

(* Outside handle_events the poller watches exactly the descriptors of the  *)
(* resources in the reactor, which are open: a descriptor that was closed   *)
(* is unregistered before whoever reuses it can be registered               *)
(* (unregister_queue is emptied before the control channel and the actions  *)
(* are looked at).                                                          *)
PollerMatches ==
    phase # "events" =>
        /\ poller = {made[o].fd : o \in InReactor}
        /\ InReactor \cap gone = {}

(* An event is handed to the resource that owns its descriptor, whatever    *)
(* was registered under that descriptor before (the listener index is asked *)
(* before the transport index).                                             *)
EventsReachTheirResource ==
    phase = "events" =>
        \A i \in 1..Len(events) : LET o == Target(events[i].fd) IN
            o # None => made[o].fd = events[i].fd /\ o \notin gone

(* None of the expectations of the reactor thread fails: "resource          *)
(* disappeared", "file descriptor in reactor which is not a known waker,    *)
(* listener or transport", "listener index content doesn't match registered *)
(* listeners".                                                              *)
NoPanic ==
    /\ Handling("io") \/ Handling("hup") => Target(Head(events).fd) # None
    /\ Handling("err") => Known(Head(events).fd)
    /\ Acting("unregister") /\ Found(Head(actions).res) # None
          => Indexed(Found(Head(actions).res)) # None

(* An action acts on the resource the service meant or, when that has left  *)
(* the reactor, on none: never on the one that got its descriptor since.    *)
(* Controllers in other threads void this: what they register through the   *)
(* control channel overtakes the actions that wait in the service's queue.  *)
ActionsReachTheirResource == ~shared => strays = {}
=============================================================================
