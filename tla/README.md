# Formal models of rust-netservices

TLA+ specifications of the core of this repository: the reactor of
`io-reactor`, the network transports of `netservices` that run in it, the
tunnel, and the `nsh` server built on all of them. Every module is translated
from the source lines that `PROJECT.json` lists under `map`; TLC checks the
modules on small instances and TLAPS proves the theorems for every value of
the constants.

Check a run with `tlc -config <run>.cfg <module>` and a proof with
`tlapm <module>_proofs.tla`.

## 1. The system

| Component | Source | State it keeps | Operations | Modelled in |
|---|---|---|---|---|
| Controller, waker | `io-reactor/src/reactor.rs` | two unbounded channels, a socket pair whose writing end is under a mutex, the receiving ends owned by the runtime | `Reactor::with`, `Controller::{send, register_*, shutdown, wake}`, `Runtime::run`, `reset_fd` | `ReactorControl` |
| Run loop | `io-reactor/src/reactor.rs` | the timers, the actions the service has queued | `Runtime::run`, `Action::SetTimer` | `ReactorLoop` with `Timeouts` |
| Registry of the reactor | `io-reactor/src/reactor.rs`, `poller/` | `listeners`, `transports`, `listener_map`, `transport_map`, the poller's registrations and pending events | `handle_events`, `handle_actions`, `handle_action` | `Runtime` |
| Timers | `io-reactor/src/timeouts.rs` | a vector of (key, time), a threshold | `register`, `next`, `check`, `check_now` | `Timeouts` |
| Promise of a transport | `io-reactor/src/resource.rs` | - | `WriteAtomic::write_atomic` | `AtomicStream`, `NetResource` |
| Transport | `src/resources.rs`, `session.rs` | transport state, write intent, write buffer | `handle_io`, `write_atomic`, `interests`, the constructors; outside the reactor `read`, `split_io`, `from_split_io`, `disconnect` | `NetResource` |
| Noise session and its client | `src/noise.rs`, `auth.rs`, `nsh/src/client.rs` | progress of the handshake and of the exchange of credentials, at both ends | `accept`, `connect_*`, `read`, `write`, `certify`, `verify`, `exec`, `recv` | `NoiseSession`, one end in `NetResource` |
| Tunnel | `src/tunnel.rs` | a buffer, a count and a write interest per direction | `with`, `tunnel_once`, `into_session` | `Tunnel` |
| nsh server and processor | `nsh/src/server.rs`, `processor.rs` | action queue, outbox by descriptor | the `Handler` callbacks, `Processor::input` | `Server` |

How they interact. Any thread with a `Controller` pushes a message on a channel
and writes a byte to the waker; the reactor thread sleeps in `poll`, hands the
readiness of descriptors to resources (`handle_io`), the events of resources to
the service (`Handler`), then drains commands, control messages and finally the
actions the service has queued. Actions register resources, hand them back, or
write through `write_atomic`. Transports drive a session below them; the
server keeps what a transport was not ready for in an outbox.

What is hard here: the wake-up protocol between threads, the order in which
channels are drained, shutdown while others are inside a call, descriptors that
the operating system reuses while queues still name them, two state machines
(transport and session) that advance separately, partial writes, the number 0
as an answer that means four different things, timers in a clock that may be
set, and a loop that runs until the
service has nothing left to ask for. `PROJECT.json` lists each hazard at its
line with the properties aimed at it.

## 2. Modules

**`ReactorControl`.** A step is one operation another thread can see: a push or
pop, taking the mutex, one write to or read of the waker. A controller is at
`idle`, `lock` or `write` (`pc`) with the message its call is about (`call`).
The reactor thread goes through `poll`, `reset`, `cmds`, `ctls`, `actions`, and
after `Shutdown` through the drops of its fields in declaration order
(`drop_cmd`, `drop_ctl`, `drop_waker`, `stopped`). `write_full` is the
`WouldBlock` arm of `wake`: `reset_fd` is given the writing end, where nothing
arrives, and `wake` calls itself under its own guard, so the thread is back at
`lock` with `mutex` still its own. The `Interrupted` arm is left out:
`write_all` retries that error itself. The panics on disconnected channels are
unreachable because the runtime holds a controller of its own. Resources are
moved values, so nobody registers one twice (`Taken`).

**`Timeouts`.** The vector with any sequence of calls; an unstable sort is any
descending arrangement (`Sortings`). Keys are numbered so that the history
tells equal keys apart. `check_now` looks at the vector with time zero, as the
code does and against its documentation; only `check` leaves the time it was
given in `checked`, which is what `CheckFiresExactlyTheDue` speaks of.

**`ReactorLoop`**, composed with `Timeouts` (`T == INSTANCE Timeouts`). The loop
of `Runtime::run` in time: the thread takes the clock and computes the timeout
of `poll` (`begin_poll`), sleeps (`elapse` counts down what is left of the
timeout), and leaves with events, with nothing, or with an error. Only the
first goes on to the handlers and to the actions; the other two start the loop
again. What the handlers do is reduced to what matters here: each may queue an
action, `SetTimer` or any other, and the action remembers who queued it. The
clock is the wall clock and may be set at any time (`clock_set`); `adjusted` says
that this happened while the thread slept. `run` never calls
`TimeoutManager::check`, so neither does the module. Commands and registration
are left to `ReactorControl` and `Runtime`.

**`NetResource`**, with **`AtomicStream`** as its abstract specification. One
transport, made by any of its constructors around a plain or a Noise session
(`origin`). `Conclude` is the tail of `handle_io`, common to all its branches;
the branches are the actions. The session is reduced to how many acts are still
to be read, whether the own certificate is out, and whether the peer's is
verified; bytes are named by message and position. The socket is `room`, the
peer three actions; both are external. A service may take the transport out
of the reactor (`held`), use it by itself, split it and join the halves: the
halves carry neither the buffers nor the write intent, and the reader and the
writer of a Noise session go straight to the connection. `early` and `strayed`
record what that does to a session whose credentials are still to be exchanged.
Debug assertions count as code: `split_io` with a message in the buffer panics.

**`NoiseSession`.** The two ends of one connection. The responder and a
nonblocking initiator are transports in a reactor, with the same `poll` and
`Conclude` as in `NetResource` reduced to what drives a session; a blocking
initiator is the thread in `connect_blocking`, then `Client::exec` and `recv`,
and `state["I"]` says where it stands. The stream has no boundaries: `wire` is
what was written, `arrived` how much of it can be read. `read_short` is
`read_exact` on a nonblocking socket: it takes what is there and fails.
Acts and signatures are values that the external cryptography accepts only
unaltered. The initiator is also given peers whose credentials are for another
key or not valid.

**`Runtime`.** The four maps, the poller, and the descriptors. Resources are
numbered when made, so that the properties can tell a resource from the next
one with its descriptor. `React` is everything a first-in-first-out service
like the one of nsh may do in a callback: nothing, queue an action, or make a
resource and queue its registration. `events` is drained one at a time and in
any order poll may report. A panic is a state in which the thread has no step;
`NoPanic` states the expectations of the code directly. The commands are not
modelled here, they are in `ReactorControl`.

**`Server`.** Turns of the reactor as the server sees them: events, each
descriptor at most once, then actions until none is left. `Forward` makes the
processor dial another server and send through a transport that is still in its
handshake; that is what the outbox is for. Running a shell command is left out:
it always queues one answer. `waited` is a history: the messages that have been
in an outbox.

**`Tunnel`.** The tunnelling mode of nsh with a session already connected:
binding, accepting one client, the loop of `tunnel_once`, and what becomes of the
session. The two directions are the same actions with the sides exchanged. `handle!`'s three arms are the continuation,
`handle_zero` and `handle_error`.

Proofs about a module `M` are in `M_proofs`, which extends it: one each for
`ReactorControl`, `Timeouts`, `ReactorLoop`, `NetResource`, `NoiseSession`,
`Runtime`, `Server` and `Tunnel`.

Operators whose name is that of a definition followed by `_` and a word are the
definition with a plausible mistake; `PROJECT.json` pairs each property with the
mistake that breaks it.

## 3. Runs

Passing runs:

| Run | Instance | Shows |
|---|---|---|
| `control` | 2 controllers with 2 calls each, 2 resources of which 1 is prepared by the service, waker of 2 bytes, `shutdown` | `NoLostWakeup`, `RegisteredBeforeUse` in every interleaving, also while threads are stuck on a full waker; `CommandsHandled`, `ShutdownStops`, `CallsReturn` unless one is, and `ComesToRest`: once nobody calls it, the thread sleeps with an empty waker and nothing left to do, time after time |
| `loop` | clock 0..3, durations 0..2, 3 actions, threshold 2, 3 units of sleep without timers | `PollOutlastsNoTimer`, `AskedTimersCovered`, `NothingLeftWaiting`, `EventsHandled` |
| `timeouts` | 4 timers, times 0..5, thresholds 0 and 2 | separation, no loss, `check` fires exactly what is due, `next` is never late |
| `net_transport` | accepted and connecting Noise, connecting plain, Noise from an existing session; 3 messages of up to 3 bytes, 3 bytes of room, 2 chunks of input; in the reactor, with the service, in halves | atomic writes and refinement of `AtomicStream`, the order of events towards the service, credentials before activity, the assertions of `handle_io` |
| `noise` | 2 keys, 4 contexts for each end (2 honest ones, one with the credentials of another key, one with a bad signature), both ways to connect, whole and fragmented delivery, 2 units of data each way | `DataUnaltered`, `IdentityAgreed`, `PanicOnlyOnWrongPeer`, `SessionsEstablish`, `DataArrives` |
| `runtime` | 2 descriptors, 1 address, 4 resources, 2 queued actions, with and without other threads | `PollerMatches`, `EventsReachTheirResource`, `NoPanic`, `ActionsReachTheirResource` |
| `server` | 2 descriptors, 3 connections, 2 messages | every message in one place, nothing waits for an established connection, a message that has not waited in the outbox finds the connection it was made for and one that has some transport under its descriptor (`SendsFindTheirTransport`), every turn ends |
| `tunnel` | 3 bytes in each direction, with failures and timeouts | unaltered streams and their counts, completion only at an end and not by an empty write, delivery, and the end of the session once a side has closed |

Runs that exhibit a disagreement between the code and what it says (the
`findings` of `PROJECT.json`):

| Run | What happens |
|---|---|
| `control_overfill` | a waker that "got overfilled" (`reactor.rs:275`) is not reset: `wake` calls itself (line 278) and waits for the mutex it holds |
| `net_flush` | the rest of a partial write stays although the socket is writable: no write intent is set, and `flush` does not know the buffer |
| `runtime_listener_hup` | a listener that hung up stays in `listener_map`; the transport that gets its descriptor panics the reactor |
| `server_outbox` | what waited for a peer that disconnected is sent to the next connection with its descriptor |

Further observations that are visible in the models and have no run:
`NetResource::new` around a plain session and `connect_blocking` enter the
reactor in state `Handshake` with a session that is complete, against the
assertion at `resources.rs:401` (`net_transport` checks `AssertionsHold` for the
other constructors); an act or a key of which only a part has arrived is thrown
away by `read_exact`, and the handshake never completes (`noise.rs:191`,
`auth.rs:39`; `SessionsEstablish` asks for whole messages, and `DataUnaltered`
says that no harm beyond that is done);
`check_now` is documented as "Given the current time, add to the input vector
keys that have timed out" (`timeouts.rs:127-128`) and compares with time zero
(line 148), so that it fires nothing that was set by the wall clock; nothing
calls it, and no property is claimed of it; a transport made by `with_session` has an empty read buffer
and takes the 0 it reads for a reset (`resources.rs:240`; `ResetOnlyByPeer`
excepts it); a timer that is over is never taken out, since `run` does not call
`check`, so that from then on every poll returns at once and the service is told
of nothing (`reactor.rs:377`; `EventsHandled` says that descriptors are served
nevertheless); a session split after the handshake and before the credentials
sends data in place of its credentials (`noise.rs:256`), and without debug
assertions a split drops what is buffered (`resources.rs:555`); while the tunnel
waits for its client nobody notices that the remote has gone (`tunnel.rs:46`);
the end of one stream makes `tunnel_once` drop what it has
buffered in both directions (`tunnel.rs:74`).

### Bounds

Two controllers are enough for any race on the mutex and the waker, since a
third could only do what the second does; two calls and the launch let one
thread register, another send and the first send again. `MaxOps` is also what
makes the callers stop, which `ComesToRest` is about: with callers that never
stop the thread need not sleep. The waker of 2 bytes is
filled by three wake-ups; the liveness properties except the states where a
thread waits for the mutex it holds, which blocks its callers for good. In
`loop` the clock reaches past the sleep without timers, timers can be over,
ahead, refused and next to a refused one, and an action queued by a failed poll
can wait together with two others. In `runtime` two descriptors and four
resources allow a descriptor to have three owners. In `server` three
connections on two descriptors make a reuse with an outbox in between. For
`net_transport`, three messages and three bytes of room allow a partial write,
a queued message behind it and a write after it. In `noise` an act is two units,
a key one and a signature two, so that every read can stop inside a message and
between the key and its signature. Bounds on counters
(`MaxOps`, `MaxTimers`, `MaxTime`, `MaxMessages`, `MaxLength`, `MaxRoom`,
`MaxInput`, `MaxDuration`, `MaxActions`, `MaxData`, `MaxMade`, `MaxQueue`, `MaxConns`, `MaxMsgs`, `MaxSent`) are
constants of their modules and appear in guards only. No symmetry is used:
the liveness runs would not be sound with it and the safety runs are small.

Deadlock is not checked in `net_transport` (a terminated transport stops), in
`noise` (a session at rest), in `server` (losing the listener panics by design) and in `tunnel` (which returns).

### Fairness

- `ReactorControl`: weak fairness of the reactor thread and of every thread that
  is inside `wake`. Both are runnable threads; the mutex is handed to some waiter,
  and weak fairness of each `wake(c)` is enough because each thread makes finitely
  many calls. Nothing obliges a thread to make a call.
- `ReactorLoop`: weak fairness of the thread's own steps and strong fairness of
  `poll` returning with events: poll may fail, but not each time there is
  something to report. Time need not pass and nothing need become ready.
- `NetResource` (`net_flush`): the reactor polls and handles, the peer reads.
  No service has to write; that bytes leave only if it does is the finding.
- `NoiseSession`: weak fairness of each reactor's poll and handling, of the
  client's thread, of the closing of a dropped connection and of delivery. No
  service has to write.
- `Server`: weak fairness of the handling of actions, a loop of one thread.
- `Tunnel`: weak fairness of the loop and of the caller that ends the session,
  none of the client's arrival; strong fairness of poll reporting a
  side writable, for poll reports all ready descriptors and the far side keeps
  reading. `BytesArrive` concludes nothing once a side has closed or the tunnel
  has returned.

## 4. Proofs

Each component has a module `<component>_proofs` of its own; the abstract
`AtomicStream` is used by the one of `NetResource`. The theorems are of the form
`Spec => []P` (or an action property, or a refinement), for every value of the
constants that the named assumption in the module admits. The assumptions say
that bounds are numbers, that parameters with a fixed range of choices keep to
it, and that the value for "nothing" is not among the others; sets of
descriptors, addresses, keys and resources may be of any size.

Every safety and action property that a passing run checks is a theorem; so are
the type invariants, also of the modules whose run does not check it (that of
`Timeouts` as a part of its invariant). In each module the argument is an inductive invariant, that of TLC's runs made
strong enough to survive each action; it was checked with TLC on the run's
instance before it was proved.

- `ReactorControl_proofs` (from `ControlAssumption`: the launcher is a
  controller, `None` is neither a controller nor a resource, capacity is
  positive). `TypeCorrect`; on top of it `NoWakeupIsLost`. `NoLostWakeup` speaks
  only of the moment before `poll`; its strengthening says for each phase which
  channels may hold messages without a wake-up: none in `poll` and `actions`,
  both in `reset` and `cmds` because they are about to be drained, only the
  control channel in `ctls`. Clearing the waker before draining is what makes
  it inductive. `UseAfterRegistration` needs that every resource whose call has
  returned is registered or still in the control channel, that queued actions
  and commands name only such resources, and that no action runs before
  the control channel has been emptied with those commands already taken.
- `Timeouts_proofs` (from `TimeoutsAssumption`). `TimersKept` proves order,
  separation and no loss together: the part about loss needs the keys in the
  vector and in `fired` to be distinct and below the number of timers
  accepted. `TimersApart` and `NextInTime` follow, the latter from the order;
  so does `FiresTheDue`: in a sorted vector the place where the loop of `check`
  stops parts the timers that are over from the others. Sorting is handled by a
  lemma on surjections of finite sets (`SortingProperties`), firing by one on
  suffixes.
- `ReactorLoop_proofs` (from `ReactorLoopAssumption`). The invariant of the
  timers is that of `Timeouts_proofs`, instantiated for the vector of the loop;
  `LoopInv` adds what a sleep may still do (`SleepsWithin`: the time and what is
  left of the timeout add up to no more than the next timer) and who may have
  queued what waits between turns. `NoTimerOverslept`, `TimersCovered` and
  `TurnsFinished` are read off it, with `LoopTypesKept`.
- `Runtime_proofs` (from `RuntimeAssumption`). `RegistryInv` says that open
  resources differ in their descriptors, that what is in the reactor is open and
  stands where its identifier says, that what waits for registration is open,
  not in the reactor and waits once, that the poller watches what is in the
  reactor and what has just hung up, and that the indexes lead from a descriptor
  to its resource. From it, for all runtimes, `RegistryTypes`,
  `PollerFollowsRegistry` and `ActionsAimed`; the last needs that a second
  resource with the identifier an action names can only be registered behind
  that action (`Aimed`). `EventsDelivered` and `RuntimeNeverPanics` have the
  hypothesis that no listener hangs up (`"hup" \notin ListenerFails`), under
  which `listener_map` keeps no stale entry (`EventInv`); the run
  `runtime_listener_hup` shows what happens without it.
- `NetResource_proofs` (from `NetResourceAssumption`, in which the socket has
  room for at least one byte). `AtomicWrites`: `WritesAtomic` is inductive with
  the types of the three byte sequences and the fact that the halves of a
  transport leave no buffer behind (`NothingBehindTheWriter`): otherwise a writer
  would overtake it. `RefinesAtomicStream` shows that each write that is
  accepted, refused or queued is a step of `AtomicStream` and everything else a
  stutter. `CredentialsFirst`, `ResetsAreReal` and `TransportTypes` come from
  `StageInv`, which ties the state of the transport to that of its session: once
  the handshake is over and the own credentials are not out, the transport is in
  `Handshake` with the write intent set, and `Write` is the next readiness to be
  handled. `NoInputLost` and `HandleIoAssertions` hold for the constructors after
  which state and session agree (`Agreeing`: not `connect_blocking`, nor `new`
  of a plain session, see the observations above); `FreshInv` adds for them that a session in `Handshake` is not
  established and that an active one has been announced.
- `NoiseSession_proofs` (from `NoiseSessionAssumption`). What an end has written is
  its acts, its credentials and its data in this order (`Stream`), and what is on
  the wire is always a rest of that (`Rest`), whatever pieces have been read or thrown away
  by a read that failed. Since credentials and acts are accepted only whole, an end that
  has identified its peer has read exactly up to the data, from where on what it
  is given and the wire make up the data written (`Gives`). `OnlyDataIsData`
  follows. `PeersIdentified` needs `Identity`: what is known of a peer is what
  that peer has validly certified, and activity comes with the dialled key.
  `PanicsOnlyAtWrongPeers` needs that `connect_blocking` reads whole acts and
  credentials (`Whole`), so that none of its checks fails for an honest peer.
- `Tunnel_proofs` (from `TunnelAssumption`). `StreamsUnaltered` and
  `EndsOnlyAtEnd`. `TunnelInv` adds that a side is polled for writability only
  while bytes wait for it and that what poll has reported is still true when the
  loop comes to it: one iteration handles both sides, and handling the first
  must not make the second read nothing and take it for an end.
- `Server_proofs` (from `ServerAssumption`). `ServerInv`: connections that are
  not gone differ in their descriptors; a message in the queue is for a transport
  in the reactor or for one whose registration comes before it; no message to a
  descriptor comes after what unregisters it; during the events of a turn what is
  queued concerns descriptors that have had their event, or a connection just
  made. Hence `OutboxIsDrained`. `SendsFind` says more, whose transport a message
  finds: `AddressInv` adds that a queued message which has not waited names the
  connection its descriptor belongs to (`QueueOwn`) and that what is in an outbox
  has waited (`OutboxWaited`); since connections that are not gone differ in
  their descriptors and a message comes before what unregisters its connection,
  the descriptor has no other owner while it is queued. Established empties an
  outbox into the queue: its messages are in `waited`, and for them the theorem
  promises some transport, which is all that holds (`server_outbox`).
  `NoMessageLost` counts the places of each message (`AccountInv`): exactly one
  for each made, none for others.

Two of these proofs failed at first because an initial state was too wide: a
loop launched with more actions than it may queue, a runtime with more
resources than it may make. `Init` of `ReactorLoop` and of `Runtime` keeps to
the bounds now.

Only model-checked: everything under fairness (`CommandsHandled`,
`ShutdownStops`, `ComesToRest`, `CallsReturn`, `EventsHandled`, `TurnEnds`, `BytesArrive`,
`EndsWhenClosed`, `SessionsEstablish`, `DataArrives`), which is outside the
prover's reach, and the four properties that the code does not have.

## 5. What is not modelled

- The cryptography of Noise and of signatures, which is external; writes of
  acts and credentials that do not fit into a socket, in `NoiseSession`
  (`NetResource` has them as failing writes).
- A split of a session seen from both ends: `NetResource` has one end, nothing in
  the repository calls `split_io`, and `NoiseSession` leaves it out.
- The marshaller of `frame.rs`: two byte queues around a `Frame` trait without
  any implementation or caller; what `pop` leaves in its queue is decided by the
  implementation that does not exist.
- `re-actor`, the predecessor of `io-reactor`: `Reactor::new` panics on its first
  scheduler pool (it expects `HashMap::insert` to return a value for a new key)
  and nothing calls `register_actor`, so there is no behaviour to model. Its
  actors and `src/actors` only wrap sockets, and the latter is not compiled.
- SOCKS5 (`todo!()`), `node` (empty), `examples-old` (does not build against the
  present interface), the nsh command line and command parsing (text conversion).
- Poisoning of the waker mutex: nothing panics while it is held.
- Unread input of a peer that hangs up: `popol` reports the hang-up instead of
  the readability, and the models say nothing of input that was not read.

## 6. Plan

Done: `ReactorControl`, `ReactorLoop`, `Timeouts`, `NetResource` with
`AtomicStream`, `NoiseSession`, `Runtime`, `Server`, `Tunnel`, and proofs of
every safety and action property of their runs.

Hazards of `PROJECT.json` without a property are those where the code does not
do what one would ask for and nothing in the repository promises it (`check_now`,
the empty buffer of `with_session`, the unbounded `accept` and the last bytes
before a hang-up in the tunnel); each has a note.

Next:

1. The control plane for the reactor after `Shutdown`: which calls may still
   return successfully and what becomes of their messages, as a theorem.
2. Shorter proofs where facts on sequences recur in several modules
   (`Append`, `Tail`, prefixes).
