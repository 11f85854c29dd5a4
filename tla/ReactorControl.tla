---------------------------- MODULE ReactorControl ----------------------------
(***************************************************************************)
(* The control plane of io-reactor: controller threads hand work to the     *)
(* reactor thread through two unbounded channels and wake it with a byte on *)
(* a socket pair whose writing end is shared under a mutex                  *)
(* (io-reactor/src/reactor.rs, Controller and Runtime::run).                *)
(*                                                                         *)
(* A step is one operation another thread can observe: a channel push or    *)
(* pop, taking or releasing the mutex, one write to or read of the waker.   *)
(***************************************************************************)
EXTENDS Naturals, Sequences, FiniteSets

CONSTANTS
    Controllers,    \* threads holding a clone of the Controller
    Launcher,       \* the thread that runs Reactor::with
    Resources,      \* listeners and transports, each moved into the reactor once
    None,           \* "no resource" / "nobody"
    Preset,         \* resources the service asks to register on launch
    Capacity,       \* bytes the waker socket holds
    MaxOps,         \* bound: calls each controller makes
    MayShutdown     \* whether controllers call shutdown()

ASSUME ControlAssumption ==
    /\ Launcher \in Controllers
    /\ None \notin Controllers \cup Resources
    /\ Preset \in Seq(Resources)
    /\ Capacity \in Nat \ {0}
    /\ MaxOps \in Nat
    /\ MayShutdown \in BOOLEAN

VARIABLES
    pc,         \* where each controller is in its current call
    call,       \* the message its current call hands over
    made,       \* number of calls each controller has begun
    mutex,      \* holder of the waker mutex, or None
    bytes,      \* unread wake bytes
    cmds,       \* command channel
    ctls,       \* control channel
    open,       \* which of the receiving ends still exist
    phase,      \* where the reactor thread is in Runtime::run
    actions,    \* actions the service has queued and next() will return
    registered, \* resources the reactor knows
    announced,  \* history: resources whose register_* call has returned
    handled,    \* history: commands given to Handler::handle_command
    unknown     \* history: actions refused because their resource was unknown

threadVars  == <<pc, call, made, mutex>>
sharedVars  == <<bytes, cmds, ctls, open>>
runtimeVars == <<phase, actions, registered, handled, unknown>>
vars == <<pc, call, made, mutex, bytes, cmds, ctls, open, phase, actions,
          registered, announced, handled, unknown>>

(***************************************************************************)
(* What travels through the channels. A command names the resource the      *)
(* service will act on, or none.                                            *)
(***************************************************************************)
Launch      == [kind |-> "launch"]
Shutdown    == [kind |-> "shutdown"]
Register(r) == [kind |-> "register", res |-> r]
Use(r)      == [kind |-> "use", res |-> r]
Command(c, n, r) == [kind |-> "command", by |-> c, n |-> n, res |-> r]

Commands == [kind : {"command"}, by : Controllers, n : 1..MaxOps,
             res : Resources \cup {None}]
Ctl      == [kind : {"register"}, res : Resources] \cup {Shutdown}
Action   == [kind : {"register", "use"}, res : Resources]

Running == phase \in {"poll", "reset", "cmds", "ctls", "actions"}

(* Reactor::with: the service is moved into the spawned thread with the     *)
(* actions it prepared, and the launching thread goes on to wake it.        *)
Init ==
    /\ pc = [c \in Controllers |-> IF c = Launcher THEN "lock" ELSE "idle"]
    /\ call = [c \in Controllers |-> Launch]
    /\ made = [c \in Controllers |-> 0]
    /\ mutex = None
    /\ bytes = 0
    /\ cmds = <<>>
    /\ ctls = <<>>
    /\ open = {"cmd", "ctl", "waker"}
    /\ phase = "poll"
    /\ actions = [i \in 1..Len(Preset) |-> Register(Preset[i])]
    /\ registered = {}
    /\ announced = {}
    /\ handled = {}
    /\ unknown = {}

-----------------------------------------------------------------------------
(* Controllers.                                                             *)

(* Clones of the controller exist once Reactor::with has returned.          *)
Launched == pc[Launcher] = "idle" \/ call[Launcher] # Launch

MayCall(c) == pc[c] = "idle" /\ made[c] < MaxOps /\ Launched

(* The calling thread has handed over m and must now wake the reactor.      *)
GoWake(c, m) ==
    /\ pc' = [pc EXCEPT ![c] = "lock"]
    /\ call' = [call EXCEPT ![c] = m]
    /\ made' = [made EXCEPT ![c] = @ + 1]
    /\ UNCHANGED <<mutex, bytes, open, runtimeVars, announced>>

(* A push on a channel whose receiver is gone fails: BrokenPipe, no wake.   *)
GiveUp(c) ==
    /\ made' = [made EXCEPT ![c] = @ + 1]
    /\ UNCHANGED <<pc, call, mutex, bytes, cmds, ctls, open, runtimeVars, announced>>

(* A send that hands the command over and forgets to wake. *)
send_NoWake(c, r) ==
    /\ MayCall(c)
    /\ "cmd" \in open
    /\ cmds' = Append(cmds, Command(c, made[c] + 1, r))
    /\ made' = [made EXCEPT ![c] = @ + 1]
    /\ UNCHANGED <<pc, call, mutex, bytes, ctls, open, runtimeVars, announced>>

(* Controller::send. The command may concern any resource whose             *)
(* registration has already returned, in whichever thread.                  *)
send(c, r) ==
    /\ MayCall(c)
    /\ LET m == Command(c, made[c] + 1, r) IN
       \/ /\ "cmd" \in open
          /\ cmds' = Append(cmds, m)
          /\ ctls' = ctls
          /\ GoWake(c, m)
       \/ "cmd" \notin open /\ GiveUp(c)

(* Resources are moved: nobody registers the same one twice.                *)
Taken(r) ==
    \/ r \in registered \cup announced \cup {Preset[i] : i \in 1..Len(Preset)}
    \/ \E i \in 1..Len(ctls) : ctls[i] = Register(r)

(* Controller::register_listener and Controller::register_transport.        *)
register(c, r) ==
    /\ MayCall(c)
    /\ ~Taken(r)
    /\ \/ /\ "ctl" \in open
          /\ ctls' = Append(ctls, Register(r))
          /\ cmds' = cmds
          /\ GoWake(c, Register(r))
       \/ "ctl" \notin open /\ GiveUp(c)

(* Controller::shutdown wakes the reactor even when the push has failed.    *)
shutdown(c) ==
    /\ MayShutdown
    /\ MayCall(c)
    /\ ctls' = IF "ctl" \in open THEN Append(ctls, Shutdown) ELSE ctls
    /\ cmds' = cmds
    /\ GoWake(c, Shutdown)

(* Controller::wake takes the mutex; a thread that already holds it waits   *)
(* for itself.                                                              *)
lock(c) ==
    /\ pc[c] = "lock"
    /\ mutex = None
    /\ mutex' = c
    /\ pc' = [pc EXCEPT ![c] = "write"]
    /\ UNCHANGED <<call, made, bytes, cmds, ctls, open, runtimeVars, announced>>

Unlock(c) ==
    /\ mutex' = None
    /\ pc' = [pc EXCEPT ![c] = "idle"]
    /\ UNCHANGED <<call, made, cmds, ctls, open, runtimeVars>>

(* The byte fits: wake, and with it the whole call, returns Ok.             *)
write_ok(c) ==
    /\ pc[c] = "write"
    /\ "waker" \in open
    /\ bytes < Capacity
    /\ bytes' = bytes + 1
    /\ announced' = IF call[c].kind = "register"
                    THEN announced \cup {call[c].res} ELSE announced
    /\ Unlock(c)

(* WouldBlock: reset_fd reads the writing end, where nothing ever arrives,  *)
(* and wake calls itself with the guard of the mutex still alive.           *)
write_full(c) ==
    /\ pc[c] = "write"
    /\ "waker" \in open
    /\ bytes = Capacity
    /\ pc' = [pc EXCEPT ![c] = "lock"]
    /\ UNCHANGED <<call, made, mutex, bytes, cmds, ctls, open, runtimeVars, announced>>

(* Repeating a write that cannot succeed. *)
write_broken_Repeats(c) ==
    /\ pc[c] = "write"
    /\ "waker" \notin open
    /\ UNCHANGED vars

(* The reading end is closed: the write fails and so does the call.         *)
write_broken(c) ==
    /\ pc[c] = "write"
    /\ "waker" \notin open
    /\ UNCHANGED <<bytes, announced>>
    /\ Unlock(c)

wake(c) == lock(c) \/ write_ok(c) \/ write_full(c) \/ write_broken(c)

-----------------------------------------------------------------------------
(* Runtime::run.                                                            *)

(* A step that only moves the reactor thread on.                            *)
Goto(p) ==
    /\ phase' = p
    /\ UNCHANGED <<threadVars, sharedVars, actions, registered, announced,
                   handled, unknown>>

(* poll reports the waker as readable.                                      *)
poll_waker ==
    /\ phase = "poll"
    /\ bytes > 0
    /\ Goto("reset")

(* poll reports other descriptors only: the channels are not looked at.     *)
poll_io ==
    /\ phase = "poll"
    /\ bytes = 0
    /\ registered # {}
    /\ Goto("actions")

(* poll times out or fails: the loop continues without looking at anything. *)
poll_timeout == phase = "poll" /\ bytes = 0 /\ UNCHANGED vars

(* A loop that notices the waker and does not empty it. *)
reset_fd_Unread ==
    /\ phase = "reset"
    /\ phase' = "cmds"
    /\ UNCHANGED <<threadVars, sharedVars, actions, registered, announced,
                   handled, unknown>>

(* reset_fd on the reading end: read until a read finds nothing.            *)
reset_fd ==
    /\ phase = "reset"
    /\ bytes' = 0
    /\ phase' = IF bytes = 0 THEN "cmds" ELSE "reset"
    /\ UNCHANGED <<threadVars, cmds, ctls, open, actions, registered,
                   announced, handled, unknown>>

(* A loop that runs the command's action on the spot, before the control    *)
(* channel has been drained. *)
take_command_Eager ==
    /\ phase = "cmds"
    /\ cmds # <<>>
    /\ cmds' = Tail(cmds)
    /\ handled' = handled \cup {Head(cmds)}
    /\ unknown' = IF Head(cmds).res \in registered \cup {None} THEN unknown
                  ELSE unknown \cup {Use(Head(cmds).res)}
    /\ UNCHANGED <<threadVars, bytes, ctls, open, phase, actions, registered,
                   announced>>

(* try_recv on the command channel hands the command to the service, which  *)
(* may queue an action on the resource the command names.                   *)
take_command ==
    /\ phase = "cmds"
    /\ cmds # <<>>
    /\ cmds' = Tail(cmds)
    /\ handled' = handled \cup {Head(cmds)}
    /\ actions' = IF Head(cmds).res = None THEN actions
                  ELSE Append(actions, Use(Head(cmds).res))
    /\ UNCHANGED <<threadVars, bytes, ctls, open, phase, registered,
                   announced, unknown>>

commands_empty ==
    /\ phase = "cmds"
    /\ cmds = <<>>
    /\ Goto("ctls")

take_register ==
    /\ phase = "ctls"
    /\ ctls # <<>>
    /\ Head(ctls).kind = "register"
    /\ registered' = registered \cup {Head(ctls).res}
    /\ ctls' = Tail(ctls)
    /\ UNCHANGED <<threadVars, bytes, cmds, open, phase, actions,
                   announced, handled, unknown>>

(* Shutdown is taken off the channel and the loop goes on. *)
take_shutdown_Ignored ==
    /\ phase = "ctls"
    /\ ctls # <<>>
    /\ Head(ctls).kind = "shutdown"
    /\ ctls' = Tail(ctls)
    /\ UNCHANGED <<threadVars, bytes, cmds, open, phase, actions, registered,
                   announced, handled, unknown>>

(* Shutdown leaves run at once: what is behind it in the channels, and the  *)
(* actions already queued, are dropped with the Runtime.                    *)
take_shutdown ==
    /\ phase = "ctls"
    /\ ctls # <<>>
    /\ Head(ctls).kind = "shutdown"
    /\ ctls' = Tail(ctls)
    /\ phase' = "drop_cmd"
    /\ UNCHANGED <<threadVars, bytes, cmds, open, actions, registered,
                   announced, handled, unknown>>

(* A loop that clears the waker after looking at the channels. *)
controls_empty_ResetLate ==
    /\ phase = "ctls"
    /\ ctls = <<>>
    /\ bytes' = 0
    /\ phase' = "actions"
    /\ UNCHANGED <<threadVars, cmds, ctls, open, actions, registered,
                   announced, handled, unknown>>

controls_empty ==
    /\ phase = "ctls"
    /\ ctls = <<>>
    /\ Goto("actions")

(* handle_actions: one turn of its loop. An action on a resource that is    *)
(* not in the reactor ends in Error::TransportUnknown or ListenerUnknown.   *)
handle_action ==
    /\ phase = "actions"
    /\ actions # <<>>
    /\ LET a == Head(actions) IN
       /\ registered' = IF a.kind = "register"
                        THEN registered \cup {a.res} ELSE registered
       /\ unknown' = IF a.kind = "use" /\ a.res \notin registered
                     THEN unknown \cup {a} ELSE unknown
    /\ actions' = Tail(actions)
    /\ UNCHANGED <<threadVars, bytes, cmds, ctls, open, phase, announced, handled>>

actions_done ==
    /\ phase = "actions"
    /\ actions = <<>>
    /\ Goto("poll")

(* Dropping the Runtime drops its fields in declaration order: the service  *)
(* first, then cmd_recv, ctl_recv and, at the end, the waker.               *)
drop_cmd_recv ==
    /\ phase = "drop_cmd"
    /\ cmds' = <<>>
    /\ actions' = <<>>
    /\ open' = open \ {"cmd"}
    /\ phase' = "drop_ctl"
    /\ UNCHANGED <<threadVars, bytes, ctls, registered, announced, handled, unknown>>

drop_ctl_recv ==
    /\ phase = "drop_ctl"
    /\ ctls' = <<>>
    /\ open' = open \ {"ctl"}
    /\ phase' = "drop_waker"
    /\ UNCHANGED <<threadVars, bytes, cmds, actions, registered, announced,
                   handled, unknown>>

drop_waker ==
    /\ phase = "drop_waker"
    /\ bytes' = 0
    /\ open' = open \ {"waker"}
    /\ phase' = "stopped"
    /\ UNCHANGED <<threadVars, cmds, ctls, actions, registered, announced,
                   handled, unknown>>

run ==
    \/ poll_waker \/ poll_io \/ poll_timeout \/ reset_fd
    \/ take_command \/ commands_empty
    \/ take_register \/ take_shutdown \/ controls_empty
    \/ handle_action \/ actions_done
    \/ drop_cmd_recv \/ drop_ctl_recv \/ drop_waker

(* The reactor is gone and its users have nothing left to call, or wait for *)
(* a mutex whose holder waits for itself.                                   *)
Finished ==
    /\ phase = "stopped"
    /\ \A c \in Controllers :
          \/ pc[c] = "idle" /\ made[c] = MaxOps
          \/ pc[c] = "lock" /\ mutex # None /\ pc[mutex] = "lock"
    /\ UNCHANGED vars

Next ==
    \/ \E c \in Controllers :
         \/ \E r \in announced \cup {None} : send(c, r)
         \/ \E r \in Resources : register(c, r)
         \/ shutdown(c)
         \/ wake(c)
    \/ run
    \/ Finished

Spec == Init /\ [][Next]_vars

(* Threads that are inside a call, and the reactor thread, keep running;    *)
(* nothing obliges a thread to make a call.                                 *)
FairSpec == Spec /\ WF_vars(run) /\ \A c \in Controllers : WF_vars(wake(c))

-----------------------------------------------------------------------------
(* Every variable ranges over the values the program can give it.           *)
TypeOK ==
    /\ pc \in [Controllers -> {"idle", "lock", "write"}]
    /\ call \in [Controllers -> Commands \cup Ctl \cup {Launch}]
    /\ made \in [Controllers -> 0..MaxOps]
    /\ mutex \in Controllers \cup {None}
    /\ bytes \in 0..Capacity
    /\ cmds \in Seq(Commands)
    /\ ctls \in Seq(Ctl)
    /\ open \subseteq {"cmd", "ctl", "waker"}
    /\ phase \in {"poll", "reset", "cmds", "ctls", "actions",
                  "drop_cmd", "drop_ctl", "drop_waker", "stopped"}
    /\ actions \in Seq(Action)
    /\ registered \subseteq Resources
    /\ announced \subseteq Resources
    /\ handled \subseteq Commands
    /\ unknown \subseteq Action

(* Somebody is still on the way to write the wake byte for m.               *)
WakeDue(m) == \E c \in Controllers : pc[c] \in {"lock", "write"} /\ call[c] = m

Pending(m) == bytes > 0 \/ WakeDue(m)

(* No lost wake-up: when the reactor thread is about to block in poll,      *)
(* every command and control message still in a channel, and every action   *)
(* the service prepared on launch, has its wake byte in the socket or a     *)
(* thread still about to write it (Controller::send pushes before it wakes; *)
(* Runtime::handle_events clears the waker before run drains the channels). *)
NoLostWakeup ==
    phase = "poll" =>
        /\ \A i \in 1..Len(cmds) : Pending(cmds[i])
        /\ \A i \in 1..Len(ctls) : Pending(ctls[i])
        /\ actions # <<>> => Pending(Launch)

(* A resource whose register_* call returned before a command naming it was *)
(* sent is in the reactor when the command's action runs, although run      *)
(* drains the command channel before the control channel: no action on it   *)
(* ends in TransportUnknown or ListenerUnknown.                             *)
RegisteredBeforeUse == unknown = {}

(* A full waker is survivable: Controller::wake reports "Waker write queue  *)
(* got overfilled, resetting and repeating..." and repeats the write. It    *)
(* cannot if the thread waits for the mutex it holds itself.                *)
FullWakerRecovers == \A c \in Controllers : ~(pc[c] = "lock" /\ mutex = c)

(* A thread waits for the mutex it holds: it has found the waker full.      *)
Overfilled == ~FullWakerRecovers

(* Every command sent while the reactor lives is handed to the service      *)
(* (Controller::send, Handler::handle_command), and the resources the       *)
(* service asked for on launch are registered without any controller call   *)
(* (Reactor::with wakes the thread for them). Only a shutdown, with which   *)
(* run leaves with commands in the channel, and a full waker prevent it.    *)
CommandsHandled ==
    /\ \A c \in Controllers : \A n \in 1..MaxOps : \A r \in Resources \cup {None} :
          (\E i \in 1..Len(cmds) : cmds[i] = Command(c, n, r))
              ~> (Command(c, n, r) \in handled \/ ~Running \/ Overfilled)
    /\ <>((\A i \in 1..Len(Preset) : Preset[i] \in registered) \/ ~Running \/ Overfilled)

(* Once some thread has pushed Shutdown the reactor thread terminates and   *)
(* closes every receiving end, whatever else is in the channels, unless the *)
(* waker is full.                                                           *)
ShutdownStops ==
    (\E i \in 1..Len(ctls) : ctls[i] = Shutdown)
        ~> (phase = "stopped" /\ open = {}) \/ Overfilled

(* Nothing is left to do for the reactor thread, and it blocks in poll.     *)
AtRest ==
    /\ phase = "poll" /\ bytes = 0
    /\ cmds = <<>> /\ ctls = <<>> /\ actions = <<>>

(* The reactor does not spin: a poll returns at once for as long as there   *)
(* is a byte in the waker, so once the other threads have stopped calling   *)
(* it, the reactor thread comes to block again in Poll::poll, time after    *)
(* time, with every byte read, both channels drained and no action left     *)
(* (Runtime::handle_events empties the waker with reset_fd; run then drains *)
(* and acts). It does so unless it is shut down or the waker was full.      *)
ComesToRest == []<>(AtRest \/ phase = "stopped" \/ Overfilled)

(* Nobody hangs: a thread that entered wake() leaves it, also when the      *)
(* reactor stops meanwhile; the full waker is the only exception.           *)
CallsReturn == \A c \in Controllers : pc[c] # "idle" ~> pc[c] = "idle" \/ Overfilled
=============================================================================
