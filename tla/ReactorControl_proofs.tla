------------------------ MODULE ReactorControl_proofs ------------------------
(***************************************************************************)
(* Proofs that the control plane of the reactor loses no wake-up and never  *)
(* acts on a resource before it is registered, for any number of threads,   *)
(* any waker capacity and any service.                                      *)
(***************************************************************************)
EXTENDS ReactorControl, TLAPS

USE DEF Launch, Shutdown, Register, Use, Command

(* Appending keeps the entries a sequence had and puts the new one last.    *)
LEMMA AppendEntries ==
    ASSUME NEW S, NEW s \in Seq(S), NEW e \in S
    PROVE  /\ Append(s, e) \in Seq(S)
           /\ Len(Append(s, e)) = Len(s) + 1
           /\ \A i \in 1..Len(s) : Append(s, e)[i] = s[i]
           /\ Append(s, e)[Len(s) + 1] = e
  OBVIOUS

(* Taking the head off shifts the other entries by one place.               *)
LEMMA TailEntries ==
    ASSUME NEW S, NEW s \in Seq(S), s # <<>>
    PROVE  /\ Head(s) = s[1] /\ Head(s) \in S
           /\ Tail(s) \in Seq(S)
           /\ Len(Tail(s)) = Len(s) - 1
           /\ \A i \in 1..Len(Tail(s)) : Tail(s)[i] = s[i + 1]
  OBVIOUS

(* A sequence without entries is the empty one.                             *)
LEMMA EmptyEntries ==
    ASSUME NEW S, NEW s \in Seq(S)
    PROVE  s = <<>> <=> Len(s) = 0
  OBVIOUS

-----------------------------------------------------------------------------
(* The type invariant holds initially and every step preserves it.          *)
LEMMA InitType == Init => TypeOK
  <1> SUFFICES ASSUME Init PROVE TypeOK
    OBVIOUS
  <1>1. actions \in Seq(Action)
    BY ControlAssumption DEF Init, Action
  <1>2. call \in [Controllers -> Commands \cup Ctl \cup {Launch}]
    BY DEF Init
  <1> QED
    BY <1>1, <1>2, ControlAssumption DEF Init, TypeOK

(* What send pushes is a command of the calling thread.                     *)
LEMMA SentCommand ==
    ASSUME TypeOK, NEW c \in Controllers, NEW r \in announced \cup {None}, send(c, r)
    PROVE  Command(c, made[c] + 1, r) \in Commands
  BY ControlAssumption DEF TypeOK, send, MayCall, Commands

(* Every step keeps the types.                                              *)
LEMMA NextType == TypeOK /\ [Next]_vars => TypeOK'
  <1> SUFFICES ASSUME TypeOK, [Next]_vars PROVE TypeOK'
    OBVIOUS
  <1> USE ControlAssumption
  <1>1. ASSUME NEW c \in Controllers, NEW r \in announced \cup {None}, send(c, r)
        PROVE  TypeOK'
    <2> DEFINE m == Command(c, made[c] + 1, r)
    <2>1. m \in Commands
      BY <1>1, SentCommand
    <2>2. CASE "cmd" \in open /\ cmds' = Append(cmds, m) /\ ctls' = ctls /\ GoWake(c, m)
      <3>1. cmds' \in Seq(Commands)
        BY <2>1, <2>2, AppendEntries DEF TypeOK
      <3> QED
        BY <1>1, <2>1, <2>2, <3>1 DEF TypeOK, send, MayCall, GoWake, runtimeVars
    <2>3. CASE "cmd" \notin open /\ GiveUp(c)
      BY <1>1, <2>3 DEF TypeOK, send, MayCall, GiveUp, runtimeVars
    <2> QED
      BY <1>1, <2>2, <2>3 DEF send
  <1>2. ASSUME NEW c \in Controllers, NEW r \in Resources, register(c, r)
        PROVE  TypeOK'
    <2>1. Register(r) \in Ctl
      BY DEF Ctl
    <2>2. CASE "ctl" \in open /\ ctls' = Append(ctls, Register(r)) /\ cmds' = cmds
               /\ GoWake(c, Register(r))
      <3>1. ctls' \in Seq(Ctl)
        BY <2>1, <2>2, AppendEntries DEF TypeOK
      <3> QED
        BY <1>2, <2>1, <2>2, <3>1 DEF TypeOK, register, MayCall, GoWake, runtimeVars
    <2>3. CASE "ctl" \notin open /\ GiveUp(c)
      BY <1>2, <2>3 DEF TypeOK, register, MayCall, GiveUp, runtimeVars
    <2> QED
      BY <1>2, <2>2, <2>3 DEF register
  <1>3. ASSUME NEW c \in Controllers, shutdown(c)
        PROVE  TypeOK'
    <2>1. Shutdown \in Ctl
      BY DEF Ctl
    <2>2. ctls' \in Seq(Ctl)
      BY <1>3, <2>1, AppendEntries DEF TypeOK, shutdown
    <2> QED
      BY <1>3, <2>1, <2>2 DEF TypeOK, shutdown, MayCall, GoWake, runtimeVars
  <1>4. ASSUME NEW c \in Controllers, wake(c)
        PROVE  TypeOK'
    <2>1. CASE lock(c)
      BY <2>1 DEF TypeOK, lock, runtimeVars
    <2>2. CASE write_ok(c)
      <3>1. ASSUME call[c].kind = "register" PROVE call[c].res \in Resources
        <4>1. call[c] \in Commands \cup Ctl \cup {Launch}
          BY DEF TypeOK
        <4>2. call[c] \notin Commands /\ call[c] # Launch /\ call[c] # Shutdown
          BY <3>1 DEF Commands
        <4> QED
          BY <4>1, <4>2 DEF Ctl
      <3> QED
        <4>1. announced' \subseteq Resources
          BY <2>2, <3>1 DEF TypeOK, write_ok
        <4> QED
          BY <2>2, <4>1 DEF TypeOK, write_ok, Unlock, runtimeVars
    <2>3. CASE write_full(c)
      BY <2>3 DEF TypeOK, write_full, runtimeVars
    <2>4. CASE write_broken(c)
      BY <2>4 DEF TypeOK, write_broken, Unlock, runtimeVars
    <2> QED
      BY <1>4, <2>1, <2>2, <2>3, <2>4 DEF wake
  <1>5. CASE run
    <2>1. CASE poll_waker \/ poll_io \/ commands_empty \/ controls_empty \/ actions_done
      BY <2>1 DEF TypeOK, poll_waker, poll_io, commands_empty, controls_empty,
                  actions_done, Goto, threadVars, sharedVars
    <2>2. CASE poll_timeout
      BY <2>2 DEF TypeOK, poll_timeout, vars
    <2>3. CASE reset_fd
      BY <2>3 DEF TypeOK, reset_fd, threadVars
    <2>4. CASE take_command
      <3>1. Head(cmds) \in Commands /\ cmds' \in Seq(Commands)
        BY <2>4, TailEntries DEF TypeOK, take_command
      <3>2. actions' \in Seq(Action)
        <4>1. CASE Head(cmds).res = None
          BY <2>4, <4>1 DEF TypeOK, take_command
        <4>2. CASE Head(cmds).res # None
          <5>1. Use(Head(cmds).res) \in Action
            BY <3>1, <4>2 DEF Commands, Action
          <5> QED
            BY <2>4, <4>2, <5>1, AppendEntries DEF TypeOK, take_command
        <4> QED
          BY <4>1, <4>2
      <3> QED
        BY <2>4, <3>1, <3>2 DEF TypeOK, take_command, threadVars
    <2>5. CASE take_register
      <3>1. Head(ctls) \in Ctl /\ ctls' \in Seq(Ctl)
        BY <2>5, TailEntries DEF TypeOK, take_register
      <3>2. Head(ctls).res \in Resources
        BY <2>5, <3>1 DEF take_register, Ctl
      <3> QED
        BY <2>5, <3>1, <3>2 DEF TypeOK, take_register, threadVars
    <2>6. CASE take_shutdown
      <3>1. ctls' \in Seq(Ctl)
        BY <2>6, TailEntries DEF TypeOK, take_shutdown
      <3> QED
        BY <2>6, <3>1 DEF TypeOK, take_shutdown, threadVars
    <2>7. CASE handle_action
      <3>1. Head(actions) \in Action /\ actions' \in Seq(Action)
        BY <2>7, TailEntries DEF TypeOK, handle_action
      <3> QED
        <4>1. registered' \subseteq Resources /\ unknown' \subseteq Action
          BY <2>7, <3>1 DEF TypeOK, handle_action, Action
        <4> QED
          BY <2>7, <3>1, <4>1 DEF TypeOK, handle_action, threadVars
    <2>8. CASE drop_cmd_recv
      <3>1. cmds' \in Seq(Commands) /\ actions' \in Seq(Action)
        BY <2>8 DEF drop_cmd_recv
      <3> QED
        BY <2>8, <3>1 DEF TypeOK, drop_cmd_recv, threadVars
    <2>9. CASE drop_ctl_recv
      <3>1. ctls' \in Seq(Ctl)
        BY <2>9 DEF drop_ctl_recv
      <3> QED
        BY <2>9, <3>1 DEF TypeOK, drop_ctl_recv, threadVars
    <2>10. CASE drop_waker
      BY <2>10 DEF TypeOK, drop_waker, threadVars
    <2> QED
      BY <1>5, <2>1, <2>2, <2>3, <2>4, <2>5, <2>6, <2>7, <2>8, <2>9, <2>10 DEF run
  <1>6. CASE Finished \/ UNCHANGED vars
    BY <1>6 DEF TypeOK, Finished, vars
  <1> QED
    BY <1>1, <1>2, <1>3, <1>4, <1>5, <1>6 DEF Next

(* Whatever the threads do, every variable of the control plane keeps the   *)
(* values TypeOK names; in particular the waker never holds more than its   *)
(* capacity.                                                                *)
THEOREM TypeCorrect == Spec => []TypeOK
  BY InitType, NextType, PTL DEF Spec

-----------------------------------------------------------------------------
(* What NoLostWakeup needs at the other places of the loop: a channel that  *)
(* run has found empty in this round only holds messages whose wake byte is *)
(* still due or came after the waker was cleared. The waker is only closed  *)
(* at the very end, so that no failed write takes a due byte away.          *)
WakeInv ==
    /\ phase # "stopped" => "waker" \in open
    /\ phase \in {"ctls", "actions", "poll"} => \A i \in 1..Len(cmds) : Pending(cmds[i])
    /\ phase \in {"actions", "poll"} => \A i \in 1..Len(ctls) : Pending(ctls[i])
    /\ phase = "poll" /\ actions # <<>> => Pending(Launch)

(* Every step of the threads and of the reactor keeps WakeInv.              *)
LEMMA WakeInvStep == TypeOK /\ TypeOK' /\ WakeInv /\ [Next]_vars => WakeInv'
  <1> SUFFICES ASSUME TypeOK, TypeOK', WakeInv, [Next]_vars PROVE WakeInv'
    OBVIOUS
  <1> USE ControlAssumption
  <1>0. bytes \in Nat /\ bytes' \in Nat
    BY DEF TypeOK
  <1>1. ASSUME NEW c \in Controllers, NEW m, pc[c] = "idle", GoWake(c, m)
        PROVE  /\ Pending(m)'
               /\ \A x : Pending(x) => Pending(x)'
               /\ UNCHANGED <<open, phase, actions>>
    <2>1. UNCHANGED <<bytes, open, phase, actions>>
      BY <1>1 DEF GoWake, runtimeVars
    <2>2. pc'[c] = "lock" /\ call'[c] = m
      BY <1>1 DEF GoWake, TypeOK
    <2>3. \A d \in Controllers : d # c => pc'[d] = pc[d] /\ call'[d] = call[d]
      BY <1>1 DEF GoWake, TypeOK
    <2>4. ASSUME NEW x, Pending(x) PROVE Pending(x)'
      BY <1>0, <1>1, <2>1, <2>3, <2>4 DEF Pending, WakeDue
    <2> QED
      BY <2>1, <2>2, <2>4 DEF Pending, WakeDue
  <1>2. ASSUME NEW c \in Controllers, GiveUp(c) PROVE WakeInv'
    BY <1>2 DEF GiveUp, runtimeVars, WakeInv, Pending, WakeDue
  <1>3. ASSUME NEW c \in Controllers, NEW r \in announced \cup {None}, send(c, r)
        PROVE  WakeInv'
    <2>1. Command(c, made[c] + 1, r) \in Commands
      BY <1>3, SentCommand
    <2>2. PICK m \in Commands : m = Command(c, made[c] + 1, r)
      BY <2>1
    <2>3. CASE cmds' = Append(cmds, m) /\ ctls' = ctls /\ GoWake(c, m)
      <3>1. /\ Pending(m)' /\ \A x : Pending(x) => Pending(x)'
            /\ UNCHANGED <<open, phase, actions>>
        BY <1>1, <1>3, <2>3 DEF send, MayCall
      <3>2. \A i \in 1..Len(cmds') : cmds'[i] = m \/ (i \in 1..Len(cmds) /\ cmds'[i] = cmds[i])
        BY <2>3, AppendEntries, SMTT(30) DEF TypeOK
      <3> QED
        BY <2>3, <3>1, <3>2 DEF WakeInv
    <2> QED
      BY <1>2, <1>3, <2>2, <2>3 DEF send
  <1>4. ASSUME NEW c \in Controllers, NEW m \in Ctl, pc[c] = "idle", cmds' = cmds,
               ctls' = Append(ctls, m) \/ ctls' = ctls, GoWake(c, m)
        PROVE  WakeInv'
    <2>1. /\ Pending(m)' /\ \A x : Pending(x) => Pending(x)'
          /\ UNCHANGED <<open, phase, actions>>
      BY <1>1, <1>4
    <2>2. \A i \in 1..Len(ctls') : ctls'[i] = m \/ (i \in 1..Len(ctls) /\ ctls'[i] = ctls[i])
      <3>1. CASE ctls' = Append(ctls, m)
        BY <3>1, AppendEntries, SMTT(30) DEF TypeOK
      <3>2. CASE ctls' = ctls
        BY <3>2
      <3> QED
        BY <1>4, <3>1, <3>2
    <2> QED
      BY <1>4, <2>1, <2>2 DEF WakeInv
  <1>5. ASSUME NEW c \in Controllers, NEW r \in Resources, register(c, r)
        PROVE  WakeInv'
    <2>1. Register(r) \in Ctl
      BY DEF Ctl
    <2> QED
      BY <1>2, <1>4, <1>5, <2>1 DEF register, MayCall
  <1>6. ASSUME NEW c \in Controllers, shutdown(c) PROVE WakeInv'
    <2>1. Shutdown \in Ctl
      BY DEF Ctl
    <2> QED
      BY <1>4, <1>6, <2>1 DEF shutdown, MayCall
  <1>7. ASSUME NEW c \in Controllers, wake(c) PROVE WakeInv'
    <2>1. UNCHANGED <<cmds, ctls, open, phase, actions, call>>
      BY <1>7 DEF wake, lock, write_ok, write_full, write_broken, Unlock, runtimeVars
    <2>2. CASE write_ok(c)
      BY <1>0, <2>1, <2>2 DEF write_ok, WakeInv, Pending
    <2>3. CASE lock(c) \/ write_full(c)
      <3>1. bytes' = bytes /\ pc'[c] \in {"lock", "write"}
            /\ \A d \in Controllers : d # c => pc'[d] = pc[d]
        BY <2>3 DEF lock, write_full, TypeOK
      <3>2. ASSUME NEW x, Pending(x) PROVE Pending(x)'
        BY <2>1, <3>1, <3>2 DEF Pending, WakeDue
      <3> QED
        BY <2>1, <3>2 DEF WakeInv
    <2>4. CASE write_broken(c)
      BY <2>1, <2>4 DEF write_broken, WakeInv
    <2> QED
      BY <1>7, <2>2, <2>3, <2>4 DEF wake
  <1>8. CASE run
    <2>0. pc' = pc /\ call' = call
      BY <1>8 DEF run, poll_waker, poll_io, poll_timeout, reset_fd, take_command,
                  commands_empty, take_register, take_shutdown, controls_empty,
                  handle_action, actions_done, drop_cmd_recv, drop_ctl_recv,
                  drop_waker, Goto, threadVars, vars
    <2>a. ASSUME bytes' = bytes, NEW x PROVE Pending(x)' <=> Pending(x)
      BY <2>0, <2>a DEF Pending, WakeDue
    <2>1. CASE poll_waker
      BY <2>1 DEF poll_waker, Goto, sharedVars, WakeInv
    <2>2. CASE poll_io \/ poll_timeout
      BY <2>2, <2>a DEF poll_io, poll_timeout, Goto, sharedVars, WakeInv, vars
    <2>3. CASE reset_fd
      BY <2>3 DEF reset_fd, WakeInv
    <2>4. CASE take_command
      BY <2>4 DEF take_command, WakeInv
    <2>5. CASE commands_empty
      <3>1. Len(cmds') = 0
        BY <2>5 DEF commands_empty, Goto, sharedVars
      <3> QED
        BY <2>5, <3>1 DEF commands_empty, Goto, sharedVars, WakeInv
    <2>6. CASE take_register
      BY <2>6, <2>a DEF take_register, WakeInv
    <2>7. CASE take_shutdown
      BY <2>7 DEF take_shutdown, WakeInv
    <2>8. CASE controls_empty
      <3>1. Len(ctls') = 0
        BY <2>8 DEF controls_empty, Goto, sharedVars
      <3> QED
        BY <2>8, <2>a, <3>1 DEF controls_empty, Goto, sharedVars, WakeInv
    <2>9. CASE handle_action
      BY <2>9, <2>a DEF handle_action, WakeInv
    <2>10. CASE actions_done
      BY <2>10, <2>a DEF actions_done, Goto, sharedVars, WakeInv
    <2>11. CASE drop_cmd_recv \/ drop_ctl_recv \/ drop_waker
      BY <2>11 DEF drop_cmd_recv, drop_ctl_recv, drop_waker, WakeInv
    <2> QED
      BY <1>8, <2>1, <2>2, <2>3, <2>4, <2>5, <2>6, <2>7, <2>8, <2>9, <2>10, <2>11 DEF run
  <1>9. CASE Finished \/ UNCHANGED vars
    BY <1>9 DEF Finished, vars, WakeInv, Pending, WakeDue
  <1> QED
    BY <1>3, <1>5, <1>6, <1>7, <1>8, <1>9 DEF Next

(* The reactor thread never goes to sleep on unhandled work: for any number *)
(* of controller threads, any waker capacity and any interleaving, when it  *)
(* blocks in poll every message in its channels still has a wake byte       *)
(* coming or present.                                                       *)
THEOREM NoWakeupIsLost == Spec => []NoLostWakeup
  <1>1. Init => WakeInv
    <2> SUFFICES ASSUME Init PROVE WakeInv
      OBVIOUS
    <2>1. WakeDue(Launch)
      BY ControlAssumption DEF Init, WakeDue
    <2> QED
      BY <2>1 DEF Init, WakeInv, Pending
  <1>2. TypeOK /\ WakeInv => NoLostWakeup
    BY DEF WakeInv, NoLostWakeup
  <1>3. TypeOK /\ WakeInv /\ [Next]_vars => TypeOK' /\ WakeInv'
    BY NextType, WakeInvStep
  <1> QED
    BY InitType, <1>1, <1>2, <1>3, PTL DEF Spec

-----------------------------------------------------------------------------
(* A resource the reactor knows, or will know once it has drained the       *)
(* control channel.                                                         *)
Coming(r) == r \in registered \/ \E i \in 1..Len(ctls) : ctls[i] = Register(r)

(* Why an action never meets an unknown resource: whatever is announced, or *)
(* named by a command or an action, is registered or ahead in the control   *)
(* channel, and that channel is empty when run gets to the actions. Actions *)
(* only survive a round when they are the registrations of the launch.      *)
UseInv ==
    /\ unknown = {}
    /\ Running =>
        /\ \A r \in announced : Coming(r)
        /\ \A c \in Controllers :
              pc[c] # "idle" /\ call[c].kind = "register" => Coming(call[c].res)
        /\ \A i \in 1..Len(cmds) : cmds[i].res = None \/ Coming(cmds[i].res)
        /\ \A i \in 1..Len(actions) : actions[i].kind = "use" =>
              /\ phase # "poll" /\ phase # "reset"
              /\ IF phase = "actions" THEN actions[i].res \in registered
                                      ELSE Coming(actions[i].res)

(* A step that loses no registration keeps every resource coming.           *)
LEMMA ComingStable ==
    ASSUME NEW r, Coming(r), registered \subseteq registered',
           \A i \in 1..Len(ctls) : ctls[i] = Register(r) =>
               \/ r \in registered'
               \/ \E j \in 1..Len(ctls') : ctls'[j] = Register(r)
    PROVE  Coming(r)'
  BY DEF Coming

(* Every step keeps UseInv.                                                 *)
LEMMA UseInvStep == TypeOK /\ TypeOK' /\ UseInv /\ [Next]_vars => UseInv'
  <1> SUFFICES ASSUME TypeOK, TypeOK', UseInv, [Next]_vars PROVE UseInv'
    OBVIOUS
  <1> USE ControlAssumption
  <1>1. ASSUME NEW c \in Controllers, GiveUp(c) PROVE UseInv'
    BY <1>1 DEF GiveUp, runtimeVars, UseInv, Running, Coming
  <1>2. ASSUME NEW c \in Controllers, NEW r \in announced \cup {None}, send(c, r)
        PROVE  UseInv'
    <2>1. PICK m \in Commands : m = Command(c, made[c] + 1, r)
      BY <1>2, SentCommand
    <2>2. CASE cmds' = Append(cmds, m) /\ ctls' = ctls /\ GoWake(c, m)
      <3>1. \A i \in 1..Len(cmds') : cmds'[i] = m \/ (i \in 1..Len(cmds) /\ cmds'[i] = cmds[i])
        BY <2>2, AppendEntries DEF TypeOK
      <3>2. \A x : Coming(x)' <=> Coming(x)
        BY <2>2 DEF GoWake, runtimeVars, Coming
      <3>3. \A d \in Controllers : \/ call'[d].kind # "register"
                                   \/ pc'[d] = pc[d] /\ call'[d] = call[d]
        BY <2>1, <2>2 DEF GoWake, TypeOK
      <3>4. UNCHANGED <<phase, actions, registered, announced, unknown>> /\ m.res = r
        BY <2>1, <2>2 DEF GoWake, runtimeVars
      <3> QED
        BY <3>1, <3>2, <3>3, <3>4 DEF UseInv, Running
    <2> QED
      BY <1>1, <1>2, <2>1, <2>2 DEF send
  <1>3. ASSUME NEW c \in Controllers, NEW m \in Ctl, cmds' = cmds, GoWake(c, m),
               ctls' = Append(ctls, m) \/ (ctls' = ctls /\ m.kind # "register")
        PROVE  UseInv'
    <2>1. UNCHANGED <<phase, actions, registered, announced, unknown>>
      BY <1>3 DEF GoWake, runtimeVars
    <2>2. ASSUME NEW x, Coming(x) PROVE Coming(x)'
      <3>1. CASE ctls' = Append(ctls, m)
        <4>1. \A i \in 1..Len(ctls) : i \in 1..Len(ctls') /\ ctls'[i] = ctls[i]
          BY <3>1, AppendEntries DEF TypeOK
        <4> QED
          BY <2>1, <2>2, <4>1 DEF Coming
      <3>2. CASE ctls' = ctls
        BY <2>1, <2>2, <3>2 DEF Coming
      <3> QED
        BY <1>3, <3>1, <3>2
    <2>3. m.kind = "register" => Coming(m.res)'
      <3>1. ASSUME m.kind = "register" PROVE m = Register(m.res)
        BY <3>1 DEF Ctl
      <3>2. CASE ctls' = Append(ctls, m)
        <4>1. Len(ctls) + 1 \in 1..Len(ctls') /\ ctls'[Len(ctls) + 1] = m
          BY <3>2, AppendEntries DEF TypeOK
        <4> QED
          BY <3>1, <4>1 DEF Coming
      <3> QED
        BY <1>3, <3>2
    <2>4. \A d \in Controllers : \/ call'[d] = m
                                 \/ pc'[d] = pc[d] /\ call'[d] = call[d]
      BY <1>3 DEF GoWake, TypeOK
    <2> QED
      BY <1>3, <2>1, <2>2, <2>3, <2>4 DEF UseInv, Running
  <1>4. ASSUME NEW c \in Controllers, NEW r \in Resources, register(c, r)
        PROVE  UseInv'
    <2>1. Register(r) \in Ctl
      BY DEF Ctl
    <2> QED
      BY <1>1, <1>3, <1>4, <2>1 DEF register
  <1>5. ASSUME NEW c \in Controllers, shutdown(c) PROVE UseInv'
    <2>1. Shutdown \in Ctl /\ Shutdown.kind # "register"
      BY DEF Ctl
    <2> QED
      BY <1>3, <1>5, <2>1 DEF shutdown
  <1>6. ASSUME NEW c \in Controllers, wake(c) PROVE UseInv'
    <2>1. UNCHANGED <<cmds, ctls, phase, actions, registered, unknown, call>>
      BY <1>6 DEF wake, lock, write_ok, write_full, write_broken, Unlock, runtimeVars
    <2>2. \A d \in Controllers : pc'[d] # "idle" => pc[d] # "idle"
      BY <1>6 DEF wake, lock, write_ok, write_full, write_broken, Unlock, TypeOK
    <2>3. \A r \in announced' : \/ r \in announced
                                \/ call[c].kind = "register" /\ pc[c] # "idle" /\ r = call[c].res
      BY <1>6 DEF wake, lock, write_ok, write_full, write_broken
    <2>4. \A x : Coming(x)' <=> Coming(x)
      BY <2>1 DEF Coming
    <2> QED
      BY <2>1, <2>2, <2>3, <2>4 DEF UseInv, Running
  <1>7. CASE run
    <2>0. UNCHANGED <<pc, call, announced>>
      BY <1>7 DEF run, poll_waker, poll_io, poll_timeout, reset_fd, take_command,
                  commands_empty, take_register, take_shutdown, controls_empty,
                  handle_action, actions_done, drop_cmd_recv, drop_ctl_recv,
                  drop_waker, Goto, threadVars, vars
    <2>a. ASSUME registered' = registered, ctls' = ctls, NEW x PROVE Coming(x)' <=> Coming(x)
      BY <2>a DEF Coming
    <2>1. CASE poll_waker \/ poll_io \/ poll_timeout
      BY <2>0, <2>1, <2>a DEF poll_waker, poll_io, poll_timeout, Goto, sharedVars, vars,
                              UseInv, Running
    <2>2. CASE reset_fd
      BY <2>0, <2>2, <2>a DEF reset_fd, UseInv, Running
    <2>3. CASE take_command
      <3>1. /\ Head(cmds) = cmds[1] /\ Head(cmds) \in Commands /\ 1 \in 1..Len(cmds)
            /\ \A i \in 1..Len(cmds') : i + 1 \in 1..Len(cmds) /\ cmds'[i] = cmds[i + 1]
        BY <2>3, TailEntries, EmptyEntries DEF TypeOK, take_command
      <3>2. \A i \in 1..Len(actions') :
               \/ i \in 1..Len(actions) /\ actions'[i] = actions[i]
               \/ Head(cmds).res # None /\ actions'[i] = Use(Head(cmds).res)
        <4>1. CASE Head(cmds).res = None
          BY <2>3, <4>1 DEF take_command
        <4>2. CASE Head(cmds).res # None
          <5>1. Use(Head(cmds).res) \in Action
            BY <3>1, <4>2 DEF Commands, Action
          <5> QED
            BY <2>3, <4>2, <5>1, AppendEntries, SMTT(30) DEF TypeOK, take_command
        <4> QED
          BY <4>1, <4>2
      <3>3. \A x : Coming(x)' <=> Coming(x)
        BY <2>3, <2>a DEF take_command
      <3>4. UNCHANGED <<phase, registered, unknown>> /\ phase = "cmds"
        BY <2>3 DEF take_command
      <3>5. cmds[1].res = None \/ Coming(cmds[1].res)
        BY <3>1, <3>4 DEF UseInv, Running
      <3> QED
        BY <2>0, <3>1, <3>2, <3>3, <3>4, <3>5 DEF UseInv, Running
    <2>4. CASE commands_empty
      BY <2>0, <2>4, <2>a DEF commands_empty, Goto, sharedVars, UseInv, Running
    <2>5. CASE take_register
      <3>1. /\ Head(ctls) = ctls[1] /\ Head(ctls) \in Ctl
            /\ \A i \in 1..Len(ctls) : i = 1 \/ (i - 1 \in 1..Len(ctls') /\ ctls'[i - 1] = ctls[i])
        BY <2>5, TailEntries DEF TypeOK, take_register
      <3>2. ASSUME NEW x, Coming(x) PROVE Coming(x)'
        <4>1. ctls[1] = Register(x) => x \in registered'
          BY <2>5, <3>1 DEF take_register
        <4>2. registered \subseteq registered'
          BY <2>5 DEF take_register
        <4> QED
          BY <3>1, <3>2, <4>1, <4>2, ComingStable
      <3>3. UNCHANGED <<cmds, phase, actions, unknown>> /\ phase = "ctls"
        BY <2>5 DEF take_register
      <3> QED
        BY <2>0, <3>2, <3>3 DEF UseInv, Running
    <2>6. CASE take_shutdown
      BY <2>6 DEF take_shutdown, UseInv, Running
    <2>7. CASE controls_empty
      <3>1. ~\E i \in 1..Len(ctls) : TRUE
        BY <2>7 DEF controls_empty
      <3>2. \A x : Coming(x) => x \in registered
        BY <3>1 DEF Coming
      <3>3. \A x : Coming(x)' <=> Coming(x)
        BY <2>7, <2>a DEF controls_empty, Goto, sharedVars
      <3> QED
        BY <2>0, <2>7, <3>2, <3>3 DEF controls_empty, Goto, sharedVars, UseInv, Running
    <2>8. CASE handle_action
      <3>1. /\ Head(actions) = actions[1] /\ 1 \in 1..Len(actions)
            /\ \A i \in 1..Len(actions') : i + 1 \in 1..Len(actions) /\ actions'[i] = actions[i + 1]
        BY <2>8, TailEntries, EmptyEntries DEF TypeOK, handle_action
      <3>2. /\ phase = "actions" /\ registered \subseteq registered'
            /\ UNCHANGED <<cmds, ctls, phase>>
        BY <2>8 DEF handle_action
      <3>3. unknown' = {}
        BY <2>8, <3>1, <3>2 DEF handle_action, UseInv, Running
      <3>4. \A x : Coming(x) => Coming(x)'
        BY <3>2 DEF Coming
      <3> QED
        BY <2>0, <3>1, <3>2, <3>3, <3>4 DEF UseInv, Running
    <2>9. CASE actions_done
      <3>1. Len(actions') = 0
        BY <2>9 DEF actions_done, Goto
      <3> QED
        BY <2>0, <2>9, <2>a, <3>1 DEF actions_done, Goto, sharedVars, UseInv, Running
    <2>10. CASE drop_cmd_recv \/ drop_ctl_recv \/ drop_waker
      BY <2>10 DEF drop_cmd_recv, drop_ctl_recv, drop_waker, UseInv, Running
    <2> QED
      BY <1>7, <2>1, <2>2, <2>3, <2>4, <2>5, <2>6, <2>7, <2>8, <2>9, <2>10 DEF run
  <1>8. CASE Finished \/ UNCHANGED vars
    BY <1>8 DEF Finished, vars, UseInv, Running, Coming
  <1> QED
    BY <1>2, <1>4, <1>5, <1>6, <1>7, <1>8 DEF Next

(* For any threads and any interleaving, an action caused by a command      *)
(* never ends in TransportUnknown or ListenerUnknown for a resource whose   *)
(* registration returned before the command was sent, although the          *)
(* registration travels in the channel that is drained second.              *)
THEOREM UseAfterRegistration == Spec => []RegisteredBeforeUse
  <1>1. Init => UseInv
    BY ControlAssumption DEF Init, UseInv
  <1>2. UseInv => RegisteredBeforeUse
    BY DEF UseInv, RegisteredBeforeUse
  <1>3. TypeOK /\ UseInv /\ [Next]_vars => TypeOK' /\ UseInv'
    BY NextType, UseInvStep
  <1> QED
    BY InitType, <1>1, <1>2, <1>3, PTL DEF Spec
=============================================================================
