----------------------------- MODULE Server_proofs -----------------------------
(***************************************************************************)
(* The nsh server neither loses nor doubles a message of its processor,     *)
(* leaves nothing in the outbox of an established connection and sends to   *)
(* no connection that is gone from the reactor or that has taken the        *)
(* descriptor of another, unless the message has waited in the outbox, for  *)
(* any descriptors and any number of connections and messages.              *)
(***************************************************************************)
EXTENDS Server, FiniteSetTheorems, FunctionTheorems, SequenceTheorems, TLAPS

Kinds  == {"register", "unregister", "send", "unregister_listener"}
Queued == [kind : Kinds, fd : Fds \cup {0}, msg : Message \cup {NoMsg}]

Written  == [msg : Message, conn : 1..MaxConns]
Statuses == {"new", "handshake", "active", "terminated", "gone"}

Is(a, k, fd) == a.kind = k /\ a.fd = fd

(* Connections, and what is queued for them, carry what belongs to them.    *)
QueueTyped ==
    \A i \in 1..Len(action_queue) :
        /\ action_queue[i].kind \in {"register", "unregister", "send"} => action_queue[i].fd \in Fds
        /\ action_queue[i].kind = "send" => action_queue[i].msg \in Message

(* Two connections that are not gone differ in their descriptors.           *)
Distinct ==
    \A c, d \in Numbers :
        conns[c] = conns[d] /\ status[c] # "gone" /\ status[d] # "gone" => c = d

(* A message in the queue is for a transport in the reactor, or for one     *)
(* whose registration comes before it.                                      *)
Aimed ==
    \A i \in 1..Len(action_queue) : action_queue[i].kind = "send" =>
        \/ \E c \in Numbers : c \in Transport(action_queue[i].fd)
        \/ /\ \E c \in Numbers : conns[c] = action_queue[i].fd /\ status[c] = "new"
           /\ \E j \in 1..Len(action_queue) :
                 j < i /\ Is(action_queue[j], "register", action_queue[i].fd)

(* No message to a descriptor comes after what unregisters it.              *)
LastUnregistered ==
    \A i, j \in 1..Len(action_queue) :
        i < j /\ action_queue[i].kind = "unregister" /\ action_queue[j].kind = "send"
            => action_queue[i].fd # action_queue[j].fd

(* While events are handled, what is queued concerns descriptors that have  *)
(* had their event of the turn, or a connection that has just been made;    *)
(* what is to be unregistered is still there.                               *)
FromThisTurn ==
    phase = "events" => \A i \in 1..Len(action_queue) :
        /\ action_queue[i].kind = "unregister" =>
              /\ action_queue[i].fd \in seen
              /\ \E c \in Numbers : conns[c] = action_queue[i].fd /\ status[c] # "gone"
        /\ action_queue[i].kind = "send" =>
              \/ action_queue[i].fd \in seen
              \/ \E c \in Numbers : conns[c] = action_queue[i].fd /\ status[c] = "new"

(* TypeOK without the history of the messages that have waited, which the   *)
(* last invariant below is about.                                           *)
CoreTypes ==
    /\ conns \in Seq(Fds) /\ Len(conns) <= MaxConns
    /\ status \in [Numbers -> Statuses]
    /\ listening \in BOOLEAN
    /\ outbox \in [Fds -> Seq(Message)]
    /\ action_queue \in Seq(Queued)
    /\ phase \in {"events", "actions", "panic"}
    /\ seen \subseteq Fds \cup {0}
    /\ made \in 0..MaxMsgs
    /\ delivered \in Seq(Written)
    /\ refused \subseteq Message

ServerInv == /\ CoreTypes /\ QueueTyped /\ Distinct /\ OutboxDrained
             /\ Aimed /\ LastUnregistered /\ FromThisTurn

(* Where message n is: its places in the queue, the outbox and delivered,   *)
(* and itself among the refused.                                            *)
InQueue(q, n)     == {i \in DOMAIN q : q[i].kind = "send" /\ q[i].msg.n = n}
InOutbox(o, n)    == {w \in Fds \X (Nat \ {0}) : w[2] \in DOMAIN o[w[1]] /\ o[w[1]][w[2]].n = n}
InDelivered(d, n) == {i \in DOMAIN d : d[i].msg.n = n}
InRefused(r, n)   == {m \in r : m.n = n}

One(S) == \E x : S = {x}

(* Exactly one place of all four kinds.                                     *)
OnePlace(Q, O, D, R) ==
    \/ One(Q) /\ O = {} /\ D = {} /\ R = {}
    \/ Q = {} /\ One(O) /\ D = {} /\ R = {}
    \/ Q = {} /\ O = {} /\ One(D) /\ R = {}
    \/ Q = {} /\ O = {} /\ D = {} /\ One(R)

NoPlace(Q, O, D, R) == Q = {} /\ O = {} /\ D = {} /\ R = {}

(* Every message made is in one place, and no other is anywhere.            *)
AccountInv ==
    \A n \in Nat \ {0} :
        IF n <= made
        THEN OnePlace(InQueue(action_queue, n), InOutbox(outbox, n),
                      InDelivered(delivered, n), InRefused(refused, n))
        ELSE NoPlace(InQueue(action_queue, n), InOutbox(outbox, n),
                     InDelivered(delivered, n), InRefused(refused, n))

-----------------------------------------------------------------------------
(* Actions the server queues are actions of the queue.                      *)
LEMMA DoTypes ==
    ASSUME NEW fd \in Fds, NEW m \in Message
    PROVE  /\ Register(fd) \in Queued /\ Unregister(fd) \in Queued /\ Send(fd, m) \in Queued
           /\ Is(Register(fd), "register", fd) /\ Is(Unregister(fd), "unregister", fd)
           /\ Is(Send(fd, m), "send", fd) /\ Send(fd, m).msg = m
BY DEF Register, Unregister, Send, Do, Queued, Kinds, Is

(* An element of the queue has a kind, a descriptor and a message.          *)
LEMMA QueuedTypes ==
    ASSUME NEW a \in Queued
    PROVE  a.kind \in Kinds /\ a.fd \in Fds \cup {0} /\ a.msg \in Message \cup {NoMsg}
BY DEF Queued

(* What the queue holds after more has been queued behind it.               *)
LEMMA Behind ==
    ASSUME NEW q \in Seq(Queued), NEW s \in Seq(Queued)
    PROVE  /\ q \o s \in Seq(Queued) /\ Len(q \o s) = Len(q) + Len(s)
           /\ Len(q) \in Nat /\ Len(s) \in Nat
           /\ \A i \in 1..Len(q) : (q \o s)[i] = q[i]
           /\ \A i \in 1..Len(s) : (q \o s)[Len(q) + i] = s[i]
           /\ \A i \in 1..(Len(q) + Len(s)) :
                 \/ i \in 1..Len(q) /\ (q \o s)[i] = q[i]
                 \/ \E k \in 1..Len(s) : i = Len(q) + k /\ (q \o s)[i] = s[k]
<1>1. /\ q \o s \in Seq(Queued) /\ Len(q \o s) = Len(q) + Len(s)
      /\ Len(q) \in Nat /\ Len(s) \in Nat
  BY ConcatProperties, LenProperties
<1>2. \A i \in 1..Len(q) + Len(s) :
        (q \o s)[i] = IF i <= Len(q) THEN q[i] ELSE s[i - Len(q)]
  BY ConcatProperties
<1>3. \A i \in 1..Len(q) : (q \o s)[i] = q[i]
  BY <1>1, <1>2
<1>4. \A i \in 1..Len(s) : (q \o s)[Len(q) + i] = s[i]
  <2> TAKE i \in 1..Len(s)
  <2>1. Len(q) + i \in 1..Len(q) + Len(s) /\ ~(Len(q) + i <= Len(q)) /\ (Len(q) + i) - Len(q) = i
    BY <1>1
  <2> QED BY <2>1, <1>2
<1>5. \A i \in 1..(Len(q) + Len(s)) :
        \/ i \in 1..Len(q) /\ (q \o s)[i] = q[i]
        \/ \E k \in 1..Len(s) : i = Len(q) + k /\ (q \o s)[i] = s[k]
  <2> TAKE i \in 1..(Len(q) + Len(s))
  <2>1. CASE i <= Len(q)
    BY <2>1, <1>1, <1>2
  <2>2. CASE ~(i <= Len(q))
    <3>1. i - Len(q) \in 1..Len(s) /\ i = Len(q) + (i - Len(q))
      BY <2>2, <1>1
    <3> QED BY <3>1, <2>2, <1>2
  <2> QED BY <2>1, <2>2
<1> QED BY <1>1, <1>3, <1>4, <1>5

(* What an event queues concerns one descriptor; the messages among it are  *)
(* not behind what unregisters that descriptor and find a transport, and    *)
(* the event takes no transport from a message that waits.                  *)
Concerns(s, fd) ==
    \A k \in 1..Len(s) :
        /\ s[k].kind \in {"register", "unregister", "send"} => s[k].fd = fd
        /\ s[k].kind = "send" => s[k].msg \in Message

WellAimed(s, fd) ==
    \A k \in 1..Len(s) : s[k].kind = "send" =>
        /\ \A i \in 1..Len(action_queue) : ~Is(action_queue[i], "unregister", fd)
        /\ \A j \in 1..Len(s) : j < k => s[j].kind # "unregister"
        /\ \/ \E c \in Numbers' : c \in Transport(fd)'
           \/ /\ \E c \in Numbers' : conns'[c] = fd /\ status'[c] = "new"
              /\ \E j \in 1..Len(s) : j < k /\ Is(s[j], "register", fd)

KeepsNew ==
    \A c \in Numbers : c \in Numbers' /\ conns'[c] = conns[c]
                       /\ (status[c] = "new" => status'[c] = "new")

KeepsTransports(from) ==
    \A i \in from..Len(action_queue) : \A c \in Numbers : \A f \in Fds :
        Is(action_queue[i], "send", f) /\ c \in Transport(f) => c \in Transport(f)'

(* The invariant of the queue after an event.                               *)
LEMMA QueueGrows ==
    ASSUME ServerInv, NEW s \in Seq(Queued), action_queue' = action_queue \o s, NEW fd \in Fds,
           Concerns(s, fd), WellAimed(s, fd), KeepsNew, KeepsTransports(1)
    PROVE  QueueTyped' /\ Aimed' /\ LastUnregistered'
<1> USE DEF Concerns, WellAimed, KeepsNew, KeepsTransports
<1> PICK q : q = action_queue
  OBVIOUS
<1> PICK r : r = action_queue'
  OBVIOUS
<1>1. q \in Seq(Queued) /\ r = q \o s
  BY DEF ServerInv, CoreTypes, Queued, Kinds
<1>2. /\ Len(r) = Len(q) + Len(s) /\ Len(q) \in Nat /\ Len(s) \in Nat
      /\ \A i \in 1..Len(q) : r[i] = q[i]
      /\ \A i \in 1..Len(s) : r[Len(q) + i] = s[i]
      /\ \A i \in 1..Len(r) :
            \/ i \in 1..Len(q) /\ r[i] = q[i]
            \/ \E k \in 1..Len(s) : i = Len(q) + k /\ r[i] = s[k]
  BY <1>1, Behind
<1>3. QueueTyped'
  <2>1. \A i \in 1..Len(q) : /\ q[i].kind \in {"register", "unregister", "send"} => q[i].fd \in Fds
                             /\ q[i].kind = "send" => q[i].msg \in Message
    BY DEF ServerInv, QueueTyped
  <2>2. \A i \in 1..Len(r) : /\ r[i].kind \in {"register", "unregister", "send"} => r[i].fd \in Fds
                             /\ r[i].kind = "send" => r[i].msg \in Message
    BY <1>2, <2>1, SMTT(30)
  <2> QED BY <2>2 DEF QueueTyped
<1>4. LastUnregistered'
  <2>1. \A i, j \in 1..Len(q) : i < j /\ q[i].kind = "unregister" /\ q[j].kind = "send" => q[i].fd # q[j].fd
    BY DEF ServerInv, LastUnregistered
  <2> SUFFICES ASSUME NEW i \in 1..Len(r), NEW j \in 1..Len(r),
                      i < j, r[i].kind = "unregister", r[j].kind = "send"
               PROVE  r[i].fd # r[j].fd
    BY DEF LastUnregistered
  <2>2. CASE j \in 1..Len(q)
    BY <2>1, <2>2, <1>2
  <2>3. CASE j \notin 1..Len(q)
    <3>1. PICK k \in 1..Len(s) : j = Len(q) + k /\ r[j] = s[k]
      BY <2>3, <1>2
    <3>2. r[j].fd = fd
      BY <3>1
    <3>3. CASE i \in 1..Len(q)
      <4>1. r[i] = q[i]
        BY <3>3, <1>2
      <4>2. ~Is(q[i], "unregister", fd)
        BY <3>1, <3>3
      <4> QED BY <4>1, <4>2, <3>2 DEF Is
    <3>4. CASE i \notin 1..Len(q)
      <4>1. PICK l \in 1..Len(s) : i = Len(q) + l /\ r[i] = s[l]
        BY <3>4, <1>2
      <4>2. l < k
        BY <4>1, <3>1, <1>2
      <4> QED BY <4>1, <4>2, <3>1
    <3> QED BY <3>3, <3>4
  <2> QED BY <2>2, <2>3
<1>5. Aimed'
  <2> SUFFICES ASSUME NEW i \in 1..Len(r), r[i].kind = "send"
               PROVE  \/ \E c \in Numbers' : c \in Transport(r[i].fd)'
                      \/ /\ \E c \in Numbers' : conns'[c] = r[i].fd /\ status'[c] = "new"
                         /\ \E j \in 1..Len(r) : j < i /\ Is(r[j], "register", r[i].fd)
    BY DEF Aimed
  <2>1. CASE i \in 1..Len(q)
    <3>1. r[i] = q[i]
      BY <2>1, <1>2
    <3>2. \/ \E c \in Numbers : c \in Transport(q[i].fd)
          \/ /\ \E c \in Numbers : conns[c] = q[i].fd /\ status[c] = "new"
             /\ \E j \in 1..Len(q) : j < i /\ Is(q[j], "register", q[i].fd)
      BY <2>1, <3>1 DEF ServerInv, Aimed
    <3>3. CASE \E c \in Numbers : c \in Transport(q[i].fd)
      <4>1. q[i].fd \in Fds
        BY <2>1, <3>1 DEF ServerInv, QueueTyped
      <4> QED BY <3>1, <3>3, <2>1, <4>1 DEF Is
    <3>4. ASSUME NEW c \in Numbers, conns[c] = q[i].fd, status[c] = "new",
                 NEW j \in 1..Len(q), j < i, Is(q[j], "register", q[i].fd)
          PROVE  /\ \E d \in Numbers' : conns'[d] = r[i].fd /\ status'[d] = "new"
                 /\ \E l \in 1..Len(r) : l < i /\ Is(r[l], "register", r[i].fd)
      <4>1. c \in Numbers' /\ conns'[c] = r[i].fd /\ status'[c] = "new"
        BY <3>4, <3>1
      <4>2. j \in 1..Len(r) /\ r[j] = q[j]
        BY <1>2
      <4> QED BY <4>1, <4>2, <3>4, <3>1
    <3> QED BY <3>2, <3>3, <3>4
  <2>2. CASE i \notin 1..Len(q)
    <3>1. PICK k \in 1..Len(s) : i = Len(q) + k /\ r[i] = s[k]
      BY <2>2, <1>2
    <3>2. r[i].fd = fd
      BY <3>1
    <3>3. CASE \E c \in Numbers' : c \in Transport(fd)'
      BY <3>2, <3>3
    <3>4. ASSUME NEW c \in Numbers', conns'[c] = fd, status'[c] = "new",
                 NEW j \in 1..Len(s), j < k, Is(s[j], "register", fd)
          PROVE  /\ \E d \in Numbers' : conns'[d] = r[i].fd /\ status'[d] = "new"
                 /\ \E l \in 1..Len(r) : l < i /\ Is(r[l], "register", r[i].fd)
      <4>1. Len(q) + j \in 1..Len(r) /\ Len(q) + j < i /\ r[Len(q) + j] = s[j]
        BY <3>4, <3>1, <1>2
      <4> QED BY <4>1, <3>4, <3>2
    <3> QED BY <3>1, <3>3, <3>4
  <2> QED BY <2>1, <2>2
<1> QED BY <1>3, <1>4, <1>5

(* An action queues at most something to be unregistered, and a new         *)
(* connection whose registration was first is in the reactor after it.      *)
Unregisters(s) == \A k \in 1..Len(s) : s[k].kind = "unregister" /\ s[k].fd \in Fds

NewAreRegistered ==
    \A c \in Numbers : status[c] = "new" =>
        IF Is(Head(action_queue), "register", conns[c])
        THEN status'[c] = "handshake" ELSE status'[c] = "new"

(* The invariant of the queue after an action, which takes no transport     *)
(* from a message behind it.                                                *)
LEMMA QueueMovesOn ==
    ASSUME ServerInv, action_queue # <<>>,
           NEW s \in Seq(Queued), action_queue' = Tail(action_queue) \o s,
           Unregisters(s), conns' = conns, NewAreRegistered, KeepsTransports(2)
    PROVE  QueueTyped' /\ Aimed' /\ LastUnregistered'
<1> USE DEF Unregisters, NewAreRegistered, KeepsTransports
<1> PICK q : q = action_queue
  OBVIOUS
<1> PICK t : t = Tail(action_queue)
  OBVIOUS
<1> PICK r : r = action_queue'
  OBVIOUS
<1>1. q \in Seq(Queued) /\ q # <<>> /\ r = t \o s /\ t = Tail(q) /\ Numbers' = Numbers
  BY DEF ServerInv, CoreTypes, Queued, Kinds, Numbers
<1>2. /\ t \in Seq(Queued) /\ Len(q) \in Nat /\ Len(q) > 0 /\ Len(t) = Len(q) - 1 /\ Head(q) = q[1]
      /\ \A i \in 1..Len(t) : i + 1 \in 2..Len(q) /\ t[i] = q[i + 1]
  BY <1>1, HeadTailProperties, LenProperties, EmptySeq
<1>3. /\ Len(r) = Len(t) + Len(s) /\ Len(t) \in Nat /\ Len(s) \in Nat
      /\ \A i \in 1..Len(t) : r[i] = t[i]
      /\ \A i \in 1..Len(r) :
            \/ i \in 1..Len(t) /\ r[i] = t[i]
            \/ \E k \in 1..Len(s) : i = Len(t) + k /\ r[i] = s[k]
  BY <1>1, <1>2, Behind
<1>4. \A i \in 1..Len(r) :
         \/ i \in 1..Len(t) /\ i + 1 \in 2..Len(q) /\ r[i] = q[i + 1]
         \/ i > Len(t) /\ r[i].kind = "unregister" /\ r[i].fd \in Fds
  BY <1>2, <1>3
<1>5. \A i \in 2..Len(q) : i \in 1..Len(q)
  BY <1>2
<1>6. QueueTyped'
  <2>1. \A i \in 1..Len(q) : /\ q[i].kind \in {"register", "unregister", "send"} => q[i].fd \in Fds
                             /\ q[i].kind = "send" => q[i].msg \in Message
    BY DEF ServerInv, QueueTyped
  <2>2. \A i \in 1..Len(r) : /\ r[i].kind \in {"register", "unregister", "send"} => r[i].fd \in Fds
                             /\ r[i].kind = "send" => r[i].msg \in Message
    BY <1>4, <1>5, <2>1
  <2> QED BY <2>2 DEF QueueTyped
<1>7. LastUnregistered'
  <2>1. \A i, j \in 1..Len(q) : i < j /\ q[i].kind = "unregister" /\ q[j].kind = "send" => q[i].fd # q[j].fd
    BY DEF ServerInv, LastUnregistered
  <2> SUFFICES ASSUME NEW i \in 1..Len(r), NEW j \in 1..Len(r),
                      i < j, r[i].kind = "unregister", r[j].kind = "send"
               PROVE  r[i].fd # r[j].fd
    BY DEF LastUnregistered
  <2>2. j \in 1..Len(t) /\ j + 1 \in 2..Len(q) /\ r[j] = q[j + 1]
    BY <1>4
  <2>3. i + 1 \in 2..Len(q) /\ r[i] = q[i + 1]
    BY <1>4, <2>2, <1>3
  <2>4. i + 1 \in 1..Len(q) /\ j + 1 \in 1..Len(q) /\ i + 1 < j + 1
    BY <2>2, <2>3, <1>5, <1>3
  <2>5. q[i + 1].fd # q[j + 1].fd
    <3>1. \A a, b \in 1..Len(q) :
             a < b /\ q[a] = r[i] /\ q[b] = r[j] => q[a].fd # q[b].fd
      BY <2>1, SMTT(30)
    <3> QED BY <3>1, <2>2, <2>3, <2>4
  <2> QED BY <2>5, <2>2, <2>3
<1>8. Aimed'
  <2> SUFFICES ASSUME NEW i \in 1..Len(r), r[i].kind = "send"
               PROVE  \/ \E c \in Numbers' : c \in Transport(r[i].fd)'
                      \/ /\ \E c \in Numbers' : conns'[c] = r[i].fd /\ status'[c] = "new"
                         /\ \E j \in 1..Len(r) : j < i /\ Is(r[j], "register", r[i].fd)
    BY DEF Aimed
  <2>1. i \in 1..Len(t) /\ i + 1 \in 2..Len(q) /\ r[i] = q[i + 1]
    BY <1>4
  <2>2. \/ \E c \in Numbers : c \in Transport(q[i + 1].fd)
        \/ /\ \E c \in Numbers : conns[c] = q[i + 1].fd /\ status[c] = "new"
           /\ \E j \in 1..Len(q) : j < i + 1 /\ Is(q[j], "register", q[i + 1].fd)
    <3>1. i + 1 \in 1..Len(q) /\ q[i + 1].kind = "send"
      BY <2>1, <1>5
    <3> QED BY <3>1 DEF ServerInv, Aimed
  <2>3. CASE \E c \in Numbers : c \in Transport(q[i + 1].fd)
    <3>1. PICK c \in Numbers : c \in Transport(q[i + 1].fd)
      BY <2>3
    <3>2. i + 1 \in 1..Len(q)
      BY <2>1, <1>5
    <3>3. r[i].fd \in Fds
      BY <2>1, <3>2 DEF ServerInv, QueueTyped
    <3>4. c \in Transport(r[i].fd)'
      BY <3>1, <3>3, <2>1 DEF Is
    <3> QED BY <3>4, <1>1
  <2>4. ASSUME NEW c \in Numbers, conns[c] = q[i + 1].fd, status[c] = "new",
               NEW j \in 1..Len(q), j < i + 1, Is(q[j], "register", q[i + 1].fd)
        PROVE  \/ \E d \in Numbers' : d \in Transport(r[i].fd)'
               \/ /\ \E d \in Numbers' : conns'[d] = r[i].fd /\ status'[d] = "new"
                  /\ \E l \in 1..Len(r) : l < i /\ Is(r[l], "register", r[i].fd)
    <3>0. conns[c] = r[i].fd
      BY <2>4, <2>1
    <3>1. CASE Is(Head(q), "register", conns[c])
      <4>1. status'[c] = "handshake"
        BY <3>1, <2>4
      <4>2. c \in Transport(r[i].fd)'
        BY <4>1, <3>0, <1>1 DEF Transport
      <4> QED BY <4>2, <1>1
    <3>2. CASE ~Is(Head(q), "register", conns[c])
      <4>1. status'[c] = "new"
        BY <3>2, <2>4
      <4>2. j # 1
        BY <3>2, <2>4, <1>2
      <4>3. j - 1 \in 1..Len(t) /\ j - 1 < i /\ j - 1 \in 1..Len(r) /\ (j - 1) + 1 = j
        BY <4>2, <2>4, <1>2, <1>3
      <4>4. r[j - 1] = q[j]
        BY <4>3, <1>2, <1>3
      <4> QED BY <4>1, <4>3, <4>4, <2>4, <2>1, <3>0, <1>1
    <3> QED BY <3>1, <3>2
  <2> QED BY <2>2, <2>3, <2>4
<1> QED BY <1>6, <1>7, <1>8

-----------------------------------------------------------------------------
(* CoreTypes spelt out, in this state and after a step.                     *)
LEMMA Typed ==
    CoreTypes <=> /\ conns \in Seq(Fds) /\ Len(conns) <= MaxConns
               /\ status \in [Numbers -> Statuses]
               /\ listening \in BOOLEAN
               /\ outbox \in [Fds -> Seq(Message)]
               /\ action_queue \in Seq(Queued)
               /\ phase \in {"events", "actions", "panic"}
               /\ seen \subseteq Fds \cup {0}
               /\ made \in 0..MaxMsgs
               /\ delivered \in Seq(Written)
               /\ refused \subseteq Message
BY DEF CoreTypes

(* The same after a step.                                                   *)
LEMMA TypedNext ==
    CoreTypes' <=> /\ conns' \in Seq(Fds) /\ Len(conns') <= MaxConns
                /\ status' \in [Numbers' -> Statuses]
                /\ listening' \in BOOLEAN
                /\ outbox' \in [Fds -> Seq(Message)]
                /\ action_queue' \in Seq(Queued)
                /\ phase' \in {"events", "actions", "panic"}
                /\ seen' \subseteq Fds \cup {0}
                /\ made' \in 0..MaxMsgs
                /\ delivered' \in Seq(Written)
                /\ refused' \subseteq Message
BY DEF CoreTypes

(* The server starts with the invariant.                                    *)
LEMMA ServerInvInit == Init => ServerInv
<1> SUFFICES ASSUME Init PROVE ServerInv
  OBVIOUS
<1> USE ServerAssumption DEF Init
<1>1. /\ <<>> \in Seq(Fds) /\ <<>> \in Seq(Queued) /\ <<>> \in Seq(Written)
      /\ <<>> \in Seq(Message) /\ Len(<<>>) = 0
  BY EmptySeq
<1>2. Numbers = {} /\ 1..Len(action_queue) = {}
  BY <1>1 DEF Numbers
<1>3. status \in [Numbers -> Statuses]
  BY <1>2
<1>4. CoreTypes
  BY <1>1, <1>3, Typed
<1> QED BY <1>2, <1>4 DEF ServerInv, QueueTyped, Distinct, OutboxDrained, Aimed, LastUnregistered, FromThisTurn

(* Steps that change nothing keep the invariant.                            *)
LEMMA ServerInvStutters == ServerInv /\ UNCHANGED vars => ServerInv'
<1> SUFFICES ASSUME ServerInv, UNCHANGED vars PROVE ServerInv'
  OBVIOUS
<1>1. Numbers' = Numbers
  BY DEF vars, Numbers
<1>2. CoreTypes'
  BY <1>1, Typed, TypedNext DEF ServerInv, vars
<1>3. QueueTyped' /\ Distinct' /\ OutboxDrained' /\ LastUnregistered'
  BY <1>1 DEF ServerInv, vars, QueueTyped, Distinct, OutboxDrained, LastUnregistered
<1>4. Aimed' /\ FromThisTurn'
  BY <1>1 DEF ServerInv, vars, Aimed, FromThisTurn, Transport, Is
<1> QED BY <1>2, <1>3, <1>4 DEF ServerInv

(* The status of the connections is a sequence as long as that of their     *)
(* descriptors.                                                             *)
LEMMA StatusIsSeq ==
    ASSUME ServerInv
    PROVE  /\ status \in Seq(Statuses) /\ Len(status) = Len(conns) /\ Len(conns) \in Nat
           /\ \A c \in Numbers : conns[c] \in Fds /\ status[c] \in Statuses
           /\ action_queue \in Seq(Queued)
<1>1. /\ conns \in Seq(Fds) /\ Len(conns) \in Nat /\ status \in [1..Len(conns) -> Statuses]
      /\ action_queue \in Seq(Queued)
  BY Typed, LenProperties DEF ServerInv, Numbers
<1>2. status \in Seq(Statuses)
  BY <1>1, SeqDef
<1>3. Len(status) = Len(conns)
  BY <1>1, <1>2, LenProperties
<1> QED BY <1>1, <1>2, <1>3, ElementOfSeq DEF Numbers

(* A new connection has a descriptor no other has that is not gone.         *)
LEMMA NewConnection ==
    ASSUME ServerInv, NEW fd \in Fds, NewTransport(fd)
    PROVE  /\ conns' \in Seq(Fds) /\ Len(conns') = Len(conns) + 1 /\ Len(conns') <= MaxConns
           /\ Numbers' = Numbers \cup {Len(conns) + 1}
           /\ Len(conns) + 1 \in 1..MaxConns
           /\ status' \in [Numbers' -> Statuses]
           /\ \A c \in Numbers : conns'[c] = conns[c] /\ status'[c] = status[c]
           /\ conns'[Len(conns) + 1] = fd /\ status'[Len(conns) + 1] = "new"
           /\ \A c \in Numbers : status[c] # "gone" => conns[c] # fd
           /\ Distinct'
<1>1. /\ conns \in Seq(Fds) /\ status \in Seq(Statuses) /\ Len(status) = Len(conns) /\ Len(conns) \in Nat
      /\ conns' = Append(conns, fd) /\ status' = Append(status, "new") /\ "new" \in Statuses
      /\ Len(conns) < MaxConns /\ MaxConns \in Nat
  BY StatusIsSeq, Typed, ServerAssumption DEF ServerInv, NewTransport, Statuses
<1>2. /\ conns' \in Seq(Fds) /\ Len(conns') = Len(conns) + 1
      /\ \A c \in 1..Len(conns) : conns'[c] = conns[c]
      /\ conns'[Len(conns) + 1] = fd
  BY <1>1, AppendProperties
<1>3. /\ status' \in Seq(Statuses) /\ Len(status') = Len(conns) + 1
      /\ \A c \in 1..Len(conns) : status'[c] = status[c]
      /\ status'[Len(conns) + 1] = "new"
  BY <1>1, AppendProperties
<1>4. Numbers' = Numbers \cup {Len(conns) + 1} /\ Len(conns) + 1 \in 1..MaxConns /\ Len(conns') <= MaxConns
  BY <1>1, <1>2 DEF Numbers
<1>5. status' \in [Numbers' -> Statuses]
  BY <1>2, <1>3, LenProperties DEF Numbers
<1>6. \A c \in Numbers : status[c] # "gone" => conns[c] # fd
  BY DEF NewTransport, FreeFds
<1>7. \A c \in Numbers : conns'[c] = conns[c] /\ status'[c] = status[c]
  BY <1>2, <1>3 DEF Numbers
<1>8. Distinct'
  BY <1>2, <1>3, <1>4, <1>6, <1>7 DEF ServerInv, Distinct
<1> QED BY <1>2, <1>3, <1>4, <1>5, <1>6, <1>7, <1>8

(* What an event queues concerns its descriptor, or a connection it makes,  *)
(* and a descriptor that has had its event keeps its connection.            *)
OfThisTurn(s) ==
    \A k \in 1..Len(s) :
        /\ s[k].kind = "unregister" =>
              /\ s[k].fd \in seen'
              /\ \E c \in Numbers' : conns'[c] = s[k].fd /\ status'[c] # "gone"
        /\ s[k].kind = "send" =>
              \/ s[k].fd \in seen'
              \/ \E c \in Numbers' : conns'[c] = s[k].fd /\ status'[c] = "new"

KeepsSeen == \A c \in Numbers : status[c] # "gone" /\ conns[c] \in seen => status'[c] # "gone"

(* What is queued is from this turn after an event, too.                    *)
LEMMA TurnGrows ==
    ASSUME ServerInv, phase = "events", NEW s \in Seq(Queued), action_queue' = action_queue \o s,
           seen \subseteq seen', OfThisTurn(s), KeepsNew, KeepsSeen
    PROVE  FromThisTurn'
<1> USE DEF OfThisTurn, KeepsNew, KeepsSeen
<1> PICK q : q = action_queue
  OBVIOUS
<1> PICK r : r = action_queue'
  OBVIOUS
<1>1. q \in Seq(Queued) /\ r = q \o s
  BY StatusIsSeq
<1>2. \A i \in 1..Len(r) :
            \/ i \in 1..Len(q) /\ r[i] = q[i]
            \/ \E k \in 1..Len(s) : i = Len(q) + k /\ r[i] = s[k]
  BY <1>1, Behind
<1>3. \A i \in 1..Len(q) :
        /\ q[i].kind = "unregister" =>
              /\ q[i].fd \in seen
              /\ \E c \in Numbers : conns[c] = q[i].fd /\ status[c] # "gone"
        /\ q[i].kind = "send" =>
              \/ q[i].fd \in seen
              \/ \E c \in Numbers : conns[c] = q[i].fd /\ status[c] = "new"
  BY DEF ServerInv, FromThisTurn
<1>4. ASSUME NEW i \in 1..Len(r), r[i].kind = "unregister"
      PROVE  /\ r[i].fd \in seen'
             /\ \E c \in Numbers' : conns'[c] = r[i].fd /\ status'[c] # "gone"
  <2>1. CASE i \in 1..Len(q) /\ r[i] = q[i]
    <3>1. r[i].fd \in seen /\ \E c \in Numbers : conns[c] = r[i].fd /\ status[c] # "gone"
      BY <2>1, <1>3, <1>4
    <3> QED BY <3>1
  <2>2. CASE \E k \in 1..Len(s) : i = Len(q) + k /\ r[i] = s[k]
    BY <2>2, <1>4
  <2> QED BY <2>1, <2>2, <1>2
<1>5. ASSUME NEW i \in 1..Len(r), r[i].kind = "send"
      PROVE  \/ r[i].fd \in seen'
             \/ \E c \in Numbers' : conns'[c] = r[i].fd /\ status'[c] = "new"
  <2>1. CASE i \in 1..Len(q) /\ r[i] = q[i]
    <3>1. r[i].fd \in seen \/ \E c \in Numbers : conns[c] = r[i].fd /\ status[c] = "new"
      BY <2>1, <1>3, <1>5
    <3> QED BY <3>1
  <2>2. CASE \E k \in 1..Len(s) : i = Len(q) + k /\ r[i] = s[k]
    BY <2>2, <1>5
  <2> QED BY <2>1, <2>2, <1>2
<1> QED BY <1>4, <1>5 DEF FromThisTurn

(* One action queued, or two, as sequences.                                 *)
LEMMA OneAction ==
    ASSUME NEW a \in Queued
    PROVE  /\ <<a>> \in Seq(Queued) /\ Len(<<a>>) = 1 /\ \A k \in 1..1 : <<a>>[k] = a
           /\ \A q \in Seq(Queued) : Append(q, a) = q \o <<a>>
<1>1. <<a>> \in Seq(Queued) /\ Len(<<a>>) = 1 /\ <<a>>[1] = a
  OBVIOUS
<1>2. \A q \in Seq(Queued) : Append(q, a) = q \o <<a>>
  BY AppendIsConcat
<1>3. \A k \in 1..1 : k = 1
  OBVIOUS
<1> QED BY <1>1, <1>2, <1>3

(* Two actions, queued one after the other or at once.                      *)
LEMMA TwoActions ==
    ASSUME NEW a \in Queued, NEW b \in Queued
    PROVE  /\ <<a, b>> \in Seq(Queued) /\ Len(<<a, b>>) = 2 /\ <<a, b>>[1] = a /\ <<a, b>>[2] = b
           /\ \A q \in Seq(Queued) : (q \o <<a>>) \o <<b>> = q \o <<a, b>>
<1>1. <<a, b>> \in Seq(Queued) /\ Len(<<a, b>>) = 2 /\ <<a, b>>[1] = a /\ <<a, b>>[2] = b
  OBVIOUS
<1>2. <<a>> \in Seq(Queued) /\ <<b>> \in Seq(Queued) /\ Append(<<a>>, b) = <<a>> \o <<b>>
  BY OneAction
<1>3. Append(<<a>>, b) = <<a, b>>
  <2>1. /\ Append(<<a>>, b) \in Seq(Queued) /\ Len(Append(<<a>>, b)) = 2
        /\ Append(<<a>>, b)[1] = a /\ Append(<<a>>, b)[2] = b
    BY <1>2, AppendProperties, OneAction
  <2>2. \A i \in 1..2 : i = 1 \/ i = 2
    OBVIOUS
  <2> QED BY <2>1, <2>2, <1>1, SeqEqual
<1>4. \A q \in Seq(Queued) : (q \o <<a>>) \o <<b>> = q \o (<<a>> \o <<b>>)
  BY <1>2, ConcatAssociative
<1> QED BY <1>1, <1>2, <1>3, <1>4

(* The listener's events: a connection to be registered, or the listener to *)
(* be unregistered.                                                         *)
LEMMA AcceptedStep ==
    ASSUME ServerInv, NEW fd \in Fds, accepted(fd)
    PROVE  ServerInv'
<1> DEFINE s == <<Register(fd)>>
<1>1. Register(fd) \in Queued /\ Is(Register(fd), "register", fd)
  BY DEF Register, Do, Queued, Kinds, Is
<1>2. /\ s \in Seq(Queued) /\ Len(s) = 1 /\ \A k \in 1..1 : s[k] = Register(fd)
      /\ action_queue' = action_queue \o s /\ action_queue' \in Seq(Queued)
  BY <1>1, OneAction, StatusIsSeq, Behind DEF accepted
<1>3. /\ Numbers' = Numbers \cup {Len(conns) + 1}
      /\ \A c \in Numbers : conns'[c] = conns[c] /\ status'[c] = status[c]
      /\ status'[Len(conns) + 1] = "new" /\ Distinct'
  BY NewConnection DEF accepted
<1>4. phase = "events" /\ seen' = seen \cup {0} /\ outbox' = outbox
  BY DEF accepted, ListenerEvent
<1>5. CoreTypes'
  BY <1>2, <1>4, NewConnection, Typed, TypedNext DEF ServerInv, accepted
<1>6. OutboxDrained'
  BY <1>3, <1>4 DEF ServerInv, OutboxDrained
<1>7. \A c \in Numbers : \A f \in Fds : c \in Transport(f) => c \in Transport(f)'
  BY <1>3 DEF Transport
<1>8. QueueTyped' /\ Aimed' /\ LastUnregistered'
  <2> HIDE DEF s
  <2>1. \A k \in 1..Len(s) : s[k].kind = "register" /\ s[k].fd = fd
    BY <1>1, <1>2 DEF Is
  <2>2. Concerns(s, fd) /\ WellAimed(s, fd)
    BY <2>1 DEF Concerns, WellAimed
  <2>3. KeepsNew /\ KeepsTransports(1)
    BY <1>3, <1>7 DEF KeepsNew, KeepsTransports
  <2> QED BY <2>2, <2>3, <1>2, QueueGrows
<1>9. FromThisTurn'
  <2> HIDE DEF s
  <2>1. \A k \in 1..Len(s) : s[k].kind = "register"
    BY <1>1, <1>2 DEF Is
  <2>2. OfThisTurn(s) /\ KeepsNew /\ KeepsSeen
    BY <2>1, <1>3 DEF OfThisTurn, KeepsNew, KeepsSeen
  <2> QED BY <2>2, <1>2, <1>4, TurnGrows
<1> QED BY <1>3, <1>5, <1>6, <1>8, <1>9 DEF ServerInv

(* The listener fails.                                                      *)
LEMMA ListenerErrorStep ==
    ASSUME ServerInv, NEW hup \in BOOLEAN, listener_error(hup)
    PROVE  ServerInv'
<1> DEFINE s == <<Do("unregister_listener", 0, NoMsg)>>
<1>1. Do("unregister_listener", 0, NoMsg) \in Queued
      /\ Do("unregister_listener", 0, NoMsg).kind = "unregister_listener"
  BY DEF Do, Queued, Kinds
<1>2. /\ s \in Seq(Queued) /\ Len(s) = 1 /\ \A k \in 1..1 : s[k].kind = "unregister_listener"
      /\ action_queue' = action_queue \o s /\ action_queue' \in Seq(Queued)
  BY <1>1, OneAction, StatusIsSeq, Behind DEF listener_error
<1>3. phase = "events" /\ seen' = seen \cup {0} /\ outbox' = outbox /\ conns' = conns /\ status' = status
  BY DEF listener_error, ListenerEvent
<1>4. Numbers' = Numbers /\ \A f : Transport(f)' = Transport(f)
  BY <1>3 DEF Numbers, Transport
<1>5. CoreTypes'
  <2>1. listening' \in BOOLEAN
    BY DEF listener_error
  <2> QED BY <2>1, <1>2, <1>3, <1>4, Typed, TypedNext DEF ServerInv, listener_error
<1>6. OutboxDrained' /\ Distinct'
  BY <1>3, <1>4 DEF ServerInv, OutboxDrained, Distinct
<1>7. QueueTyped' /\ Aimed' /\ LastUnregistered'
  <2> HIDE DEF s
  <2>1. CASE Fds = {}
    <3>1. \A i \in 1..Len(action_queue') : action_queue'[i].kind = "unregister_listener"
      <4>1. \A i \in 1..Len(action_queue) : action_queue[i].kind = "unregister_listener"
        BY <2>1, StatusIsSeq, QueuedTypes, ElementOfSeq DEF ServerInv, QueueTyped, Kinds
      <4>2. action_queue \in Seq(Queued) /\ s \in Seq(Queued) /\ action_queue' = action_queue \o s
        BY <1>2, StatusIsSeq
      <4>3. \A i \in 1..Len(action_queue') :
              \/ i \in 1..Len(action_queue) /\ action_queue'[i] = action_queue[i]
              \/ \E k \in 1..Len(s) : action_queue'[i] = s[k]
        <5>1. Len(action_queue') = Len(action_queue) + Len(s)
          BY <4>2, Behind
        <5>2. \A i \in 1..(Len(action_queue) + Len(s)) :
                \/ i \in 1..Len(action_queue) /\ (action_queue \o s)[i] = action_queue[i]
                \/ \E k \in 1..Len(s) : i = Len(action_queue) + k /\ (action_queue \o s)[i] = s[k]
          BY <4>2, Behind, Zenon
        <5> QED BY <4>2, <5>1, <5>2, Zenon
      <4>4. \A k \in 1..Len(s) : s[k].kind = "unregister_listener"
        BY <1>2
      <4> QED BY <4>1, <4>3, <4>4
    <3> QED BY <3>1 DEF QueueTyped, Aimed, LastUnregistered
  <2>2. CASE Fds # {}
    <3>1. PICK fd \in Fds : TRUE
      BY <2>2
    <3>2. Concerns(s, fd) /\ WellAimed(s, fd)
      BY <1>2 DEF Concerns, WellAimed
    <3>3. KeepsNew /\ KeepsTransports(1)
      BY <1>3, <1>4 DEF KeepsNew, KeepsTransports
    <3> QED BY <3>2, <3>3, <1>2, QueueGrows
  <2> QED BY <2>1, <2>2
<1>8. FromThisTurn'
  <2> HIDE DEF s
  <2>1. OfThisTurn(s) /\ KeepsNew /\ KeepsSeen
    BY <1>2, <1>3, <1>4 DEF OfThisTurn, KeepsNew, KeepsSeen
  <2> QED BY <2>1, <1>2, <1>3, TurnGrows
<1> QED BY <1>5, <1>6, <1>7, <1>8 DEF ServerInv

(* A connection has one event in a turn: nothing in the queue unregisters   *)
(* its descriptor, and only a message to a new connection can wait for it.  *)
LEMMA EventFacts ==
    ASSUME ServerInv, NEW c, Event(c)
    PROVE  /\ phase = "events" /\ phase' = phase /\ c \in Numbers /\ conns[c] \in Fds
           /\ conns[c] \notin seen /\ seen' = seen \cup {conns[c]}
           /\ status[c] \in Statuses
           /\ \A i \in 1..Len(action_queue) : ~Is(action_queue[i], "unregister", conns[c])
           /\ listening' = listening /\ delivered' = delivered /\ refused' = refused
BY StatusIsSeq DEF Event, ServerInv, FromThisTurn, Is

(* The status of one connection changes, which is neither new nor made so.  *)
LEMMA StatusChanges ==
    ASSUME ServerInv, NEW c \in Numbers, NEW st \in Statuses,
           conns' = conns, status' = [status EXCEPT ![c] = st],
           status[c] \notin {"new", "gone"}, st # "new"
    PROVE  /\ Numbers' = Numbers /\ status' \in [Numbers' -> Statuses]
           /\ status'[c] = st /\ \A d \in Numbers : d # c => status'[d] = status[d]
           /\ Distinct' /\ KeepsNew
<1>1. Numbers' = Numbers
  BY DEF Numbers
<1>2. status \in [Numbers -> Statuses]
  BY Typed DEF ServerInv
<1>3. /\ status' \in [Numbers' -> Statuses]
      /\ status'[c] = st /\ \A d \in Numbers : d # c => status'[d] = status[d]
  BY <1>1, <1>2
<1>4. Distinct'
  BY <1>1, <1>3 DEF ServerInv, Distinct
<1>5. KeepsNew
  BY <1>1, <1>3 DEF KeepsNew
<1> QED BY <1>1, <1>3, <1>4, <1>5

(* What waited for a connection that is established is queued as messages   *)
(* to it.                                                                   *)
LEMMA Outgoing ==
    ASSUME NEW fd \in Fds, NEW o \in Seq(Message), NEW s, s = [i \in DOMAIN o |-> Send(fd, o[i])]
    PROVE  /\ s \in Seq(Queued) /\ Len(s) = Len(o) /\ Len(s) \in Nat
           /\ \A k \in 1..Len(s) : s[k].kind = "send" /\ s[k].fd = fd /\ s[k].msg = o[k] /\ o[k] \in Message
<1>1. Len(o) \in Nat /\ DOMAIN o = 1..Len(o) /\ \A k \in 1..Len(o) : o[k] \in Message
  BY LenProperties, ElementOfSeq
<1>2. \A k \in 1..Len(o) : s[k] = Send(fd, o[k])
  BY <1>1
<1>3. \A k \in 1..Len(o) : s[k] \in Queued /\ s[k].kind = "send" /\ s[k].fd = fd /\ s[k].msg = o[k]
  BY <1>1, <1>2, DoTypes DEF Is
<1>4. s \in [1..Len(o) -> Queued]
  BY <1>1, <1>3
<1>5. s \in Seq(Queued)
  BY <1>1, <1>4, SeqDef
<1>6. Len(s) = Len(o)
  BY <1>1, <1>4, <1>5, LenProperties
<1> QED BY <1>1, <1>3, <1>5, <1>6

(* A connection is established.                                             *)
LEMMA EstablishedStep ==
    ASSUME ServerInv, NEW c, established(c)
    PROVE  ServerInv'
<1> PICK fd : fd = conns[c]
  OBVIOUS
<1> PICK s : s = [i \in DOMAIN outbox[fd] |-> Send(fd, outbox[fd][i])]
  OBVIOUS
<1>1. /\ Event(c) /\ status[c] = "handshake"
      /\ status' = [status EXCEPT ![c] = "active"]
      /\ action_queue' = action_queue \o s
      /\ outbox' = [outbox EXCEPT ![fd] = <<>>]
      /\ conns' = conns /\ made' = made
  BY DEF established
<1>2. /\ phase = "events" /\ phase' = phase /\ c \in Numbers /\ fd \in Fds
      /\ fd \notin seen /\ seen' = seen \cup {fd}
      /\ \A i \in 1..Len(action_queue) : ~Is(action_queue[i], "unregister", fd)
      /\ listening' = listening /\ delivered' = delivered /\ refused' = refused
  BY <1>1, EventFacts
<1>3. outbox \in [Fds -> Seq(Message)] /\ outbox[fd] \in Seq(Message)
  BY <1>2, Typed DEF ServerInv
<1>4. /\ s \in Seq(Queued)
      /\ \A k \in 1..Len(s) : s[k].kind = "send" /\ s[k].fd = fd /\ s[k].msg \in Message
  <2>1. PICK o : o = outbox[fd]
    OBVIOUS
  <2>2. o \in Seq(Message) /\ s = [i \in DOMAIN o |-> Send(fd, o[i])]
    BY <2>1, <1>3
  <2> QED BY <2>2, <1>2, Outgoing
<1>5. /\ Numbers' = Numbers /\ status' \in [Numbers' -> Statuses]
      /\ status'[c] = "active" /\ \A d \in Numbers : d # c => status'[d] = status[d]
      /\ Distinct' /\ KeepsNew
  BY <1>1, <1>2, StatusChanges DEF Statuses
<1>6. outbox' \in [Fds -> Seq(Message)] /\ outbox'[fd] = <<>>
      /\ \A f \in Fds : f # fd => outbox'[f] = outbox[f]
  BY <1>1, <1>2, <1>3, EmptySeq
<1>7. action_queue' \in Seq(Queued)
  BY <1>1, <1>4, Behind, StatusIsSeq
<1>8. CoreTypes'
  BY <1>1, <1>2, <1>5, <1>6, <1>7, Typed, TypedNext DEF ServerInv
<1>9. OutboxDrained'
  <2> SUFFICES ASSUME NEW d \in Numbers, status'[d] = "active" PROVE outbox'[conns[d]] = <<>>
    BY <1>1, <1>5 DEF OutboxDrained
  <2>1. CASE conns[d] = fd
    BY <2>1, <1>6
  <2>2. CASE conns[d] # fd
    <3>1. status[d] = "active" /\ conns[d] \in Fds
      BY <2>2, <1>5, StatusIsSeq
    <3> QED BY <3>1, <2>2, <1>6 DEF ServerInv, OutboxDrained
  <2> QED BY <2>1, <2>2
<1>10. c \in Transport(fd)' /\ \A f : \A d \in Numbers : d \in Transport(f) => d \in Transport(f)'
  BY <1>1, <1>2, <1>5 DEF Transport
<1>11. QueueTyped' /\ Aimed' /\ LastUnregistered'
  <2>1. Concerns(s, fd)
    BY <1>4 DEF Concerns
  <2>2. WellAimed(s, fd)
    BY <1>2, <1>4, <1>5, <1>10 DEF WellAimed
  <2>3. KeepsTransports(1)
    BY <1>10 DEF KeepsTransports
  <2> QED BY <2>1, <2>2, <2>3, <1>1, <1>2, <1>4, <1>5, QueueGrows
<1>12. FromThisTurn'
  <2>1. OfThisTurn(s)
    <3>1. fd \in seen'
      BY <1>2
    <3>2. \A k \in 1..Len(s) : s[k].kind # "unregister" /\ s[k].fd \in seen'
      BY <1>4, <3>1
    <3> QED BY <3>2, Zenon DEF OfThisTurn
  <2>2. KeepsSeen
    BY <1>5 DEF KeepsSeen
  <2>3. seen \subseteq seen' /\ KeepsNew /\ phase = "events"
    BY <1>2, <1>5
  <2> QED BY <2>1, <2>2, <2>3, <1>1, <1>4, TurnGrows
<1> QED BY <1>5, <1>8, <1>9, <1>11, <1>12 DEF ServerInv

(* A transport has failed and is to be unregistered.                        *)
LEMMA FailureStep ==
    ASSUME ServerInv, NEW c, terminated(c) \/ poll_error(c)
    PROVE  ServerInv'
<1> PICK fd : fd = conns[c]
  OBVIOUS
<1> PICK s : s = <<Unregister(fd)>>
  OBVIOUS
<1>1. /\ Event(c) /\ conns' = conns /\ outbox' = outbox /\ made' = made
      /\ action_queue' = Append(action_queue, Unregister(fd))
  BY DEF terminated, poll_error
<1>2. /\ phase = "events" /\ phase' = phase /\ c \in Numbers /\ fd \in Fds
      /\ fd \notin seen /\ seen' = seen \cup {fd}
      /\ listening' = listening /\ delivered' = delivered /\ refused' = refused
  BY <1>1, EventFacts
<1>3. /\ Numbers' = Numbers /\ status' \in [Numbers' -> Statuses] /\ status'[c] \notin {"new", "gone"}
      /\ status'[c] \in {"handshake", "active", "terminated"}
      /\ \A d \in Numbers : d # c => status'[d] = status[d]
      /\ status'[c] = "active" => status[c] = "active"
      /\ Distinct' /\ KeepsNew
  <2>1. CASE terminated(c)
    <3>1. status[c] \in {"handshake", "active"} /\ status' = [status EXCEPT ![c] = "terminated"]
      BY <2>1 DEF terminated
    <3> QED BY <3>1, <1>1, <1>2, StatusChanges DEF Statuses
  <2>2. CASE poll_error(c)
    <3>1. status' = status /\ status[c] \in {"handshake", "active", "terminated"}
      BY <2>2 DEF poll_error, Transport
    <3>2. Numbers' = Numbers
      BY <1>1 DEF Numbers
    <3>3. Distinct' /\ KeepsNew
      BY <3>1, <3>2, <1>1 DEF ServerInv, Distinct, KeepsNew
    <3> QED BY <3>1, <3>2, <3>3, Typed DEF ServerInv
  <2> QED BY <2>1, <2>2
<1>4. /\ s \in Seq(Queued) /\ action_queue' = action_queue \o s /\ action_queue' \in Seq(Queued)
      /\ \A k \in 1..Len(s) : s[k].kind = "unregister" /\ s[k].fd = fd
  <2>1. Unregister(fd) \in Queued /\ Unregister(fd).kind = "unregister" /\ Unregister(fd).fd = fd
    BY <1>2 DEF Unregister, Do, Queued, Kinds
  <2> QED BY <2>1, <1>1, OneAction, StatusIsSeq, Behind
<1>5. CoreTypes'
  BY <1>1, <1>2, <1>3, <1>4, Typed, TypedNext DEF ServerInv
<1>6. OutboxDrained'
  BY <1>1, <1>3 DEF ServerInv, OutboxDrained
<1>7. \A f : \A d \in Numbers : d \in Transport(f) => d \in Transport(f)'
  BY <1>1, <1>3 DEF Transport
<1>8. QueueTyped' /\ Aimed' /\ LastUnregistered'
  <2>1. Concerns(s, fd) /\ WellAimed(s, fd)
    BY <1>4 DEF Concerns, WellAimed
  <2>2. KeepsTransports(1)
    BY <1>7 DEF KeepsTransports
  <2> QED BY <2>1, <2>2, <1>2, <1>3, <1>4, QueueGrows
<1>9. FromThisTurn'
  <2>1. OfThisTurn(s) /\ KeepsSeen
    BY <1>1, <1>2, <1>3, <1>4 DEF OfThisTurn, KeepsSeen
  <2> QED BY <2>1, <1>2, <1>3, <1>4, TurnGrows
<1> QED BY <1>3, <1>5, <1>6, <1>8, <1>9 DEF ServerInv

(* A transport is dropped at once: nothing in the queue is meant for it.    *)
LEMMA DisconnectedStep ==
    ASSUME ServerInv, NEW c, disconnected(c)
    PROVE  ServerInv'
<1> PICK fd : fd = conns[c]
  OBVIOUS
<1>1. /\ Event(c) /\ conns' = conns /\ outbox' = outbox /\ made' = made
      /\ action_queue' = action_queue /\ status' = [status EXCEPT ![c] = "gone"]
      /\ status[c] \in {"handshake", "active", "terminated"}
  BY DEF disconnected, Transport
<1>2. /\ phase = "events" /\ phase' = phase /\ c \in Numbers /\ fd \in Fds
      /\ fd \notin seen /\ seen' = seen \cup {fd}
      /\ listening' = listening /\ delivered' = delivered /\ refused' = refused
  BY <1>1, EventFacts
<1>3. /\ Numbers' = Numbers /\ status' \in [Numbers' -> Statuses] /\ status'[c] = "gone"
      /\ \A d \in Numbers : d # c => status'[d] = status[d]
      /\ Distinct' /\ KeepsNew
  BY <1>1, <1>2, StatusChanges DEF Statuses
<1>4. /\ <<>> \in Seq(Queued) /\ Len(<<>>) = 0 /\ action_queue' = action_queue \o <<>>
      /\ action_queue \in Seq(Queued)
  BY <1>1, EmptySeq, ConcatEmptySeq, StatusIsSeq
<1>5. CoreTypes'
  BY <1>1, <1>2, <1>3, <1>4, Typed, TypedNext DEF ServerInv
<1>6. OutboxDrained'
  BY <1>1, <1>3 DEF ServerInv, OutboxDrained
<1>7. KeepsTransports(1)
  <2> SUFFICES ASSUME NEW i \in 1..Len(action_queue), NEW d \in Numbers, NEW f \in Fds,
                      Is(action_queue[i], "send", f), d \in Transport(f)
               PROVE  d \in Transport(f)'
    BY DEF KeepsTransports
  <2>1. d # c
    <3> SUFFICES ASSUME d = c PROVE FALSE
      OBVIOUS
    <3>1. f = fd
      BY DEF Transport
    <3>2. PICK e \in Numbers : conns[e] = fd /\ status[e] = "new"
      BY <1>2, <3>1 DEF ServerInv, FromThisTurn, Is
    <3>3. e = c
      BY <3>2, <1>1, <1>2 DEF ServerInv, Distinct
    <3> QED BY <3>2, <3>3, <1>1
  <2> QED BY <2>1, <1>1, <1>3 DEF Transport
<1>8. QueueTyped' /\ Aimed' /\ LastUnregistered'
  <2>1. Concerns(<<>>, fd) /\ WellAimed(<<>>, fd)
    BY <1>4 DEF Concerns, WellAimed
  <2> QED BY <2>1, <1>2, <1>3, <1>4, <1>7, QueueGrows
<1>9. FromThisTurn'
  <2>1. OfThisTurn(<<>>) /\ KeepsSeen
    BY <1>1, <1>2, <1>3, <1>4 DEF OfThisTurn, KeepsSeen
  <2> QED BY <2>1, <1>2, <1>3, <1>4, TurnGrows
<1> QED BY <1>3, <1>5, <1>6, <1>8, <1>9 DEF ServerInv

(* A command is answered, and its client may be dismissed behind that.      *)
LEMMA AnsweredStep ==
    ASSUME ServerInv, NEW c, NEW dismissed \in BOOLEAN, input_answered(c, dismissed)
    PROVE  ServerInv'
<1> PICK fd : fd = conns[c]
  OBVIOUS
<1> PICK m : m = NewMessage(c)
  OBVIOUS
<1> PICK s : s = IF dismissed THEN <<Send(fd, m), Unregister(fd)>> ELSE <<Send(fd, m)>>
  OBVIOUS
<1>1. /\ Event(c) /\ status[c] = "active" /\ made < MaxMsgs /\ made' = made + 1
      /\ action_queue' = (action_queue \o <<Send(fd, m)>>)
                         \o (IF dismissed THEN <<Unregister(fd)>> ELSE <<>>)
      /\ conns' = conns /\ status' = status /\ outbox' = outbox
  BY DEF input_answered
<1>2. /\ phase = "events" /\ phase' = phase /\ c \in Numbers /\ fd \in Fds
      /\ fd \notin seen /\ seen' = seen \cup {fd}
      /\ \A i \in 1..Len(action_queue) : ~Is(action_queue[i], "unregister", fd)
      /\ listening' = listening /\ delivered' = delivered /\ refused' = refused
  BY <1>1, EventFacts
<1>3. made' \in 0..MaxMsgs /\ made + 1 \in 1..MaxMsgs
  BY <1>1, Typed, ServerAssumption DEF ServerInv
<1>4. m \in Message
  <2>1. c \in 1..MaxConns
    BY <1>2, Typed, StatusIsSeq, ServerAssumption DEF ServerInv, Numbers
  <2> QED BY <2>1, <1>3 DEF NewMessage, Message
<1>5. /\ Numbers' = Numbers /\ KeepsNew /\ KeepsSeen /\ KeepsTransports(1)
      /\ Distinct' /\ OutboxDrained' /\ c \in Transport(fd)'
  <2>1. Numbers' = Numbers
    BY <1>1 DEF Numbers
  <2>2. \A f : Transport(f)' = Transport(f)
    BY <1>1, <2>1 DEF Transport
  <2>3. KeepsNew /\ KeepsSeen /\ KeepsTransports(1)
    BY <1>1, <2>1, <2>2 DEF KeepsNew, KeepsSeen, KeepsTransports
  <2>4. Distinct' /\ OutboxDrained' /\ c \in Transport(fd)'
    BY <1>1, <1>2, <2>1 DEF ServerInv, Distinct, OutboxDrained, Transport
  <2> QED BY <2>1, <2>3, <2>4
<1>6. /\ s \in Seq(Queued) /\ action_queue' = action_queue \o s
      /\ \A k \in 1..Len(s) : s[k].fd = fd /\ s[k].kind \in {"send", "unregister"}
      /\ \A k \in 1..Len(s) : s[k].kind = "send" => k = 1 /\ s[k].msg \in Message
  <2>1. /\ Send(fd, m) \in Queued /\ Send(fd, m).kind = "send" /\ Send(fd, m).fd = fd
        /\ Send(fd, m).msg = m
        /\ Unregister(fd) \in Queued /\ Unregister(fd).kind = "unregister" /\ Unregister(fd).fd = fd
    BY <1>2, <1>4, DoTypes DEF Is
  <2>2. CASE dismissed
    <3>1. PICK a \in Queued, b \in Queued : a = Send(fd, m) /\ b = Unregister(fd)
      BY <2>1
    <3>2. s = <<a, b>> /\ action_queue' = (action_queue \o <<a>>) \o <<b>>
      BY <2>2, <1>1, <3>1, Zenon
    <3>3. <<a, b>> \in Seq(Queued) /\ Len(<<a, b>>) = 2 /\ <<a, b>>[1] = a /\ <<a, b>>[2] = b
      BY TwoActions
    <3>4. (action_queue \o <<a>>) \o <<b>> = action_queue \o <<a, b>>
      BY TwoActions, StatusIsSeq
    <3>5. /\ s \in Seq(Queued) /\ Len(s) = 2 /\ s[1] = a /\ s[2] = b
          /\ action_queue' = action_queue \o s
      BY <3>2, <3>3, <3>4, Zenon
    <3>6. /\ a.kind = "send" /\ a.fd = fd /\ a.msg \in Message
          /\ b.kind = "unregister" /\ b.fd = fd
      BY <3>1, <2>1, <1>4, Zenon
    <3>7. \A k \in 1..Len(s) : (k = 1 /\ s[k] = a) \/ (k = 2 /\ s[k] = b)
      BY <3>5
    <3> QED BY <3>5, <3>6, <3>7
  <2>3. CASE ~dismissed
    <3>1. s = <<Send(fd, m)>> /\ action_queue' = (action_queue \o s) \o <<>>
      BY <2>3, <1>1
    <3>2. s \in Seq(Queued) /\ Len(s) = 1 /\ \A k \in 1..1 : k = 1 /\ s[k] = Send(fd, m)
      <4>1. s \in Seq(Queued) /\ Len(s) = 1 /\ \A k \in 1..1 : s[k] = Send(fd, m)
        BY <3>1, <2>1, OneAction
      <4> QED BY <4>1
    <3>3. action_queue \o s \in Seq(Queued)
      BY <3>2, Behind, StatusIsSeq
    <3>4. action_queue' = action_queue \o s
      BY <3>1, <3>3, ConcatEmptySeq
    <3> QED BY <3>2, <3>4, <2>1, <1>4
  <2> QED BY <2>2, <2>3
<1>7. CoreTypes'
  <2>1. action_queue' \in Seq(Queued)
    BY <1>6, Behind, StatusIsSeq
  <2> QED BY <2>1, <1>1, <1>2, <1>3, <1>5, Typed, TypedNext DEF ServerInv
<1>8. QueueTyped' /\ Aimed' /\ LastUnregistered'
  <2>1. Concerns(s, fd)
    BY <1>6 DEF Concerns
  <2>2. WellAimed(s, fd)
    <3>1. \A k \in 1..Len(s) : s[k].kind = "send" => \A j \in 1..Len(s) : ~(j < k)
      BY <1>6
    <3> QED BY <3>1, <1>2, <1>5 DEF WellAimed
  <2> QED BY <2>1, <2>2, <1>2, <1>5, <1>6, QueueGrows
<1>9. FromThisTurn'
  <2>1. OfThisTurn(s)
    BY <1>1, <1>2, <1>5, <1>6, ZenonT(40) DEF OfThisTurn
  <2> QED BY <2>1, <1>2, <1>5, <1>6, TurnGrows
<1> QED BY <1>5, <1>7, <1>8, <1>9 DEF ServerInv

(* A command is forwarded: a connection is made, and the message to it is   *)
(* behind its registration.                                                 *)
LEMMA ForwardStep ==
    ASSUME ServerInv, NEW c, NEW fd \in Fds, input_forward(c, fd)
    PROVE  ServerInv'
<1> PICK m : m = NewMessage(Len(conns) + 1)
  OBVIOUS
<1> PICK s : s = <<Register(fd), Send(fd, m)>>
  OBVIOUS
<1>1. /\ Event(c) /\ status[c] = "active" /\ made < MaxMsgs /\ made' = made + 1
      /\ NewTransport(fd) /\ action_queue' = action_queue \o s /\ outbox' = outbox
  BY DEF input_forward
<1>2. /\ phase = "events" /\ phase' = phase /\ c \in Numbers /\ conns[c] \in Fds
      /\ seen' = seen \cup {conns[c]}
      /\ listening' = listening /\ delivered' = delivered /\ refused' = refused
  BY <1>1, EventFacts
<1>3. made' \in 0..MaxMsgs /\ made + 1 \in 1..MaxMsgs
  BY <1>1, Typed, ServerAssumption DEF ServerInv
<1>4. /\ conns' \in Seq(Fds) /\ Len(conns') <= MaxConns
      /\ Numbers' = Numbers \cup {Len(conns) + 1} /\ Len(conns) + 1 \in 1..MaxConns
      /\ status' \in [Numbers' -> Statuses]
      /\ \A d \in Numbers : conns'[d] = conns[d] /\ status'[d] = status[d]
      /\ conns'[Len(conns) + 1] = fd /\ status'[Len(conns) + 1] = "new"
      /\ \A d \in Numbers : status[d] # "gone" => conns[d] # fd
      /\ Distinct'
  BY <1>1, NewConnection
<1>5. m \in Message
  BY <1>3, <1>4 DEF NewMessage, Message
<1>6. /\ s \in Seq(Queued) /\ action_queue' \in Seq(Queued) /\ Len(s) = 2
      /\ s[1].kind = "register" /\ s[1].fd = fd
      /\ s[2].kind = "send" /\ s[2].fd = fd /\ s[2].msg = m
      /\ \A k \in 1..Len(s) : k = 1 \/ k = 2
  <2>1. /\ Send(fd, m) \in Queued /\ Send(fd, m).kind = "send" /\ Send(fd, m).fd = fd
        /\ Send(fd, m).msg = m
        /\ Register(fd) \in Queued /\ Register(fd).kind = "register" /\ Register(fd).fd = fd
    BY <1>5, DoTypes DEF Is
  <2>2. PICK a \in Queued, b \in Queued : a = Register(fd) /\ b = Send(fd, m)
    BY <2>1
  <2>3. s = <<a, b>>
    BY <2>2, Zenon
  <2>4. <<a, b>> \in Seq(Queued) /\ Len(<<a, b>>) = 2 /\ <<a, b>>[1] = a /\ <<a, b>>[2] = b
    BY TwoActions
  <2>5. s \in Seq(Queued) /\ Len(s) = 2 /\ s[1] = a /\ s[2] = b
    BY <2>3, <2>4, Zenon
  <2>6. \A k \in 1..Len(s) : k = 1 \/ k = 2
    BY <2>5
  <2>7. action_queue' \in Seq(Queued)
    BY <2>5, <1>1, StatusIsSeq, Behind
  <2> QED BY <2>1, <2>2, <2>5, <2>6, <2>7, Zenon
<1>7. CoreTypes'
  BY <1>1, <1>2, <1>3, <1>4, <1>6, Typed, TypedNext DEF ServerInv
<1>8. OutboxDrained'
  BY <1>1, <1>4 DEF ServerInv, OutboxDrained
<1>9. KeepsNew /\ KeepsSeen /\ KeepsTransports(1)
  <2>1. \A f : \A d \in Numbers : d \in Transport(f) => d \in Transport(f)'
    BY <1>4 DEF Transport
  <2> QED BY <2>1, <1>4 DEF KeepsNew, KeepsSeen, KeepsTransports
<1>10. \A i \in 1..Len(action_queue) : ~Is(action_queue[i], "unregister", fd)
  BY <1>2, <1>4 DEF ServerInv, FromThisTurn, Is
<1>11. \E d \in Numbers' : conns'[d] = fd /\ status'[d] = "new"
  BY <1>4
<1>12. QueueTyped' /\ Aimed' /\ LastUnregistered'
  <2>1. Concerns(s, fd)
    BY <1>5, <1>6 DEF Concerns
  <2>2. WellAimed(s, fd)
    <3>1. 1 \in 1..Len(s) /\ Is(s[1], "register", fd) /\ 1 < 2
      BY <1>6 DEF Is
    <3>2. \A k \in 1..Len(s) : s[k].kind = "send" => k = 2
      BY <1>6
    <3>3. \A j \in 1..Len(s) : s[j].kind # "unregister"
      BY <1>6
    <3> QED BY <3>1, <3>2, <3>3, <1>10, <1>11 DEF WellAimed
  <2> QED BY <2>1, <2>2, <1>1, <1>6, <1>9, QueueGrows
<1>13. FromThisTurn'
  <2>1. OfThisTurn(s)
    BY <1>6, <1>11 DEF OfThisTurn
  <2> QED BY <2>1, <1>1, <1>2, <1>6, <1>9, TurnGrows
<1> QED BY <1>4, <1>7, <1>8, <1>12, <1>13 DEF ServerInv

(* The turn goes from events to actions and back.                           *)
LEMMA PhaseStep ==
    ASSUME ServerInv, events_done \/ actions_done
    PROVE  ServerInv'
<1>1. /\ conns' = conns /\ status' = status /\ outbox' = outbox /\ action_queue' = action_queue
      /\ listening' = listening /\ made' = made /\ delivered' = delivered /\ refused' = refused
      /\ seen' \in {seen, {}} /\ phase' \in {"events", "actions"}
      /\ phase' = "events" => action_queue = <<>>
  BY DEF events_done, actions_done
<1>2. Numbers' = Numbers
  BY <1>1 DEF Numbers
<1>3. CoreTypes'
  BY <1>1, <1>2, Typed, TypedNext DEF ServerInv
<1>4. QueueTyped' /\ Distinct' /\ OutboxDrained' /\ LastUnregistered' /\ Aimed'
  BY <1>1, <1>2 DEF ServerInv, QueueTyped, Distinct, OutboxDrained, LastUnregistered, Aimed, Transport, Is
<1>5. FromThisTurn'
  <2>1. action_queue = <<>> => 1..Len(action_queue') = {}
    BY <1>1, EmptySeq
  <2> QED BY <2>1, <1>1 DEF FromThisTurn
<1> QED BY <1>3, <1>4, <1>5 DEF ServerInv
-----------------------------------------------------------------------------
(* The action that is taken is the first of the queue.                      *)
LEMMA ActingFacts ==
    ASSUME ServerInv, NEW k \in Kinds, Acting(k)
    PROVE  /\ phase = "actions" /\ phase' = phase /\ action_queue # <<>> /\ Len(action_queue) > 0
           /\ Head(action_queue) = action_queue[1] /\ 1 \in 1..Len(action_queue)
           /\ action_queue[1].kind = k
           /\ conns' = conns /\ Numbers' = Numbers /\ seen' = seen /\ made' = made
           /\ k # "unregister_listener" => action_queue[1].fd \in Fds
           /\ k = "send" => action_queue[1].msg \in Message
           /\ Tail(action_queue) \in Seq(Queued)
           /\ Tail(action_queue) \o <<>> = Tail(action_queue)
<1>1. action_queue \in Seq(Queued)
  BY StatusIsSeq
<1>2. /\ phase = "actions" /\ phase' = phase /\ action_queue # <<>>
      /\ conns' = conns /\ seen' = seen /\ made' = made /\ Head(action_queue).kind = k
      /\ Numbers' = Numbers
  BY DEF Acting, Numbers
<1>3. Len(action_queue) > 0 /\ Head(action_queue) = action_queue[1] /\ 1 \in 1..Len(action_queue)
  BY <1>1, <1>2, EmptySeq
<1>4. Tail(action_queue) \in Seq(Queued)
  BY <1>1, <1>2, HeadTailProperties
<1>5. Tail(action_queue) \o <<>> = Tail(action_queue)
  BY <1>4, ConcatEmptySeq
<1>6. /\ k # "unregister_listener" => action_queue[1].fd \in Fds
      /\ k = "send" => action_queue[1].msg \in Message
  BY <1>2, <1>3 DEF ServerInv, QueueTyped, Kinds
<1> QED BY <1>2, <1>3, <1>4, <1>5, <1>6

(* The first action is taken and nothing is queued.                         *)
LEMMA QueuePops ==
    ASSUME ServerInv, action_queue # <<>>, action_queue' = Tail(action_queue),
           conns' = conns, NewAreRegistered, KeepsTransports(2)
    PROVE  QueueTyped' /\ Aimed' /\ LastUnregistered'
<1> PICK s : s = <<>>
  OBVIOUS
<1>1. action_queue \in Seq(Queued)
  BY StatusIsSeq
<1>2. Tail(action_queue) \in Seq(Queued)
  BY <1>1, HeadTailProperties
<1>3. s \in Seq(Queued) /\ 1..Len(s) = {} /\ action_queue' = Tail(action_queue) \o s
  BY <1>2, EmptySeq, ConcatEmptySeq
<1>4. Unregisters(s)
  BY <1>3 DEF Unregisters
<1> QED BY <1>3, <1>4, QueueMovesOn

(* A transport is registered.                                               *)
LEMMA RegisterStep ==
    ASSUME ServerInv, action_register
    PROVE  ServerInv'
<1> PICK fd : fd = action_queue[1].fd
  OBVIOUS
<1>1. /\ phase = "actions" /\ phase' = phase /\ action_queue # <<>>
      /\ Head(action_queue) = action_queue[1] /\ action_queue[1].kind = "register"
      /\ conns' = conns /\ Numbers' = Numbers /\ seen' = seen /\ made' = made /\ fd \in Fds
      /\ Tail(action_queue) \in Seq(Queued) /\ Tail(action_queue) \o <<>> = Tail(action_queue)
  BY ActingFacts DEF action_register, Kinds
<1>2. /\ action_queue' = Tail(action_queue) /\ listening' = listening /\ outbox' = outbox
      /\ delivered' = delivered /\ refused' = refused
      /\ status' = [c \in Numbers |-> IF conns[c] = fd /\ status[c] = "new"
                                      THEN "handshake" ELSE status[c]]
  BY <1>1 DEF action_register
<1>3. status' \in [Numbers' -> Statuses] /\ \A c \in Numbers :
        status'[c] = IF conns[c] = fd /\ status[c] = "new" THEN "handshake" ELSE status[c]
  BY <1>1, <1>2, StatusIsSeq DEF Statuses
<1>4. CoreTypes'
  BY <1>1, <1>2, <1>3, Typed, TypedNext DEF ServerInv
<1>5. Distinct' /\ OutboxDrained'
  BY <1>1, <1>2, <1>3 DEF ServerInv, Distinct, OutboxDrained
<1>6. KeepsTransports(2)
  <2>1. \A f : \A c \in Numbers : c \in Transport(f) => c \in Transport(f)'
    BY <1>1, <1>3 DEF Transport
  <2> QED BY <2>1 DEF KeepsTransports
<1>7. QueueTyped' /\ Aimed' /\ LastUnregistered'
  <2>1. NewAreRegistered
    BY <1>1, <1>3 DEF Is, NewAreRegistered
  <2> QED BY <2>1, <1>1, <1>2, <1>6, QueuePops
<1>8. FromThisTurn'
  BY <1>1 DEF FromThisTurn
<1> QED BY <1>4, <1>5, <1>7, <1>8 DEF ServerInv

(* A transport is unregistered and dropped: no message behind is for it.    *)
LEMMA UnregisterStep ==
    ASSUME ServerInv, action_unregister
    PROVE  ServerInv'
<1> PICK fd : fd = action_queue[1].fd
  OBVIOUS
<1>1. /\ phase = "actions" /\ phase' = phase /\ action_queue # <<>> /\ 1 \in 1..Len(action_queue)
      /\ Head(action_queue) = action_queue[1] /\ action_queue[1].kind = "unregister"
      /\ conns' = conns /\ Numbers' = Numbers /\ seen' = seen /\ made' = made /\ fd \in Fds
      /\ Tail(action_queue) \in Seq(Queued)
  BY ActingFacts DEF action_unregister, Kinds
<1>2. /\ action_queue' = Tail(action_queue) /\ listening' = listening /\ outbox' = outbox
      /\ delivered' = delivered /\ refused' = refused
      /\ status' = [c \in Numbers |-> IF c \in Transport(fd) THEN "gone" ELSE status[c]]
  BY <1>1 DEF action_unregister
<1>3. status' \in [Numbers' -> Statuses] /\ \A c \in Numbers :
        status'[c] = IF c \in Transport(fd) THEN "gone" ELSE status[c]
  BY <1>1, <1>2, StatusIsSeq DEF Statuses
<1>4. CoreTypes'
  BY <1>1, <1>2, <1>3, Typed, TypedNext DEF ServerInv
<1>5. Distinct' /\ OutboxDrained'
  BY <1>1, <1>2, <1>3 DEF ServerInv, Distinct, OutboxDrained
<1>6. KeepsTransports(2)
  <2> SUFFICES ASSUME NEW i \in 2..Len(action_queue), NEW c \in Numbers, NEW f \in Fds,
                      Is(action_queue[i], "send", f), c \in Transport(f)
               PROVE  c \in Transport(f)'
    BY DEF KeepsTransports
  <2>1. i \in 1..Len(action_queue) /\ 1 < i
    BY <1>1
  <2>2. f # fd
    BY <2>1, <1>1 DEF ServerInv, LastUnregistered, Is
  <2>3. conns[c] = f /\ c \notin Transport(fd)
    BY <2>2 DEF Transport
  <2> QED BY <2>3, <1>1, <1>3 DEF Transport
<1>7. NewAreRegistered
  BY <1>1, <1>3 DEF Is, NewAreRegistered, Transport
<1>8. QueueTyped' /\ Aimed' /\ LastUnregistered'
  BY <1>1, <1>2, <1>6, <1>7, QueuePops
<1>9. FromThisTurn'
  BY <1>1 DEF FromThisTurn
<1> QED BY <1>4, <1>5, <1>8, <1>9 DEF ServerInv

(* The connections stay as they are.                                        *)
LEMMA ConnectionsStay ==
    ASSUME ServerInv, conns' = conns, status' = status, action_queue # <<>>,
           Head(action_queue).kind # "register"
    PROVE  /\ Numbers' = Numbers /\ status' \in [Numbers' -> Statuses]
           /\ Distinct' /\ KeepsTransports(2) /\ NewAreRegistered
<1>1. Numbers' = Numbers
  BY DEF Numbers
<1>2. Distinct' /\ NewAreRegistered
  BY <1>1 DEF ServerInv, Distinct, NewAreRegistered, Is
<1>3. \A f : Transport(f)' = Transport(f)
  BY <1>1 DEF Transport
<1>4. KeepsTransports(2)
  BY <1>3 DEF KeepsTransports
<1>5. status' \in [Numbers' -> Statuses]
  BY <1>1, Typed DEF ServerInv
<1> QED BY <1>1, <1>2, <1>4, <1>5

(* What is to be unregistered is unknown, or is the listener.               *)
LEMMA NothingToUnregister ==
    ASSUME ServerInv, unregister_unknown \/ action_unregister_listener
    PROVE  ServerInv'
<1>1. /\ action_queue # <<>> /\ Head(action_queue).kind # "register"
      /\ action_queue' = Tail(action_queue) /\ conns' = conns /\ status' = status
      /\ outbox' = outbox /\ delivered' = delivered /\ refused' = refused
      /\ seen' = seen /\ made' = made
      /\ phase' \in {"actions", "panic"}
  BY DEF unregister_unknown, action_unregister_listener, Acting
<1>2. listening' \in BOOLEAN
  BY Typed DEF ServerInv, unregister_unknown, action_unregister_listener
<1>3. /\ Numbers' = Numbers /\ status' \in [Numbers' -> Statuses]
      /\ Distinct' /\ KeepsTransports(2) /\ NewAreRegistered
  BY <1>1, ConnectionsStay
<1>4. Tail(action_queue) \in Seq(Queued)
  BY <1>1, StatusIsSeq, HeadTailProperties
<1>5. CoreTypes'
  BY <1>1, <1>2, <1>3, <1>4, Typed, TypedNext DEF ServerInv
<1>6. OutboxDrained'
  BY <1>1, <1>3 DEF ServerInv, OutboxDrained
<1>7. QueueTyped' /\ Aimed' /\ LastUnregistered'
  BY <1>1, <1>3, QueuePops
<1>8. FromThisTurn'
  BY <1>1 DEF FromThisTurn
<1> QED BY <1>3, <1>5, <1>6, <1>7, <1>8 DEF ServerInv

(* A message is written.                                                    *)
LEMMA WrittenStep ==
    ASSUME ServerInv, send_written
    PROVE  ServerInv'
<1>1. /\ phase' = "actions" /\ action_queue # <<>> /\ Head(action_queue).kind = "send"
      /\ Head(action_queue) = action_queue[1] /\ action_queue[1].msg \in Message
      /\ conns' = conns /\ seen' = seen /\ made' = made
      /\ Tail(action_queue) \in Seq(Queued)
  BY ActingFacts DEF send_written, Kinds
<1>2. /\ action_queue' = Tail(action_queue) /\ listening' = listening /\ outbox' = outbox
      /\ status' = status /\ refused' = refused
  BY DEF send_written
<1>3. delivered' \in Seq(Written)
  <2>1. PICK c \in Numbers : delivered' = Append(delivered, [msg |-> Head(action_queue).msg, conn |-> c])
    BY DEF send_written, Transport
  <2>2. c \in 1..MaxConns
    BY Typed, StatusIsSeq, ServerAssumption DEF ServerInv, Numbers
  <2>3. [msg |-> Head(action_queue).msg, conn |-> c] \in Written
    BY <2>2, <1>1 DEF Written
  <2>4. delivered \in Seq(Written)
    BY Typed DEF ServerInv
  <2> QED BY <2>1, <2>3, <2>4, AppendProperties
<1>4. /\ Numbers' = Numbers /\ status' \in [Numbers' -> Statuses]
      /\ Distinct' /\ KeepsTransports(2) /\ NewAreRegistered
  BY <1>1, <1>2, ConnectionsStay
<1>5. CoreTypes'
  BY <1>1, <1>2, <1>3, <1>4, Typed, TypedNext DEF ServerInv
<1>6. OutboxDrained'
  BY <1>1, <1>2, <1>4 DEF ServerInv, OutboxDrained
<1>7. QueueTyped' /\ Aimed' /\ LastUnregistered'
  BY <1>1, <1>2, <1>4, QueuePops
<1>8. FromThisTurn'
  BY <1>1 DEF FromThisTurn
<1> QED BY <1>4, <1>5, <1>6, <1>7, <1>8 DEF ServerInv

(* A message is refused, and its connection is to be unregistered.          *)
LEMMA RefusedStep ==
    ASSUME ServerInv, send_failed
    PROVE  ServerInv'
<1> PICK fd : fd = action_queue[1].fd
  OBVIOUS
<1> PICK s : s = <<Unregister(fd)>>
  OBVIOUS
<1>1. /\ phase' = "actions" /\ action_queue # <<>> /\ Head(action_queue).kind = "send"
      /\ Head(action_queue) = action_queue[1] /\ action_queue[1].msg \in Message
      /\ conns' = conns /\ seen' = seen /\ made' = made /\ fd \in Fds
      /\ Tail(action_queue) \in Seq(Queued)
  BY ActingFacts DEF send_failed, Kinds
<1>2. /\ action_queue' = Append(Tail(action_queue), Unregister(fd))
      /\ listening' = listening /\ outbox' = outbox /\ delivered' = delivered
      /\ status' = status /\ refused' = refused \cup {action_queue[1].msg}
  BY <1>1 DEF send_failed
<1>3. /\ Unregister(fd) \in Queued /\ Unregister(fd).kind = "unregister" /\ Unregister(fd).fd = fd
  BY <1>1 DEF Unregister, Do, Queued, Kinds
<1>4. /\ s \in Seq(Queued) /\ Len(s) = 1 /\ \A k \in 1..1 : s[k] = Unregister(fd)
      /\ action_queue' = Tail(action_queue) \o s
  BY <1>1, <1>2, <1>3, OneAction
<1>5. action_queue' \in Seq(Queued)
  BY <1>1, <1>4, Behind
<1>6. /\ Numbers' = Numbers /\ status' \in [Numbers' -> Statuses]
      /\ Distinct' /\ KeepsTransports(2) /\ NewAreRegistered
  BY <1>1, <1>2, ConnectionsStay
<1>7. CoreTypes'
  BY <1>1, <1>2, <1>5, <1>6, Typed, TypedNext DEF ServerInv
<1>8. OutboxDrained'
  BY <1>1, <1>2, <1>6 DEF ServerInv, OutboxDrained
<1>9. QueueTyped' /\ Aimed' /\ LastUnregistered'
  <2>1. Unregisters(s)
    BY <1>1, <1>3, <1>4 DEF Unregisters
  <2> QED BY <2>1, <1>1, <1>4, <1>6, QueueMovesOn
<1>10. FromThisTurn'
  BY <1>1 DEF FromThisTurn
<1> QED BY <1>6, <1>7, <1>8, <1>9, <1>10 DEF ServerInv

(* A message waits in the outbox: the transport of its descriptor is not    *)
(* active, and there is no other.                                           *)
LEMMA NotReadyStep ==
    ASSUME ServerInv, send_not_ready
    PROVE  ServerInv'
<1> PICK fd : fd = action_queue[1].fd
  OBVIOUS
<1>1. /\ phase' = "actions" /\ action_queue # <<>> /\ Head(action_queue).kind = "send"
      /\ Head(action_queue) = action_queue[1] /\ action_queue[1].msg \in Message
      /\ conns' = conns /\ seen' = seen /\ made' = made /\ fd \in Fds
      /\ Tail(action_queue) \in Seq(Queued)
  BY ActingFacts DEF send_not_ready, Kinds
<1>2. /\ action_queue' = Tail(action_queue)
      /\ listening' = listening /\ delivered' = delivered
      /\ outbox' = [outbox EXCEPT ![fd] = Append(outbox[fd], action_queue[1].msg)]
      /\ status' = status /\ refused' = refused
  BY <1>1 DEF send_not_ready
<1>3. PICK c \in Numbers : conns[c] = fd /\ status[c] \in {"handshake", "terminated"}
  BY <1>1 DEF send_not_ready, Transport
<1>4. /\ Numbers' = Numbers /\ status' \in [Numbers' -> Statuses]
      /\ Distinct' /\ KeepsTransports(2) /\ NewAreRegistered
  BY <1>1, <1>2, ConnectionsStay
<1>5. outbox' \in [Fds -> Seq(Message)] /\ \A f \in Fds : f # fd => outbox'[f] = outbox[f]
  <2>1. outbox \in [Fds -> Seq(Message)]
    BY Typed DEF ServerInv
  <2>2. Append(outbox[fd], action_queue[1].msg) \in Seq(Message)
    BY <2>1, <1>1, AppendProperties
  <2> QED BY <2>1, <2>2, <1>1, <1>2
<1>6. CoreTypes'
  BY <1>1, <1>2, <1>4, <1>5, Typed, TypedNext DEF ServerInv
<1>7. OutboxDrained'
  <2> SUFFICES ASSUME NEW d \in Numbers, status[d] = "active" PROVE outbox'[conns[d]] = <<>>
    BY <1>1, <1>2, <1>4 DEF OutboxDrained
  <2>1. conns[d] # fd
    BY <1>3 DEF ServerInv, Distinct
  <2>2. conns[d] \in Fds
    BY StatusIsSeq
  <2> QED BY <2>1, <2>2, <1>5 DEF ServerInv, OutboxDrained
<1>8. QueueTyped' /\ Aimed' /\ LastUnregistered'
  BY <1>1, <1>2, <1>4, QueuePops
<1>9. FromThisTurn'
  BY <1>1 DEF FromThisTurn
<1> QED BY <1>4, <1>6, <1>7, <1>8, <1>9 DEF ServerInv

(* Every step keeps the invariant.                                          *)
LEMMA ServerInvNext == ServerInv /\ [Next]_vars => ServerInv'
<1> SUFFICES ASSUME ServerInv, [Next]_vars PROVE ServerInv'
  OBVIOUS
<1>1. CASE UNCHANGED vars
  BY <1>1, ServerInvStutters
<1>2. CASE handle_events
  <2>1. CASE \E fd \in Fds : accepted(fd)
    BY <2>1, AcceptedStep
  <2>2. CASE \E hup \in BOOLEAN : listener_error(hup)
    BY <2>2, ListenerErrorStep
  <2>3. ASSUME NEW c \in Numbers,
               \/ established(c) \/ terminated(c) \/ disconnected(c) \/ poll_error(c)
               \/ \E dismissed \in BOOLEAN : input_answered(c, dismissed)
               \/ \E fd \in Fds : input_forward(c, fd)
        PROVE  ServerInv'
    BY <2>3, EstablishedStep, FailureStep, DisconnectedStep, AnsweredStep, ForwardStep
  <2>4. CASE events_done
    BY <2>4, PhaseStep
  <2> QED BY <1>2, <2>1, <2>2, <2>3, <2>4 DEF handle_events
<1>3. CASE handle_actions
  BY <1>3, RegisterStep, UnregisterStep, NothingToUnregister, WrittenStep, RefusedStep,
     NotReadyStep, PhaseStep DEF handle_actions
<1> QED BY <1>1, <1>2, <1>3 DEF Next

-----------------------------------------------------------------------------
(* Whom the messages find.                                                  *)

(* A message in the queue that has not waited in the outbox is for a        *)
(* connection that still has the message's descriptor.                      *)
QueueOwn ==
    \A i \in 1..Len(action_queue) :
        action_queue[i].kind = "send" /\ action_queue[i].msg.n \notin waited =>
            \E d \in Numbers : /\ d = action_queue[i].msg.to
                               /\ conns[d] = action_queue[i].fd /\ status[d] # "gone"

OutboxWaited == \A fd \in Fds : \A k \in DOMAIN outbox[fd] : outbox[fd][k].n \in waited

AddressInv == waited \subseteq 1..MaxMsgs /\ OutboxWaited /\ QueueOwn

(* What a step does not take from the messages in the queue: a connection.  *)
KeepsOwn(from) ==
    \A i \in from..Len(action_queue) : \A d \in Numbers :
        Is(action_queue[i], "send", conns[d]) /\ status[d] # "gone"
            => d \in Numbers' /\ conns'[d] = conns[d] /\ status'[d] # "gone"

(* A message that is queued has waited, or its connection is there.         *)
QueuedOwn(s) ==
    \A k \in 1..Len(s) : s[k].kind = "send" =>
        \/ s[k].msg.n \in waited'
        \/ \E d \in Numbers' : d = s[k].msg.to /\ conns'[d] = s[k].fd /\ status'[d] # "gone"

(* A part of the queue stays and more is queued behind it.                  *)
LEMMA OwnKept ==
    ASSUME AddressInv, NEW from \in Nat, NEW t \in Seq(Queued), NEW s \in Seq(Queued),
           action_queue' = t \o s, waited \subseteq waited', KeepsOwn(from), QueuedOwn(s),
           \A i \in 1..Len(t) : \E j \in from..Len(action_queue) :
               j \in 1..Len(action_queue) /\ t[i] = action_queue[j]
    PROVE  QueueOwn'
<1> PICK q : q = action_queue
  OBVIOUS
<1> PICK r : r = action_queue'
  OBVIOUS
<1>1. \A i \in 1..Len(r) :
         \/ i \in 1..Len(t) /\ r[i] = t[i]
         \/ \E k \in 1..Len(s) : i = Len(t) + k /\ r[i] = s[k]
  BY Behind
<1> SUFFICES ASSUME NEW i \in 1..Len(r), r[i].kind = "send", r[i].msg.n \notin waited'
             PROVE  \E d \in Numbers' : d = r[i].msg.to /\ conns'[d] = r[i].fd /\ status'[d] # "gone"
  BY DEF QueueOwn
<1>2. CASE i \in 1..Len(t) /\ r[i] = t[i]
  <2>1. PICK j \in from..Len(q) : j \in 1..Len(q) /\ r[i] = q[j]
    BY <1>2
  <2>2. PICK d \in Numbers : d = q[j].msg.to /\ conns[d] = q[j].fd /\ status[d] # "gone"
    BY <2>1 DEF AddressInv, QueueOwn
  <2>3. Is(q[j], "send", conns[d])
    BY <2>1, <2>2 DEF Is
  <2>4. d \in Numbers' /\ conns'[d] = conns[d] /\ status'[d] # "gone"
    BY <2>2, <2>3 DEF KeepsOwn
  <2> QED BY <2>1, <2>2, <2>4
<1>3. CASE \E k \in 1..Len(s) : i = Len(t) + k /\ r[i] = s[k]
  BY <1>3 DEF QueuedOwn
<1> QED BY <1>1, <1>2, <1>3

(* An event queues something, an action is taken from the queue.            *)
LEMMA OwnAfterEvent ==
    ASSUME ServerInv, AddressInv, NEW s \in Seq(Queued), action_queue' = action_queue \o s,
           waited' = waited, KeepsOwn(1), QueuedOwn(s)
    PROVE  QueueOwn'
<1>1. action_queue \in Seq(Queued) /\ 1 \in Nat
  BY StatusIsSeq
<1> QED BY <1>1, OwnKept

(* Nothing that an action queues is a message.                              *)
LEMMA OwnAfterAction ==
    ASSUME ServerInv, AddressInv, action_queue # <<>>, NEW s \in Seq(Queued),
           action_queue' = Tail(action_queue) \o s, waited \subseteq waited',
           KeepsOwn(2), \A k \in 1..Len(s) : s[k].kind # "send"
    PROVE  QueueOwn'
<1>1. action_queue \in Seq(Queued) /\ 2 \in Nat
  BY StatusIsSeq
<1>2. PICK q \in Seq(Queued) : q = action_queue
  BY <1>1
<1>3. /\ Tail(q) \in Seq(Queued) /\ Len(q) \in Nat /\ Len(Tail(q)) = Len(q) - 1
      /\ \A i \in 1..Len(Tail(q)) : Tail(q)[i] = q[i + 1]
  BY <1>2, HeadTailProperties, LenProperties
<1>4. \A i \in 1..Len(Tail(q)) : \E j \in 2..Len(q) : j \in 1..Len(q) /\ Tail(q)[i] = q[j]
  <2> TAKE i \in 1..Len(Tail(q))
  <2>1. i + 1 \in 2..Len(q) /\ i + 1 \in 1..Len(q)
    BY <1>3
  <2> QED BY <2>1, <1>3
<1>5. QueuedOwn(s)
  BY DEF QueuedOwn
<1>6. PICK t \in Seq(Queued) : /\ action_queue' = t \o s
                             /\ \A i \in 1..Len(t) : \E j \in 2..Len(action_queue) :
                                   j \in 1..Len(action_queue) /\ t[i] = action_queue[j]
  BY <1>2, <1>3, <1>4, ZenonT(60)
<1> QED BY <1>1, <1>5, <1>6, OwnKept

(* Connections that only get another status, and not that of one gone.      *)
LEMMA OwnStays ==
    ASSUME \A d \in Numbers : /\ d \in Numbers' /\ conns'[d] = conns[d]
                              /\ (status[d] # "gone" => status'[d] # "gone")
    PROVE  KeepsOwn(1) /\ KeepsOwn(2)
BY DEF KeepsOwn

(* What waited for a connection is queued when it is established.           *)
LEMMA EstablishedOwn ==
    ASSUME ServerInv, AddressInv, NEW c, established(c)
    PROVE  AddressInv'
<1> PICK fd : fd = conns[c]
  OBVIOUS
<1> PICK o : o = outbox[fd]
  OBVIOUS
<1> PICK s : s = [i \in DOMAIN o |-> Send(fd, o[i])]
  OBVIOUS
<1>1. /\ Event(c) /\ status[c] = "handshake" /\ status' = [status EXCEPT ![c] = "active"]
      /\ action_queue' = action_queue \o s /\ outbox' = [outbox EXCEPT ![fd] = <<>>]
      /\ conns' = conns /\ waited' = waited
  BY DEF established, Event
<1>2. c \in Numbers /\ fd \in Fds
  BY <1>1, EventFacts
<1>3. outbox \in [Fds -> Seq(Message)] /\ o \in Seq(Message)
  BY <1>2, Typed DEF ServerInv
<1>4. /\ s \in Seq(Queued) /\ Len(s) = Len(o)
      /\ \A k \in 1..Len(s) : s[k].msg = o[k] /\ k \in DOMAIN o
  <2>1. DOMAIN o = 1..Len(o)
    BY <1>3, LenProperties
  <2>2. /\ s \in Seq(Queued) /\ Len(s) = Len(o)
        /\ \A k \in 1..Len(s) : s[k].msg = o[k]
    BY <1>2, <1>3, Outgoing
  <2> QED BY <2>1, <2>2
<1>5. QueuedOwn(s)
  <2>1. \A k \in DOMAIN o : o[k].n \in waited
    BY <1>2 DEF AddressInv, OutboxWaited
  <2>2. \A k \in 1..Len(s) : s[k].msg.n \in waited'
    <3> TAKE k \in 1..Len(s)
    <3>1. s[k].msg = o[k] /\ o[k].n \in waited
      BY <2>1, <1>4, Zenon
    <3>2. waited' = waited
      BY <1>1, Zenon
    <3>3. s[k].msg.n \in waited
      BY <3>1, Zenon
    <3> QED BY <3>2, <3>3, Zenon
  <2> QED BY <2>2, Zenon DEF QueuedOwn
<1>6. KeepsOwn(1)
  <2>1. Numbers' = Numbers /\ \A d \in Numbers : status[d] # "gone" => status'[d] # "gone"
    BY <1>1, <1>2, Typed DEF ServerInv, Numbers
  <2> QED BY <2>1, <1>1, OwnStays
<1>7. QueueOwn'
  BY <1>1, <1>4, <1>5, <1>6, OwnAfterEvent
<1>8. OutboxWaited'
  <2>1. \A f \in Fds : f # fd => outbox'[f] = outbox[f]
    BY <1>1, <1>3
  <2>2. outbox'[fd] = <<>> /\ DOMAIN <<>> = {}
    BY <1>1, <1>2, <1>3
  <2> QED BY <2>1, <2>2, <1>1 DEF AddressInv, OutboxWaited
<1> QED BY <1>1, <1>7, <1>8 DEF AddressInv

(* A message of the processor is for the connection it is queued for.       *)
LEMMA InputOwn ==
    ASSUME ServerInv, AddressInv, NEW c,
           \/ \E dismissed \in BOOLEAN : input_answered(c, dismissed)
           \/ \E fd \in Fds : input_forward(c, fd)
    PROVE  AddressInv'
<1>0. /\ Event(c) /\ made < MaxMsgs /\ outbox' = outbox /\ waited' = waited
  BY DEF input_answered, input_forward, Event
<1>1. c \in Numbers /\ conns[c] \in Fds
  BY <1>0, EventFacts
<1>2. made + 1 \in 1..MaxMsgs /\ action_queue \in Seq(Queued)
  BY <1>0, Typed, StatusIsSeq, ServerAssumption DEF ServerInv
<1>3. ASSUME NEW d \in 1..MaxConns, NEW f \in Fds
      PROVE  /\ Send(f, NewMessage(d)) \in Queued /\ Send(f, NewMessage(d)).fd = f
             /\ Send(f, NewMessage(d)).msg.to = d
             /\ Register(f) \in Queued /\ Register(f).kind = "register"
             /\ Unregister(f) \in Queued /\ Unregister(f).kind = "unregister"
  <2>1. NewMessage(d) \in Message /\ NewMessage(d).to = d
    BY <1>2 DEF NewMessage, Message
  <2> QED BY <2>1, DoTypes DEF Is
<1>4. ASSUME NEW dismissed \in BOOLEAN, input_answered(c, dismissed)
      PROVE  QueueOwn'
  <2>1. c \in 1..MaxConns
    BY <1>1, Typed, StatusIsSeq, ServerAssumption DEF ServerInv, Numbers
  <2>2. PICK a \in Queued, b \in Queued :
           /\ a = Send(conns[c], NewMessage(c)) /\ b = Unregister(conns[c])
           /\ a.fd = conns[c] /\ a.msg.to = c /\ b.kind = "unregister"
    BY <2>1, <1>1, <1>3
  <2>3. action_queue' = (action_queue \o <<a>>) \o (IF dismissed THEN <<b>> ELSE <<>>)
    BY <2>2, <1>4 DEF input_answered
  <2>4. conns' = conns /\ status' = status /\ Numbers' = Numbers /\ status[c] = "active"
    BY <1>4 DEF input_answered, Numbers
  <2>5. KeepsOwn(1)
    BY <2>4, OwnStays
  <2>6. PICK s \in Seq(Queued) :
           /\ action_queue' = action_queue \o s
           /\ \A k \in 1..Len(s) : s[k] = a \/ s[k] = b
    <3>1. /\ <<a>> \in Seq(Queued) /\ Len(<<a>>) = 1 /\ \A k \in 1..1 : <<a>>[k] = a
      BY OneAction
    <3>2. CASE dismissed
      <4>1. /\ <<a, b>> \in Seq(Queued) /\ Len(<<a, b>>) = 2 /\ <<a, b>>[1] = a /\ <<a, b>>[2] = b
            /\ action_queue' = action_queue \o <<a, b>>
        BY <2>3, <3>2, <1>2, TwoActions
      <4>2. \A k \in 1..2 : k = 1 \/ k = 2
        OBVIOUS
      <4> QED BY <4>1, <4>2
    <3>3. CASE ~dismissed
      <4>1. action_queue \o <<a>> \in Seq(Queued)
        BY <3>1, <1>2, Behind
      <4>2. action_queue' = action_queue \o <<a>>
        BY <4>1, <2>3, <3>3, ConcatEmptySeq
      <4> QED BY <4>2, <3>1
    <3> QED BY <3>2, <3>3
  <2>7. QueuedOwn(s)
    BY <2>2, <2>4, <2>6, <1>1 DEF QueuedOwn
  <2> QED BY <2>5, <2>6, <2>7, <1>0, OwnAfterEvent
<1>5. ASSUME NEW fd \in Fds, input_forward(c, fd)
      PROVE  QueueOwn'
  <2>1. /\ Len(conns) + 1 \in 1..MaxConns /\ Numbers' = Numbers \cup {Len(conns) + 1}
        /\ \A d \in Numbers : conns'[d] = conns[d] /\ status'[d] = status[d]
        /\ conns'[Len(conns) + 1] = fd /\ status'[Len(conns) + 1] = "new"
    BY <1>5, NewConnection DEF input_forward
  <2>2. PICK a \in Queued, b \in Queued :
           /\ a = Register(fd) /\ b = Send(fd, NewMessage(Len(conns) + 1))
           /\ b.fd = fd /\ b.msg.to = Len(conns) + 1 /\ a.kind = "register"
    BY <2>1, <1>3
  <2>3. action_queue' = action_queue \o <<a, b>>
    BY <2>2, <1>5 DEF input_forward
  <2>4. <<a, b>> \in Seq(Queued) /\ Len(<<a, b>>) = 2 /\ <<a, b>>[1] = a /\ <<a, b>>[2] = b
    BY TwoActions
  <2>5. \A k \in 1..2 : k = 1 \/ k = 2
    OBVIOUS
  <2>6. PICK s \in Seq(Queued) :
           /\ action_queue' = action_queue \o s
           /\ \A k \in 1..Len(s) : s[k] = a \/ s[k] = b
    BY <2>3, <2>4, <2>5
  <2>7. QueuedOwn(s)
    BY <2>1, <2>2, <2>6 DEF QueuedOwn
  <2>8. KeepsOwn(1)
    BY <2>1, OwnStays
  <2> QED BY <2>6, <2>7, <2>8, <1>0, OwnAfterEvent
<1>6. OutboxWaited'
  BY <1>0 DEF AddressInv, OutboxWaited
<1> QED BY <1>0, <1>4, <1>5, <1>6 DEF AddressInv

(* The connection that is dropped in its event is that of no message.       *)
LEMMA DisconnectedOwn ==
    ASSUME ServerInv, AddressInv, NEW c, disconnected(c)
    PROVE  AddressInv'
<1>1. /\ Event(c) /\ conns' = conns /\ outbox' = outbox /\ waited' = waited
      /\ action_queue' = action_queue /\ status' = [status EXCEPT ![c] = "gone"]
      /\ status[c] \in {"handshake", "active", "terminated"}
  BY DEF disconnected, Transport, Event
<1>2. phase = "events" /\ c \in Numbers /\ conns[c] \notin seen
  BY <1>1, EventFacts
<1>3. Numbers' = Numbers /\ \A d \in Numbers : d # c => status'[d] = status[d]
  BY <1>1, Typed DEF ServerInv, Numbers
<1>4. \A i \in 1..Len(action_queue) : ~Is(action_queue[i], "send", conns[c])
  <2> SUFFICES ASSUME NEW i \in 1..Len(action_queue), Is(action_queue[i], "send", conns[c])
               PROVE  FALSE
    OBVIOUS
  <2>1. PICK e \in Numbers : conns[e] = conns[c] /\ status[e] = "new"
    BY <1>2 DEF ServerInv, FromThisTurn, Is
  <2>2. e = c
    BY <2>1, <1>1, <1>2 DEF ServerInv, Distinct
  <2> QED BY <2>1, <2>2, <1>1
<1>5. KeepsOwn(1)
  BY <1>1, <1>3, <1>4 DEF KeepsOwn
<1>6. /\ <<>> \in Seq(Queued) /\ Len(<<>>) = 0 /\ action_queue' = action_queue \o <<>>
  BY <1>1, EmptySeq, ConcatEmptySeq, StatusIsSeq
<1>7. QueuedOwn(<<>>)
  BY <1>6 DEF QueuedOwn
<1>8. QueueOwn'
  BY <1>1, <1>5, <1>6, <1>7, OwnAfterEvent
<1> QED BY <1>1, <1>8 DEF AddressInv, OutboxWaited

(* Events that queue no message and drop no connection.                     *)
LEMMA OtherEventsOwn ==
    ASSUME ServerInv, AddressInv,
           \/ \E fd \in Fds : accepted(fd)
           \/ \E hup \in BOOLEAN : listener_error(hup)
           \/ \E c \in Numbers : terminated(c) \/ poll_error(c)
    PROVE  AddressInv'
<1>0. action_queue \in Seq(Queued)
  BY StatusIsSeq
<1>1. ASSUME NEW a \in Queued, a.kind # "send", action_queue' = Append(action_queue, a),
             KeepsOwn(1), waited' = waited, outbox' = outbox
      PROVE  AddressInv'
  <2>1. /\ <<a>> \in Seq(Queued) /\ Len(<<a>>) = 1 /\ \A k \in 1..1 : <<a>>[k] = a
        /\ action_queue' = action_queue \o <<a>>
    BY <1>0, <1>1, OneAction
  <2>2. PICK s \in Seq(Queued) : /\ action_queue' = action_queue \o s
                                 /\ \A k \in 1..Len(s) : s[k].kind # "send"
    BY <2>1, <1>1
  <2>3. QueuedOwn(s)
    BY <2>2 DEF QueuedOwn
  <2>4. QueueOwn'
    BY <2>2, <2>3, <1>1, OwnAfterEvent
  <2> QED BY <2>4, <1>1 DEF AddressInv, OutboxWaited
<1>2. ASSUME NEW fd \in Fds, accepted(fd) PROVE AddressInv'
  <2>1. Register(fd) \in Queued /\ Register(fd).kind = "register"
    BY DEF Register, Do, Queued, Kinds
  <2>2. /\ Numbers' = Numbers \cup {Len(conns) + 1}
        /\ \A d \in Numbers : conns'[d] = conns[d] /\ status'[d] = status[d]
    BY <1>2, NewConnection DEF accepted
  <2>3. KeepsOwn(1)
    BY <2>2, OwnStays
  <2>4. action_queue' = Append(action_queue, Register(fd)) /\ waited' = waited /\ outbox' = outbox
    BY <1>2 DEF accepted
  <2> QED BY <2>1, <2>3, <2>4, <1>1
<1>3. ASSUME NEW hup \in BOOLEAN, listener_error(hup) PROVE AddressInv'
  <2> PICK a : a = Do("unregister_listener", 0, NoMsg)
    OBVIOUS
  <2>1. a \in Queued /\ a.kind = "unregister_listener"
    BY DEF Do, Queued, Kinds
  <2>2. /\ action_queue' = Append(action_queue, a) /\ waited' = waited /\ outbox' = outbox
        /\ conns' = conns /\ status' = status /\ Numbers' = Numbers
    BY <1>3 DEF listener_error, Numbers
  <2>3. KeepsOwn(1)
    BY <2>2, OwnStays
  <2> QED BY <2>1, <2>2, <2>3, <1>1
<1>4. ASSUME NEW c \in Numbers, terminated(c) \/ poll_error(c) PROVE AddressInv'
  <2>1. /\ Event(c) /\ action_queue' = Append(action_queue, Unregister(conns[c]))
        /\ waited' = waited /\ outbox' = outbox /\ conns' = conns
        /\ status' \in {status, [status EXCEPT ![c] = "terminated"]}
    BY <1>4 DEF terminated, poll_error, Event
  <2>2. conns[c] \in Fds
    BY <2>1, EventFacts
  <2>3. Unregister(conns[c]) \in Queued /\ Unregister(conns[c]).kind = "unregister"
    BY <2>2 DEF Unregister, Do, Queued, Kinds
  <2>4. Numbers' = Numbers /\ \A d \in Numbers : status[d] # "gone" => status'[d] # "gone"
    BY <2>1, Typed DEF ServerInv, Numbers
  <2>5. KeepsOwn(1)
    BY <2>1, <2>4, OwnStays
  <2> QED BY <2>1, <2>3, <2>5, <1>1
<1> QED BY <1>2, <1>3, <1>4

(* Actions: what is unregistered is that of no message behind, and what     *)
(* goes to the outbox has waited from then on.                              *)
LEMMA ActionsOwn ==
    ASSUME ServerInv, AddressInv, handle_actions, ~actions_done
    PROVE  AddressInv'
<1>0. action_queue \in Seq(Queued)
  BY StatusIsSeq
<1>1. ASSUME action_queue # <<>>, action_queue' = Tail(action_queue),
             KeepsOwn(2), waited \subseteq waited'
      PROVE  QueueOwn'
  <2>1. /\ <<>> \in Seq(Queued) /\ 1..Len(<<>>) = {} /\ action_queue' = Tail(action_queue) \o <<>>
    BY <1>0, <1>1, EmptySeq, ConcatEmptySeq, HeadTailProperties
  <2> QED BY <2>1, <1>1, OwnAfterAction
<1>2. CASE action_register
  <2>1. /\ action_queue # <<>> /\ action_queue' = Tail(action_queue) /\ waited' = waited
        /\ outbox' = outbox /\ conns' = conns /\ Numbers' = Numbers
        /\ status' = [d \in Numbers |-> IF conns[d] = Head(action_queue).fd /\ status[d] = "new"
                                        THEN "handshake" ELSE status[d]]
    BY <1>2 DEF action_register, Acting, Numbers
  <2>2. KeepsOwn(2)
    BY <2>1, OwnStays
  <2> QED BY <2>1, <2>2, <1>1 DEF AddressInv, OutboxWaited
<1>3. CASE action_unregister
  <2> PICK fd : fd = action_queue[1].fd
    OBVIOUS
  <2>1. /\ action_queue # <<>> /\ 1 \in 1..Len(action_queue)
        /\ Head(action_queue) = action_queue[1] /\ action_queue[1].kind = "unregister"
        /\ conns' = conns /\ Numbers' = Numbers
    BY <1>3, ActingFacts DEF action_unregister, Kinds
  <2>2. /\ action_queue' = Tail(action_queue) /\ waited' = waited /\ outbox' = outbox
        /\ status' = [d \in Numbers |-> IF d \in Transport(fd) THEN "gone" ELSE status[d]]
    BY <1>3, <2>1 DEF action_unregister
  <2>3. KeepsOwn(2)
    <3> SUFFICES ASSUME NEW i \in 2..Len(action_queue), NEW d \in Numbers,
                        Is(action_queue[i], "send", conns[d]), status[d] # "gone"
                 PROVE  status'[d] # "gone"
      BY <2>1 DEF KeepsOwn
    <3>1. i \in 1..Len(action_queue) /\ 1 < i
      BY <2>1
    <3>2. conns[d] # fd
      BY <3>1, <2>1 DEF ServerInv, LastUnregistered, Is
    <3> QED BY <3>2, <2>2 DEF Transport
  <2> QED BY <2>1, <2>2, <2>3, <1>1 DEF AddressInv, OutboxWaited
<1>4. CASE unregister_unknown \/ action_unregister_listener \/ send_written
  <2>1. /\ action_queue # <<>> /\ action_queue' = Tail(action_queue) /\ waited' = waited
        /\ outbox' = outbox /\ conns' = conns /\ Numbers' = Numbers /\ status' = status
    BY <1>4 DEF unregister_unknown, action_unregister_listener, send_written, Acting, Numbers
  <2>2. KeepsOwn(2)
    BY <2>1, OwnStays
  <2> QED BY <2>1, <2>2, <1>1 DEF AddressInv, OutboxWaited
<1>5. CASE send_failed
  <2> PICK a : a = Unregister(Head(action_queue).fd)
    OBVIOUS
  <2>1. /\ action_queue # <<>> /\ Head(action_queue).fd \in Fds /\ Tail(action_queue) \in Seq(Queued)
    BY <1>5, ActingFacts DEF send_failed, Kinds
  <2>2. /\ action_queue' = Append(Tail(action_queue), a) /\ waited' = waited
        /\ outbox' = outbox /\ conns' = conns /\ Numbers' = Numbers /\ status' = status
    BY <1>5 DEF send_failed, Acting, Numbers
  <2>3. a \in Queued /\ a.kind = "unregister"
    BY <2>1 DEF Unregister, Do, Queued, Kinds
  <2>4. /\ <<a>> \in Seq(Queued) /\ Len(<<a>>) = 1 /\ \A k \in 1..1 : <<a>>[k] = a
        /\ action_queue' = Tail(action_queue) \o <<a>>
    BY <2>1, <2>2, <2>3, OneAction
  <2>5. PICK s \in Seq(Queued) : /\ action_queue' = Tail(action_queue) \o s
                                 /\ \A k \in 1..Len(s) : s[k].kind # "send"
    BY <2>3, <2>4
  <2>6. KeepsOwn(2)
    BY <2>2, OwnStays
  <2>7. QueueOwn'
    BY <2>1, <2>2, <2>5, <2>6, OwnAfterAction
  <2> QED BY <2>2, <2>7 DEF AddressInv, OutboxWaited
<1>6. CASE send_not_ready
  <2> PICK fd : fd = action_queue[1].fd
    OBVIOUS
  <2> PICK m : m = action_queue[1].msg
    OBVIOUS
  <2>1. /\ action_queue # <<>> /\ Head(action_queue) = action_queue[1] /\ m \in Message /\ fd \in Fds
        /\ conns' = conns /\ Numbers' = Numbers
    BY <1>6, ActingFacts DEF send_not_ready, Kinds
  <2>2. /\ action_queue' = Tail(action_queue) /\ waited' = waited \cup {m.n} /\ status' = status
        /\ outbox' = [outbox EXCEPT ![fd] = Append(outbox[fd], m)]
    BY <1>6, <2>1 DEF send_not_ready
  <2>3. outbox \in [Fds -> Seq(Message)] /\ outbox[fd] \in Seq(Message)
    BY <2>1, Typed DEF ServerInv
  <2>4. m.n \in 1..MaxMsgs
    BY <2>1 DEF Message
  <2>5. ASSUME NEW k \in DOMAIN outbox'[fd] PROVE outbox'[fd][k].n \in waited'
    <3> PICK o \in Seq(Message) : o = outbox[fd]
      BY <2>3
    <3>1. outbox'[fd] = Append(o, m)
      BY <2>1, <2>2, <2>3
    <3>2. /\ Append(o, m) \in Seq(Message) /\ Len(Append(o, m)) = Len(o) + 1 /\ Len(o) \in Nat
          /\ \A i \in 1..Len(o) : Append(o, m)[i] = o[i]
          /\ Append(o, m)[Len(o) + 1] = m
      BY <2>1, AppendProperties, LenProperties
    <3>3. DOMAIN o = 1..Len(o) /\ DOMAIN Append(o, m) = 1..(Len(o) + 1)
      BY <3>2, LenProperties
    <3>4. \A i \in 1..Len(o) : o[i].n \in waited
      BY <2>1, <3>3 DEF AddressInv, OutboxWaited
    <3>5. CASE k \in 1..Len(o)
      BY <3>1, <3>2, <3>4, <3>5, <2>2
    <3>6. CASE k = Len(o) + 1
      BY <3>1, <3>2, <3>6, <2>2
    <3> QED BY <3>1, <3>2, <3>3, <3>5, <3>6
  <2>6. \A f \in Fds : f # fd => outbox'[f] = outbox[f]
    BY <2>2, <2>3
  <2>7. OutboxWaited'
    BY <2>2, <2>5, <2>6 DEF AddressInv, OutboxWaited
  <2>8. KeepsOwn(2)
    BY <2>1, <2>2, OwnStays
  <2> QED BY <2>1, <2>2, <2>4, <2>7, <2>8, <1>1 DEF AddressInv
<1> QED BY <1>2, <1>3, <1>4, <1>5, <1>6 DEF handle_actions

(* At first there is no message.                                            *)
LEMMA AddressInvInit == Init => AddressInv
<1> SUFFICES ASSUME Init PROVE AddressInv
  OBVIOUS
<1>1. DOMAIN <<>> = {} /\ 1..Len(<<>>) = {}
  OBVIOUS
<1> QED BY <1>1 DEF Init, AddressInv, OutboxWaited, QueueOwn

(* Every step keeps the messages with their connections.                    *)
LEMMA AddressInvNext == ServerInv /\ AddressInv /\ [Next]_vars => AddressInv'
<1> SUFFICES ASSUME ServerInv, AddressInv, [Next]_vars PROVE AddressInv'
  OBVIOUS
<1>1. CASE UNCHANGED vars \/ events_done \/ actions_done
  <2>1. /\ conns' = conns /\ status' = status /\ outbox' = outbox /\ waited' = waited
        /\ action_queue' = action_queue /\ Numbers' = Numbers
    BY <1>1 DEF vars, events_done, actions_done, Numbers
  <2> QED BY <2>1 DEF AddressInv, OutboxWaited, QueueOwn
<1>2. CASE handle_events
  <2>1. ASSUME NEW c \in Numbers,
               \/ established(c) \/ terminated(c) \/ disconnected(c) \/ poll_error(c)
               \/ \E dismissed \in BOOLEAN : input_answered(c, dismissed)
               \/ \E fd \in Fds : input_forward(c, fd)
        PROVE  AddressInv'
    BY <2>1, EstablishedOwn, DisconnectedOwn, InputOwn, OtherEventsOwn
  <2> QED BY <1>1, <1>2, <2>1, OtherEventsOwn DEF handle_events
<1>3. CASE handle_actions
  BY <1>1, <1>3, ActionsOwn
<1> QED BY <1>1, <1>2, <1>3 DEF Next

-----------------------------------------------------------------------------
(* Where the messages are.                                                  *)

Has(a, n) == a.kind = "send" /\ a.msg.n = n

(* Two sets of places that are both empty or both of one place, if any is.  *)
Same(S, T) == (S = {} => T = {}) /\ (One(S) => One(T))

(* If each kind of place is as before, there is one in all as before.       *)
LEMMA SamePlaces ==
    ASSUME NEW Q, NEW O, NEW D, NEW R, NEW Q2, NEW O2, NEW D2, NEW R2,
           Same(Q, Q2), Same(O, O2), Same(D, D2), Same(R, R2)
    PROVE  /\ OnePlace(Q, O, D, R) => OnePlace(Q2, O2, D2, R2)
           /\ NoPlace(Q, O, D, R) => NoPlace(Q2, O2, D2, R2)
BY Zenon DEF Same, OnePlace, NoPlace

(* A set is as it is.                                                       *)
LEMMA SameSet == ASSUME NEW S, NEW T, S = T PROVE Same(S, T)
BY DEF Same

(* Nothing of n is queued: n is where it was.                               *)
LEMMA QueueWithout ==
    ASSUME NEW q \in Seq(Queued), NEW s \in Seq(Queued), NEW n,
           \A k \in 1..Len(s) : ~Has(s[k], n)
    PROVE  InQueue(q \o s, n) = InQueue(q, n)
<1>1. /\ q \o s \in Seq(Queued) /\ Len(q \o s) = Len(q) + Len(s)
      /\ Len(q) \in Nat /\ Len(s) \in Nat
      /\ \A i \in 1..Len(q) : (q \o s)[i] = q[i]
      /\ \A i \in 1..(Len(q) + Len(s)) :
            \/ i \in 1..Len(q) /\ (q \o s)[i] = q[i]
            \/ \E k \in 1..Len(s) : i = Len(q) + k /\ (q \o s)[i] = s[k]
  BY Behind
<1>2. DOMAIN q = 1..Len(q) /\ DOMAIN (q \o s) = 1..(Len(q) + Len(s))
  BY <1>1, LenProperties
<1>3. PICK r : r = q \o s
  OBVIOUS
<1>4. \A i \in 1..Len(q) : i \in 1..(Len(q) + Len(s)) /\ r[i] = q[i]
  BY <1>1, <1>3
<1>5. \A i \in 1..(Len(q) + Len(s)) : Has(r[i], n) => i \in 1..Len(q) /\ r[i] = q[i]
  BY <1>1, <1>3
<1> QED BY <1>2, <1>3, <1>4, <1>5 DEF InQueue, Has

(* Message n is at k0 in s, and nowhere else.                               *)
OnlyAt(s, n, k0) == \A k \in 1..Len(s) : Has(s[k], n) <=> k = k0

(* Message n, which is not in the queue, is queued.                         *)
LEMMA QueueWith ==
    ASSUME NEW q \in Seq(Queued), NEW s \in Seq(Queued), NEW n, NEW k0 \in 1..Len(s),
           OnlyAt(s, n, k0), InQueue(q, n) = {}
    PROVE  InQueue(q \o s, n) = {Len(q) + k0}
<1> USE DEF OnlyAt
<1>1. /\ q \o s \in Seq(Queued) /\ Len(q \o s) = Len(q) + Len(s)
      /\ Len(q) \in Nat /\ Len(s) \in Nat
      /\ \A i \in 1..Len(s) : (q \o s)[Len(q) + i] = s[i]
      /\ \A i \in 1..(Len(q) + Len(s)) :
            \/ i \in 1..Len(q) /\ (q \o s)[i] = q[i]
            \/ \E k \in 1..Len(s) : i = Len(q) + k /\ (q \o s)[i] = s[k]
  BY Behind
<1>2. DOMAIN q = 1..Len(q) /\ DOMAIN (q \o s) = 1..(Len(q) + Len(s))
  BY <1>1, LenProperties
<1>3. PICK r : r = q \o s
  OBVIOUS
<1>4. \A i \in 1..Len(q) : ~Has(q[i], n)
  BY <1>2 DEF InQueue, Has
<1>5. Len(q) + k0 \in 1..(Len(q) + Len(s)) /\ Has(r[Len(q) + k0], n)
  BY <1>1, <1>3
<1>6. \A i \in 1..(Len(q) + Len(s)) : Has(r[i], n) => i = Len(q) + k0
  BY <1>1, <1>3, <1>4
<1>7. InQueue(r, n) = {i \in 1..(Len(q) + Len(s)) : Has(r[i], n)}
  BY <1>2, <1>3 DEF InQueue, Has
<1> QED BY <1>3, <1>5, <1>6, <1>7

(* The first action is taken: every other place moves up by one.            *)
LEMMA QueueTail ==
    ASSUME NEW q \in Seq(Queued), q # <<>>, NEW n
    PROVE  /\ Has(q[1], n) => 1 \in InQueue(q, n) /\ (One(InQueue(q, n)) => InQueue(Tail(q), n) = {})
           /\ ~Has(q[1], n) => Same(InQueue(q, n), InQueue(Tail(q), n))
<1> PICK t : t = Tail(q)
  OBVIOUS
<1>1. /\ t \in Seq(Queued) /\ Len(q) \in Nat /\ Len(q) > 0 /\ Len(t) = Len(q) - 1
      /\ \A i \in 1..Len(t) : i + 1 \in 1..Len(q) /\ t[i] = q[i + 1]
  BY HeadTailProperties, LenProperties, EmptySeq
<1>2. DOMAIN q = 1..Len(q) /\ DOMAIN t = 1..Len(t) /\ 1 \in 1..Len(q)
  BY <1>1, LenProperties
<1>3. \A i : i \in InQueue(q, n) <=> i \in 1..Len(q) /\ Has(q[i], n)
  BY <1>2 DEF InQueue, Has
<1>4. \A i : i \in InQueue(t, n) <=> i \in 1..Len(t) /\ Has(t[i], n)
  BY <1>2 DEF InQueue, Has
<1>5. \A i : i \in InQueue(t, n) => i \in Nat /\ i + 1 \in InQueue(q, n) /\ i + 1 # 1
  BY <1>1, <1>3, <1>4
<1>6. \A i : i \in InQueue(q, n) /\ i # 1 => i \in Nat /\ i - 1 \in InQueue(t, n)
  <2> SUFFICES ASSUME NEW i, i \in InQueue(q, n), i # 1 PROVE i \in Nat /\ i - 1 \in InQueue(t, n)
    OBVIOUS
  <2>1. i \in 1..Len(q) /\ Has(q[i], n)
    BY <1>3
  <2>2. i - 1 \in 1..Len(t) /\ (i - 1) + 1 = i
    BY <2>1, <1>1
  <2> QED BY <2>1, <2>2, <1>1, <1>4
<1>7. ASSUME Has(q[1], n)
      PROVE  1 \in InQueue(q, n) /\ (One(InQueue(q, n)) => InQueue(t, n) = {})
  <2>1. 1 \in InQueue(q, n)
    BY <1>2, <1>3, <1>7
  <2> QED BY <2>1, <1>5 DEF One
<1>8. ASSUME ~Has(q[1], n)
      PROVE  Same(InQueue(q, n), InQueue(t, n))
  <2>1. 1 \notin InQueue(q, n)
    BY <1>3, <1>8
  <2>2. InQueue(q, n) = {} => InQueue(t, n) = {}
    BY <1>5
  <2>3. ASSUME NEW x, InQueue(q, n) = {x}
        PROVE  InQueue(t, n) = {x - 1}
    <3>1. x \in Nat /\ x - 1 \in InQueue(t, n)
      BY <2>1, <2>3, <1>6
    <3>2. \A i : i \in InQueue(t, n) => i = x - 1
      BY <3>1, <2>3, <1>5
    <3> QED BY <3>1, <3>2
  <2> QED BY <2>2, <2>3 DEF Same, One
<1> QED BY <1>7, <1>8

Outboxes == [Fds -> Seq(Message)]

(* The places in the outbox.                                                *)
LEMMA OutboxPlaces ==
    ASSUME NEW o \in Outboxes, NEW n
    PROVE  /\ \A fd, k : <<fd, k>> \in InOutbox(o, n) <=> fd \in Fds /\ k \in 1..Len(o[fd]) /\ o[fd][k].n = n
           /\ \A w \in InOutbox(o, n) : w = <<w[1], w[2]>>
<1>1. \A fd \in Fds : DOMAIN o[fd] = 1..Len(o[fd]) /\ Len(o[fd]) \in Nat
  BY LenProperties DEF Outboxes
<1>2. \A w \in InOutbox(o, n) : w = <<w[1], w[2]>>
  BY DEF InOutbox
<1>3. ASSUME NEW fd \in Fds, NEW k \in 1..Len(o[fd]), o[fd][k].n = n
      PROVE  <<fd, k>> \in InOutbox(o, n)
  BY <1>1, <1>3 DEF InOutbox
<1>4. ASSUME NEW fd, NEW k, <<fd, k>> \in InOutbox(o, n)
      PROVE  fd \in Fds /\ k \in 1..Len(o[fd]) /\ o[fd][k].n = n
  BY <1>1, <1>4 DEF InOutbox
<1> QED BY <1>2, <1>3, <1>4

(* A step that makes no message and leaves each message in one place of a   *)
(* kind it was in keeps the accounts.                                       *)
LEMMA AccountKept ==
    ASSUME AccountInv, made' = made,
           \A n \in Nat \ {0} : /\ Same(InQueue(action_queue, n), InQueue(action_queue', n))
                                /\ Same(InOutbox(outbox, n), InOutbox(outbox', n))
                                /\ Same(InDelivered(delivered, n), InDelivered(delivered', n))
                                /\ Same(InRefused(refused, n), InRefused(refused', n))
    PROVE  AccountInv'
<1> SUFFICES ASSUME NEW n \in Nat \ {0}
             PROVE  IF n <= made
                    THEN OnePlace(InQueue(action_queue', n), InOutbox(outbox', n),
                                  InDelivered(delivered', n), InRefused(refused', n))
                    ELSE NoPlace(InQueue(action_queue', n), InOutbox(outbox', n),
                                 InDelivered(delivered', n), InRefused(refused', n))
  BY DEF AccountInv
<1>1. IF n <= made
      THEN OnePlace(InQueue(action_queue, n), InOutbox(outbox, n),
                    InDelivered(delivered, n), InRefused(refused, n))
      ELSE NoPlace(InQueue(action_queue, n), InOutbox(outbox, n),
                   InDelivered(delivered, n), InRefused(refused, n))
  BY DEF AccountInv
<1>2. /\ Same(InQueue(action_queue, n), InQueue(action_queue', n))
      /\ Same(InOutbox(outbox, n), InOutbox(outbox', n))
      /\ Same(InDelivered(delivered, n), InDelivered(delivered', n))
      /\ Same(InRefused(refused, n), InRefused(refused', n))
  OBVIOUS
<1> QED BY <1>1, <1>2, SamePlaces

(* Actions that carry no message are queued, or nothing is.                 *)
LEMMA QuietGrowth ==
    ASSUME ServerInv, AccountInv, made' = made, outbox' = outbox, delivered' = delivered,
           refused' = refused, NEW s \in Seq(Queued), action_queue' = action_queue \o s,
           \A k \in 1..Len(s) : s[k].kind # "send"
    PROVE  AccountInv'
<1>1. \A n : InQueue(action_queue', n) = InQueue(action_queue, n)
  <2>1. \A n : \A k \in 1..Len(s) : ~Has(s[k], n)
    BY DEF Has
  <2> QED BY <2>1, StatusIsSeq, QueueWithout
<1> QED BY <1>1, SameSet, AccountKept

(* Nothing about messages changes.                                          *)
LEMMA QuietStep ==
    ASSUME AccountInv, made' = made, outbox' = outbox, delivered' = delivered,
           refused' = refused, action_queue' = action_queue
    PROVE  AccountInv'
BY DEF AccountInv

(* An action that carries no message is taken.                              *)
LEMMA QuietPop ==
    ASSUME ServerInv, AccountInv, made' = made, outbox' = outbox, delivered' = delivered,
           refused' = refused, action_queue # <<>>, action_queue' = Tail(action_queue),
           action_queue[1].kind # "send"
    PROVE  AccountInv'
<1>1. \A n : Same(InQueue(action_queue, n), InQueue(action_queue', n))
  <2>1. \A n : ~Has(action_queue[1], n)
    BY DEF Has
  <2> QED BY <2>1, StatusIsSeq, QueueTail
<1> QED BY <1>1, SameSet, AccountKept

(* The processor makes a message, and it is queued.                         *)
LEMMA MessageMade ==
    ASSUME ServerInv, AccountInv, made' = made + 1, outbox' = outbox, delivered' = delivered,
           refused' = refused, NEW s \in Seq(Queued), action_queue' = action_queue \o s,
           NEW k0 \in 1..Len(s), s[k0].kind = "send", s[k0].msg.n = made + 1,
           \A k \in 1..Len(s) : s[k].kind = "send" => k = k0
    PROVE  AccountInv'
<1>0. made \in Nat /\ action_queue \in Seq(Queued)
  BY Typed, StatusIsSeq, ServerAssumption DEF ServerInv
<1> SUFFICES ASSUME NEW n \in Nat \ {0}
             PROVE  IF n <= made + 1
                    THEN OnePlace(InQueue(action_queue', n), InOutbox(outbox, n),
                                  InDelivered(delivered, n), InRefused(refused, n))
                    ELSE NoPlace(InQueue(action_queue', n), InOutbox(outbox, n),
                                 InDelivered(delivered, n), InRefused(refused, n))
  BY DEF AccountInv
<1>1. IF n <= made
      THEN OnePlace(InQueue(action_queue, n), InOutbox(outbox, n),
                    InDelivered(delivered, n), InRefused(refused, n))
      ELSE NoPlace(InQueue(action_queue, n), InOutbox(outbox, n),
                   InDelivered(delivered, n), InRefused(refused, n))
  BY DEF AccountInv
<1>2. CASE n = made + 1
  <2>1. NoPlace(InQueue(action_queue, n), InOutbox(outbox, n),
                InDelivered(delivered, n), InRefused(refused, n))
    BY <1>0, <1>1, <1>2
  <2>2. OnlyAt(s, n, k0)
    BY <1>2 DEF Has, OnlyAt
  <2>3. InQueue(action_queue', n) = {Len(action_queue) + k0}
    BY <2>1, <2>2, <1>0, QueueWith DEF NoPlace
  <2>4. n <= made + 1
    BY <1>0, <1>2
  <2>5. OnePlace(InQueue(action_queue', n), InOutbox(outbox, n),
                 InDelivered(delivered, n), InRefused(refused, n))
    BY <2>1, <2>3, Zenon DEF NoPlace, OnePlace, One
  <2> QED BY <2>4, <2>5
<1>3. CASE n # made + 1
  <2>1. \A k \in 1..Len(s) : ~Has(s[k], n)
    BY <1>3 DEF Has
  <2>2. InQueue(action_queue', n) = InQueue(action_queue, n)
    BY <2>1, <1>0, QueueWithout
  <2>3. n <= made + 1 <=> n <= made
    BY <1>0, <1>3
  <2> QED BY <2>2, <2>3, <1>1
<1> QED BY <1>2, <1>3

(* A message that is the first action is there and nowhere else.            *)
LEMMA HeadPlace ==
    ASSUME ServerInv, AccountInv, action_queue # <<>>, NEW n \in Nat \ {0}, Has(action_queue[1], n)
    PROVE  /\ n <= made /\ InQueue(Tail(action_queue), n) = {}
           /\ InOutbox(outbox, n) = {} /\ InDelivered(delivered, n) = {} /\ InRefused(refused, n) = {}
<1>1. 1 \in InQueue(action_queue, n)
      /\ (One(InQueue(action_queue, n)) => InQueue(Tail(action_queue), n) = {})
  BY StatusIsSeq, QueueTail
<1>2. IF n <= made
      THEN OnePlace(InQueue(action_queue, n), InOutbox(outbox, n),
                    InDelivered(delivered, n), InRefused(refused, n))
      ELSE NoPlace(InQueue(action_queue, n), InOutbox(outbox, n),
                   InDelivered(delivered, n), InRefused(refused, n))
  BY DEF AccountInv
<1>3. n <= made
  BY <1>1, <1>2 DEF NoPlace
<1>4. /\ One(InQueue(action_queue, n)) /\ InOutbox(outbox, n) = {}
      /\ InDelivered(delivered, n) = {} /\ InRefused(refused, n) = {}
  BY <1>1, <1>2, <1>3 DEF OnePlace
<1> QED BY <1>1, <1>3, <1>4

(* A message goes from the head of the queue to one of the other places:    *)
(* that of its number comes to be one there, and others stay.               *)
LEMMA MessageMoves ==
    ASSUME ServerInv, AccountInv, made' = made, action_queue # <<>>,
           NEW s \in Seq(Queued), action_queue' = Tail(action_queue) \o s,
           \A k \in 1..Len(s) : s[k].kind # "send",
           action_queue[1].kind = "send",
           \A n \in Nat \ {0} : n # action_queue[1].msg.n =>
                /\ Same(InOutbox(outbox, n), InOutbox(outbox', n))
                /\ Same(InDelivered(delivered, n), InDelivered(delivered', n))
                /\ Same(InRefused(refused, n), InRefused(refused', n)),
           \A n \in Nat \ {0} :
                n = action_queue[1].msg.n /\ InOutbox(outbox, n) = {}
                /\ InDelivered(delivered, n) = {} /\ InRefused(refused, n) = {}
                => OnePlace({}, InOutbox(outbox', n), InDelivered(delivered', n), InRefused(refused', n))
    PROVE  AccountInv'
<1> SUFFICES ASSUME NEW n \in Nat \ {0}
             PROVE  IF n <= made
                    THEN OnePlace(InQueue(action_queue', n), InOutbox(outbox', n),
                                  InDelivered(delivered', n), InRefused(refused', n))
                    ELSE NoPlace(InQueue(action_queue', n), InOutbox(outbox', n),
                                 InDelivered(delivered', n), InRefused(refused', n))
  BY DEF AccountInv
<1>1. IF n <= made
      THEN OnePlace(InQueue(action_queue, n), InOutbox(outbox, n),
                    InDelivered(delivered, n), InRefused(refused, n))
      ELSE NoPlace(InQueue(action_queue, n), InOutbox(outbox, n),
                   InDelivered(delivered, n), InRefused(refused, n))
  BY DEF AccountInv
<1>2. InQueue(action_queue', n) = InQueue(Tail(action_queue), n)
  <2>1. action_queue \in Seq(Queued)
    BY StatusIsSeq
  <2>2. Tail(action_queue) \in Seq(Queued)
    BY <2>1, HeadTailProperties
  <2>3. \A k \in 1..Len(s) : ~Has(s[k], n)
    BY DEF Has
  <2> QED BY <2>2, <2>3, QueueWithout
<1>3. CASE n = action_queue[1].msg.n
  <2>1. Has(action_queue[1], n)
    BY <1>3 DEF Has
  <2>2. /\ n <= made /\ InQueue(Tail(action_queue), n) = {}
        /\ InOutbox(outbox, n) = {} /\ InDelivered(delivered, n) = {} /\ InRefused(refused, n) = {}
    BY <2>1, HeadPlace
  <2>3. OnePlace({}, InOutbox(outbox', n), InDelivered(delivered', n), InRefused(refused', n))
    BY <2>2, <1>3
  <2> QED BY <2>2, <2>3, <1>2
<1>4. CASE n # action_queue[1].msg.n
  <2>1. ~Has(action_queue[1], n)
    BY <1>4 DEF Has
  <2>2. Same(InQueue(action_queue, n), InQueue(action_queue', n))
    BY <2>1, <1>2, StatusIsSeq, QueueTail
  <2>3. /\ Same(InOutbox(outbox, n), InOutbox(outbox', n))
        /\ Same(InDelivered(delivered, n), InDelivered(delivered', n))
        /\ Same(InRefused(refused, n), InRefused(refused', n))
    BY <1>4
  <2> QED BY <2>2, <2>3, <1>1, SamePlaces
<1> QED BY <1>3, <1>4

(* A message is written to a connection.                                    *)
LEMMA DeliveredAccount ==
    ASSUME NEW d \in Seq(Written), NEW w \in Written, NEW n
    PROVE  /\ w.msg.n # n => InDelivered(Append(d, w), n) = InDelivered(d, n)
           /\ w.msg.n = n /\ InDelivered(d, n) = {} => InDelivered(Append(d, w), n) = {Len(d) + 1}
<1> PICK e : e = Append(d, w)
  OBVIOUS
<1>1. /\ e \in Seq(Written) /\ Len(e) = Len(d) + 1 /\ Len(d) \in Nat
      /\ \A i \in 1..Len(d) : e[i] = d[i]
      /\ e[Len(d) + 1] = w
  BY AppendProperties, LenProperties
<1>2. DOMAIN d = 1..Len(d) /\ DOMAIN e = 1..(Len(d) + 1)
  BY <1>1, LenProperties
<1>3. \A i : i \in 1..(Len(d) + 1) <=> i \in 1..Len(d) \/ i = Len(d) + 1
  BY <1>1
<1> QED BY <1>1, <1>2, <1>3 DEF InDelivered

(* A message waits in the outbox.                                           *)
Put(o, fd, m) == [o EXCEPT ![fd] = Append(o[fd], m)]

(* Where the messages are then.                                             *)
LEMMA OutboxAccount ==
    ASSUME NEW o \in Outboxes, NEW fd \in Fds, NEW m \in Message, NEW n
    PROVE  /\ m.n # n => InOutbox(Put(o, fd, m), n) = InOutbox(o, n)
           /\ m.n = n /\ InOutbox(o, n) = {} => InOutbox(Put(o, fd, m), n) = {<<fd, Len(o[fd]) + 1>>}
<1> PICK p : p = Put(o, fd, m)
  OBVIOUS
<1>0. p = [o EXCEPT ![fd] = Append(o[fd], m)]
  BY DEF Put
<1> PICK k0 : k0 = Len(o[fd]) + 1
  OBVIOUS
<1>1. /\ Len(o[fd]) \in Nat /\ p[fd] \in Seq(Message) /\ Len(p[fd]) = k0
      /\ \A k \in 1..Len(o[fd]) : p[fd][k] = o[fd][k]
      /\ p[fd][k0] = m
      /\ \A f \in Fds : f # fd => p[f] = o[f]
  <2>1. o[fd] \in Seq(Message) /\ p[fd] = Append(o[fd], m) /\ \A f \in Fds : f # fd => p[f] = o[f]
    BY <1>0 DEF Outboxes
  <2> QED BY <2>1, AppendProperties, LenProperties
<1>2. p \in Outboxes
  <2>1. Append(o[fd], m) \in Seq(Message)
    BY AppendProperties DEF Outboxes
  <2> QED BY <2>1, <1>0 DEF Outboxes
<1>3. \A k : k \in 1..k0 <=> k \in 1..Len(o[fd]) \/ k = k0
  BY <1>1
<1>4. k0 \notin 1..Len(o[fd])
  BY <1>1
<1>5. \A f, k : <<f, k>> \in InOutbox(p, n) <=> <<f, k>> \in InOutbox(o, n) \/ (f = fd /\ k = k0 /\ m.n = n)
  <2> TAKE f, k
  <2>1. <<f, k>> \in InOutbox(p, n) <=> f \in Fds /\ k \in 1..Len(p[f]) /\ p[f][k].n = n
    BY <1>2, OutboxPlaces
  <2>2. <<f, k>> \in InOutbox(o, n) <=> f \in Fds /\ k \in 1..Len(o[f]) /\ o[f][k].n = n
    BY OutboxPlaces
  <2>3. CASE f = fd
    BY <2>1, <2>2, <2>3, <1>1, <1>3, <1>4
  <2>4. CASE f # fd
    BY <2>1, <2>2, <2>4, <1>1
  <2> QED BY <2>3, <2>4
<1>6. (\A w \in InOutbox(p, n) : w = <<w[1], w[2]>>) /\ (\A w \in InOutbox(o, n) : w = <<w[1], w[2]>>)
  BY <1>2, OutboxPlaces
<1>7. ASSUME m.n # n
      PROVE  InOutbox(p, n) = InOutbox(o, n)
  <2>1. \A f, k : <<f, k>> \in InOutbox(p, n) <=> <<f, k>> \in InOutbox(o, n)
    BY <1>5, <1>7
  <2>2. \A w : w \in InOutbox(p, n) => w \in InOutbox(o, n)
    BY <2>1, <1>6
  <2>3. \A w : w \in InOutbox(o, n) => w \in InOutbox(p, n)
    BY <2>1, <1>6
  <2> QED BY <2>2, <2>3
<1>8. ASSUME m.n = n, InOutbox(o, n) = {}
      PROVE  InOutbox(p, n) = {<<fd, k0>>}
  <2>1. \A f, k : <<f, k>> \in InOutbox(p, n) <=> f = fd /\ k = k0
    BY <1>5, <1>8
  <2>2. ASSUME NEW w, w \in InOutbox(p, n)
        PROVE  w = <<fd, k0>>
    <3>1. PICK f, k : f = w[1] /\ k = w[2]
      OBVIOUS
    <3>2. w = <<f, k>>
      BY <2>2, <3>1, <1>6
    <3>3. f = fd /\ k = k0
      BY <2>1, <2>2, <3>2
    <3> QED BY <3>2, <3>3
  <2>3. <<fd, k0>> \in InOutbox(p, n)
    BY <2>1
  <2> QED BY <2>2, <2>3
<1> QED BY <1>7, <1>8

(* Sending: the message is written, refused or waits.                       *)
LEMMA SendAccounts ==
    ASSUME ServerInv, AccountInv, send_written \/ send_failed \/ send_not_ready
    PROVE  AccountInv'
<1> PICK h : h = action_queue[1]
  OBVIOUS
<1>1. /\ action_queue # <<>> /\ Head(action_queue) = h /\ h.kind = "send"
      /\ h.fd \in Fds /\ h.msg \in Message /\ made' = made
      /\ Tail(action_queue) \in Seq(Queued) /\ Tail(action_queue) \o <<>> = Tail(action_queue)
  BY ActingFacts DEF send_written, send_failed, send_not_ready, Kinds
<1>2. /\ outbox \in [Fds -> Seq(Message)] /\ delivered \in Seq(Written) /\ refused \subseteq Message
  BY Typed DEF ServerInv
<1>3. PICK e \in Seq(Queued) : e = <<>> /\ \A k \in 1..Len(e) : e[k].kind # "send"
  <2>1. <<>> \in Seq(Queued) /\ 1..Len(<<>>) = {}
    BY EmptySeq
  <2> QED BY <2>1
<1>4. CASE send_written
  <2>1. /\ action_queue' = Tail(action_queue) /\ outbox' = outbox /\ refused' = refused
    BY <1>4 DEF send_written
  <2>2. PICK w \in Written : w.msg = h.msg /\ delivered' = Append(delivered, w)
    <3>1. PICK c \in Numbers : delivered' = Append(delivered, [msg |-> h.msg, conn |-> c])
      BY <1>4, <1>1 DEF send_written, Transport
    <3>2. c \in 1..MaxConns
      BY Typed, StatusIsSeq, ServerAssumption DEF ServerInv, Numbers
    <3>3. [msg |-> h.msg, conn |-> c] \in Written
      BY <3>2, <1>1 DEF Written
    <3> QED BY <3>1, <3>3
  <2>3. \A n : w.msg.n # n => InDelivered(delivered', n) = InDelivered(delivered, n)
    BY <2>2, <1>2, DeliveredAccount
  <2>4. \A n : w.msg.n = n /\ InDelivered(delivered, n) = {} => InDelivered(delivered', n) = {Len(delivered) + 1}
    BY <2>2, <1>2, DeliveredAccount
  <2>5. \A n \in Nat \ {0} : n # h.msg.n =>
                /\ Same(InOutbox(outbox, n), InOutbox(outbox', n))
                /\ Same(InDelivered(delivered, n), InDelivered(delivered', n))
                /\ Same(InRefused(refused, n), InRefused(refused', n))
    BY <2>1, <2>2, <2>3, SameSet
  <2>6. \A n \in Nat \ {0} :
                n = h.msg.n /\ InOutbox(outbox, n) = {}
                /\ InDelivered(delivered, n) = {} /\ InRefused(refused, n) = {}
                => OnePlace({}, InOutbox(outbox', n), InDelivered(delivered', n), InRefused(refused', n))
    BY <2>1, <2>2, <2>4, Zenon DEF OnePlace, One
  <2> QED BY <2>1, <2>5, <2>6, <1>1, <1>3, MessageMoves
<1>5. CASE send_failed
  <2>1. /\ action_queue' = Append(Tail(action_queue), Unregister(h.fd)) /\ outbox' = outbox
        /\ delivered' = delivered /\ refused' = refused \cup {h.msg}
    BY <1>5, <1>1 DEF send_failed
  <2>2. Unregister(h.fd) \in Queued /\ Unregister(h.fd).kind = "unregister"
    BY <1>1 DEF Unregister, Do, Queued, Kinds
  <2>3. PICK s \in Seq(Queued) : action_queue' = Tail(action_queue) \o s
                                 /\ \A k \in 1..Len(s) : s[k].kind # "send"
    <3>1. /\ <<Unregister(h.fd)>> \in Seq(Queued) /\ Len(<<Unregister(h.fd)>>) = 1
          /\ \A k \in 1..1 : <<Unregister(h.fd)>>[k] = Unregister(h.fd)
          /\ action_queue' = Tail(action_queue) \o <<Unregister(h.fd)>>
      BY <2>1, <2>2, <1>1, OneAction
    <3> QED BY <3>1, <2>2
  <2>4. \A n : n # h.msg.n => InRefused(refused', n) = InRefused(refused, n)
    BY <2>1 DEF InRefused
  <2>5. \A n : n = h.msg.n /\ InRefused(refused, n) = {} => InRefused(refused', n) = {h.msg}
    BY <2>1 DEF InRefused
  <2>6. \A n \in Nat \ {0} : n # h.msg.n =>
                /\ Same(InOutbox(outbox, n), InOutbox(outbox', n))
                /\ Same(InDelivered(delivered, n), InDelivered(delivered', n))
                /\ Same(InRefused(refused, n), InRefused(refused', n))
    BY <2>1, <2>4, SameSet
  <2>7. \A n \in Nat \ {0} :
                n = h.msg.n /\ InOutbox(outbox, n) = {}
                /\ InDelivered(delivered, n) = {} /\ InRefused(refused, n) = {}
                => OnePlace({}, InOutbox(outbox', n), InDelivered(delivered', n), InRefused(refused', n))
    BY <2>1, <2>5, Zenon DEF OnePlace, One
  <2> QED BY <2>3, <2>6, <2>7, <1>1, MessageMoves
<1>6. CASE send_not_ready
  <2>1. /\ action_queue' = Tail(action_queue) /\ delivered' = delivered /\ refused' = refused
        /\ outbox' = [outbox EXCEPT ![h.fd] = Append(outbox[h.fd], h.msg)]
    BY <1>6, <1>1 DEF send_not_ready
  <2>0. PICK o \in Outboxes, fd \in Fds, m \in Message :
           o = outbox /\ fd = h.fd /\ m = h.msg
    BY <1>1, <1>2 DEF Outboxes
  <2>6. PICK p : p = outbox'
    OBVIOUS
  <2>7. p = Put(o, fd, m)
    BY <2>0, <2>1, <2>6 DEF Put
  <2>8. \A n : /\ m.n # n => InOutbox(p, n) = InOutbox(o, n)
               /\ m.n = n /\ InOutbox(o, n) = {} => InOutbox(p, n) = {<<fd, Len(o[fd]) + 1>>}
    BY <2>7, OutboxAccount
  <2>2. \A n : h.msg.n # n => InOutbox(outbox', n) = InOutbox(outbox, n)
    BY <2>0, <2>6, <2>8
  <2>3. \A n : h.msg.n = n /\ InOutbox(outbox, n) = {} => InOutbox(outbox', n) = {<<h.fd, Len(outbox[h.fd]) + 1>>}
    BY <2>0, <2>6, <2>8
  <2>4. \A n \in Nat \ {0} : n # h.msg.n =>
                /\ Same(InOutbox(outbox, n), InOutbox(outbox', n))
                /\ Same(InDelivered(delivered, n), InDelivered(delivered', n))
                /\ Same(InRefused(refused, n), InRefused(refused', n))
    BY <2>1, <2>2, SameSet
  <2>5. \A n \in Nat \ {0} :
                n = h.msg.n /\ InOutbox(outbox, n) = {}
                /\ InDelivered(delivered, n) = {} /\ InRefused(refused, n) = {}
                => OnePlace({}, InOutbox(outbox', n), InDelivered(delivered', n), InRefused(refused', n))
    BY <2>1, <2>3, Zenon DEF OnePlace, One
  <2> QED BY <2>1, <2>4, <2>5, <1>1, <1>3, MessageMoves
<1> QED BY <1>4, <1>5, <1>6

(* What waited for a connection is taken from the outbox.                   *)
Take(o, fd) == [o EXCEPT ![fd] = <<>>]

(* Where the messages are then.                                             *)
LEMMA TakenAccount ==
    ASSUME NEW o \in Outboxes, NEW fd \in Fds, NEW n
    PROVE  /\ (\A k \in 1..Len(o[fd]) : o[fd][k].n # n) => InOutbox(Take(o, fd), n) = InOutbox(o, n)
           /\ \A k \in 1..Len(o[fd]) : o[fd][k].n = n => <<fd, k>> \in InOutbox(o, n)
           /\ \A w \in InOutbox(Take(o, fd), n) : w \in InOutbox(o, n) /\ \A k : w # <<fd, k>>
<1> PICK p : p = Take(o, fd)
  OBVIOUS
<1>1. p = [o EXCEPT ![fd] = <<>>]
  BY DEF Take
<1>2. p \in Outboxes /\ p[fd] = <<>> /\ \A f \in Fds : f # fd => p[f] = o[f]
  <2>1. <<>> \in Seq(Message)
    BY EmptySeq
  <2> QED BY <2>1, <1>1 DEF Outboxes
<1>3. 1..Len(p[fd]) = {}
  BY <1>2, EmptySeq
<1>4. \A f, k : <<f, k>> \in InOutbox(p, n) <=> f \in Fds /\ k \in 1..Len(p[f]) /\ p[f][k].n = n
  BY <1>2, OutboxPlaces
<1>5. \A f, k : <<f, k>> \in InOutbox(o, n) <=> f \in Fds /\ k \in 1..Len(o[f]) /\ o[f][k].n = n
  BY OutboxPlaces
<1>6. \A f, k : <<f, k>> \in InOutbox(p, n) <=> f # fd /\ <<f, k>> \in InOutbox(o, n)
  <2> TAKE f, k
  <2>1. CASE f = fd
    BY <2>1, <1>3, <1>4
  <2>2. CASE f # fd
    BY <2>2, <1>2, <1>4, <1>5
  <2> QED BY <2>1, <2>2
<1>7. (\A w \in InOutbox(p, n) : w = <<w[1], w[2]>>) /\ (\A w \in InOutbox(o, n) : w = <<w[1], w[2]>>)
  BY <1>2, OutboxPlaces
<1>8. ASSUME NEW w \in InOutbox(p, n)
      PROVE  w \in InOutbox(o, n) /\ \A k : w # <<fd, k>>
  <2>1. PICK f, k : f = w[1] /\ k = w[2]
    OBVIOUS
  <2>2. w = <<f, k>>
    BY <2>1, <1>7
  <2>3. f # fd /\ w \in InOutbox(o, n)
    BY <2>2, <1>6
  <2> QED BY <2>2, <2>3
<1>9. ASSUME \A k \in 1..Len(o[fd]) : o[fd][k].n # n
      PROVE  InOutbox(p, n) = InOutbox(o, n)
  <2>1. ASSUME NEW w \in InOutbox(o, n)
        PROVE  w \in InOutbox(p, n)
    <3>1. PICK f, k : f = w[1] /\ k = w[2]
      OBVIOUS
    <3>2. w = <<f, k>>
      BY <3>1, <1>7
    <3>3. f # fd
      BY <3>2, <1>5, <1>9
    <3> QED BY <3>2, <3>3, <1>6
  <2> QED BY <2>1, <1>8
<1>10. \A k \in 1..Len(o[fd]) : o[fd][k].n = n => <<fd, k>> \in InOutbox(o, n)
  BY <1>5
<1> QED BY <1>8, <1>9, <1>10

(* A connection is established: its messages go from the outbox to the      *)
(* queue.                                                                   *)
LEMMA EstablishedAccounts ==
    ASSUME ServerInv, AccountInv, NEW c, established(c)
    PROVE  AccountInv'
<1> PICK fd : fd = conns[c]
  OBVIOUS
<1>1. /\ Event(c) /\ action_queue' = action_queue \o [i \in DOMAIN outbox[fd] |-> Send(fd, outbox[fd][i])]
      /\ outbox' = [outbox EXCEPT ![fd] = <<>>] /\ made' = made
  BY DEF established
<1>2. fd \in Fds /\ delivered' = delivered /\ refused' = refused
  BY <1>1, EventFacts
<1>3. PICK o \in Outboxes : o = outbox
  BY Typed DEF ServerInv, Outboxes
<1>4. PICK b \in Seq(Message) : b = o[fd]
  BY <1>2 DEF Outboxes
<1>5. PICK s : s = [i \in DOMAIN b |-> Send(fd, b[i])]
  OBVIOUS
<1>6. /\ s \in Seq(Queued) /\ Len(s) = Len(b)
      /\ \A k \in 1..Len(s) : s[k].kind = "send" /\ s[k].msg = b[k]
  BY <1>2, <1>5, Outgoing
<1>7. action_queue' = action_queue \o s /\ outbox' = Take(o, fd) /\ action_queue \in Seq(Queued)
  BY <1>1, <1>3, <1>4, <1>5, StatusIsSeq DEF Take
<1> SUFFICES ASSUME NEW n \in Nat \ {0}
             PROVE  IF n <= made
                    THEN OnePlace(InQueue(action_queue', n), InOutbox(outbox', n),
                                  InDelivered(delivered, n), InRefused(refused, n))
                    ELSE NoPlace(InQueue(action_queue', n), InOutbox(outbox', n),
                                 InDelivered(delivered, n), InRefused(refused, n))
  BY <1>1, <1>2 DEF AccountInv
<1>8. IF n <= made
      THEN OnePlace(InQueue(action_queue, n), InOutbox(outbox, n),
                    InDelivered(delivered, n), InRefused(refused, n))
      ELSE NoPlace(InQueue(action_queue, n), InOutbox(outbox, n),
                   InDelivered(delivered, n), InRefused(refused, n))
  BY DEF AccountInv
<1>9. /\ (\A k \in 1..Len(b) : b[k].n # n) => InOutbox(outbox', n) = InOutbox(outbox, n)
      /\ \A k \in 1..Len(b) : b[k].n = n => <<fd, k>> \in InOutbox(outbox, n)
      /\ \A w \in InOutbox(outbox', n) : w \in InOutbox(outbox, n) /\ \A k : w # <<fd, k>>
  <2>1. /\ (\A k \in 1..Len(o[fd]) : o[fd][k].n # n) => InOutbox(Take(o, fd), n) = InOutbox(o, n)
        /\ \A k \in 1..Len(o[fd]) : o[fd][k].n = n => <<fd, k>> \in InOutbox(o, n)
        /\ \A w \in InOutbox(Take(o, fd), n) : w \in InOutbox(o, n) /\ \A k : w # <<fd, k>>
    BY <1>2, TakenAccount
  <2> QED BY <2>1, <1>3, <1>4, <1>7, Zenon
<1>10. CASE \A k \in 1..Len(b) : b[k].n # n
  <2>1. \A k \in 1..Len(s) : ~Has(s[k], n)
    BY <1>6, <1>10 DEF Has
  <2>2. InQueue(action_queue', n) = InQueue(action_queue, n)
    BY <2>1, <1>6, <1>7, QueueWithout
  <2>3. InOutbox(outbox', n) = InOutbox(outbox, n)
    BY <1>9, <1>10
  <2> QED BY <2>2, <2>3, <1>8
<1>11. ASSUME NEW k0 \in 1..Len(b), b[k0].n = n
       PROVE  IF n <= made
              THEN OnePlace(InQueue(action_queue', n), InOutbox(outbox', n),
                            InDelivered(delivered, n), InRefused(refused, n))
              ELSE NoPlace(InQueue(action_queue', n), InOutbox(outbox', n),
                           InDelivered(delivered, n), InRefused(refused, n))
  <2>1. <<fd, k0>> \in InOutbox(outbox, n)
    BY <1>9, <1>11
  <2>2. n <= made
    BY <2>1, <1>8 DEF NoPlace
  <2>3. /\ One(InOutbox(outbox, n)) /\ InQueue(action_queue, n) = {}
        /\ InDelivered(delivered, n) = {} /\ InRefused(refused, n) = {}
    BY <2>1, <2>2, <1>8 DEF OnePlace
  <2>4. \A w \in InOutbox(outbox, n) : w = <<fd, k0>>
    BY <2>1, <2>3 DEF One
  <2>5. \A k \in 1..Len(b) : b[k].n = n => k = k0
    <3> TAKE k \in 1..Len(b)
    <3> HAVE b[k].n = n
    <3>1. <<fd, k>> = <<fd, k0>>
      BY <2>4, <1>9
    <3> QED BY <3>1
  <2>6. InOutbox(outbox', n) = {}
    BY <2>4, <1>9
  <2>7. k0 \in 1..Len(s)
    BY <1>6
  <2>10. OnlyAt(s, n, k0)
    BY <2>5, <1>6, <1>11 DEF Has, OnlyAt
  <2>8. InQueue(action_queue', n) = {Len(action_queue) + k0}
    <3>1. s \in Seq(Queued) /\ action_queue \in Seq(Queued) /\ InQueue(action_queue, n) = {}
      BY <2>3, <1>6, <1>7
    <3>2. InQueue(action_queue \o s, n) = {Len(action_queue) + k0}
      BY <3>1, <2>7, <2>10, QueueWith
    <3> QED BY <3>2, <1>7
  <2>9. OnePlace(InQueue(action_queue', n), InOutbox(outbox', n),
                 InDelivered(delivered, n), InRefused(refused, n))
    BY <2>3, <2>6, <2>8, Zenon DEF OnePlace, One
  <2> QED BY <2>2, <2>9
<1> QED BY <1>10, <1>11

(* The processor answers or forwards a command.                             *)
LEMMA InputAccounts ==
    ASSUME ServerInv, AccountInv, NEW c,
           \/ \E dismissed \in BOOLEAN : input_answered(c, dismissed)
           \/ \E fd \in Fds : input_forward(c, fd)
    PROVE  AccountInv'
<1>0. /\ Event(c) /\ made < MaxMsgs /\ made' = made + 1 /\ outbox' = outbox
  BY DEF input_answered, input_forward
<1>1. c \in Numbers /\ conns[c] \in Fds /\ delivered' = delivered /\ refused' = refused
  BY <1>0, EventFacts
<1>2. made + 1 \in 1..MaxMsgs /\ action_queue \in Seq(Queued)
  BY <1>0, Typed, StatusIsSeq, ServerAssumption DEF ServerInv
<1>3. ASSUME NEW d \in 1..MaxConns, NEW f \in Fds
      PROVE  /\ Send(f, NewMessage(d)) \in Queued /\ Send(f, NewMessage(d)).kind = "send"
             /\ Send(f, NewMessage(d)).msg.n = made + 1
             /\ Register(f) \in Queued /\ Register(f).kind = "register"
             /\ Unregister(f) \in Queued /\ Unregister(f).kind = "unregister"
  <2>1. NewMessage(d) \in Message /\ NewMessage(d).n = made + 1
    BY <1>2 DEF NewMessage, Message
  <2> QED BY <2>1, DoTypes DEF Is
<1>4. ASSUME NEW dismissed \in BOOLEAN, input_answered(c, dismissed)
      PROVE  AccountInv'
  <2>1. c \in 1..MaxConns
    BY <1>1, Typed, StatusIsSeq, ServerAssumption DEF ServerInv, Numbers
  <2>2. PICK a \in Queued, b \in Queued :
           /\ a = Send(conns[c], NewMessage(c)) /\ b = Unregister(conns[c])
           /\ a.kind = "send" /\ a.msg.n = made + 1 /\ b.kind = "unregister"
    BY <2>1, <1>1, <1>3
  <2>3. action_queue' = (action_queue \o <<a>>) \o (IF dismissed THEN <<b>> ELSE <<>>)
    BY <2>2, <1>4 DEF input_answered
  <2>4. /\ <<a>> \in Seq(Queued) /\ Len(<<a>>) = 1 /\ \A k \in 1..1 : <<a>>[k] = a
    BY OneAction
  <2>5. CASE dismissed
    <3>1. /\ <<a, b>> \in Seq(Queued) /\ Len(<<a, b>>) = 2 /\ <<a, b>>[1] = a /\ <<a, b>>[2] = b
          /\ action_queue' = action_queue \o <<a, b>>
      BY <2>3, <2>5, <1>2, TwoActions
    <3>2. PICK s \in Seq(Queued) : /\ Len(s) = 2 /\ s[1] = a /\ s[2] = b
                                   /\ action_queue' = action_queue \o s
      BY <3>1, Zenon
    <3>3. 1 \in 1..Len(s) /\ \A k \in 1..Len(s) : s[k].kind = "send" => k = 1
      BY <3>2, <2>2
    <3> QED BY <3>2, <3>3, <2>2, <1>0, <1>1, MessageMade
  <2>6. CASE ~dismissed
    <3>1. action_queue \o <<a>> \in Seq(Queued)
      BY <2>4, <1>2, Behind
    <3>2. action_queue' = action_queue \o <<a>>
      BY <3>1, <2>3, <2>6, ConcatEmptySeq
    <3>3. PICK s \in Seq(Queued) : Len(s) = 1 /\ s[1] = a /\ action_queue' = action_queue \o s
      BY <3>2, <2>4
    <3>4. 1 \in 1..Len(s) /\ \A k \in 1..Len(s) : k = 1
      BY <3>3
    <3> QED BY <3>3, <3>4, <2>2, <1>0, <1>1, MessageMade
  <2> QED BY <2>5, <2>6
<1>5. ASSUME NEW fd \in Fds, input_forward(c, fd)
      PROVE  AccountInv'
  <2>1. Len(conns) + 1 \in 1..MaxConns
    BY <1>5, NewConnection DEF input_forward
  <2>2. PICK a \in Queued, b \in Queued :
           /\ a = Register(fd) /\ b = Send(fd, NewMessage(Len(conns) + 1))
           /\ b.kind = "send" /\ b.msg.n = made + 1 /\ a.kind = "register"
    BY <2>1, <1>3
  <2>3. action_queue' = action_queue \o <<a, b>>
    BY <2>2, <1>5 DEF input_forward
  <2>4. <<a, b>> \in Seq(Queued) /\ Len(<<a, b>>) = 2 /\ <<a, b>>[1] = a /\ <<a, b>>[2] = b
    BY TwoActions
  <2>5. PICK s \in Seq(Queued) : /\ Len(s) = 2 /\ s[1] = a /\ s[2] = b
                                 /\ action_queue' = action_queue \o s
    BY <2>3, <2>4, Zenon
  <2>6. 2 \in 1..Len(s) /\ \A k \in 1..Len(s) : s[k].kind = "send" => k = 2
    BY <2>5, <2>2
  <2> QED BY <2>5, <2>6, <2>2, <1>0, <1>1, MessageMade
<1> QED BY <1>4, <1>5

(* At first there is no message.                                            *)
LEMMA AccountInvInit == Init => AccountInv
<1> SUFFICES ASSUME Init, NEW n \in Nat \ {0}
             PROVE  /\ ~(n <= made)
                    /\ NoPlace(InQueue(action_queue, n), InOutbox(outbox, n),
                               InDelivered(delivered, n), InRefused(refused, n))
  BY DEF AccountInv
<1>1. action_queue = <<>> /\ delivered = <<>> /\ refused = {} /\ made = 0 /\ outbox = [fd \in Fds |-> <<>>]
  BY DEF Init
<1>2. DOMAIN <<>> = {} /\ Len(<<>>) = 0
  OBVIOUS
<1>3. InQueue(action_queue, n) = {} /\ InDelivered(delivered, n) = {} /\ InRefused(refused, n) = {}
  BY <1>1, <1>2 DEF InQueue, InDelivered, InRefused
<1>4. InOutbox(outbox, n) = {}
  BY <1>1, <1>2 DEF InOutbox
<1>5. ~(n <= made)
  BY <1>1
<1> QED BY <1>3, <1>4, <1>5 DEF NoPlace

(* Every step keeps the accounts.                                           *)
LEMMA AccountInvNext == ServerInv /\ AccountInv /\ [Next]_vars => AccountInv'
<1> SUFFICES ASSUME ServerInv, AccountInv, [Next]_vars PROVE AccountInv'
  OBVIOUS
<1>0. action_queue \in Seq(Queued)
  BY StatusIsSeq
<1>1. CASE UNCHANGED vars
  BY <1>1, QuietStep DEF vars
<1>2. ASSUME NEW a \in Queued, a.kind # "send", action_queue' = Append(action_queue, a),
             made' = made, outbox' = outbox, delivered' = delivered, refused' = refused
      PROVE  AccountInv'
  <2>1. /\ <<a>> \in Seq(Queued) /\ Len(<<a>>) = 1 /\ \A k \in 1..1 : <<a>>[k] = a
        /\ action_queue' = action_queue \o <<a>>
    BY <1>0, <1>2, OneAction
  <2>2. PICK s \in Seq(Queued) : /\ action_queue' = action_queue \o s
                                 /\ \A k \in 1..Len(s) : s[k].kind # "send"
    BY <2>1, <1>2
  <2> QED BY <2>2, <1>2, QuietGrowth
<1>3. CASE handle_events
  <2>1. ASSUME NEW fd \in Fds, accepted(fd) PROVE AccountInv'
    <3>1. Register(fd) \in Queued /\ Register(fd).kind = "register"
      BY DEF Register, Do, Queued, Kinds
    <3>2. /\ action_queue' = Append(action_queue, Register(fd)) /\ made' = made
          /\ outbox' = outbox /\ delivered' = delivered /\ refused' = refused
      BY <2>1 DEF accepted
    <3> QED BY <3>1, <3>2, <1>2
  <2>2. ASSUME NEW hup \in BOOLEAN, listener_error(hup) PROVE AccountInv'
    <3>1. /\ Do("unregister_listener", 0, NoMsg) \in Queued
          /\ Do("unregister_listener", 0, NoMsg).kind = "unregister_listener"
      BY DEF Do, Queued, Kinds
    <3>2. /\ action_queue' = Append(action_queue, Do("unregister_listener", 0, NoMsg)) /\ made' = made
          /\ outbox' = outbox /\ delivered' = delivered /\ refused' = refused
      BY <2>2 DEF listener_error
    <3> QED BY <3>1, <3>2, <1>2
  <2>3. ASSUME NEW c \in Numbers, terminated(c) \/ poll_error(c) PROVE AccountInv'
    <3>1. Event(c) /\ action_queue' = Append(action_queue, Unregister(conns[c]))
          /\ made' = made /\ outbox' = outbox
      BY <2>3 DEF terminated, poll_error
    <3>2. conns[c] \in Fds /\ delivered' = delivered /\ refused' = refused
      BY <3>1, EventFacts
    <3>3. Unregister(conns[c]) \in Queued /\ Unregister(conns[c]).kind = "unregister"
      BY <3>2 DEF Unregister, Do, Queued, Kinds
    <3> QED BY <3>1, <3>2, <3>3, <1>2
  <2>4. ASSUME NEW c \in Numbers, disconnected(c) PROVE AccountInv'
    BY <2>4, EventFacts, QuietStep DEF disconnected
  <2>5. CASE events_done
    BY <2>5, QuietStep DEF events_done
  <2> QED BY <1>3, <2>1, <2>2, <2>3, <2>4, <2>5, EstablishedAccounts, InputAccounts DEF handle_events
<1>4. CASE handle_actions
  <2>1. CASE action_register \/ action_unregister \/ unregister_unknown
    <3>1. /\ action_queue # <<>> /\ Head(action_queue).kind # "send"
          /\ action_queue' = Tail(action_queue) /\ made' = made
          /\ outbox' = outbox /\ delivered' = delivered /\ refused' = refused
      BY <2>1 DEF action_register, action_unregister, unregister_unknown, Acting
    <3>2. Head(action_queue) = action_queue[1]
      BY <1>0, <3>1
    <3> QED BY <3>1, <3>2, QuietPop
  <2>2. CASE action_unregister_listener
    <3>1. /\ action_queue # <<>> /\ Head(action_queue).kind # "send"
          /\ action_queue' = Tail(action_queue) /\ made' = made
          /\ outbox' = outbox /\ delivered' = delivered /\ refused' = refused
      BY <2>2 DEF action_unregister_listener
    <3>2. Head(action_queue) = action_queue[1]
      BY <1>0, <3>1
    <3> QED BY <3>1, <3>2, QuietPop
  <2>3. CASE actions_done
    BY <2>3, QuietStep DEF actions_done
  <2> QED BY <1>4, <2>1, <2>2, <2>3, SendAccounts DEF handle_actions
<1> QED BY <1>1, <1>3, <1>4 DEF Next

(* The outbox of a descriptor holds no more messages than were made: they   *)
(* are all different.                                                       *)
LEMMA OutboxBounded ==
    ASSUME ServerInv, AccountInv, NEW fd \in Fds
    PROVE  Len(outbox[fd]) \in Nat /\ Len(outbox[fd]) <= MaxMsgs
<1>1. PICK o \in Outboxes : o = outbox
  BY Typed DEF ServerInv, Outboxes
<1>2. PICK b \in Seq(Message) : b = o[fd]
  BY DEF Outboxes
<1>3. Len(b) \in Nat /\ \A i \in 1..Len(b) : b[i] \in Message
  BY LenProperties, ElementOfSeq
<1>4. \A i \in 1..Len(b) : b[i].n \in 1..MaxMsgs
  BY <1>3 DEF Message
<1>5. ASSUME NEW i \in 1..Len(b), NEW j \in 1..Len(b), b[i].n = b[j].n
      PROVE  i = j
  <2>1. PICK n \in 1..MaxMsgs : n = b[i].n
    BY <1>4
  <2>2. n \in Nat \ {0}
    BY ServerAssumption
  <2>3. <<fd, i>> \in InOutbox(o, n) /\ <<fd, j>> \in InOutbox(o, n)
    BY <2>1, <1>2, <1>5, OutboxPlaces
  <2>4. \/ OnePlace(InQueue(action_queue, n), InOutbox(o, n),
                    InDelivered(delivered, n), InRefused(refused, n))
        \/ NoPlace(InQueue(action_queue, n), InOutbox(o, n),
                   InDelivered(delivered, n), InRefused(refused, n))
    BY <2>2, <1>1 DEF AccountInv
  <2>5. One(InOutbox(o, n))
    BY <2>3, <2>4 DEF OnePlace, NoPlace
  <2>6. <<fd, i>> = <<fd, j>>
    BY <2>3, <2>5 DEF One
  <2> QED BY <2>6
<1>6. PICK f : f = [i \in 1..Len(b) |-> b[i].n]
  OBVIOUS
<1>7. f \in Injection(1..Len(b), 1..MaxMsgs)
  BY <1>4, <1>5, <1>6 DEF Injection, IsInjective
<1>8. /\ IsFiniteSet(1..MaxMsgs) /\ Cardinality(1..MaxMsgs) = MaxMsgs
      /\ Cardinality(1..Len(b)) = Len(b)
  <2>1. \A k \in Nat : IsFiniteSet(1..k) /\ Cardinality(1..k) = k
    <3> TAKE k \in Nat
    <3>1. IsFiniteSet(1..k) /\ Cardinality(1..k) = IF 1 > k THEN 0 ELSE k - 1 + 1
      BY FS_Interval
    <3> QED BY <3>1
  <2> QED BY <2>1, <1>3, ServerAssumption
<1>9. Cardinality(1..Len(b)) <= Cardinality(1..MaxMsgs)
  BY <1>7, <1>8, FS_Injection
<1> QED BY <1>1, <1>2, <1>3, <1>8, <1>9

(* One place in all is a sum of one.                                        *)
LEMMA OneInAll ==
    ASSUME NEW Q, NEW O, NEW D, NEW R, OnePlace(Q, O, D, R)
    PROVE  Cardinality(Q) + Cardinality(O) + Cardinality(D) + Cardinality(R) = 1
<1>1. Cardinality({}) = 0 /\ \A x : Cardinality({x}) = 1
  BY FS_EmptySet, FS_Singleton
<1>2. \A S : One(S) => Cardinality(S) = 1
  BY <1>1 DEF One
<1> QED BY <1>1, <1>2 DEF OnePlace

-----------------------------------------------------------------------------
(* The three invariants hold in every state.                                *)
THEOREM ServerInvariant == Spec => [](ServerInv /\ AccountInv /\ AddressInv)
<1>1. Init => ServerInv /\ AccountInv /\ AddressInv
  BY ServerInvInit, AccountInvInit, AddressInvInit
<1>2. ServerInv /\ AccountInv /\ AddressInv /\ [Next]_vars => (ServerInv /\ AccountInv /\ AddressInv)'
  BY ServerInvNext, AccountInvNext, AddressInvNext
<1> QED BY <1>1, <1>2, PTL DEF Spec

(* Every variable of the server ranges over the values the program can give *)
(* it (nsh/src/server.rs).                                                  *)
THEOREM ServerTypes == Spec => []TypeOK
<1>1. ServerInv /\ AddressInv => TypeOK
  BY DEF ServerInv, AddressInv, CoreTypes, TypeOK, Statuses, Queued, Kinds, Written
<1> QED BY <1>1, ServerInvariant, PTL

(* No message waits in the outbox of a connection that is established:      *)
(* handle_transport_event(Established) takes all of it, and                 *)
(* handle_error(WriteLogicError) adds to it only while the transport of     *)
(* that descriptor is not active.                                           *)
THEOREM OutboxIsDrained == Spec => []OutboxDrained
<1>1. ServerInv => OutboxDrained
  BY DEF ServerInv
<1> QED BY <1>1, ServerInvariant, PTL

(* A message the processor queues finds its own connection in the reactor:  *)
(* what unregisters a descriptor is behind the messages to it, and the      *)
(* descriptor of a connection that failed in this turn is not taken by      *)
(* another before it is unregistered. Only a message that has been in       *)
(* Server::outbox may find another connection, and it does find one.        *)
THEOREM SendsFind == Spec => []SendsFindTheirTransport
<1>1. ServerInv /\ AddressInv => SendsFindTheirTransport
  <2> SUFFICES ASSUME ServerInv, AddressInv, action_queue # <<>>, Head(action_queue).kind = "send"
               PROVE  \E c \in Transport(Head(action_queue).fd) :
                         c = Head(action_queue).msg.to \/ Head(action_queue).msg.n \in waited
    BY DEF SendsFindTheirTransport
  <2>1. action_queue \in Seq(Queued)
    BY StatusIsSeq
  <2>2. PICK a : a = action_queue[1] /\ a = Head(action_queue) /\ 1 \in 1..Len(action_queue)
    BY <2>1, EmptySeq
  <2>3. \A j \in 1..Len(action_queue) : ~(j < 1)
    BY <2>1
  <2>4. PICK c \in Numbers : c \in Transport(a.fd)
    BY <2>2, <2>3 DEF ServerInv, Aimed
  <2>5. ASSUME a.msg.n \notin waited PROVE c = a.msg.to
    <3>1. PICK d \in Numbers : d = a.msg.to /\ conns[d] = a.fd /\ status[d] # "gone"
      BY <2>2, <2>5 DEF AddressInv, QueueOwn
    <3>2. conns[c] = a.fd /\ status[c] # "gone"
      BY <2>4 DEF Transport
    <3> QED BY <3>1, <3>2 DEF ServerInv, Distinct
  <2> QED BY <2>2, <2>4, <2>5
<1> QED BY <1>1, ServerInvariant, PTL

(* Every message the processor makes is in one place: queued, waiting,      *)
(* written or refused. None is lost and none is doubled on its way between  *)
(* Server::action_queue and Server::outbox.                                 *)
THEOREM NoMessageLost == Spec => []MessagesAccounted
<1>1. ServerInv /\ AccountInv => MessagesAccounted
  <2> SUFFICES ASSUME ServerInv, AccountInv, NEW n \in 1..made
               PROVE  Cardinality({i \in DOMAIN action_queue :
                                    action_queue[i].kind = "send" /\ action_queue[i].msg.n = n})
                      + Cardinality({w \in Fds \X (1..MaxMsgs) :
                                    w[2] \in DOMAIN outbox[w[1]] /\ outbox[w[1]][w[2]].n = n})
                      + Cardinality({i \in DOMAIN delivered : delivered[i].msg.n = n})
                      + Cardinality({m \in refused : m.n = n}) = 1
    BY DEF MessagesAccounted
  <2>1. n \in Nat \ {0} /\ n <= made
    BY Typed, ServerAssumption DEF ServerInv
  <2>2. OnePlace(InQueue(action_queue, n), InOutbox(outbox, n),
                 InDelivered(delivered, n), InRefused(refused, n))
    BY <2>1 DEF AccountInv
  <2>3. {w \in Fds \X (1..MaxMsgs) : w[2] \in DOMAIN outbox[w[1]] /\ outbox[w[1]][w[2]].n = n}
        = InOutbox(outbox, n)
    <3>1. \A fd \in Fds : DOMAIN outbox[fd] \subseteq 1..MaxMsgs
      <4> TAKE fd \in Fds
      <4>1. outbox[fd] \in Seq(Message)
        BY Typed DEF ServerInv
      <4>2. DOMAIN outbox[fd] = 1..Len(outbox[fd]) /\ Len(outbox[fd]) <= MaxMsgs /\ Len(outbox[fd]) \in Nat
        BY <4>1, LenProperties, OutboxBounded
      <4> QED BY <4>2, ServerAssumption
    <3>2. 1..MaxMsgs \subseteq Nat \ {0}
      BY ServerAssumption
    <3> QED BY <3>1, <3>2 DEF InOutbox
  <2>4. Cardinality(InQueue(action_queue, n)) + Cardinality(InOutbox(outbox, n))
        + Cardinality(InDelivered(delivered, n)) + Cardinality(InRefused(refused, n)) = 1
    BY <2>2, OneInAll
  <2> QED BY <2>3, <2>4, Zenon DEF InQueue, InDelivered, InRefused
<1> QED BY <1>1, ServerInvariant, PTL
================================================================================
