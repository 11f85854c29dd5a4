---------------------------- MODULE Runtime_proofs ----------------------------
(***************************************************************************)
(* The registry of the reactor agrees with the poller, and events and       *)
(* actions reach the resources they are meant for, whatever descriptors     *)
(* the operating system reuses.                                             *)
(***************************************************************************)
EXTENDS Runtime, FiniteSetTheorems, TLAPS

(* The parts of the invariant are stated for any contents of the registry,  *)
(* so that a step can be taken apart into the change of the registry and    *)
(* the reaction of the service.                                             *)
In(ls, ts, o) == (\E a \in Addrs : ls[a] = o) \/ (\E fd \in Fds : ts[fd] = o)

ActionOf(m) == [kind : {"register", "send", "unregister"}, res : 1..Len(m)]

Types(m, g, ls, ts, q, c) ==
    /\ m \in Seq(Resource) /\ Len(m) <= MaxMade
    /\ g \subseteq 1..Len(m)
    /\ ls \in [Addrs -> 1..Len(m) \cup {None}]
    /\ ts \in [Fds -> 1..Len(m) \cup {None}]
    /\ q \in Seq(ActionOf(m)) /\ c \in Seq(1..Len(m))

(* Two open resources differ in their descriptors, and two open listeners   *)
(* in their addresses.                                                      *)
Distinct(m, g) ==
    \A o, p \in (1..Len(m)) \ g :
        \/ m[o].fd = m[p].fd
        \/ m[o].kind = "listener" /\ m[p].kind = "listener" /\ m[o].id = m[p].id
        => o = p

(* What is in the reactor is open, and where its id says.                   *)
Placed(m, g, ls, ts) ==
    /\ \A a \in Addrs : ls[a] # None =>
          m[ls[a]].kind = "listener" /\ m[ls[a]].id = a /\ ls[a] \notin g
    /\ \A fd \in Fds : ts[fd] # None =>
          m[ts[fd]].kind = "transport" /\ m[ts[fd]].id = fd /\ ts[fd] \notin g

(* What is to be registered is open and not in the reactor, and is to be    *)
(* registered once.                                                         *)
Waiting(g, ls, ts, q, c) ==
    /\ \A i \in 1..Len(q) : q[i].kind = "register" =>
          /\ q[i].res \notin g /\ ~In(ls, ts, q[i].res)
          /\ \A j \in 1..Len(q) : q[j].kind = "register" /\ q[j].res = q[i].res => i = j
          /\ \A j \in 1..Len(c) : c[j] # q[i].res
    /\ \A i \in 1..Len(c) :
          /\ c[i] \notin g /\ ~In(ls, ts, c[i])
          /\ \A j \in 1..Len(c) : c[j] = c[i] => i = j

Core(m, g, ls, ts, q, c) ==
    /\ Types(m, g, ls, ts, q, c)
    /\ Distinct(m, g)
    /\ Placed(m, g, ls, ts)
    /\ Waiting(g, ls, ts, q, c)

(* An action finds the resource it is meant for or none: any other with its *)
(* id will be registered only after it.                                     *)
SameId(m, o, p) == m[o].kind = m[p].kind /\ m[o].id = m[p].id

Aimed(m, ls, ts, q) ==
    \A i \in 1..Len(q) : q[i].kind # "register" =>
        \A p \in 1..Len(m) :
            /\ SameId(m, q[i].res, p)
            /\ In(ls, ts, p) \/ \E j \in 1..Len(q) :
                                   j < i /\ q[j].kind = "register" /\ q[j].res = p
            => p = q[i].res

(* The poller watches what is in the reactor, and what has just hung up.    *)
Watched(m, ls, ts, pl, uq) ==
    /\ \A fd \in Fds :
          fd \in pl <=> fd \in uq \/ \E o \in 1..Len(m) : In(ls, ts, o) /\ m[o].fd = fd
    /\ \A o \in 1..Len(m) : In(ls, ts, o) => m[o].fd \notin uq

(* The indexes lead from a descriptor to what is in the reactor.            *)
Index(m, ls, ts, lm, tm) ==
    /\ \A a \in Addrs : ls[a] # None => lm[m[ls[a]].fd] = a
    /\ \A fd \in Fds : ts[fd] # None => tm[fd] = fd

RegistryInv ==
    /\ Core(made, gone, listeners, transports, actions, ctl)
    /\ Watched(made, listeners, transports, poller, unregister_queue)
    /\ Index(made, listeners, transports, listener_map, transport_map)
    /\ ~shared => ctl = <<>> /\ Aimed(made, listeners, transports, actions) /\ strays = {}
    /\ phase # "events" => unregister_queue = {}
    /\ shared \in OtherThreads
    /\ listener_map \in [Fds -> Addrs \cup {None}]
    /\ transport_map \in [Fds -> Fds \cup {None}]
    /\ poller \subseteq Fds /\ unregister_queue \subseteq Fds
    /\ events \in Seq([fd : Fds, res : {"io", "hup", "err"}])
    /\ phase \in {"poll", "events", "ctl", "actions"}
    /\ strays \subseteq Numbers \X Numbers

(* As long as no listener hangs up, its index has no entry left behind, and *)
(* every event is of a resource in the reactor.                             *)
NoneLeft(m, ls, lm) ==
    \A fd \in Fds : lm[fd] # None => ls[lm[fd]] # None /\ m[ls[lm[fd]]].fd = fd

EventsOwned(m, ls, ts, evs) ==
    /\ \A i, j \in 1..Len(evs) : evs[i].fd = evs[j].fd => i = j
    /\ \A i \in 1..Len(evs) : \E o \in 1..Len(m) :
          /\ In(ls, ts, o) /\ m[o].fd = evs[i].fd
          /\ evs[i].res = "hup" => m[o].kind = "transport"

EventInv ==
    /\ NoneLeft(made, listeners, listener_map)
    /\ phase = "events" => EventsOwned(made, listeners, transports, events)

-----------------------------------------------------------------------------
(* Resources and actions.                                                   *)

(* A listener's id is an address, a transport's its descriptor.             *)
LEMMA ResourceTypes ==
    ASSUME NEW r \in Resource
    PROVE  /\ r.fd \in Fds /\ r.kind \in {"listener", "transport"}
           /\ r.kind = "listener" => r.id \in Addrs
           /\ r.kind = "transport" => r.id = r.fd
  BY DEF Resource

(* The same for the resources made so far.                                  *)
LEMMA MadeTypes ==
    ASSUME NEW m \in Seq(Resource), NEW o \in 1..Len(m)
    PROVE  /\ m[o] \in Resource /\ m[o].fd \in Fds /\ m[o].kind \in {"listener", "transport"}
           /\ m[o].kind = "listener" => m[o].id \in Addrs
           /\ m[o].kind = "transport" => m[o].id = m[o].fd
           /\ o # None
  <1>1. m[o] \in Resource
    OBVIOUS
  <1>2. o # None
    BY RuntimeAssumption
  <1> QED
    BY <1>1, <1>2, ResourceTypes

(* The elements of the tail of a queue.                                     *)
LEMMA Behind ==
    ASSUME NEW S, NEW q \in Seq(S), q # <<>>
    PROVE  /\ Head(q) = q[1] /\ Head(q) \in S /\ 1 \in 1..Len(q)
           /\ Tail(q) \in Seq(S) /\ Len(Tail(q)) = Len(q) - 1
           /\ \A i \in 1..Len(Tail(q)) : i + 1 \in 1..Len(q) /\ Tail(q)[i] = q[i + 1]
  OBVIOUS

(* The elements of a queue with one more.                                   *)
LEMMA Appended ==
    ASSUME NEW S, NEW q \in Seq(S), NEW x \in S
    PROVE  /\ Append(q, x) \in Seq(S) /\ Len(Append(q, x)) = Len(q) + 1
           /\ Len(q) + 1 \in 1..Len(Append(q, x)) /\ Append(q, x)[Len(q) + 1] = x
           /\ \A i \in 1..Len(q) : i \in 1..Len(Append(q, x)) /\ Append(q, x)[i] = q[i]
           /\ \A i \in 1..Len(Append(q, x)) : i \in 1..Len(q) \/ i = Len(q) + 1
           /\ Len(q) + 1 \notin 1..Len(q)
  OBVIOUS

(* A sequence over a set is one over every larger set.                      *)
LEMMA SeqOfMore ==
    ASSUME NEW S, NEW T, S \subseteq T, NEW q \in Seq(S)
    PROVE  q \in Seq(T)
  OBVIOUS

(* What is in the reactor is open.                                          *)
LEMMA InIsOpen ==
    ASSUME NEW m, NEW g, NEW ls, NEW ts, NEW q, NEW c, Core(m, g, ls, ts, q, c),
           NEW o \in 1..Len(m), In(ls, ts, o)
    PROVE  o \notin g
  BY RuntimeAssumption DEF Core, Placed, In

-----------------------------------------------------------------------------
(* How the parts of a step change the core of the registry. *)

(* A resource whose descriptor, and address, no open one has.               *)
Free(m, g, n) ==
    \A o \in (1..Len(m)) \ g :
        /\ m[o].fd # n.fd
        /\ n.kind = "listener" /\ m[o].kind = "listener" => m[o].id # n.id

(* More resources, none of the new ones in the reactor.                     *)
Grown(m, n, ls, ts) ==
    /\ Len(m) <= Len(n)
    /\ \A o \in 1..Len(m) : o \in 1..Len(n) /\ n[o] = m[o]
    /\ \A o \in 1..Len(n) : In(ls, ts, o) => o \in 1..Len(m)

(* A resource is made whose descriptor, and address, is free.               *)
LEMMA Make ==
    ASSUME NEW m, NEW g, NEW ls, NEW ts, NEW q, NEW c, Core(m, g, ls, ts, q, c),
           NEW n \in Resource, Free(m, g, n), Len(m) < MaxMade
    PROVE  /\ Core(Append(m, n), g, ls, ts, q, c)
           /\ Grown(m, Append(m, n), ls, ts)
           /\ Len(m) + 1 \in 1..Len(Append(m, n))
           /\ Len(m) + 1 \notin g /\ ~In(ls, ts, Len(m) + 1)
           /\ \A i \in 1..Len(q) : q[i].res # Len(m) + 1
           /\ \A i \in 1..Len(c) : c[i] # Len(m) + 1
  <1> USE RuntimeAssumption
  <1>1. /\ m \in Seq(Resource) /\ Len(m) \in Nat /\ g \subseteq 1..Len(m)
        /\ ls \in [Addrs -> 1..Len(m) \cup {None}] /\ ts \in [Fds -> 1..Len(m) \cup {None}]
        /\ q \in Seq(ActionOf(m)) /\ c \in Seq(1..Len(m))
    BY DEF Core, Types
  <1>2. PICK k : k = Len(m) + 1
    OBVIOUS
  <1>3. k \in Nat /\ k # None /\ k \notin 1..Len(m)
    BY <1>1, <1>2
  <1>4. PICK m2 : m2 = Append(m, n)
    OBVIOUS
  <1>5. /\ m2 \in Seq(Resource) /\ Len(m2) = k /\ k \in 1..Len(m2) /\ m2[k] = n
        /\ \A o \in 1..Len(m) : o \in 1..Len(m2) /\ m2[o] = m[o]
        /\ \A o \in 1..Len(m2) : o \in 1..Len(m) \/ o = k
    BY <1>1, <1>2, <1>4, Appended
  <1>6. \A a \in Addrs : ls[a] \in 1..Len(m) \cup {None}
    BY <1>1
  <1>7. \A fd \in Fds : ts[fd] \in 1..Len(m) \cup {None}
    BY <1>1
  <1>8. ~In(ls, ts, k) /\ k \notin g
    BY <1>1, <1>3, <1>6, <1>7 DEF In
  <1>9. /\ \A i \in 1..Len(q) : q[i].res # k
        /\ \A i \in 1..Len(c) : c[i] # k
    <2>1. \A i \in 1..Len(q) : q[i] \in ActionOf(m)
      BY <1>1
    <2>2. \A i \in 1..Len(c) : c[i] \in 1..Len(m)
      BY <1>1
    <2> QED
      BY <1>3, <2>1, <2>2 DEF ActionOf
  <1>10. Grown(m, m2, ls, ts)
    BY <1>1, <1>2, <1>5, <1>8 DEF Grown
  <1>11. Types(m2, g, ls, ts, q, c)
    <2>1. 1..Len(m) \subseteq 1..Len(m2)
      BY <1>5
    <2>2. ActionOf(m) \subseteq ActionOf(m2)
      BY <2>1 DEF ActionOf
    <2>3. q \in Seq(ActionOf(m2)) /\ c \in Seq(1..Len(m2))
      BY <1>1, <2>1, <2>2, SeqOfMore
    <2>4. Len(m2) <= MaxMade
      BY <1>1, <1>2, <1>5
    <2> QED
      BY <1>1, <1>5, <2>1, <2>3, <2>4 DEF Types
  <1>12. Distinct(m2, g)
    <2>1. ASSUME NEW o \in (1..Len(m)) \ g
          PROVE  /\ m2[o].fd # m2[k].fd
                 /\ ~(m2[o].kind = "listener" /\ m2[k].kind = "listener" /\ m2[o].id = m2[k].id)
      BY <1>5 DEF Free
    <2>2. Distinct(m, g)
      BY DEF Core
    <2> SUFFICES ASSUME NEW o \in (1..Len(m2)) \ g, NEW p \in (1..Len(m2)) \ g,
                        \/ m2[o].fd = m2[p].fd
                        \/ m2[o].kind = "listener" /\ m2[p].kind = "listener" /\ m2[o].id = m2[p].id
                 PROVE  o = p
      BY DEF Distinct
    <2>3. CASE o \in 1..Len(m) /\ p \in 1..Len(m)
      BY <1>5, <2>2, <2>3 DEF Distinct
    <2>4. CASE o = k \/ p = k
      BY <1>5, <2>1, <2>4
    <2> QED
      BY <1>5, <2>3, <2>4
  <1>13. Placed(m2, g, ls, ts)
    BY <1>5, <1>6, <1>7 DEF Core, Placed
  <1>14. Waiting(g, ls, ts, q, c)
    BY DEF Core
  <1> QED
    BY <1>2, <1>4, <1>5, <1>8, <1>9, <1>10, <1>11, <1>12, <1>13, <1>14 DEF Core

(* One more action, new if it is a registration.                            *)
LEMMA QueueAction ==
    ASSUME NEW m, NEW g, NEW ls, NEW ts, NEW q, NEW c, Core(m, g, ls, ts, q, c),
           NEW a \in ActionOf(m),
           a.kind = "register" =>
              /\ a.res \notin g /\ ~In(ls, ts, a.res)
              /\ \A i \in 1..Len(q) : q[i].res # a.res
              /\ \A i \in 1..Len(c) : c[i] # a.res
    PROVE  Core(m, g, ls, ts, Append(q, a), c)
  <1>1. q \in Seq(ActionOf(m))
    BY DEF Core, Types
  <1>2. PICK q2, k : q2 = Append(q, a) /\ k = Len(q) + 1
    OBVIOUS
  <1>3. /\ q2 \in Seq(ActionOf(m)) /\ k \in 1..Len(q2) /\ q2[k] = a
        /\ \A i \in 1..Len(q) : i \in 1..Len(q2) /\ q2[i] = q[i]
        /\ \A i \in 1..Len(q2) : i \in 1..Len(q) \/ i = k
    BY <1>1, <1>2, Appended
  <1>4. Waiting(g, ls, ts, q, c)
    BY DEF Core
  <1>5. \A i \in 1..Len(q2) : q2[i].kind = "register" =>
          /\ q2[i].res \notin g /\ ~In(ls, ts, q2[i].res)
          /\ \A j \in 1..Len(q2) : q2[j].kind = "register" /\ q2[j].res = q2[i].res => i = j
          /\ \A j \in 1..Len(c) : c[j] # q2[i].res
    <2>1. ASSUME NEW i \in 1..Len(q), q2[i].kind = "register"
          PROVE  /\ q2[i].res \notin g /\ ~In(ls, ts, q2[i].res)
                 /\ \A j \in 1..Len(q2) : q2[j].kind = "register" /\ q2[j].res = q2[i].res => i = j
                 /\ \A j \in 1..Len(c) : c[j] # q2[i].res
      BY <1>3, <1>4, <2>1 DEF Waiting
    <2>2. ASSUME a.kind = "register"
          PROVE  /\ a.res \notin g /\ ~In(ls, ts, a.res)
                 /\ \A j \in 1..Len(q2) : q2[j].kind = "register" /\ q2[j].res = a.res => k = j
                 /\ \A j \in 1..Len(c) : c[j] # a.res
      BY <1>3, <2>2
    <2> QED
      BY <1>3, <2>1, <2>2
  <1>6. Waiting(g, ls, ts, q2, c)
    BY <1>4, <1>5 DEF Waiting
  <1> QED
    BY <1>2, <1>3, <1>6 DEF Core, Types

(* One more registration in the control channel.                            *)
LEMMA QueueCtl ==
    ASSUME NEW m, NEW g, NEW ls, NEW ts, NEW q, NEW c, Core(m, g, ls, ts, q, c),
           NEW o \in 1..Len(m), o \notin g, ~In(ls, ts, o),
           \A i \in 1..Len(q) : q[i].res # o,
           \A i \in 1..Len(c) : c[i] # o
    PROVE  Core(m, g, ls, ts, q, Append(c, o))
  <1>1. c \in Seq(1..Len(m))
    BY DEF Core, Types
  <1>2. PICK c2, k : c2 = Append(c, o) /\ k = Len(c) + 1
    OBVIOUS
  <1>3. /\ c2 \in Seq(1..Len(m)) /\ k \in 1..Len(c2) /\ c2[k] = o
        /\ \A i \in 1..Len(c) : i \in 1..Len(c2) /\ c2[i] = c[i]
        /\ \A i \in 1..Len(c2) : i \in 1..Len(c) \/ i = k
    BY <1>1, <1>2, Appended
  <1>4. Waiting(g, ls, ts, q, c)
    BY DEF Core
  <1>5. \A i \in 1..Len(q) : q[i].kind = "register" =>
          \A j \in 1..Len(c2) : c2[j] # q[i].res
    BY <1>3, <1>4 DEF Waiting
  <1>6. \A i \in 1..Len(c2) :
          /\ c2[i] \notin g /\ ~In(ls, ts, c2[i])
          /\ \A j \in 1..Len(c2) : c2[j] = c2[i] => i = j
    BY <1>3, <1>4, SMTT(30) DEF Waiting
  <1>7. Waiting(g, ls, ts, q, c2)
    BY <1>4, <1>5, <1>6 DEF Waiting
  <1> QED
    BY <1>2, <1>3, <1>7 DEF Core, Types

(* The first action leaves the queue; if it was a registration nothing else *)
(* waits to register its resource.                                          *)
LEMMA DropAction ==
    ASSUME NEW m, NEW g, NEW ls, NEW ts, NEW q, NEW c, Core(m, g, ls, ts, q, c), q # <<>>
    PROVE  /\ Core(m, g, ls, ts, Tail(q), c)
           /\ Head(q) \in ActionOf(m)
           /\ Head(q).kind = "register" =>
                 /\ Head(q).res \notin g /\ ~In(ls, ts, Head(q).res)
                 /\ \A i \in 1..Len(Tail(q)) :
                       Tail(q)[i].kind = "register" => Tail(q)[i].res # Head(q).res
                 /\ \A i \in 1..Len(c) : c[i] # Head(q).res
  <1>1. q \in Seq(ActionOf(m))
    BY DEF Core, Types
  <1>2. PICK t : t = Tail(q)
    OBVIOUS
  <1>3. /\ Head(q) = q[1] /\ Head(q) \in ActionOf(m) /\ 1 \in 1..Len(q)
        /\ t \in Seq(ActionOf(m))
        /\ \A i \in 1..Len(t) : i + 1 \in 1..Len(q) /\ t[i] = q[i + 1]
    BY <1>1, <1>2, Behind
  <1>4. \A i, j \in 1..Len(t) : i + 1 # 1 /\ (i + 1 = j + 1 => i = j)
    BY <1>3
  <1>5. Waiting(g, ls, ts, q, c)
    BY DEF Core
  <1>6. Waiting(g, ls, ts, t, c)
    <2>1. ASSUME NEW i \in 1..Len(t), t[i].kind = "register"
          PROVE  /\ t[i].res \notin g /\ ~In(ls, ts, t[i].res)
                 /\ \A j \in 1..Len(t) : t[j].kind = "register" /\ t[j].res = t[i].res => i = j
                 /\ \A j \in 1..Len(c) : c[j] # t[i].res
      <3>1. i + 1 \in 1..Len(q) /\ t[i] = q[i + 1]
        BY <1>3
      <3>2. \A j \in 1..Len(t) : t[j].kind = "register" /\ t[j].res = t[i].res => i + 1 = j + 1
        BY <1>3, <1>5, <2>1, <3>1 DEF Waiting
      <3> QED
        BY <1>4, <1>5, <2>1, <3>1, <3>2 DEF Waiting
    <2> QED
      BY <1>5, <2>1 DEF Waiting
  <1>7. Head(q).kind = "register" =>
          /\ Head(q).res \notin g /\ ~In(ls, ts, Head(q).res)
          /\ \A i \in 1..Len(t) : t[i].kind = "register" => t[i].res # Head(q).res
          /\ \A i \in 1..Len(c) : c[i] # Head(q).res
    BY <1>3, <1>4, <1>5, SMTT(30) DEF Waiting
  <1> QED
    BY <1>2, <1>3, <1>6, <1>7 DEF Core, Types

(* The same for the control channel.                                        *)
LEMMA DropCtl ==
    ASSUME NEW m, NEW g, NEW ls, NEW ts, NEW q, NEW c, Core(m, g, ls, ts, q, c), c # <<>>
    PROVE  /\ Core(m, g, ls, ts, q, Tail(c))
           /\ Head(c) \in 1..Len(m) /\ Head(c) \notin g /\ ~In(ls, ts, Head(c))
           /\ \A i \in 1..Len(q) : q[i].kind = "register" => q[i].res # Head(c)
           /\ \A i \in 1..Len(Tail(c)) : Tail(c)[i] # Head(c)
  <1>1. c \in Seq(1..Len(m))
    BY DEF Core, Types
  <1>2. PICK t, S : t = Tail(c) /\ S = 1..Len(m)
    OBVIOUS
  <1>3. /\ Head(c) = c[1] /\ Head(c) \in S /\ 1 \in 1..Len(c)
        /\ t \in Seq(S)
        /\ \A i \in 1..Len(t) : i + 1 \in 1..Len(c) /\ t[i] = c[i + 1]
    <2>1. c \in Seq(S)
      BY <1>1, <1>2
    <2> QED
      BY <1>2, <2>1, Behind
  <1>4. \A i, j \in 1..Len(t) : i + 1 # 1 /\ (i + 1 = j + 1 => i = j)
    BY <1>3
  <1>5. Waiting(g, ls, ts, q, c)
    BY DEF Core
  <1>6. Waiting(g, ls, ts, q, t)
    BY <1>3, <1>4, <1>5 DEF Waiting
  <1>7. /\ Head(c) \notin g /\ ~In(ls, ts, Head(c))
        /\ \A i \in 1..Len(q) : q[i].kind = "register" => q[i].res # Head(c)
        /\ \A i \in 1..Len(t) : t[i] # Head(c)
    BY <1>3, <1>4, <1>5 DEF Waiting
  <1> QED
    BY <1>2, <1>3, <1>6, <1>7 DEF Core, Types

(* The registries with a resource put into the place of its id.             *)
PutL(m, ls, o) == IF m[o].kind = "listener" THEN [ls EXCEPT ![m[o].id] = o] ELSE ls
PutT(m, ts, o) == IF m[o].kind = "listener" THEN ts ELSE [ts EXCEPT ![m[o].id] = o]

(* That place is empty: no open listener has the address, no open transport *)
(* the descriptor.                                                          *)
LEMMA Put ==
    ASSUME NEW m, NEW g, NEW ls, NEW ts, NEW q, NEW c, Core(m, g, ls, ts, q, c),
           NEW o \in 1..Len(m), o \notin g, ~In(ls, ts, o),
           \A i \in 1..Len(q) : q[i].kind = "register" => q[i].res # o,
           \A i \in 1..Len(c) : c[i] # o
    PROVE  /\ Core(m, g, PutL(m, ls, o), PutT(m, ts, o), q, c)
           /\ \A p : In(PutL(m, ls, o), PutT(m, ts, o), p) => In(ls, ts, p) \/ p = o
           /\ \A p \in 1..Len(m) : In(ls, ts, p) \/ p = o =>
                                      In(PutL(m, ls, o), PutT(m, ts, o), p)
           /\ m[o].kind = "listener" => ls[m[o].id] = None
  <1> USE RuntimeAssumption
  <1>1. /\ m \in Seq(Resource) /\ g \subseteq 1..Len(m)
        /\ ls \in [Addrs -> 1..Len(m) \cup {None}] /\ ts \in [Fds -> 1..Len(m) \cup {None}]
    BY DEF Core, Types
  <1>2. /\ m[o].fd \in Fds /\ m[o].kind \in {"listener", "transport"}
        /\ m[o].kind = "listener" => m[o].id \in Addrs
        /\ m[o].kind = "transport" => m[o].id = m[o].fd
    BY <1>1, MadeTypes
  <1>3. PICK l2, t2 : l2 = PutL(m, ls, o) /\ t2 = PutT(m, ts, o)
    OBVIOUS
  <1>4. Distinct(m, g) /\ Placed(m, g, ls, ts) /\ Waiting(g, ls, ts, q, c)
    BY DEF Core
  <1>5. ASSUME m[o].kind = "listener" PROVE ls[m[o].id] = None
    <2>1. SUFFICES ASSUME ls[m[o].id] # None PROVE FALSE
      OBVIOUS
    <2>2. PICK p \in 1..Len(m) : p = ls[m[o].id]
      BY <1>1, <1>2, <1>5, <2>1
    <2>3. m[p].kind = "listener" /\ m[p].id = m[o].id /\ p \notin g
      BY <1>2, <1>4, <1>5, <2>1, <2>2 DEF Placed
    <2>4. p = o
      BY <1>4, <1>5, <2>2, <2>3 DEF Distinct
    <2> QED
      BY <1>2, <1>5, <2>2, <2>4 DEF In
  <1>6. ASSUME m[o].kind = "transport" PROVE ts[m[o].id] = None
    <2>1. SUFFICES ASSUME ts[m[o].id] # None PROVE FALSE
      OBVIOUS
    <2>2. PICK p \in 1..Len(m) : p = ts[m[o].id]
      BY <1>1, <1>2, <1>6, <2>1
    <2>3. m[p].kind = "transport" /\ m[p].id = m[o].fd /\ p \notin g
      BY <1>2, <1>4, <1>6, <2>1, <2>2 DEF Placed
    <2>4. m[p].fd = m[o].fd
      BY <1>1, <2>2, <2>3, MadeTypes
    <2>5. p = o
      BY <1>4, <2>2, <2>3, <2>4 DEF Distinct
    <2> QED
      BY <1>2, <1>6, <2>2, <2>5 DEF In
  <1>7. CASE m[o].kind = "listener"
    <2>1. l2 = [ls EXCEPT ![m[o].id] = o] /\ t2 = ts
      BY <1>3, <1>7 DEF PutL, PutT
    <2>2. /\ l2 \in [Addrs -> 1..Len(m) \cup {None}] /\ t2 \in [Fds -> 1..Len(m) \cup {None}]
          /\ l2[m[o].id] = o /\ \A a \in Addrs : a # m[o].id => l2[a] = ls[a]
      BY <1>1, <1>2, <1>7, <2>1
    <2>3. /\ \A p : In(l2, t2, p) => In(ls, ts, p) \/ p = o
          /\ \A p \in 1..Len(m) : In(ls, ts, p) \/ p = o => In(l2, t2, p)
      <3>1. \A p \in 1..Len(m) : p # None
        BY <1>1, MadeTypes
      <3> QED
        BY <1>2, <1>5, <1>7, <2>1, <2>2, <3>1 DEF In
    <2>4. Placed(m, g, l2, t2)
      BY <1>4, <1>7, <2>1, <2>2 DEF Placed
    <2>5. Waiting(g, l2, t2, q, c)
      BY <1>4, <2>3 DEF Waiting
    <2> QED
      BY <1>3, <1>5, <2>2, <2>3, <2>4, <2>5 DEF Core, Types
  <1>8. CASE m[o].kind = "transport"
    <2>1. l2 = ls /\ t2 = [ts EXCEPT ![m[o].id] = o]
      BY <1>3, <1>8 DEF PutL, PutT
    <2>2. /\ l2 \in [Addrs -> 1..Len(m) \cup {None}] /\ t2 \in [Fds -> 1..Len(m) \cup {None}]
          /\ t2[m[o].id] = o /\ \A fd \in Fds : fd # m[o].id => t2[fd] = ts[fd]
      BY <1>1, <1>2, <1>8, <2>1
    <2>3. /\ \A p : In(l2, t2, p) => In(ls, ts, p) \/ p = o
          /\ \A p \in 1..Len(m) : In(ls, ts, p) \/ p = o => In(l2, t2, p)
      <3>1. \A p \in 1..Len(m) : p # None
        BY <1>1, MadeTypes
      <3> QED
        BY <1>2, <1>6, <1>8, <2>1, <2>2, <3>1 DEF In
    <2>4. Placed(m, g, l2, t2)
      BY <1>4, <1>8, <2>1, <2>2 DEF Placed
    <2>5. Waiting(g, l2, t2, q, c)
      BY <1>4, <2>3 DEF Waiting
    <2> QED
      BY <1>3, <1>5, <1>8, <2>2, <2>3, <2>4, <2>5 DEF Core, Types
  <1> QED
    BY <1>2, <1>5, <1>7, <1>8

(* A registry without a resource.                                           *)
WithoutL(ls, o) == [a \in Addrs |-> IF ls[a] = o THEN None ELSE ls[a]]
WithoutT(ts, o) == [fd \in Fds |-> IF ts[fd] = o THEN None ELSE ts[fd]]

(* A resource leaves the reactor and is closed.                             *)
LEMMA Remove ==
    ASSUME NEW m, NEW g, NEW ls, NEW ts, NEW q, NEW c, Core(m, g, ls, ts, q, c),
           NEW o \in 1..Len(m), In(ls, ts, o)
    PROVE  /\ Core(m, g \cup {o}, WithoutL(ls, o), WithoutT(ts, o), q, c)
           /\ \A p : p # None => (In(WithoutL(ls, o), WithoutT(ts, o), p) <=> In(ls, ts, p) /\ p # o)
  <1> USE RuntimeAssumption
  <1>1. /\ m \in Seq(Resource) /\ g \subseteq 1..Len(m)
        /\ ls \in [Addrs -> 1..Len(m) \cup {None}] /\ ts \in [Fds -> 1..Len(m) \cup {None}]
        /\ q \in Seq(ActionOf(m)) /\ c \in Seq(1..Len(m))
    BY DEF Core, Types
  <1>2. PICK l2, t2 : l2 = WithoutL(ls, o) /\ t2 = WithoutT(ts, o)
    OBVIOUS
  <1>3. Distinct(m, g) /\ Placed(m, g, ls, ts) /\ Waiting(g, ls, ts, q, c)
    BY DEF Core
  <1>4. /\ l2 \in [Addrs -> 1..Len(m) \cup {None}] /\ t2 \in [Fds -> 1..Len(m) \cup {None}]
        /\ \A a \in Addrs : l2[a] = IF ls[a] = o THEN None ELSE ls[a]
        /\ \A fd \in Fds : t2[fd] = IF ts[fd] = o THEN None ELSE ts[fd]
    BY <1>1, <1>2 DEF WithoutL, WithoutT
  <1>5. \A p : p # None => (In(l2, t2, p) <=> In(ls, ts, p) /\ p # o)
    BY <1>4 DEF In
  <1>6. Distinct(m, g \cup {o})
    BY <1>3 DEF Distinct
  <1>7. Placed(m, g \cup {o}, l2, t2)
    BY <1>3, <1>4 DEF Placed
  <1>8. Waiting(g \cup {o}, l2, t2, q, c)
    <2>1. \A i \in 1..Len(q) : q[i].res # None
      <3>1. \A i \in 1..Len(q) : q[i] \in ActionOf(m)
        BY <1>1
      <3> QED
        BY <1>1, <3>1 DEF ActionOf
    <2>2. \A i \in 1..Len(c) : c[i] # None
      <3>1. \A i \in 1..Len(c) : c[i] \in 1..Len(m)
        BY <1>1
      <3> QED
        BY <3>1
    <2> QED
      BY <1>3, <1>5, <2>1, <2>2 DEF Waiting
  <1> QED
    BY <1>1, <1>2, <1>4, <1>5, <1>6, <1>7, <1>8 DEF Core, Types

-----------------------------------------------------------------------------
(* The poller and the indexes. *)

(* New resources outside the reactor change nothing.                        *)
LEMMA GrownKeeps ==
    ASSUME NEW m, NEW g, NEW ls, NEW ts, NEW q, NEW c, Core(m, g, ls, ts, q, c),
           NEW n, Grown(m, n, ls, ts)
    PROVE  /\ \A pl, uq : Watched(m, ls, ts, pl, uq) => Watched(n, ls, ts, pl, uq)
           /\ \A lm, tm : Index(m, ls, ts, lm, tm) => Index(n, ls, ts, lm, tm)
           /\ \A lm \in [Fds -> Addrs \cup {None}] : NoneLeft(m, ls, lm) => NoneLeft(n, ls, lm)
           /\ \A evs : EventsOwned(m, ls, ts, evs) => EventsOwned(n, ls, ts, evs)
  <1>1. \A a \in Addrs : ls[a] \in 1..Len(m) \cup {None}
    BY DEF Core, Types
  <1>2. ASSUME NEW pl, NEW uq, Watched(m, ls, ts, pl, uq) PROVE Watched(n, ls, ts, pl, uq)
    BY <1>2 DEF Watched, Grown
  <1>3. ASSUME NEW lm, NEW tm, Index(m, ls, ts, lm, tm) PROVE Index(n, ls, ts, lm, tm)
    BY <1>1, <1>3 DEF Index, Grown
  <1>4. ASSUME NEW lm \in [Fds -> Addrs \cup {None}], NoneLeft(m, ls, lm) PROVE NoneLeft(n, ls, lm)
    BY <1>1, <1>4 DEF NoneLeft, Grown
  <1>5. ASSUME NEW evs, EventsOwned(m, ls, ts, evs) PROVE EventsOwned(n, ls, ts, evs)
    BY <1>5, SMTT(30) DEF EventsOwned, Grown
  <1> QED
    BY <1>2, <1>3, <1>4, <1>5

(* The indexes with the entry of a registered resource.                     *)
IndexL(m, lm, o) == IF m[o].kind = "listener" THEN [lm EXCEPT ![m[o].fd] = m[o].id] ELSE lm
IndexT(m, tm, o) == IF m[o].kind = "listener" THEN tm ELSE [tm EXCEPT ![m[o].fd] = m[o].id]

(* A registration keeps the poller and the indexes in step with it.         *)
LEMMA PutKeeps ==
    ASSUME NEW m, NEW g, NEW ls, NEW ts, NEW q, NEW c, Core(m, g, ls, ts, q, c),
           NEW o \in 1..Len(m), o \notin g, ~In(ls, ts, o),
           \A i \in 1..Len(q) : q[i].kind = "register" => q[i].res # o,
           \A i \in 1..Len(c) : c[i] # o,
           NEW pl, NEW lm \in [Fds -> Addrs \cup {None}], NEW tm \in [Fds -> Fds \cup {None}]
    PROVE  /\ IndexL(m, lm, o) \in [Fds -> Addrs \cup {None}]
           /\ IndexT(m, tm, o) \in [Fds -> Fds \cup {None}]
           /\ Watched(m, ls, ts, pl, {}) =>
                 Watched(m, PutL(m, ls, o), PutT(m, ts, o), pl \cup {m[o].fd}, {})
           /\ Index(m, ls, ts, lm, tm) =>
                 Index(m, PutL(m, ls, o), PutT(m, ts, o), IndexL(m, lm, o), IndexT(m, tm, o))
           /\ NoneLeft(m, ls, lm) => NoneLeft(m, PutL(m, ls, o), IndexL(m, lm, o))
  <1> USE RuntimeAssumption
  <1>1. /\ m \in Seq(Resource) /\ g \subseteq 1..Len(m)
        /\ ls \in [Addrs -> 1..Len(m) \cup {None}] /\ ts \in [Fds -> 1..Len(m) \cup {None}]
    BY DEF Core, Types
  <1>2. /\ m[o].fd \in Fds /\ m[o].kind \in {"listener", "transport"} /\ o # None
        /\ m[o].kind = "listener" => m[o].id \in Addrs
        /\ m[o].kind = "transport" => m[o].id = m[o].fd
    BY <1>1, MadeTypes
  <1>3. PICK l2, t2, lm2, tm2 : /\ l2 = PutL(m, ls, o) /\ t2 = PutT(m, ts, o)
                                /\ lm2 = IndexL(m, lm, o) /\ tm2 = IndexT(m, tm, o)
    OBVIOUS
  <1>4. /\ \A p : In(l2, t2, p) => In(ls, ts, p) \/ p = o
        /\ \A p \in 1..Len(m) : In(ls, ts, p) \/ p = o => In(l2, t2, p)
        /\ m[o].kind = "listener" => ls[m[o].id] = None
    BY <1>3, Put
  <1>5. lm2 \in [Fds -> Addrs \cup {None}] /\ tm2 \in [Fds -> Fds \cup {None}]
    BY <1>2, <1>3 DEF IndexL, IndexT
  <1>6. ASSUME Watched(m, ls, ts, pl, {}) PROVE Watched(m, l2, t2, pl \cup {m[o].fd}, {})
    BY <1>2, <1>4, <1>6 DEF Watched
  <1>7. \A p \in 1..Len(m) : In(ls, ts, p) => m[p].fd # m[o].fd
    <2>1. SUFFICES ASSUME NEW p \in 1..Len(m), In(ls, ts, p), m[p].fd = m[o].fd PROVE FALSE
      OBVIOUS
    <2>2. p \notin g
      BY <2>1, InIsOpen
    <2>3. p = o
      BY <2>1, <2>2 DEF Core, Distinct
    <2> QED
      BY <2>1, <2>3
  <1>8. CASE m[o].kind = "listener"
    <2>1. /\ t2 = ts /\ tm2 = tm
          /\ l2 = [ls EXCEPT ![m[o].id] = o] /\ lm2 = [lm EXCEPT ![m[o].fd] = m[o].id]
      BY <1>3, <1>8 DEF PutL, PutT, IndexL, IndexT
    <2>2. /\ l2[m[o].id] = o /\ \A a \in Addrs : a # m[o].id => l2[a] = ls[a]
          /\ lm2[m[o].fd] = m[o].id /\ \A fd \in Fds : fd # m[o].fd => lm2[fd] = lm[fd]
      BY <1>1, <1>2, <1>8, <2>1
    <2>3. \A a \in Addrs : ls[a] # None => /\ ls[a] \in 1..Len(m) /\ m[ls[a]].fd # m[o].fd
                                          /\ m[ls[a]].fd \in Fds
      <3>1. \A a \in Addrs : ls[a] # None => ls[a] \in 1..Len(m) /\ In(ls, ts, ls[a])
        BY <1>1 DEF In
      <3> QED
        BY <1>1, <1>7, <3>1, MadeTypes
    <2>4. ASSUME Index(m, ls, ts, lm, tm) PROVE Index(m, l2, t2, lm2, tm2)
      <3>1. ASSUME NEW a \in Addrs, l2[a] # None PROVE lm2[m[l2[a]].fd] = a
        <4>1. CASE a = m[o].id
          BY <2>2, <4>1
        <4>2. CASE a # m[o].id
          BY <2>2, <2>3, <2>4, <3>1, <4>2 DEF Index
        <4> QED
          BY <4>1, <4>2
      <3> QED
        BY <2>1, <2>4, <3>1 DEF Index
    <2>5. ASSUME NoneLeft(m, ls, lm) PROVE NoneLeft(m, l2, lm2)
      <3>1. SUFFICES ASSUME NEW fd \in Fds, lm2[fd] # None
                     PROVE  l2[lm2[fd]] # None /\ m[l2[lm2[fd]]].fd = fd
        BY DEF NoneLeft
      <3>2. CASE fd = m[o].fd
        BY <1>2, <2>2, <3>2
      <3>3. CASE fd # m[o].fd
        <4>1. lm2[fd] = lm[fd] /\ lm[fd] \in Addrs
          BY <2>2, <3>1, <3>3
        <4>2. ls[lm[fd]] # None /\ m[ls[lm[fd]]].fd = fd
          BY <2>5, <3>1, <4>1 DEF NoneLeft
        <4>3. lm[fd] # m[o].id
          BY <1>4, <1>8, <4>2
        <4> QED
          BY <2>2, <4>1, <4>2, <4>3
      <3> QED
        BY <3>2, <3>3
    <2> QED
      BY <1>3, <1>5, <1>6, <2>4, <2>5
  <1>9. CASE m[o].kind = "transport"
    <2>1. /\ l2 = ls /\ lm2 = lm
          /\ t2 = [ts EXCEPT ![m[o].fd] = o] /\ tm2 = [tm EXCEPT ![m[o].fd] = m[o].fd]
      BY <1>2, <1>3, <1>9 DEF PutL, PutT, IndexL, IndexT
    <2>2. ASSUME Index(m, ls, ts, lm, tm) PROVE Index(m, l2, t2, lm2, tm2)
      BY <1>1, <1>2, <2>1, <2>2 DEF Index
    <2> QED
      BY <1>3, <1>5, <1>6, <2>1, <2>2
  <1> QED
    BY <1>2, <1>8, <1>9

(* Removal: the descriptor stays in the poller for unregister_queue, or     *)
(* leaves it; the index entry stays, or leaves with it.                     *)
ClearL(m, lm, o) == IF m[o].kind = "listener" THEN [lm EXCEPT ![m[o].fd] = None] ELSE lm
ClearT(m, tm, o) == IF m[o].kind = "listener" THEN tm ELSE [tm EXCEPT ![m[o].fd] = None]

(* A resource that leaves keeps the poller and the indexes in step.         *)
LEMMA RemoveKeeps ==
    ASSUME NEW m, NEW g, NEW ls, NEW ts, NEW q, NEW c, Core(m, g, ls, ts, q, c),
           NEW o \in 1..Len(m), In(ls, ts, o), NEW pl, NEW uq,
           NEW lm \in [Fds -> Addrs \cup {None}], NEW tm \in [Fds -> Fds \cup {None}]
    PROVE  /\ Watched(m, ls, ts, pl, uq) =>
                 Watched(m, WithoutL(ls, o), WithoutT(ts, o), pl, uq \cup {m[o].fd})
           /\ Watched(m, ls, ts, pl, {}) =>
                 Watched(m, WithoutL(ls, o), WithoutT(ts, o), pl \ {m[o].fd}, {})
           /\ Index(m, ls, ts, lm, tm) =>
                 /\ Index(m, WithoutL(ls, o), WithoutT(ts, o), lm, tm)
                 /\ Index(m, WithoutL(ls, o), WithoutT(ts, o), ClearL(m, lm, o), ClearT(m, tm, o))
           /\ NoneLeft(m, ls, lm) => NoneLeft(m, WithoutL(ls, o), ClearL(m, lm, o))
           /\ NoneLeft(m, ls, lm) /\ m[o].kind = "transport" => NoneLeft(m, WithoutL(ls, o), lm)
           /\ ClearL(m, lm, o) \in [Fds -> Addrs \cup {None}]
           /\ ClearT(m, tm, o) \in [Fds -> Fds \cup {None}]
  <1> USE RuntimeAssumption
  <1>1. /\ m \in Seq(Resource) /\ g \subseteq 1..Len(m)
        /\ ls \in [Addrs -> 1..Len(m) \cup {None}] /\ ts \in [Fds -> 1..Len(m) \cup {None}]
    BY DEF Core, Types
  <1>2. /\ m[o].fd \in Fds /\ m[o].kind \in {"listener", "transport"} /\ o # None
    BY <1>1, MadeTypes
  <1>3. PICK l2, t2, lm2, tm2 : /\ l2 = WithoutL(ls, o) /\ t2 = WithoutT(ts, o)
                                /\ lm2 = ClearL(m, lm, o) /\ tm2 = ClearT(m, tm, o)
    OBVIOUS
  <1>4. \A p \in 1..Len(m) : In(l2, t2, p) <=> In(ls, ts, p) /\ p # o
    <2>1. \A p \in 1..Len(m) : p # None
      BY <1>1, MadeTypes
    <2> QED
      BY <1>3, <2>1, Remove
  <1>5. /\ \A a \in Addrs : l2[a] = IF ls[a] = o THEN None ELSE ls[a]
        /\ \A fd \in Fds : t2[fd] = IF ts[fd] = o THEN None ELSE ts[fd]
    BY <1>3 DEF WithoutL, WithoutT
  <1>6. \A p \in 1..Len(m) : In(ls, ts, p) /\ m[p].fd = m[o].fd => p = o
    <2>1. o \notin g
      BY InIsOpen
    <2>2. \A p \in 1..Len(m) : In(ls, ts, p) => p \notin g
      BY InIsOpen
    <2> QED
      BY <2>1, <2>2 DEF Core, Distinct
  <1>7. ASSUME Watched(m, ls, ts, pl, uq) PROVE Watched(m, l2, t2, pl, uq \cup {m[o].fd})
    BY <1>2, <1>4, <1>6, <1>7 DEF Watched
  <1>8. ASSUME Watched(m, ls, ts, pl, {}) PROVE Watched(m, l2, t2, pl \ {m[o].fd}, {})
    BY <1>2, <1>4, <1>6, <1>8 DEF Watched
  <1>9. ASSUME Index(m, ls, ts, lm, tm) PROVE Index(m, l2, t2, lm, tm)
    BY <1>5, <1>9 DEF Index
  <1>10. /\ lm2 \in [Fds -> Addrs \cup {None}] /\ tm2 \in [Fds -> Fds \cup {None}]
         /\ \A fd \in Fds : fd # m[o].fd => lm2[fd] = lm[fd] /\ tm2[fd] = tm[fd]
         /\ m[o].kind = "listener" => lm2[m[o].fd] = None
    BY <1>2, <1>3 DEF ClearL, ClearT
  <1>11. /\ \A a \in Addrs : l2[a] # None => /\ l2[a] = ls[a] /\ l2[a] \in 1..Len(m)
                                             /\ m[l2[a]].fd \in Fds /\ m[l2[a]].fd # m[o].fd
         /\ \A fd \in Fds : t2[fd] # None => t2[fd] = ts[fd] /\ fd # m[o].fd
    <2>1. ASSUME NEW a \in Addrs, l2[a] # None
          PROVE  /\ l2[a] = ls[a] /\ l2[a] \in 1..Len(m)
                 /\ m[l2[a]].fd \in Fds /\ m[l2[a]].fd # m[o].fd
      <3>1. l2[a] = ls[a] /\ l2[a] \in 1..Len(m) /\ l2[a] # o /\ In(ls, ts, l2[a])
        BY <1>1, <1>5, <2>1 DEF In
      <3> QED
        BY <1>1, <1>6, <3>1, MadeTypes
    <2>2. ASSUME NEW fd \in Fds, t2[fd] # None PROVE t2[fd] = ts[fd] /\ fd # m[o].fd
      <3>1. t2[fd] = ts[fd] /\ t2[fd] \in 1..Len(m) /\ t2[fd] # o /\ In(ls, ts, t2[fd])
        BY <1>1, <1>5, <2>2 DEF In
      <3>2. m[t2[fd]].fd = fd
        <4>1. m[t2[fd]].kind = "transport" /\ m[t2[fd]].id = fd
          BY <2>2, <3>1 DEF Core, Placed
        <4> QED
          BY <1>1, <3>1, <4>1, MadeTypes
      <3> QED
        BY <1>6, <3>1, <3>2
    <2> QED
      BY <2>1, <2>2
  <1>12. ASSUME Index(m, ls, ts, lm, tm) PROVE Index(m, l2, t2, lm2, tm2)
    BY <1>10, <1>11, <1>12 DEF Index
  <1>13. ASSUME NoneLeft(m, ls, lm), m[o].kind = "transport" PROVE NoneLeft(m, l2, lm)
    <2>1. \A a \in Addrs : ls[a] # o
      BY <1>2, <1>13 DEF Core, Placed
    <2> QED
      BY <1>5, <1>13, <2>1 DEF NoneLeft
  <1>14. ASSUME NoneLeft(m, ls, lm) PROVE NoneLeft(m, l2, lm2)
    <2>1. CASE m[o].kind = "transport"
      <3>1. lm2 = lm
        BY <1>3, <2>1 DEF ClearL
      <3> QED
        BY <1>13, <1>14, <2>1, <3>1
    <2>2. CASE m[o].kind = "listener"
      <3>1. SUFFICES ASSUME NEW fd \in Fds, lm2[fd] # None
                     PROVE  l2[lm2[fd]] # None /\ m[l2[lm2[fd]]].fd = fd
        BY DEF NoneLeft
      <3>2. fd # m[o].fd /\ lm2[fd] = lm[fd] /\ lm[fd] \in Addrs
        BY <1>10, <2>2, <3>1
      <3>3. ls[lm[fd]] # None /\ m[ls[lm[fd]]].fd = fd
        BY <1>14, <3>1, <3>2 DEF NoneLeft
      <3> QED
        BY <1>5, <3>2, <3>3
    <2> QED
      BY <1>2, <2>1, <2>2
  <1> QED
    BY <1>3, <1>7, <1>8, <1>9, <1>10, <1>12, <1>13, <1>14

-----------------------------------------------------------------------------
(* The aim of the actions. *)

(* The first action is done; it may have brought its resource in.           *)
LEMMA AimedBehind ==
    ASSUME NEW m, NEW ls, NEW ts, NEW q \in Seq(ActionOf(m)), Aimed(m, ls, ts, q), q # <<>>,
           NEW l2, NEW t2,
           \A p \in 1..Len(m) : In(l2, t2, p) =>
              In(ls, ts, p) \/ (Head(q).kind = "register" /\ p = Head(q).res)
    PROVE  Aimed(m, l2, t2, Tail(q))
  <1>1. PICK t : t = Tail(q)
    OBVIOUS
  <1>2. /\ Head(q) = q[1] /\ 1 \in 1..Len(q) /\ t \in Seq(ActionOf(m))
        /\ \A i \in 1..Len(t) : i + 1 \in 1..Len(q) /\ t[i] = q[i + 1]
    BY <1>1, Behind
  <1>3. SUFFICES ASSUME NEW i \in 1..Len(t), t[i].kind # "register",
                        NEW p \in 1..Len(m), SameId(m, t[i].res, p),
                        In(l2, t2, p) \/ \E j \in 1..Len(t) :
                                            j < i /\ t[j].kind = "register" /\ t[j].res = p
                 PROVE  p = t[i].res
    BY <1>1 DEF Aimed
  <1>4. In(ls, ts, p) \/ \E j \in 1..Len(q) :
                            j < i + 1 /\ q[j].kind = "register" /\ q[j].res = p
    <2>1. CASE In(l2, t2, p)
      <3>1. 1 < i + 1
        BY <1>2
      <3> QED
        BY <1>2, <2>1, <3>1
    <2>2. ASSUME NEW j \in 1..Len(t), j < i, t[j].kind = "register", t[j].res = p
          PROVE  \E k \in 1..Len(q) : k < i + 1 /\ q[k].kind = "register" /\ q[k].res = p
      <3>1. j + 1 \in 1..Len(q) /\ t[j] = q[j + 1] /\ j + 1 < i + 1
        BY <1>2, <2>2
      <3> QED
        BY <2>2, <3>1
    <2> QED
      BY <1>3, <2>1, <2>2
  <1> QED
    BY <1>2, <1>3, <1>4 DEF Aimed

(* Fewer resources in the reactor: no action finds more.                    *)
LEMMA AimedAtFewer ==
    ASSUME NEW m, NEW ls, NEW ts, NEW q, Aimed(m, ls, ts, q), NEW l2, NEW t2,
           \A p \in 1..Len(m) : In(l2, t2, p) => In(ls, ts, p)
    PROVE  Aimed(m, l2, t2, q)
  BY DEF Aimed

(* An action on a resource whose id no open one shares.                     *)
LEMMA AimedAction ==
    ASSUME NEW m, NEW g, NEW ls, NEW ts, NEW q, NEW c, Core(m, g, ls, ts, q, c),
           Aimed(m, ls, ts, q), NEW a \in ActionOf(m),
           \A p \in (1..Len(m)) \ g : SameId(m, a.res, p) => p = a.res
    PROVE  Aimed(m, ls, ts, Append(q, a))
  <1>1. q \in Seq(ActionOf(m))
    BY DEF Core, Types
  <1>2. PICK q2, k : q2 = Append(q, a) /\ k = Len(q) + 1
    OBVIOUS
  <1>3. /\ k \in 1..Len(q2) /\ q2[k] = a
        /\ \A i \in 1..Len(q) : i \in 1..Len(q2) /\ q2[i] = q[i] /\ i < k
        /\ \A i \in 1..Len(q2) : i \in 1..Len(q) \/ i = k
        /\ \A i, j \in 1..Len(q2) : j < i => j \in 1..Len(q)
    BY <1>1, <1>2, Appended
  <1>4. SUFFICES ASSUME NEW i \in 1..Len(q2), q2[i].kind # "register",
                        NEW p \in 1..Len(m), SameId(m, q2[i].res, p),
                        In(ls, ts, p) \/ \E j \in 1..Len(q2) :
                                            j < i /\ q2[j].kind = "register" /\ q2[j].res = p
                 PROVE  p = q2[i].res
    BY <1>2 DEF Aimed
  <1>5. In(ls, ts, p) \/ \E j \in 1..Len(q) : j < i /\ q[j].kind = "register" /\ q[j].res = p
    BY <1>3, <1>4
  <1>6. p \notin g
    <2>1. In(ls, ts, p) => p \notin g
      BY InIsOpen
    <2> QED
      BY <1>5, <2>1 DEF Core, Waiting
  <1>7. CASE i = k
    BY <1>3, <1>4, <1>6, <1>7
  <1>8. CASE i \in 1..Len(q)
    BY <1>3, <1>4, <1>5, <1>8 DEF Aimed
  <1> QED
    BY <1>3, <1>7, <1>8

(* The registration of a new resource, behind all the actions there are.    *)
LEMMA AimedRegistration ==
    ASSUME NEW m, NEW g, NEW ls, NEW ts, NEW q, NEW c, Core(m, g, ls, ts, q, c),
           Aimed(m, ls, ts, q), NEW n, Grown(m, n, ls, ts), NEW a \in ActionOf(n),
           a.kind = "register"
    PROVE  Aimed(n, ls, ts, Append(q, a))
  <1>1. q \in Seq(ActionOf(m)) /\ Len(m) \in Nat
    BY DEF Core, Types
  <1>2. PICK q2, k : q2 = Append(q, a) /\ k = Len(q) + 1
    OBVIOUS
  <1>3. /\ q2[k] = a
        /\ \A i \in 1..Len(q) : q2[i] = q[i]
        /\ \A i \in 1..Len(q2) : i \in 1..Len(q) \/ i = k
        /\ \A i, j \in 1..Len(q2) : j < i => j \in 1..Len(q)
    BY <1>1, <1>2
  <1>4. SUFFICES ASSUME NEW i \in 1..Len(q2), q2[i].kind # "register",
                        NEW p \in 1..Len(n), SameId(n, q2[i].res, p),
                        In(ls, ts, p) \/ \E j \in 1..Len(q2) :
                                            j < i /\ q2[j].kind = "register" /\ q2[j].res = p
                 PROVE  p = q2[i].res
    BY <1>2 DEF Aimed
  <1>5. i \in 1..Len(q) /\ q2[i] = q[i]
    BY <1>3, <1>4
  <1>6. In(ls, ts, p) \/ \E j \in 1..Len(q) : j < i /\ q[j].kind = "register" /\ q[j].res = p
    BY <1>3, <1>4
  <1>7. \A j \in 1..Len(q) : q[j].res \in 1..Len(m)
    <2>1. \A j \in 1..Len(q) : q[j] \in ActionOf(m)
      BY <1>1
    <2> QED
      BY <2>1 DEF ActionOf
  <1>8. p \in 1..Len(m) /\ SameId(m, q[i].res, p)
    BY <1>4, <1>5, <1>6, <1>7 DEF Grown, SameId
  <1> QED
    BY <1>4, <1>5, <1>6, <1>8 DEF Aimed

-----------------------------------------------------------------------------
(* The service. *)

(* Two open resources with one id are one.                                  *)
LEMMA OpenIds ==
    ASSUME NEW m, NEW g, NEW ls, NEW ts, NEW q, NEW c, Core(m, g, ls, ts, q, c),
           NEW o \in (1..Len(m)) \ g, NEW p \in (1..Len(m)) \ g, SameId(m, o, p)
    PROVE  p = o
  <1>1. m \in Seq(Resource) /\ Distinct(m, g)
    BY DEF Core, Types
  <1>2. /\ m[o].kind \in {"listener", "transport"}
        /\ m[o].kind = "transport" => m[o].id = m[o].fd
        /\ m[p].kind = "transport" => m[p].id = m[p].fd
    BY <1>1, MadeTypes
  <1> QED
    BY <1>1, <1>2 DEF Distinct, SameId

(* Whatever the service does in a handler, the core and the aim are kept.   *)
LEMMA Reacts ==
    ASSUME NEW g, NEW ls, NEW ts, NEW q, NEW c, Core(made, g, ls, ts, q, c),
           NEW back \in SUBSET (1..Len(made)), React(g, q, back)
    PROVE  /\ Core(made', g, ls, ts, actions', c)
           /\ Grown(made, made', ls, ts)
           /\ /\ Aimed(made, ls, ts, q)
              /\ \A b \in back : \A p \in (1..Len(made)) \ g : SameId(made, b, p) => p = b
              => Aimed(made', ls, ts, actions')
  <1>0. Grown(made, made, ls, ts)
    BY DEF Core, Types, Grown
  <1>1. CASE made' = made /\ actions' = q
    BY <1>0, <1>1
  <1>2. ASSUME NEW r \in Open(g) \cup back, NEW k \in {"send", "unregister"},
               actions' = Enqueue(q, Act(k, r)), made' = made
        PROVE  /\ Core(made, g, ls, ts, actions', c)
               /\ /\ Aimed(made, ls, ts, q)
                  /\ \A b \in back : \A p \in (1..Len(made)) \ g : SameId(made, b, p) => p = b
                  => Aimed(made, ls, ts, actions')
    <2>1. PICK a : a = Act(k, r)
      OBVIOUS
    <2>2. r \in 1..Len(made) /\ r \in ((1..Len(made)) \ g) \cup back
      BY DEF Open, Numbers
    <2>3. a \in ActionOf(made) /\ a.kind # "register" /\ a.res = r
      BY <2>1, <2>2 DEF Act, ActionOf
    <2>4. actions' = Append(q, a)
      BY <1>2, <2>1 DEF Enqueue
    <2>5. Core(made, g, ls, ts, actions', c)
      BY <2>3, <2>4, QueueAction
    <2>6. ASSUME Aimed(made, ls, ts, q),
                 \A b \in back : \A p \in (1..Len(made)) \ g : SameId(made, b, p) => p = b
          PROVE  Aimed(made, ls, ts, actions')
      <3>1. \A p \in (1..Len(made)) \ g : SameId(made, a.res, p) => p = a.res
        <4>1. CASE r \in back
          BY <2>3, <2>6, <4>1
        <4>2. CASE r \in (1..Len(made)) \ g
          BY <2>3, <4>2, OpenIds
        <4> QED
          BY <2>2, <4>1, <4>2
      <3> QED
        BY <2>3, <2>4, <2>6, <3>1, AimedAction
    <2> QED
      BY <2>5, <2>6
  <1>3. ASSUME NEW n \in Creatable(g), Len(made) < MaxMade, made' = Append(made, n),
               actions' = Enqueue(q, Act("register", Len(made) + 1))
        PROVE  /\ Core(made', g, ls, ts, actions', c)
               /\ Grown(made, made', ls, ts)
               /\ Aimed(made, ls, ts, q) => Aimed(made', ls, ts, actions')
    <2>1. n \in Resource /\ Free(made, g, n)
      BY DEF Creatable, Free, Open, Numbers
    <2>2. PICK a, o : a = Act("register", o) /\ o = Len(made) + 1
      OBVIOUS
    <2>3. /\ Core(made', g, ls, ts, q, c)
          /\ Grown(made, made', ls, ts)
          /\ o \in 1..Len(made')
          /\ o \notin g /\ ~In(ls, ts, o)
          /\ \A i \in 1..Len(q) : q[i].res # o
          /\ \A i \in 1..Len(c) : c[i] # o
      BY <1>3, <2>1, <2>2, Make
    <2>4. a \in ActionOf(made') /\ a.kind = "register" /\ a.res = o
      BY <2>2, <2>3 DEF Act, ActionOf
    <2>5. actions' = Append(q, a)
      BY <1>3, <2>2 DEF Enqueue
    <2>6. Core(made', g, ls, ts, actions', c)
      BY <2>3, <2>4, <2>5, QueueAction
    <2>7. Aimed(made, ls, ts, q) => Aimed(made', ls, ts, actions')
      BY <2>3, <2>4, <2>5, AimedRegistration
    <2> QED
      BY <2>3, <2>6, <2>7
  <1> QED
    BY <1>0, <1>1, <1>2, <1>3 DEF React

-----------------------------------------------------------------------------
(* The actions. *)

Event == [fd : Fds, res : {"io", "hup", "err"}]

(* What RegistryInv says of a state, with the registry taken together.      *)
LEMMA RegistryFacts ==
    ASSUME RegistryInv
    PROVE  /\ Core(made, gone, listeners, transports, actions, ctl)
           /\ made \in Seq(Resource) /\ Len(made) \in Nat /\ Numbers = 1..Len(made)
           /\ gone \subseteq 1..Len(made)
           /\ listeners \in [Addrs -> 1..Len(made) \cup {None}]
           /\ transports \in [Fds -> 1..Len(made) \cup {None}]
           /\ actions \in Seq(ActionOf(made)) /\ ctl \in Seq(1..Len(made))
           /\ events \in Seq(Event)
           /\ strays \subseteq (1..Len(made)) \X (1..Len(made))
  BY DEF RegistryInv, Core, Types, Numbers, Event

(* The service reacts and the reactor leaves its registry as it is.         *)
LEMMA ReactStep ==
    ASSUME RegistryInv, NEW q,
           Core(made, gone, listeners, transports, q, ctl),
           ~shared => Aimed(made, listeners, transports, q),
           React(gone, q, {}),
           UNCHANGED <<shared, gone, registry, unregister_queue, ctl, phase>>,
           events' \in Seq(Event),
           strays' \subseteq (1..Len(made)) \X (1..Len(made)), ~shared => strays' = {}
    PROVE  RegistryInv' /\ Grown(made, made', listeners, transports)
  <1>1. /\ Core(made', gone, listeners, transports, actions', ctl)
        /\ Grown(made, made', listeners, transports)
        /\ ~shared => Aimed(made', listeners, transports, actions')
    BY Reacts
  <1>2. UNCHANGED <<shared, gone, listeners, transports, listener_map, transport_map, poller,
                    unregister_queue, ctl, phase>>
    BY DEF registry
  <1>3. strays' \subseteq Numbers' \X Numbers'
    <2>1. 1..Len(made) \subseteq 1..Len(made')
      BY <1>1 DEF Grown
    <2> QED
      BY <2>1 DEF Numbers
  <1>4. /\ Watched(made', listeners, transports, poller, unregister_queue)
        /\ Index(made', listeners, transports, listener_map, transport_map)
    BY <1>1, GrownKeeps DEF RegistryInv
  <1> QED
    BY <1>1, <1>2, <1>3, <1>4 DEF RegistryInv, Event

(* Steps that leave resources, registry and queues alone.                   *)
LEMMA IdleStep ==
    ASSUME RegistryInv, UNCHANGED <<shared, made, gone, registry, unregister_queue, ctl, actions, strays>>,
           events' \in Seq(Event), phase' \in {"poll", "events", "ctl", "actions"},
           phase' # "events" => unregister_queue = {}
    PROVE  RegistryInv'
  <1>1. UNCHANGED <<shared, made, gone, listeners, transports, listener_map, transport_map, poller,
                    unregister_queue, ctl, actions, strays>>
    BY DEF registry
  <1>2. Numbers' = Numbers
    BY <1>1 DEF Numbers
  <1> QED
    BY <1>1, <1>2 DEF RegistryInv, Event

(* What an index or an id leads to is in the reactor.                       *)
LEMMA TargetIn ==
    ASSUME RegistryInv, NEW fd \in Fds, Target(fd) # None
    PROVE  Target(fd) \in 1..Len(made) /\ In(listeners, transports, Target(fd))
  <1>1. /\ listeners \in [Addrs -> 1..Len(made) \cup {None}]
        /\ transports \in [Fds -> 1..Len(made) \cup {None}]
        /\ listener_map[fd] \in Addrs \cup {None} /\ transport_map[fd] \in Fds \cup {None}
    BY RegistryFacts DEF RegistryInv
  <1>2. CASE listener_map[fd] # None
    BY <1>1, <1>2 DEF Target, In
  <1>3. CASE listener_map[fd] = None
    BY <1>1, <1>3 DEF Target, In
  <1> QED
    BY <1>2, <1>3

(* What an action finds is in the reactor and has the id it asked for.      *)
LEMMA FoundIn ==
    ASSUME RegistryInv, NEW r \in 1..Len(made), Found(r) # None
    PROVE  /\ Found(r) \in 1..Len(made) /\ In(listeners, transports, Found(r))
           /\ SameId(made, r, Found(r))
  <1>1. /\ listeners \in [Addrs -> 1..Len(made) \cup {None}]
        /\ transports \in [Fds -> 1..Len(made) \cup {None}]
        /\ made \in Seq(Resource) /\ Placed(made, gone, listeners, transports)
    BY RegistryFacts DEF RegistryInv, Core
  <1>2. /\ made[r].fd \in Fds /\ made[r].kind \in {"listener", "transport"}
        /\ made[r].kind = "listener" => made[r].id \in Addrs
        /\ made[r].kind = "transport" => made[r].id = made[r].fd
    BY <1>1, MadeTypes
  <1>3. CASE made[r].kind = "listener"
    BY <1>1, <1>2, <1>3 DEF Found, In, SameId, Placed
  <1>4. CASE made[r].kind = "transport"
    BY <1>1, <1>2, <1>4 DEF Found, In, SameId, Placed
  <1> QED
    BY <1>2, <1>3, <1>4

(* A resource leaves the reactor, is closed, and the service reacts.        *)
LEMMA LeaveStep ==
    ASSUME RegistryInv, NEW o \in 1..Len(made), In(listeners, transports, o),
           NEW q, Core(made, gone, listeners, transports, q, ctl),
           ~shared => Aimed(made, listeners, transports, q),
           listeners' = WithoutL(listeners, o), transports' = WithoutT(transports, o),
           gone' = gone \cup {o}, NEW back \in SUBSET {o}, React(gone', q, back),
           UNCHANGED <<shared, ctl>>
    PROVE  /\ Core(made', gone', listeners', transports', actions', ctl')
           /\ Grown(made, made', listeners', transports')
           /\ ~shared' => ctl' = <<>> /\ Aimed(made', listeners', transports', actions')
  <1>1. /\ Core(made, gone', listeners', transports', q, ctl)
        /\ \A p : p # None => (In(listeners', transports', p) <=> In(listeners, transports, p) /\ p # o)
    BY Remove
  <1>2. o \notin gone
    BY RegistryFacts, InIsOpen
  <1>3. \A b \in back : \A p \in (1..Len(made)) \ gone' : SameId(made, b, p) => p = b
    BY <1>2, RegistryFacts, OpenIds
  <1>4. ~shared => Aimed(made, listeners', transports', q)
    <2>1. \A p \in 1..Len(made) : p # None
      BY RegistryFacts, MadeTypes
    <2> QED
      BY <1>1, <2>1, AimedAtFewer
  <1>5. back \in SUBSET (1..Len(made))
    OBVIOUS
  <1>6. /\ Core(made', gone', listeners', transports', actions', ctl)
        /\ Grown(made, made', listeners', transports')
        /\ ~shared => Aimed(made', listeners', transports', actions')
    BY <1>1, <1>3, <1>4, <1>5, Reacts
  <1> QED
    BY <1>6 DEF RegistryInv

(* A hang-up.                                                               *)
LEMMA HupStep ==
    ASSUME RegistryInv, handle_event_hup
    PROVE  /\ RegistryInv'
           /\ Grown(made, made', listeners', transports')
           /\ Target(Head(events).fd) \in 1..Len(made)
           /\ In(listeners, transports, Target(Head(events).fd))
           /\ Core(made, gone', listeners', transports', actions, ctl)
  <1>1. PICK o : o = Target(Head(events).fd)
    OBVIOUS
  <1>2. /\ events # <<>> /\ events' = Tail(events) /\ phase = "events" /\ o # None
        /\ listeners' = WithoutL(listeners, o) /\ transports' = WithoutT(transports, o)
        /\ unregister_queue' = unregister_queue \cup {made[o].fd}
        /\ gone' = gone \cup {o} /\ React(gone', actions, {o})
        /\ UNCHANGED <<shared, listener_map, transport_map, poller, ctl, phase, strays>>
    BY <1>1 DEF handle_event_hup, Handling, WithoutL, WithoutT
  <1>3. events' \in Seq(Event) /\ Head(events) \in Event
    BY <1>2, RegistryFacts, Behind
  <1>4. o \in 1..Len(made) /\ In(listeners, transports, o)
    <2>1. Head(events).fd \in Fds
      BY <1>3 DEF Event
    <2> QED
      BY <1>1, <1>2, <2>1, TargetIn
  <1>5. /\ Core(made, gone, listeners, transports, actions, ctl)
        /\ ~shared => Aimed(made, listeners, transports, actions)
    BY DEF RegistryInv
  <1>6. /\ Core(made', gone', listeners', transports', actions', ctl')
        /\ Grown(made, made', listeners', transports')
        /\ ~shared' => ctl' = <<>> /\ Aimed(made', listeners', transports', actions')
    <2>1. {o} \in SUBSET {o} /\ UNCHANGED <<shared, ctl>>
      BY <1>2
    <2> QED
      BY <1>2, <1>4, <1>5, <2>1, LeaveStep
  <1>7. Core(made, gone', listeners', transports', actions, ctl)
    BY <1>2, <1>4, <1>5, Remove
  <1>8. /\ Watched(made, listeners', transports', poller, unregister_queue')
        /\ Index(made, listeners', transports', listener_map, transport_map)
    <2>1. /\ listener_map \in [Fds -> Addrs \cup {None}]
          /\ transport_map \in [Fds -> Fds \cup {None}]
          /\ Watched(made, listeners, transports, poller, unregister_queue)
          /\ Index(made, listeners, transports, listener_map, transport_map)
      BY DEF RegistryInv
    <2> QED
      BY <1>2, <1>4, <1>5, <2>1, RemoveKeeps
  <1>9. /\ Watched(made', listeners', transports', poller, unregister_queue')
        /\ Index(made', listeners', transports', listener_map, transport_map)
    BY <1>6, <1>7, <1>8, GrownKeeps
  <1>10. made[o].fd \in Fds
    BY <1>4, RegistryFacts, MadeTypes
  <1>11. strays' \subseteq Numbers' \X Numbers'
    <2>1. 1..Len(made) \subseteq 1..Len(made')
      BY <1>6 DEF Grown
    <2> QED
      BY <1>2, <2>1, RegistryFacts DEF Numbers
  <1>12. RegistryInv'
    BY <1>2, <1>3, <1>6, <1>9, <1>10, <1>11 DEF RegistryInv, Event
  <1> QED
    BY <1>1, <1>4, <1>6, <1>7, <1>12

(* An action that is not a registration finds its own resource or none.     *)
LEMMA AimIsTrue ==
    ASSUME RegistryInv, actions # <<>>, Head(actions).kind # "register",
           Found(Head(actions).res) # None, ~shared
    PROVE  Found(Head(actions).res) = Head(actions).res
  <1>1. /\ Head(actions) = actions[1] /\ 1 \in 1..Len(actions)
        /\ Head(actions) \in ActionOf(made)
    BY RegistryFacts, Behind
  <1>2. Head(actions).res \in 1..Len(made)
    BY <1>1 DEF ActionOf
  <1>3. PICK o \in 1..Len(made) : /\ o = Found(Head(actions).res)
                                 /\ In(listeners, transports, o)
                                 /\ SameId(made, Head(actions).res, o)
    BY <1>2, FoundIn
  <1>4. Aimed(made, listeners, transports, actions)
    BY DEF RegistryInv
  <1> QED
    BY <1>1, <1>3, <1>4 DEF Aimed

(* The unregistering of a resource.                                         *)
LEMMA UnregisterStep ==
    ASSUME RegistryInv, action_unregister
    PROVE  /\ RegistryInv'
           /\ NoneLeft(made, listeners, listener_map) => NoneLeft(made', listeners', listener_map')
           /\ phase' # "events"
  <1>1. PICK r, o : r = Head(actions).res /\ o = Found(r)
    OBVIOUS
  <1>2. /\ actions # <<>> /\ phase = "actions" /\ phase' = phase /\ o # None
        /\ Head(actions).kind = "unregister"
        /\ poller' = poller \ {made[o].fd}
        /\ gone' = gone \cup {o} /\ React(gone', Tail(actions), {})
        /\ UNCHANGED <<shared, events, unregister_queue, ctl>>
        /\ Strayed(r, o)
    BY <1>1 DEF action_unregister, Acting
  <1>3. r \in 1..Len(made)
    <2>1. Head(actions) \in ActionOf(made)
      BY <1>2, RegistryFacts, Behind
    <2> QED
      BY <1>1, <2>1 DEF ActionOf
  <1>4. /\ o \in 1..Len(made) /\ In(listeners, transports, o) /\ o # None
    BY <1>1, <1>2, <1>3, FoundIn
  <1>5. /\ listeners \in [Addrs -> 1..Len(made) \cup {None}]
        /\ transports \in [Fds -> 1..Len(made) \cup {None}]
        /\ made \in Seq(Resource) /\ Placed(made, gone, listeners, transports)
        /\ Core(made, gone, listeners, transports, actions, ctl)
        /\ listener_map \in [Fds -> Addrs \cup {None}]
        /\ transport_map \in [Fds -> Fds \cup {None}]
    BY RegistryFacts DEF RegistryInv, Core
  <1>6. /\ made[o].fd \in Fds /\ made[o].kind \in {"listener", "transport"}
        /\ made[o].kind = "listener" => made[o].id \in Addrs
        /\ made[o].kind = "transport" => made[o].id = made[o].fd
    BY <1>4, <1>5, MadeTypes
  <1>7. /\ listeners' = WithoutL(listeners, o) /\ transports' = WithoutT(transports, o)
        /\ listener_map' = ClearL(made, listener_map, o)
        /\ transport_map' = ClearT(made, transport_map, o)
    <2>1. /\ \A a \in Addrs : listeners[a] = o => made[o].kind = "listener" /\ made[o].id = a
          /\ \A fd \in Fds : transports[fd] = o => made[o].kind = "transport" /\ made[o].id = fd
      BY <1>4, <1>5 DEF Placed
    <2>2. CASE made[o].kind = "listener"
      <3>1. /\ listeners' = [listeners EXCEPT ![made[o].id] = None]
            /\ listener_map' = [listener_map EXCEPT ![made[o].fd] = None]
            /\ UNCHANGED <<transports, transport_map>>
        BY <1>1, <2>2 DEF action_unregister
      <3>2. listeners[made[o].id] = o
        BY <1>4, <2>1, <2>2 DEF In
      <3>3. listeners' = WithoutL(listeners, o)
        BY <1>5, <2>1, <3>1, <3>2 DEF WithoutL
      <3>4. transports' = WithoutT(transports, o)
        BY <1>5, <2>1, <2>2, <3>1 DEF WithoutT
      <3> QED
        BY <2>2, <3>1, <3>3, <3>4 DEF ClearL, ClearT
    <2>3. CASE made[o].kind = "transport"
      <3>1. /\ transports' = [transports EXCEPT ![made[o].id] = None]
            /\ transport_map' = [transport_map EXCEPT ![made[o].fd] = None]
            /\ UNCHANGED <<listeners, listener_map>>
        BY <1>1, <2>3 DEF action_unregister
      <3>2. transports[made[o].id] = o
        BY <1>4, <2>1, <2>3 DEF In
      <3>3. transports' = WithoutT(transports, o)
        BY <1>5, <2>1, <3>1, <3>2 DEF WithoutT
      <3>4. listeners' = WithoutL(listeners, o)
        BY <1>5, <2>1, <2>3, <3>1 DEF WithoutL
      <3> QED
        BY <2>3, <3>1, <3>3, <3>4 DEF ClearL, ClearT
    <2> QED
      BY <1>6, <2>2, <2>3
  <1>8. /\ Core(made, gone, listeners, transports, Tail(actions), ctl)
        /\ ~shared => Aimed(made, listeners, transports, Tail(actions))
    <2>1. Core(made, gone, listeners, transports, Tail(actions), ctl)
      BY <1>2, <1>5, DropAction
    <2>2. actions \in Seq(ActionOf(made)) /\ (~shared => Aimed(made, listeners, transports, actions))
      BY RegistryFacts DEF RegistryInv
    <2> QED
      BY <1>2, <2>1, <2>2, AimedBehind
  <1>9. /\ Core(made', gone', listeners', transports', actions', ctl')
        /\ Grown(made, made', listeners', transports')
        /\ ~shared' => ctl' = <<>> /\ Aimed(made', listeners', transports', actions')
    <2>1. {} \in SUBSET {o} /\ UNCHANGED <<shared, ctl>>
      BY <1>2
    <2> QED
      BY <1>2, <1>4, <1>7, <1>8, <2>1, LeaveStep
  <1>10. Core(made, gone', listeners', transports', Tail(actions), ctl)
    BY <1>2, <1>4, <1>7, <1>8, Remove
  <1>11. /\ Watched(made, listeners', transports', poller', {})
         /\ Index(made, listeners', transports', listener_map', transport_map')
         /\ NoneLeft(made, listeners, listener_map) => NoneLeft(made, listeners', listener_map')
         /\ listener_map' \in [Fds -> Addrs \cup {None}]
         /\ transport_map' \in [Fds -> Fds \cup {None}]
    <2>1. /\ Watched(made, listeners, transports, poller, {})
          /\ Index(made, listeners, transports, listener_map, transport_map)
      BY <1>2 DEF RegistryInv
    <2> QED
      BY <1>2, <1>4, <1>5, <1>7, <2>1, RemoveKeeps
  <1>12. /\ Watched(made', listeners', transports', poller', {})
         /\ Index(made', listeners', transports', listener_map', transport_map')
         /\ NoneLeft(made, listeners, listener_map) => NoneLeft(made', listeners', listener_map')
    BY <1>9, <1>10, <1>11, GrownKeeps
  <1>13. strays' \subseteq Numbers' \X Numbers' /\ (~shared => strays' = {})
    <2>1. 1..Len(made) \subseteq 1..Len(made')
      BY <1>9 DEF Grown
    <2>2. ~shared => r = o
      BY <1>1, <1>2, AimIsTrue
    <2> QED
      BY <1>2, <1>3, <1>4, <2>1, <2>2, RegistryFacts DEF Strayed, Numbers, RegistryInv
  <1>14. unregister_queue = {}
    BY <1>2 DEF RegistryInv
  <1>15. RegistryInv'
    BY <1>2, <1>9, <1>11, <1>12, <1>13, <1>14 DEF RegistryInv
  <1> QED
    BY <1>2, <1>12, <1>15

(* The registration of an open resource that waits nowhere else.            *)
LEMMA RegisteredStep ==
    ASSUME RegistryInv, phase \in {"ctl", "actions"}, NEW o \in 1..Len(made), o \notin gone,
           ~In(listeners, transports, o), Register(o),
           NEW q, NEW c, Core(made, gone, listeners, transports, q, c),
           \A i \in 1..Len(q) : q[i].kind = "register" => q[i].res # o,
           \A i \in 1..Len(c) : c[i] # o,
           ~shared => c = <<>> /\ Aimed(made, PutL(made, listeners, o), PutT(made, transports, o), q),
           actions' = q, ctl' = c,
           UNCHANGED <<shared, made, gone, events, unregister_queue, phase, strays>>
    PROVE  /\ RegistryInv'
           /\ NoneLeft(made, listeners, listener_map) => NoneLeft(made', listeners', listener_map')
  <1>1. /\ made \in Seq(Resource)
        /\ listener_map \in [Fds -> Addrs \cup {None}]
        /\ transport_map \in [Fds -> Fds \cup {None}]
    BY RegistryFacts DEF RegistryInv
  <1>2. made[o].fd \in Fds
    BY <1>1, MadeTypes
  <1>3. /\ listeners' = PutL(made, listeners, o) /\ transports' = PutT(made, transports, o)
        /\ listener_map' = IndexL(made, listener_map, o)
        /\ transport_map' = IndexT(made, transport_map, o)
        /\ poller' = poller \cup {made[o].fd}
    BY DEF Register, PutL, PutT, IndexL, IndexT
  <1>4. Core(made, gone, listeners', transports', q, c)
    BY <1>3, Put
  <1>5. /\ Watched(made, listeners', transports', poller', {})
        /\ Index(made, listeners', transports', listener_map', transport_map')
        /\ NoneLeft(made, listeners, listener_map) => NoneLeft(made, listeners', listener_map')
        /\ listener_map' \in [Fds -> Addrs \cup {None}]
        /\ transport_map' \in [Fds -> Fds \cup {None}]
    <2>1. /\ Watched(made, listeners, transports, poller, {})
          /\ Index(made, listeners, transports, listener_map, transport_map)
      BY DEF RegistryInv
    <2> QED
      BY <1>1, <1>3, <2>1, PutKeeps
  <1>6. unregister_queue = {}
    BY DEF RegistryInv
  <1>7. ~shared => c = <<>> /\ Aimed(made, listeners', transports', q)
    BY <1>3
  <1>8. strays' \subseteq Numbers' \X Numbers' /\ (~shared => strays' = {})
    BY RegistryFacts DEF Numbers, RegistryInv
  <1>9. RegistryInv'
    BY <1>2, <1>3, <1>4, <1>5, <1>6, <1>7, <1>8 DEF RegistryInv
  <1> QED
    BY <1>5, <1>9

(* A registration, queued by the service or sent by a controller.           *)
LEMMA RegistrationStep ==
    ASSUME RegistryInv, action_register \/ ctl_register
    PROVE  /\ RegistryInv'
           /\ NoneLeft(made, listeners, listener_map) => NoneLeft(made', listeners', listener_map')
           /\ phase' # "events"
  <1>0. /\ Core(made, gone, listeners, transports, actions, ctl)
        /\ actions \in Seq(ActionOf(made)) /\ ctl \in Seq(1..Len(made))
    BY RegistryFacts
  <1>1. CASE action_register
    <2>1. PICK o : o = Head(actions).res
      OBVIOUS
    <2>2. /\ phase = "actions" /\ actions # <<>> /\ Head(actions).kind = "register"
          /\ Register(o) /\ actions' = Tail(actions) /\ ctl' = ctl
          /\ UNCHANGED <<shared, made, gone, events, unregister_queue, phase, strays>>
      BY <1>1, <2>1 DEF action_register, Acting
    <2>3. /\ Core(made, gone, listeners, transports, Tail(actions), ctl)
          /\ Head(actions) \in ActionOf(made)
          /\ o \notin gone /\ ~In(listeners, transports, o)
          /\ \A i \in 1..Len(Tail(actions)) :
                Tail(actions)[i].kind = "register" => Tail(actions)[i].res # o
          /\ \A i \in 1..Len(ctl) : ctl[i] # o
      BY <1>0, <2>1, <2>2, DropAction
    <2>4. o \in 1..Len(made)
      BY <2>1, <2>3 DEF ActionOf
    <2>5. ~shared =>
            /\ ctl = <<>>
            /\ Aimed(made, PutL(made, listeners, o), PutT(made, transports, o), Tail(actions))
      <3>1. \A p : In(PutL(made, listeners, o), PutT(made, transports, o), p)
                   => In(listeners, transports, p) \/ p = o
        <4>1. PICK q : q = Tail(actions)
          OBVIOUS
        <4>2. /\ Core(made, gone, listeners, transports, q, ctl)
              /\ \A i \in 1..Len(q) : q[i].kind = "register" => q[i].res # o
          BY <2>3, <4>1
        <4> QED
          BY <2>3, <2>4, <4>2, Put
      <3>2. ~shared => ctl = <<>> /\ Aimed(made, listeners, transports, actions)
        BY DEF RegistryInv
      <3>3. \A p \in 1..Len(made) :
               In(PutL(made, listeners, o), PutT(made, transports, o), p) =>
                  In(listeners, transports, p) \/ (Head(actions).kind = "register" /\ p = Head(actions).res)
        BY <2>1, <2>2, <3>1
      <3>4. Aimed(made, listeners, transports, actions) =>
               Aimed(made, PutL(made, listeners, o), PutT(made, transports, o), Tail(actions))
        BY <1>0, <2>2, <3>3, AimedBehind
      <3> QED
        BY <3>2, <3>4
    <2> QED
      BY <2>2, <2>3, <2>4, <2>5, RegisteredStep
  <1>2. CASE ctl_register
    <2>1. PICK o : o = Head(ctl)
      OBVIOUS
    <2>2. /\ phase = "ctl" /\ ctl # <<>>
          /\ Register(o) /\ actions' = actions /\ ctl' = Tail(ctl)
          /\ UNCHANGED <<shared, made, gone, events, unregister_queue, phase, strays>>
      BY <1>2, <2>1 DEF ctl_register
    <2>3. /\ Core(made, gone, listeners, transports, actions, Tail(ctl))
          /\ o \in 1..Len(made) /\ o \notin gone /\ ~In(listeners, transports, o)
          /\ \A i \in 1..Len(actions) : actions[i].kind = "register" => actions[i].res # o
          /\ \A i \in 1..Len(Tail(ctl)) : Tail(ctl)[i] # o
      BY <1>0, <2>1, <2>2, DropCtl
    <2>4. shared
      BY <2>2 DEF RegistryInv
    <2> QED
      BY <2>2, <2>3, <2>4, RegisteredStep
  <1> QED
    BY <1>1, <1>2

(* The descriptors of what hung up leave the poller.                        *)
LEMMA UnregisterHungStep ==
    ASSUME RegistryInv, unregister_hung
    PROVE  RegistryInv'
  <1>1. /\ poller' = poller \ unregister_queue /\ unregister_queue' = {} /\ phase' = "ctl"
        /\ UNCHANGED <<shared, made, gone, listeners, transports, listener_map, transport_map,
                       events, ctl, actions, strays>>
    BY DEF unregister_hung
  <1>2. Watched(made, listeners, transports, poller', {})
    <2>1. made \in Seq(Resource) /\ Watched(made, listeners, transports, poller, unregister_queue)
      BY RegistryFacts DEF RegistryInv
    <2> QED
      BY <1>1, <2>1 DEF Watched
  <1>3. Numbers' = Numbers
    BY <1>1 DEF Numbers
  <1> QED
    BY <1>1, <1>2, <1>3 DEF RegistryInv

(* A controller makes a transport and sends it through the channel.         *)
LEMMA ControllerStep ==
    ASSUME RegistryInv, controller_register
    PROVE  /\ RegistryInv' /\ Grown(made, made', listeners, transports)
           /\ UNCHANGED <<listeners, transports, listener_map, events, phase>>
  <1>1. /\ shared /\ shared' = shared /\ Len(made) < MaxMade
        /\ ctl' = Append(ctl, Len(made) + 1)
        /\ UNCHANGED <<gone, listeners, transports, listener_map, transport_map, poller,
                       events, unregister_queue, actions, phase, strays>>
    BY DEF controller_register, registry
  <1>2. PICK n : n \in Creatable(gone) /\ made' = Append(made, n)
    BY DEF controller_register
  <1>3. n \in Resource /\ Free(made, gone, n)
    BY <1>2 DEF Creatable, Free, Open, Numbers
  <1>4. Core(made, gone, listeners, transports, actions, ctl)
    BY RegistryFacts
  <1>5. PICK o : o = Len(made) + 1
    OBVIOUS
  <1>6. /\ Core(made', gone, listeners, transports, actions, ctl)
        /\ Grown(made, made', listeners, transports)
        /\ o \in 1..Len(made') /\ o \notin gone /\ ~In(listeners, transports, o)
        /\ \A i \in 1..Len(actions) : actions[i].res # o
        /\ \A i \in 1..Len(ctl) : ctl[i] # o
    BY <1>1, <1>2, <1>3, <1>4, <1>5, Make
  <1>7. Core(made', gone, listeners, transports, actions, ctl')
    BY <1>1, <1>5, <1>6, QueueCtl
  <1>8. strays' \subseteq Numbers' \X Numbers'
    <2>1. 1..Len(made) \subseteq 1..Len(made')
      BY <1>6 DEF Grown
    <2>2. strays \subseteq (1..Len(made)) \X (1..Len(made))
      BY RegistryFacts
    <2> QED
      BY <1>1, <2>1, <2>2 DEF Numbers
  <1>9. /\ Watched(made', listeners, transports, poller, unregister_queue)
        /\ Index(made', listeners, transports, listener_map, transport_map)
    BY <1>4, <1>6, GrownKeeps DEF RegistryInv
  <1> QED
    BY <1>1, <1>6, <1>7, <1>8, <1>9 DEF RegistryInv

(* An event is handled, or poll fails, and the service reacts.              *)
LEMMA HandlerStep ==
    ASSUME RegistryInv, poll_error \/ handle_event_io \/ handle_event_err
    PROVE  /\ RegistryInv' /\ Grown(made, made', listeners, transports)
           /\ events' = events \/ (events # <<>> /\ events' = Tail(events))
           /\ UNCHANGED <<listeners, transports, listener_map, phase>>
  <1>1. /\ React(gone, actions, {})
        /\ UNCHANGED <<shared, gone, registry, unregister_queue, ctl, phase, strays>>
        /\ events' = events \/ (events # <<>> /\ events' = Tail(events))
    BY DEF poll_error, handle_event_io, handle_event_err, Handling
  <1>2. events' \in Seq(Event)
    <2>1. events \in Seq(Event)
      BY RegistryFacts
    <2>2. events # <<>> => Tail(events) \in Seq(Event)
      BY <2>1, Behind
    <2> QED
      BY <1>1, <2>1, <2>2
  <1>3. /\ Core(made, gone, listeners, transports, actions, ctl)
        /\ ~shared => Aimed(made, listeners, transports, actions)
        /\ ~shared => strays = {}
        /\ strays \subseteq (1..Len(made)) \X (1..Len(made))
    BY RegistryFacts DEF RegistryInv
  <1>4. RegistryInv' /\ Grown(made, made', listeners, transports)
    BY <1>1, <1>2, <1>3, ReactStep
  <1> QED
    BY <1>1, <1>4 DEF registry

(* An action on a resource that stays, or that is not there.                *)
LEMMA ActStep ==
    ASSUME RegistryInv, action_send \/ action_unknown
    PROVE  /\ RegistryInv' /\ Grown(made, made', listeners, transports)
           /\ UNCHANGED <<listeners, transports, listener_map, events, phase>>
  <1>0. /\ Core(made, gone, listeners, transports, actions, ctl)
        /\ actions \in Seq(ActionOf(made)) /\ events \in Seq(Event)
        /\ strays \subseteq (1..Len(made)) \X (1..Len(made))
        /\ ~shared => strays = {} /\ Aimed(made, listeners, transports, actions)
    BY RegistryFacts DEF RegistryInv
  <1>1. /\ actions # <<>> /\ Head(actions).kind # "register"
        /\ React(gone, Tail(actions), {})
        /\ UNCHANGED <<shared, gone, registry, events, unregister_queue, ctl, phase>>
    BY DEF action_send, action_unknown, Acting
  <1>2. /\ Core(made, gone, listeners, transports, Tail(actions), ctl)
        /\ Head(actions) \in ActionOf(made)
    BY <1>0, <1>1, DropAction
  <1>3. ~shared => Aimed(made, listeners, transports, Tail(actions))
    BY <1>0, <1>1, AimedBehind
  <1>4. strays' \subseteq (1..Len(made)) \X (1..Len(made)) /\ (~shared => strays' = {})
    <2>1. CASE action_send
      <3>1. PICK r, o : r = Head(actions).res /\ o = Found(r)
        OBVIOUS
      <3>2. o # None /\ strays' = IF r = o THEN strays ELSE strays \cup {<<r, o>>}
        BY <2>1, <3>1 DEF action_send, Strayed
      <3>3. r \in 1..Len(made)
        BY <1>2, <3>1 DEF ActionOf
      <3>4. o \in 1..Len(made)
        BY <3>1, <3>2, <3>3, FoundIn
      <3>5. ~shared => r = o
        BY <1>1, <3>1, <3>2, AimIsTrue
      <3> QED
        BY <1>0, <3>2, <3>3, <3>4, <3>5
    <2>2. CASE action_unknown
      BY <1>0, <2>2 DEF action_unknown
    <2> QED
      BY <2>1, <2>2
  <1>5. events' \in Seq(Event)
    BY <1>0, <1>1
  <1>6. UNCHANGED <<shared, gone, registry, unregister_queue, ctl, phase>>
    BY <1>1
  <1>7. RegistryInv' /\ Grown(made, made', listeners, transports)
    BY <1>1, <1>2, <1>3, <1>4, <1>5, <1>6, ReactStep
  <1> QED
    BY <1>1, <1>7 DEF registry

(* What poll reports: each descriptor once, readiness or a failure that is  *)
(* possible for its owner.                                                  *)
LEMMA PollReports ==
    ASSUME RegistryInv, poll
    PROVE  /\ events' \in Seq(Event)
           /\ \A i, j \in 1..Len(events') : events'[i].fd = events'[j].fd => i = j
           /\ \A i \in 1..Len(events') :
                 events'[i].fd \in poller /\ events'[i].res \in Reports(events'[i].fd)
  <1>1. PICK S \in SUBSET poller \ {{}} : \E s \in Orders(S) :
           \E res \in [S -> {"io", "hup", "err"}] :
              /\ \A fd \in S : res[fd] \in Reports(fd)
              /\ events' = [i \in DOMAIN s |-> [fd |-> s[i], res |-> res[s[i]]]]
    BY DEF poll
  <1>2. PICK s \in Orders(S), res \in [S -> {"io", "hup", "err"}] :
              /\ \A fd \in S : res[fd] \in Reports(fd)
              /\ events' = [i \in DOMAIN s |-> [fd |-> s[i], res |-> res[s[i]]]]
    BY <1>1
  <1>3. IsFiniteSet(S)
    <2>1. PICK f : f = [o \in 1..Len(made) |-> made[o].fd]
      OBVIOUS
    <2>2. /\ Watched(made, listeners, transports, poller, {}) /\ poller \subseteq Fds
          /\ Len(made) \in Nat
      BY RegistryFacts DEF RegistryInv, poll
    <2>3. IsFiniteSet({f[o] : o \in 1..Len(made)})
      <3>1. IsFiniteSet(1..Len(made))
        BY <2>2, FS_Interval
      <3>2. f \in [1..Len(made) -> {f[o] : o \in 1..Len(made)}]
        BY <2>1
      <3>3. f \in Surjection(1..Len(made), {f[o] : o \in 1..Len(made)})
        BY <3>2 DEF Surjection
      <3> QED
        BY <3>1, <3>3, FS_Surjection
    <2>4. S \subseteq {f[o] : o \in 1..Len(made)}
      BY <1>1, <2>1, <2>2 DEF Watched
    <2> QED
      BY <2>3, <2>4, FS_Subset
  <1>4. Cardinality(S) \in Nat
    BY <1>3, FS_CardinalityType
  <1>5. PICK n : n = Cardinality(S)
    OBVIOUS
  <1>6. s \in [1..n -> S] /\ \A fd \in S : \E i \in 1..n : s[i] = fd
    BY <1>2, <1>5 DEF Orders
  <1>7. \A i, j \in 1..n : s[i] = s[j] => i = j
    <2>1. IsFiniteSet(1..n) /\ Cardinality(1..n) = n
      BY <1>4, <1>5, FS_Interval
    <2>2. s \in Surjection(1..n, S)
      BY <1>6 DEF Surjection
    <2>3. s \in Injection(1..n, S)
      BY <1>5, <2>1, <2>2, FS_Surjection
    <2> QED
      BY <2>3 DEF Injection, IsInjective
  <1>8. \A fd \in S : [fd |-> fd, res |-> res[fd]] \in Event
    BY <1>1 DEF Event, RegistryInv
  <1>9. events' = [i \in 1..n |-> [fd |-> s[i], res |-> res[s[i]]]]
    BY <1>2, <1>6
  <1>10. events' \in Seq(Event) /\ Len(events') = n
    BY <1>4, <1>5, <1>6, <1>8, <1>9, SMTT(30)
  <1> QED
    BY <1>2, <1>6, <1>7, <1>9, <1>10

-----------------------------------------------------------------------------
(* The invariant of the registry. *)

(* The reactor starts with nothing but a registration to make.              *)
LEMMA RegistryInvInit ==
    ASSUME Init
    PROVE  RegistryInv /\ EventInv
  <1> USE RuntimeAssumption
  <1>0. \A i : Act("register", i).res = i /\ Act("register", i).kind = "register"
    BY DEF Act
  <1>1. /\ made \in Seq(Resource) /\ Len(made) <= MaxMade /\ Len(made) \in {0, 1}
        /\ DOMAIN made = 1..Len(made)
    BY DEF Init
  <1>2. /\ actions = [i \in 1..Len(made) |-> Act("register", i)] /\ ctl = <<>> /\ gone = {}
        /\ listeners = [a \in Addrs |-> None] /\ transports = [fd \in Fds |-> None]
        /\ listener_map = [fd \in Fds |-> None] /\ transport_map = [fd \in Fds |-> None]
        /\ poller = {} /\ unregister_queue = {} /\ phase = "poll" /\ strays = {}
        /\ events = <<>> /\ shared \in OtherThreads
    BY <1>1 DEF Init
  <1>3. \A i \in 1..Len(made) : Act("register", i) \in ActionOf(made)
    BY DEF Act, ActionOf
  <1>4. /\ actions \in Seq(ActionOf(made)) /\ Len(actions) = Len(made)
        /\ \A i \in 1..Len(actions) : actions[i] = Act("register", i)
    BY <1>1, <1>2, <1>3
  <1>5. \A o \in 1..Len(made) : ~In(listeners, transports, o)
    BY <1>2 DEF In
  <1>6. Types(made, gone, listeners, transports, actions, ctl)
    <2>1. ctl \in Seq(1..Len(made))
      BY <1>2
    <2> QED
      BY <1>1, <1>2, <1>4, <2>1 DEF Types
  <1>7. Distinct(made, gone)
    BY <1>1 DEF Distinct
  <1>8. Placed(made, gone, listeners, transports)
    BY <1>2 DEF Placed
  <1>9. Waiting(gone, listeners, transports, actions, ctl)
    <2>1. \A i \in 1..Len(made) : actions[i].res = i
      BY <1>0, <1>4
    <2>2. Len(ctl) = 0
      BY <1>2
    <2> QED
      BY <1>2, <1>4, <1>5, <2>1, <2>2 DEF Waiting
  <1>10. Aimed(made, listeners, transports, actions)
    <2>1. \A i \in 1..Len(actions) : actions[i].kind = "register"
      BY <1>0, <1>4
    <2> QED
      BY <2>1 DEF Aimed
  <1>11. Watched(made, listeners, transports, poller, unregister_queue)
    BY <1>2, <1>5 DEF Watched
  <1>12. Index(made, listeners, transports, listener_map, transport_map)
    BY <1>2 DEF Index
  <1>13. /\ listener_map \in [Fds -> Addrs \cup {None}]
         /\ transport_map \in [Fds -> Fds \cup {None}]
         /\ poller \subseteq Fds /\ unregister_queue \subseteq Fds
         /\ strays \subseteq Numbers \X Numbers
    BY <1>2
  <1>14. events \in Seq([fd : Fds, res : {"io", "hup", "err"}])
    BY <1>2
  <1>15. Core(made, gone, listeners, transports, actions, ctl)
    BY <1>6, <1>7, <1>8, <1>9 DEF Core
  <1>16. RegistryInv
    BY <1>2, <1>10, <1>11, <1>12, <1>13, <1>14, <1>15 DEF RegistryInv
  <1>17. EventInv
    BY <1>2 DEF EventInv, NoneLeft
  <1> QED
    BY <1>16, <1>17

(* Every step keeps the registry.                                           *)
LEMMA RegistryInvNext ==
    ASSUME RegistryInv, [Next]_vars
    PROVE  RegistryInv'
  <1>0. /\ events \in Seq(Event) /\ phase \in {"poll", "events", "ctl", "actions"}
        /\ phase # "events" => unregister_queue = {}
    BY RegistryFacts DEF RegistryInv
  <1>1. CASE poll
    <2>1. events' \in Seq(Event)
      BY <1>1, PollReports
    <2> QED
      BY <1>0, <1>1, <2>1, IdleStep DEF poll
  <1>2. CASE poll_awoken
    BY <1>0, <1>2, IdleStep DEF poll_awoken
  <1>3. CASE ctl_done
    BY <1>0, <1>3, IdleStep DEF ctl_done
  <1>4. CASE actions_done
    BY <1>0, <1>4, IdleStep DEF actions_done
  <1>5. CASE UNCHANGED vars
    BY <1>0, <1>5, IdleStep DEF vars, registry
  <1> QED
    BY <1>1, <1>2, <1>3, <1>4, <1>5, HandlerStep, ActStep, HupStep, UnregisterHungStep,
       RegistrationStep, UnregisterStep, ControllerStep DEF Next

-----------------------------------------------------------------------------
(* The invariant of the events. *)

(* The index leads from the descriptor of a resource in the reactor to that *)
(* resource.                                                                *)
LEMMA TargetIsOwner ==
    ASSUME RegistryInv, NoneLeft(made, listeners, listener_map),
           NEW o \in 1..Len(made), In(listeners, transports, o)
    PROVE  Target(made[o].fd) = o /\ Known(made[o].fd)
  <1>1. /\ made \in Seq(Resource) /\ Distinct(made, gone)
        /\ Placed(made, gone, listeners, transports)
        /\ listeners \in [Addrs -> 1..Len(made) \cup {None}]
        /\ transports \in [Fds -> 1..Len(made) \cup {None}]
        /\ listener_map \in [Fds -> Addrs \cup {None}]
        /\ Index(made, listeners, transports, listener_map, transport_map)
    BY RegistryFacts DEF RegistryInv, Core
  <1>2. PICK fd : fd = made[o].fd
    OBVIOUS
  <1>3. /\ fd \in Fds /\ o # None
        /\ made[o].kind = "transport" => made[o].id = fd
    BY <1>1, <1>2, MadeTypes
  <1>4. o \notin gone
    BY RegistryFacts, InIsOpen
  <1>5. CASE listener_map[fd] # None
    <2>1. PICK a : a = listener_map[fd]
      OBVIOUS
    <2>2. a \in Addrs /\ listeners[a] # None /\ made[listeners[a]].fd = fd
      BY <1>1, <1>3, <1>5, <2>1 DEF NoneLeft
    <2>3. listeners[a] \in 1..Len(made) /\ listeners[a] \notin gone
      BY <1>1, <2>2 DEF Placed
    <2>4. listeners[a] = o
      BY <1>1, <1>2, <1>4, <2>2, <2>3 DEF Distinct
    <2> QED
      BY <1>2, <1>5, <2>1, <2>4 DEF Target, Known
  <1>6. CASE listener_map[fd] = None
    <2>1. ~\E a \in Addrs : listeners[a] = o
      BY <1>1, <1>2, <1>3, <1>6, RuntimeAssumption DEF Index
    <2>2. PICK x \in Fds : transports[x] = o
      BY <2>1 DEF In
    <2>3. x = fd /\ transport_map[fd] = fd
      BY <1>1, <1>3, <2>2 DEF Placed, Index
    <2>4. fd # None
      BY <1>3, RuntimeAssumption
    <2> QED
      BY <1>2, <1>6, <2>2, <2>3, <2>4 DEF Target, Known
  <1> QED
    BY <1>2, <1>5, <1>6

(* Handling an event leaves the others owned.                               *)
LEMMA OwnedBehind ==
    ASSUME NEW m, NEW ls, NEW ts, NEW evs \in Seq(Event), evs # <<>>,
           EventsOwned(m, ls, ts, evs), NEW l2, NEW t2,
           \A o \in 1..Len(m) : In(ls, ts, o) /\ m[o].fd # Head(evs).fd => In(l2, t2, o)
    PROVE  EventsOwned(m, l2, t2, Tail(evs))
  <1>0. \A i, j \in 1..Len(evs) : evs[i].fd = evs[j].fd => i = j
    BY DEF EventsOwned
  <1>1. PICK t : t = Tail(evs)
    OBVIOUS
  <1>2. /\ Head(evs) = evs[1] /\ 1 \in 1..Len(evs) /\ Len(evs) \in Nat /\ Len(t) = Len(evs) - 1
        /\ \A i \in 1..Len(t) : i + 1 \in 1..Len(evs) /\ t[i] = evs[i + 1]
    BY <1>1, Behind
  <1>3. ASSUME NEW i \in 1..Len(t)
        PROVE  t[i].fd # Head(evs).fd
    <2>1. i + 1 \in 1..Len(evs) /\ i + 1 # 1 /\ t[i] = evs[i + 1]
      BY <1>2
    <2> QED
      BY <1>0, <1>2, <2>1
  <1>4. \A i, j \in 1..Len(t) : t[i].fd = t[j].fd => i = j
    <2> SUFFICES ASSUME NEW i \in 1..Len(t), NEW j \in 1..Len(t), t[i].fd = t[j].fd
                 PROVE  i = j
      OBVIOUS
    <2>1. /\ i + 1 \in 1..Len(evs) /\ t[i] = evs[i + 1]
          /\ j + 1 \in 1..Len(evs) /\ t[j] = evs[j + 1]
      BY <1>2
    <2>2. i + 1 = j + 1
      BY <1>0, <2>1
    <2> QED
      BY <1>2, <2>2
  <1>5. \A i \in 1..Len(t) : \E o \in 1..Len(m) :
          /\ In(l2, t2, o) /\ m[o].fd = t[i].fd
          /\ t[i].res = "hup" => m[o].kind = "transport"
    <2> SUFFICES ASSUME NEW i \in 1..Len(t)
                 PROVE  \E o \in 1..Len(m) :
                           /\ In(l2, t2, o) /\ m[o].fd = t[i].fd
                           /\ t[i].res = "hup" => m[o].kind = "transport"
      OBVIOUS
    <2>1. PICK k \in 1..Len(evs) : t[i] = evs[k]
      BY <1>2
    <2>2. PICK o \in 1..Len(m) : /\ In(ls, ts, o) /\ m[o].fd = t[i].fd
                                 /\ t[i].res = "hup" => m[o].kind = "transport"
      BY <2>1 DEF EventsOwned
    <2> QED
      BY <1>3, <2>2
  <1> QED
    BY <1>1, <1>4, <1>5 DEF EventsOwned

(* poll reports the resources in the reactor, and no hang-up of a listener. *)
LEMMA PollOwned ==
    ASSUME RegistryInv, poll, "hup" \notin ListenerFails
    PROVE  EventsOwned(made, listeners, transports, events')
  <1>1. PICK evs : evs = events'
    OBVIOUS
  <1>2. /\ evs \in Seq(Event)
        /\ \A i, j \in 1..Len(evs) : evs[i].fd = evs[j].fd => i = j
        /\ \A i \in 1..Len(evs) : evs[i].fd \in poller /\ evs[i].res \in Reports(evs[i].fd)
    BY <1>1, PollReports
  <1>3. /\ Watched(made, listeners, transports, poller, {}) /\ poller \subseteq Fds
        /\ made \in Seq(Resource)
    BY RegistryFacts DEF RegistryInv, poll
  <1>4. ASSUME NEW i \in 1..Len(evs)
        PROVE  \E o \in 1..Len(made) :
                  /\ In(listeners, transports, o) /\ made[o].fd = evs[i].fd
                  /\ evs[i].res = "hup" => made[o].kind = "transport"
    <2>1. PICK fd : fd = evs[i].fd
      OBVIOUS
    <2>2. PICK o \in 1..Len(made) : In(listeners, transports, o) /\ made[o].fd = fd
      BY <1>2, <1>3, <2>1 DEF Watched
    <2>3. o \notin gone
      BY <2>2, RegistryFacts, InIsOpen
    <2>6. made[o].kind \in {"listener", "transport"}
      BY <1>3, MadeTypes
    <2>4. made[o].kind = "listener" => Reports(fd) = {"io"} \cup ListenerFails
      BY <2>2, <2>3 DEF Reports, Open, Numbers
    <2>5. evs[i].res \in Reports(fd)
      BY <1>2, <2>1
    <2> QED
      BY <2>1, <2>2, <2>4, <2>5, <2>6
  <1> QED
    BY <1>1, <1>2, <1>4 DEF EventsOwned

(* Every step keeps the index of listeners exact and the events owned, as   *)
(* long as no listener hangs up.                                            *)
LEMMA EventInvNext ==
    ASSUME RegistryInv, EventInv, [Next]_vars, "hup" \notin ListenerFails
    PROVE  EventInv'
  <1>0. /\ Core(made, gone, listeners, transports, actions, ctl)
        /\ listener_map \in [Fds -> Addrs \cup {None}]
        /\ transport_map \in [Fds -> Fds \cup {None}]
        /\ events \in Seq(Event)
        /\ NoneLeft(made, listeners, listener_map)
        /\ phase = "events" => EventsOwned(made, listeners, transports, events)
    BY RegistryFacts DEF RegistryInv, EventInv
  <1>1. CASE poll
    <2>1. EventsOwned(made, listeners, transports, events')
      BY <1>1, PollOwned
    <2>2. UNCHANGED <<made, listeners, transports, listener_map>>
      BY <1>1 DEF poll, registry
    <2> QED
      BY <1>0, <2>1, <2>2 DEF EventInv
  <1>2. CASE poll_awoken \/ ctl_done \/ actions_done \/ unregister_hung
    <2>1. UNCHANGED <<made, listeners, listener_map>> /\ phase' # "events"
      BY <1>2 DEF poll_awoken, ctl_done, actions_done, unregister_hung, registry
    <2> QED
      BY <1>0, <2>1 DEF EventInv
  <1>3. CASE UNCHANGED vars
    BY <1>0, <1>3 DEF EventInv, vars
  <1>4. CASE \/ poll_error \/ handle_event_io \/ handle_event_err
             \/ action_send \/ action_unknown \/ controller_register
    <2>1. /\ Grown(made, made', listeners, transports)
          /\ UNCHANGED <<listeners, transports, listener_map, phase>>
          /\ events' = events \/ (events # <<>> /\ events' = Tail(events))
      BY <1>4, HandlerStep, ActStep, ControllerStep
    <2>2. EventsOwned(made, listeners, transports, events) =>
             EventsOwned(made, listeners, transports, events')
      <3>1. CASE events' = events
        BY <3>1
      <3>2. CASE events # <<>> /\ events' = Tail(events)
        BY <1>0, <3>2, OwnedBehind
      <3> QED
        BY <2>1, <3>1, <3>2
    <2>3. /\ NoneLeft(made', listeners, listener_map)
          /\ EventsOwned(made, listeners, transports, events') =>
                EventsOwned(made', listeners, transports, events')
      BY <1>0, <2>1, GrownKeeps
    <2> QED
      BY <1>0, <2>1, <2>2, <2>3 DEF EventInv
  <1>5. CASE handle_event_hup
    <2>1. PICK o : o = Target(Head(events).fd)
      OBVIOUS
    <2>2. /\ phase = "events" /\ phase' = phase /\ events # <<>> /\ Head(events).res = "hup"
          /\ events' = Tail(events) /\ listener_map' = listener_map
          /\ listeners' = WithoutL(listeners, o) /\ transports' = WithoutT(transports, o)
      BY <1>5, <2>1 DEF handle_event_hup, Handling, WithoutL, WithoutT
    <2>3. /\ o \in 1..Len(made) /\ In(listeners, transports, o)
          /\ Grown(made, made', listeners', transports')
          /\ Core(made, gone', listeners', transports', actions, ctl)
      BY <1>5, <2>1, HupStep
    <2>4. made[o].kind = "transport" /\ made[o].fd = Head(events).fd
      <3>1. Head(events) = events[1] /\ 1 \in 1..Len(events)
        BY <1>0, <2>2, Behind
      <3>2. PICK p \in 1..Len(made) : /\ In(listeners, transports, p)
                                      /\ made[p].fd = Head(events).fd
                                      /\ made[p].kind = "transport"
        BY <1>0, <2>2, <3>1 DEF EventsOwned
      <3>3. p = o
        BY <1>0, <2>1, <3>2, TargetIsOwner
      <3> QED
        BY <3>2, <3>3
    <2>5. NoneLeft(made, listeners', listener_map)
      BY <1>0, <2>2, <2>3, <2>4, RemoveKeeps
    <2>6. EventsOwned(made, listeners', transports', events')
      <3>1. \A p \in 1..Len(made) : p # None
        BY RegistryFacts, MadeTypes
      <3>2. \A p : p # None => (In(listeners', transports', p) <=> In(listeners, transports, p) /\ p # o)
        BY <1>0, <2>2, <2>3, Remove
      <3>3. \A p \in 1..Len(made) : In(listeners, transports, p) /\ made[p].fd # Head(events).fd
               => In(listeners', transports', p)
        BY <2>4, <3>1, <3>2
      <3> QED
        BY <1>0, <2>2, <3>3, OwnedBehind
    <2>7. /\ NoneLeft(made', listeners', listener_map)
          /\ EventsOwned(made', listeners', transports', events')
      BY <1>0, <2>3, <2>5, <2>6, GrownKeeps
    <2> QED
      BY <2>2, <2>7 DEF EventInv
  <1>6. CASE action_register \/ ctl_register \/ action_unregister
    BY <1>0, <1>6, RegistrationStep, UnregisterStep DEF EventInv
  <1> QED
    BY <1>1, <1>2, <1>3, <1>4, <1>5, <1>6 DEF Next

-----------------------------------------------------------------------------
(* The theorems. *)

(* Every variable of the registry ranges over its type, for any descriptors *)
(* and addresses and any number of resources.                               *)
THEOREM RegistryTypes == Spec => []TypeOK
  <1>1. Init => RegistryInv
    BY RegistryInvInit
  <1>2. RegistryInv /\ [Next]_vars => RegistryInv'
    BY RegistryInvNext
  <1>3. RegistryInv => TypeOK
    BY DEF RegistryInv, Core, Types, TypeOK, ActionOf, Numbers
  <1> QED
    BY <1>1, <1>2, <1>3, PTL DEF Spec

(* Outside handle_events the poller watches the descriptors of the          *)
(* resources in the reactor, all of them open, and no others: what hung up  *)
(* has left it before its descriptor can be registered again.               *)
THEOREM PollerFollowsRegistry == Spec => []PollerMatches
  <1>1. Init => RegistryInv
    BY RegistryInvInit
  <1>2. RegistryInv /\ [Next]_vars => RegistryInv'
    BY RegistryInvNext
  <1>3. ASSUME RegistryInv, phase # "events"
        PROVE  /\ poller = {made[o].fd : o \in InReactor}
               /\ InReactor \cap gone = {}
    <2>1. \A o \in 1..Len(made) : o \in InReactor <=> In(listeners, transports, o)
      BY DEF InReactor, In, Numbers
    <2>2. InReactor \subseteq 1..Len(made)
      BY DEF InReactor, Numbers
    <2>3. /\ Watched(made, listeners, transports, poller, {}) /\ poller \subseteq Fds
          /\ made \in Seq(Resource)
      BY <1>3, RegistryFacts DEF RegistryInv
    <2>4. \A o \in 1..Len(made) : made[o].fd \in Fds
      BY <2>3, MadeTypes
    <2>5. poller = {made[o].fd : o \in InReactor}
      BY <2>1, <2>2, <2>3, <2>4 DEF Watched
    <2>6. \A o \in InReactor : o \notin gone
      BY <1>3, <2>1, <2>2, RegistryFacts, InIsOpen
    <2> QED
      BY <2>5, <2>6
  <1>4. RegistryInv => PollerMatches
    BY <1>3 DEF PollerMatches
  <1> QED
    BY <1>1, <1>2, <1>4, PTL DEF Spec

(* Without controllers in other threads an action acts on the resource the  *)
(* service meant or on none, however descriptors are reused.                *)
THEOREM ActionsAimed == Spec => []ActionsReachTheirResource
  <1>1. Init => RegistryInv
    BY RegistryInvInit
  <1>2. RegistryInv /\ [Next]_vars => RegistryInv'
    BY RegistryInvNext
  <1>3. RegistryInv => ActionsReachTheirResource
    BY DEF RegistryInv, ActionsReachTheirResource
  <1> QED
    BY <1>1, <1>2, <1>3, PTL DEF Spec

(* If no listener ever hangs up, every event is handed to the open resource *)
(* that owns its descriptor.                                                *)
THEOREM EventsDelivered ==
    ASSUME "hup" \notin ListenerFails
    PROVE  Spec => []EventsReachTheirResource
  <1>1. Init => RegistryInv /\ EventInv
    BY RegistryInvInit
  <1>2. RegistryInv /\ EventInv /\ [Next]_vars => RegistryInv' /\ EventInv'
    BY RegistryInvNext, EventInvNext
  <1>3. ASSUME RegistryInv, EventInv, phase = "events", NEW i \in 1..Len(events)
        PROVE  LET o == Target(events[i].fd) IN
                  o # None => made[o].fd = events[i].fd /\ o \notin gone
    <2>1. PICK o \in 1..Len(made) : In(listeners, transports, o) /\ made[o].fd = events[i].fd
      BY <1>3 DEF EventInv, EventsOwned
    <2>2. Target(events[i].fd) = o
      BY <1>3, <2>1, TargetIsOwner DEF EventInv
    <2>3. o \notin gone
      BY <1>3, <2>1, RegistryFacts, InIsOpen
    <2> QED
      BY <2>1, <2>2, <2>3
  <1>4. RegistryInv /\ EventInv => EventsReachTheirResource
    BY <1>3 DEF EventsReachTheirResource
  <1> QED
    BY <1>1, <1>2, <1>4, PTL DEF Spec

(* If no listener ever hangs up, none of the expectations of the reactor    *)
(* thread fails.                                                            *)
THEOREM RuntimeNeverPanics ==
    ASSUME "hup" \notin ListenerFails
    PROVE  Spec => []NoPanic
  <1>1. Init => RegistryInv /\ EventInv
    BY RegistryInvInit
  <1>2. RegistryInv /\ EventInv /\ [Next]_vars => RegistryInv' /\ EventInv'
    BY RegistryInvNext, EventInvNext
  <1>3. ASSUME RegistryInv, EventInv, phase = "events", events # <<>>
        PROVE  Target(Head(events).fd) # None /\ Known(Head(events).fd)
    <2>1. Head(events) = events[1] /\ 1 \in 1..Len(events)
      BY <1>3, RegistryFacts, Behind
    <2>2. PICK o \in 1..Len(made) : In(listeners, transports, o) /\ made[o].fd = Head(events).fd
      BY <1>3, <2>1 DEF EventInv, EventsOwned
    <2>3. Target(Head(events).fd) = o /\ Known(Head(events).fd)
      BY <1>3, <2>2, TargetIsOwner DEF EventInv
    <2>4. o # None
      BY <1>3, <2>2, RegistryFacts, MadeTypes
    <2> QED
      BY <2>3, <2>4
  <1>4. ASSUME RegistryInv, actions # <<>>, Found(Head(actions).res) # None
        PROVE  Indexed(Found(Head(actions).res)) # None
    <2>1. PICK r, o : r = Head(actions).res /\ o = Found(r)
      OBVIOUS
    <2>0. Head(actions) \in ActionOf(made)
      BY <1>4, RegistryFacts, Behind
    <2>2. r \in 1..Len(made)
      BY <2>0, <2>1 DEF ActionOf
    <2>3. o \in 1..Len(made) /\ In(listeners, transports, o) /\ o # None
      BY <1>4, <2>1, <2>2, FoundIn
    <2>4. /\ made \in Seq(Resource) /\ Placed(made, gone, listeners, transports)
          /\ Index(made, listeners, transports, listener_map, transport_map)
      BY <1>4, RegistryFacts DEF RegistryInv, Core
    <2>5. /\ made[o].fd \in Fds
          /\ made[o].kind = "transport" => made[o].id = made[o].fd
      BY <2>3, <2>4, MadeTypes
    <2>6. CASE \E a \in Addrs : listeners[a] = o
      BY <2>1, <2>3, <2>4, <2>6, RuntimeAssumption DEF Indexed, Index, Placed
    <2>7. CASE \E fd \in Fds : transports[fd] = o
      BY <2>1, <2>3, <2>4, <2>5, <2>7, RuntimeAssumption DEF Indexed, Index, Placed
    <2> QED
      BY <2>3, <2>6, <2>7 DEF In
  <1>5. RegistryInv /\ EventInv => NoPanic
    BY <1>3, <1>4 DEF NoPanic, Handling, Acting
  <1> QED
    BY <1>1, <1>2, <1>5, PTL DEF Spec
=============================================================================
