-------------------------- MODULE NoiseSession_proofs --------------------------
(***************************************************************************)
(* Neither end of a Noise session takes an act or credentials for data, or  *)
(* another peer for the one it has dialled, in whatever pieces the stream   *)
(* arrives, for any keys, credentials and amount of data.                   *)
(***************************************************************************)
EXTENDS NoiseSession, SequenceTheorems, TLAPS

(* All that an end has written: its acts, its credentials and its data.     *)
ActsOut(e) ==
    IF acts[e] = 0 THEN <<>>
    ELSE IF e = "R" THEN Act(2)
    ELSE IF acts[e] = 3 THEN Act(1) \o Act(3) ELSE Act(1)

CredentialsOut(e) == IF sent[e] THEN Credentials(context[e]) ELSE <<>>

Stream(e) == (ActsOut(e) \o CredentialsOut(e)) \o Data(0, wrote[e])

(* The other end has read the prefix p of it, and the rest is on the wire.  *)
Follows(e, p) == Stream(e) = p \o wire[e]

Shape ==
    /\ TypeOK
    /\ wire \in [Ends -> Seq(Units)] /\ got \in [Ends -> Seq(Units)] /\ arrived \in [Ends -> Nat]

(* What an end writes it writes in this order.                              *)
Ordered(e) ==
    /\ acts[e] \in IF e = "I" THEN {0, 1, 3} ELSE {0, 2, 3}
    /\ sent[e] => acts[e] = 3
    /\ wrote[e] > 0 => sent[e]

(* The states of an end in a reactor: the initiator leaves Init with its    *)
(* first act, and reads nothing before.                                     *)
ByReactor(e) == InReactor(e) =>
    /\ state[e] \in {"Init", "Handshake", "Active", "Terminated"}
    /\ state[e] = "Init" => e = "I" /\ batch[e] \in {<<>>, <<"Write">>}
    /\ e = "I" /\ acts[e] = 0 => state[e] = "Init"

(* The states of connect_blocking, and what has been written by then.       *)
ByCaller == mode = "blocking" =>
    /\ batch["I"] = <<>>
    /\ state["I"] \in {"Dial", "Act", "Certify", "Verify", "Active", "Terminated", "Panic"}
    /\ state["I"] = "Dial" => acts["I"] = 0
    /\ state["I"] = "Act" => acts["I"] = 1
    /\ state["I"] = "Certify" => acts["I"] = 3 /\ ~sent["I"]
    /\ state["I"] \in {"Verify", "Active"} => acts["I"] = 3 /\ sent["I"]

(* An identity is that of the peer, whose credentials are valid; an end is  *)
(* active with one, the one it has dialled, and has none before.            *)
Identity(e) ==
    /\ remote_id[e] # None =>
          /\ acts[e] = 3 /\ sent[Peer(e)]
          /\ remote_id[e] = context[Peer(e)].cert /\ context[Peer(e)].valid
    /\ state[e] \in {"Init", "Handshake", "Dial", "Act", "Certify", "Verify"} => remote_id[e] = None
    /\ state[e] = "Active" => remote_id[e] # None /\ (e = "I" => remote_id[e] = target)

Addressed == remote_addr["I"] = target /\ remote_addr["R"] = remote_id["R"]

(* What is on the wire is the rest of what was written.                     *)
Rest(e) == \E p \in Seq(Units) : Follows(e, p)

(* It is data once the reader has the identity of the writer, and the data  *)
(* that comes next.                                                         *)
Gives(e) ==
    /\ remote_id[Peer(e)] = None => got[Peer(e)] = <<>>
    /\ remote_id[Peer(e)] # None =>
          /\ Len(got[Peer(e)]) <= wrote[e]
          /\ wire[e] = Data(Len(got[Peer(e)]), wrote[e])

Given(e) == got[e] = Data(0, Len(got[e]))

EndInv(e) == /\ Ordered(e) /\ ByReactor(e) /\ Identity(e) /\ Rest(e) /\ Gives(e) /\ Given(e)

(* connect_blocking reads whole acts and whole credentials.                 *)
Whole ==
    mode = "blocking" =>
        /\ state["I"] \in {"Dial", "Act"} => Follows("R", <<>>)
        /\ state["I"] \in {"Certify", "Verify"} => Follows("R", Act(2))

SessionInv == /\ Shape /\ \A e \in Ends : EndInv(e)
              /\ ByCaller /\ Addressed /\ Whole /\ PanicOnlyOnWrongPeer

-----------------------------------------------------------------------------
(* The parts of a stream.                                                   *)

(* A unit is a unit, and two that are equal agree in all they have.         *)
LEMMA UnitProps ==
    ASSUME NEW is \in {"act", "pk", "sig", "data"}, NEW no \in Nat, NEW key \in Keys \cup {None}
    PROVE  /\ Unit(is, no, key) \in Units
           /\ Unit(is, no, key).is = is /\ Unit(is, no, key).no = no /\ Unit(is, no, key).key = key
BY DEF Unit, Units

(* A stretch of data.                                                       *)
LEMMA DataProps ==
    ASSUME NEW a \in Nat, NEW b \in Nat, a <= b
    PROVE  /\ Data(a, b) \in Seq(Units) /\ Len(Data(a, b)) = b - a
           /\ \A i \in 1..(b - a) : Data(a, b)[i] = Unit("data", a + i, None)
<1>1. \A i \in 1..(b - a) : Unit("data", a + i, None) \in Units
  BY UnitProps
<1>2. PICK d : d = Data(a, b)
  OBVIOUS
<1>3. PICK n \in Nat : n = b - a
  OBVIOUS
<1>4. d = [i \in 1..n |-> Unit("data", a + i, None)]
  BY <1>2, <1>3 DEF Data
<1>5. d \in [1..n -> Units] /\ \A i \in 1..n : d[i] = Unit("data", a + i, None)
  BY <1>1, <1>3, <1>4
<1>6. d \in Seq(Units)
  BY <1>5, SeqDef
<1>7. Len(d) = n
  BY <1>5, <1>6, LenProperties
<1> QED BY <1>2, <1>3, <1>5, <1>6, <1>7

(* No data is the empty sequence.                                           *)
LEMMA NoData ==
    ASSUME NEW a \in Nat
    PROVE  Data(a, a) = <<>>
<1>1. Data(a, a) \in Seq(Units) /\ Len(Data(a, a)) = 0
  BY DataProps
<1> QED BY <1>1, EmptySeq

(* Data that is followed by the next data is one stretch of data.           *)
LEMMA DataJoin ==
    ASSUME NEW a \in Nat, NEW b \in Nat, NEW c \in Nat, a <= b, b <= c
    PROVE  Data(a, b) \o Data(b, c) = Data(a, c)
<1>1. PICK s \in Seq(Units), t \in Seq(Units), u \in Seq(Units) :
         s = Data(a, b) /\ t = Data(b, c) /\ u = Data(a, c)
  <2>1. a <= c
    OBVIOUS
  <2>2. Data(a, b) \in Seq(Units) /\ Data(b, c) \in Seq(Units) /\ Data(a, c) \in Seq(Units)
    BY <2>1, DataProps
  <2> QED BY <2>2
<1>2. Len(s) = b - a /\ \A i \in 1..(b - a) : s[i] = Unit("data", a + i, None)
  BY <1>1, DataProps
<1>3. Len(t) = c - b /\ \A i \in 1..(c - b) : t[i] = Unit("data", b + i, None)
  BY <1>1, DataProps
<1>4. Len(u) = c - a /\ \A i \in 1..(c - a) : u[i] = Unit("data", a + i, None)
  <2>1. a <= c
    OBVIOUS
  <2> QED BY <2>1, <1>1, DataProps
<1>5. /\ s \o t \in Seq(Units) /\ Len(s \o t) = Len(s) + Len(t)
      /\ \A i \in 1..Len(s) + Len(t) : (s \o t)[i] = IF i <= Len(s) THEN s[i] ELSE t[i - Len(s)]
  BY ConcatProperties
<1>6. \A i \in 1..(c - a) : (s \o t)[i] = u[i]
  <2> TAKE i \in 1..(c - a)
  <2>1. CASE i <= b - a
    <3>1. (s \o t)[i] = s[i] /\ i \in 1..(b - a)
      BY <2>1, <1>2, <1>3, <1>5
    <3> QED BY <3>1, <1>2, <1>4
  <2>2. CASE ~(i <= b - a)
    <3>1. i - (b - a) \in 1..(c - b) /\ b + (i - (b - a)) = a + i
      BY <2>2
    <3>2. (s \o t)[i] = t[i - (b - a)]
      BY <2>2, <1>2, <1>3, <1>5
    <3> QED BY <3>1, <3>2, <1>3, <1>4
  <2> QED BY <2>1, <2>2
<1>7. Len(s \o t) = Len(u) /\ Len(u) = c - a
  BY <1>2, <1>3, <1>4, <1>5
<1>8. s \o t = u
  BY <1>5, <1>6, <1>7, SeqEqual
<1> QED BY <1>1, <1>8

(* A sequence is what is read of it and the rest.                           *)
LEMMA Cut ==
    ASSUME NEW w \in Seq(Units), NEW n \in 0..Len(w)
    PROVE  /\ SubSeq(w, 1, n) \in Seq(Units) /\ Len(SubSeq(w, 1, n)) = n
           /\ \A i \in 1..n : SubSeq(w, 1, n)[i] = w[i]
           /\ SubSeq(w, n + 1, Len(w)) \in Seq(Units)
           /\ Len(SubSeq(w, n + 1, Len(w))) = Len(w) - n
           /\ w = SubSeq(w, 1, n) \o SubSeq(w, n + 1, Len(w))
<1>1. Len(w) \in Nat /\ \A i \in 1..Len(w) : w[i] \in Units
  BY LenProperties, ElementOfSeq
<1>2. /\ SubSeq(w, 1, n) \in Seq(Units) /\ Len(SubSeq(w, 1, n)) = n
      /\ \A i \in 1..n : SubSeq(w, 1, n)[i] = w[i]
  BY <1>1, SubSeqProperties
<1>3. SubSeq(w, n + 1, Len(w)) \in Seq(Units) /\ Len(SubSeq(w, n + 1, Len(w))) = Len(w) - n
  BY <1>1, SubSeqProperties
<1>4. SubSeq(w, 1, n) \o SubSeq(w, n + 1, Len(w)) = SubSeq(w, 1, Len(w))
  <2>1. 1 \in 1..(Len(w) + 1) /\ n \in (1 - 1)..Len(w) /\ Len(w) \in n..Len(w)
    BY <1>1
  <2> QED BY <2>1, ConcatAdjacentSubSeq, Zenon
<1>5. SubSeq(w, 1, Len(w)) = w
  BY SubSeqFull
<1> QED BY <1>2, <1>3, <1>4, <1>5

(* Two sequences that begin with parts of the same length and are equal     *)
(* begin with the same part, and go on equally.                             *)
LEMMA RestOfEqual ==
    ASSUME NEW s \in Seq(Units), NEW t \in Seq(Units), NEW u \in Seq(Units), NEW v \in Seq(Units),
           s \o t = u \o v, Len(s) = Len(u)
    PROVE  s = u /\ t = v
<1>1. /\ \A i \in 1..Len(s) + Len(t) : (s \o t)[i] = IF i <= Len(s) THEN s[i] ELSE t[i - Len(s)]
      /\ \A i \in 1..Len(u) + Len(v) : (u \o v)[i] = IF i <= Len(u) THEN u[i] ELSE v[i - Len(u)]
      /\ Len(s) \in Nat /\ Len(t) \in Nat /\ Len(u) \in Nat /\ Len(v) \in Nat
  BY ConcatProperties, LenProperties
<1>2. \A i \in 1..Len(s) : s[i] = u[i]
  <2> TAKE i \in 1..Len(s)
  <2>1. i \in 1..Len(s) + Len(t) /\ i \in 1..Len(u) + Len(v) /\ i <= Len(s) /\ i <= Len(u)
    BY <1>1
  <2> QED BY <2>1, <1>1
<1>3. s = u
  BY <1>2, SeqEqual
<1>4. Len(t) = Len(v)
  <2>1. Len(s \o t) = Len(s) + Len(t) /\ Len(u \o v) = Len(u) + Len(v)
    BY ConcatProperties
  <2> QED BY <2>1, <1>1
<1>5. \A i \in 1..Len(t) : t[i] = v[i]
  <2> TAKE i \in 1..Len(t)
  <2>1. PICK k : k = Len(s) + i
    OBVIOUS
  <2>2. /\ k \in 1..Len(s) + Len(t) /\ k \in 1..Len(u) + Len(v) /\ ~(k <= Len(s)) /\ ~(k <= Len(u))
        /\ k - Len(s) = i /\ k - Len(u) = i
    BY <2>1, <1>1, <1>4
  <2>3. (s \o t)[k] = t[i] /\ (u \o v)[k] = v[i]
    BY <2>2, <1>1
  <2> QED BY <2>3
<1>6. t = v
  BY <1>4, <1>5, SeqEqual
<1> QED BY <1>3, <1>6

(* Reading a part of a stretch of data.                                     *)
LEMMA DataCut ==
    ASSUME NEW a \in Nat, NEW b \in Nat, a <= b, NEW n \in 0..(b - a)
    PROVE  /\ SubSeq(Data(a, b), 1, n) = Data(a, a + n)
           /\ SubSeq(Data(a, b), n + 1, Len(Data(a, b))) = Data(a + n, b)
<1>1. PICK w \in Seq(Units) : w = Data(a, b) /\ Len(w) = b - a
  BY DataProps
<1>2. /\ Data(a, a + n) \in Seq(Units) /\ Len(Data(a, a + n)) = n
      /\ Data(a + n, b) \in Seq(Units)
  <2>1. a + n \in Nat /\ a <= a + n /\ a + n <= b /\ (a + n) - a = n
    OBVIOUS
  <2> QED BY <2>1, DataProps
<1>3. w = Data(a, a + n) \o Data(a + n, b)
  <2>1. a + n \in Nat /\ a <= a + n /\ a + n <= b
    OBVIOUS
  <2> QED BY <2>1, <1>1, DataJoin
<1>4. n \in 0..Len(w)
  BY <1>1
<1>5. /\ SubSeq(w, 1, n) \in Seq(Units) /\ Len(SubSeq(w, 1, n)) = n
      /\ SubSeq(w, n + 1, Len(w)) \in Seq(Units)
      /\ w = SubSeq(w, 1, n) \o SubSeq(w, n + 1, Len(w))
  BY <1>4, Cut
<1>6. SubSeq(w, 1, n) = Data(a, a + n) /\ SubSeq(w, n + 1, Len(w)) = Data(a + n, b)
  BY <1>2, <1>3, <1>5, RestOfEqual
<1> QED BY <1>1, <1>6

(* An act is two units.                                                     *)
LEMMA ActProps ==
    ASSUME target \in Keys, NEW n \in {1, 2, 3}
    PROVE  /\ Act(n) \in Seq(Units) /\ Len(Act(n)) = 2
           /\ \A i \in 1..2 : Act(n)[i].is = "act"
<1>1. 2 * n - 1 \in Nat /\ 2 * n \in Nat
  OBVIOUS
<1>2. PICK u \in Units, v \in Units :
         /\ u = Unit("act", 2 * n - 1, target) /\ v = Unit("act", 2 * n, target)
         /\ u.is = "act" /\ v.is = "act"
  BY <1>1, UnitProps
<1>3. Act(n) = <<u, v>>
  BY <1>2 DEF Act
<1>4. PICK a : a = <<u, v>>
  OBVIOUS
<1>5. a \in Seq(Units) /\ Len(a) = 2 /\ a[1] = u /\ a[2] = v
  BY <1>4
<1>6. \A i \in 1..2 : a[i].is = "act"
  BY <1>2, <1>5
<1> QED BY <1>3, <1>4, <1>5, <1>6

(* Credentials are a key and a signature, which is one of that key if it is *)
(* valid, and not otherwise.                                                *)
LEMMA CredentialsProps ==
    ASSUME NEW c \in Contexts
    PROVE  /\ Credentials(c) \in Seq(Units) /\ Len(Credentials(c)) = 3
           /\ Credentials(c)[1].is = "pk" /\ Credentials(c)[1].key = c.cert /\ c.cert \in Keys
           /\ \A i \in 2..3 : Credentials(c)[i].is = "sig"
           /\ \A x : x[1] = Credentials(c)[1] /\ x[2] = Credentials(c)[2] /\ x[3] = Credentials(c)[3]
                       => (Signed(x) <=> c.valid)
<1>1. c.cert \in Keys /\ c.valid \in BOOLEAN /\ None \notin Keys
  BY NoiseSessionAssumption
<1>2. PICK signer \in Keys \cup {None} : signer = IF c.valid THEN c.cert ELSE None
  BY <1>1
<1>3. signer = c.cert <=> c.valid
  BY <1>1, <1>2
<1>4. PICK u \in Units, v \in Units, w \in Units :
         /\ u = Unit("pk", 0, c.cert) /\ v = Unit("sig", 1, signer) /\ w = Unit("sig", 2, signer)
         /\ u.is = "pk" /\ u.key = c.cert /\ v.is = "sig" /\ w.is = "sig"
         /\ v.key = signer /\ w.key = signer
  BY <1>1, UnitProps
<1>5. Credentials(c) = <<u, v, w>>
  BY <1>2, <1>4 DEF Credentials
<1>6. PICK x : x = <<u, v, w>>
  OBVIOUS
<1>7. x \in Seq(Units) /\ Len(x) = 3 /\ x[1] = u /\ x[2] = v /\ x[3] = w
  BY <1>6
<1>8. \A i \in 2..3 : i = 2 \/ i = 3
  OBVIOUS
<1>9. \A y : y[1] = u /\ y[2] = v /\ y[3] = w => (Signed(y) <=> c.valid)
  <2> TAKE y
  <2> HAVE y[1] = u /\ y[2] = v /\ y[3] = w
  <2>1. Unit("sig", 1, c.cert).key = c.cert
    BY <1>1, UnitProps
  <2>2. Signed(y) <=> v = Unit("sig", 1, c.cert) /\ w = Unit("sig", 2, c.cert)
    BY <1>4 DEF Signed
  <2>3. ASSUME Signed(y) PROVE c.valid
    BY <2>1, <2>2, <2>3, <1>3, <1>4
  <2>4. ASSUME c.valid PROVE Signed(y)
    BY <2>2, <2>4, <1>3, <1>4
  <2> QED BY <2>3, <2>4
<1> QED BY <1>1, <1>4, <1>5, <1>6, <1>7, <1>8, <1>9

(* The parts of what an end has written.                                    *)
LEMMA StreamParts ==
    ASSUME Shape, NEW e \in Ends
    PROVE  /\ ActsOut(e) \in Seq(Units) /\ \A i \in 1..Len(ActsOut(e)) : ActsOut(e)[i].is = "act"
           /\ CredentialsOut(e) \in Seq(Units)
           /\ Data(0, wrote[e]) \in Seq(Units) /\ Len(Data(0, wrote[e])) = wrote[e]
           /\ \A i \in 1..wrote[e] : Data(0, wrote[e])[i].is = "data"
           /\ CredentialsOut(e) \o Data(0, wrote[e]) \in Seq(Units)
           /\ Stream(e) = ActsOut(e) \o (CredentialsOut(e) \o Data(0, wrote[e]))
           /\ Stream(e) \in Seq(Units)
           /\ context[e] \in Contexts /\ wrote[e] \in Nat
<1>1. /\ target \in Keys /\ context[e] \in Contexts /\ wrote[e] \in Nat /\ <<>> \in Seq(Units)
      /\ 0 \in Nat /\ 0 <= wrote[e] /\ Len(<<>>) = 0
  BY EmptySeq, NoiseSessionAssumption DEF Shape, TypeOK
<1>2. ActsOut(e) \in Seq(Units) /\ \A i \in 1..Len(ActsOut(e)) : ActsOut(e)[i].is = "act"
  <2>1. PICK a \in Seq(Units), b \in Seq(Units), c \in Seq(Units) :
           /\ a = Act(1) /\ b = Act(2) /\ c = Act(3) /\ Len(a) = 2 /\ Len(b) = 2 /\ Len(c) = 2
           /\ \A i \in 1..2 : a[i].is = "act" /\ b[i].is = "act" /\ c[i].is = "act"
    BY <1>1, ActProps
  <2>2. /\ a \o c \in Seq(Units) /\ Len(a \o c) = 4
        /\ \A i \in 1..4 : (a \o c)[i] = IF i <= 2 THEN a[i] ELSE c[i - 2]
    BY <2>1, ConcatProperties
  <2>3. \A i \in 1..4 : (a \o c)[i].is = "act"
    BY <2>1, <2>2
  <2> QED BY <1>1, <2>1, <2>2, <2>3 DEF ActsOut
<1>3. CredentialsOut(e) \in Seq(Units)
  BY <1>1, CredentialsProps DEF CredentialsOut
<1>4. /\ Data(0, wrote[e]) \in Seq(Units) /\ Len(Data(0, wrote[e])) = wrote[e]
      /\ \A i \in 1..wrote[e] : Data(0, wrote[e])[i].is = "data"
  <2>1. /\ Data(0, wrote[e]) \in Seq(Units) /\ Len(Data(0, wrote[e])) = wrote[e] - 0
        /\ \A i \in 1..(wrote[e] - 0) : Data(0, wrote[e])[i] = Unit("data", 0 + i, None)
    BY <1>1, DataProps
  <2>2. \A i \in 1..wrote[e] : Unit("data", 0 + i, None).is = "data"
    BY <1>1, UnitProps
  <2> QED BY <2>1, <2>2, <1>1
<1>5. CredentialsOut(e) \o Data(0, wrote[e]) \in Seq(Units)
  BY <1>3, <1>4, ConcatProperties
<1>6. /\ Stream(e) = ActsOut(e) \o (CredentialsOut(e) \o Data(0, wrote[e]))
      /\ Stream(e) \in Seq(Units)
  BY <1>2, <1>3, <1>4, <1>5, ConcatAssociative, ConcatProperties DEF Stream
<1> QED BY <1>1, <1>2, <1>3, <1>4, <1>5, <1>6

(* All units of a sequence, or all but the first, are of one kind.          *)
AllAre(s, kind)  == \A i \in 1..Len(s) : s[i].is = kind
RestAre(s, kind) == \A i \in 2..Len(s) : s[i].is = kind

(* Acts, credentials and data, of which p is read and w, from a key on, is  *)
(* not.                                                                     *)
Parts(a, c, d, r, p, w) ==
    /\ a \in Seq(Units) /\ c \in Seq(Units) /\ d \in Seq(Units)
    /\ r \in Seq(Units) /\ p \in Seq(Units) /\ w \in Seq(Units)
    /\ r = c \o d /\ a \o r = p \o w
    /\ 1 <= Len(w) /\ w[1].is = "pk"
    /\ AllAre(a, "act") /\ AllAre(d, "data") /\ RestAre(c, "sig")

(* The rest of acts, credentials and data that begins with a key begins     *)
(* with the credentials.                                                    *)
LEMMA KeyInRest ==
    ASSUME NEW a, NEW c, NEW d, NEW r, NEW p, NEW w, Parts(a, c, d, r, p, w)
    PROVE  c # <<>> /\ w = r /\ p = a
<1> USE DEF Parts
<1>1. /\ Len(a) \in Nat /\ Len(c) \in Nat /\ Len(d) \in Nat /\ Len(p) \in Nat /\ Len(w) \in Nat
      /\ Len(r) \in Nat
  BY LenProperties
<1>2. Len(r) = Len(c) + Len(d) /\ Len(a) + Len(r) = Len(p) + Len(w)
  <2>1. Len(a \o r) = Len(a) + Len(r) /\ Len(p \o w) = Len(p) + Len(w) /\ Len(c \o d) = Len(c) + Len(d)
    BY ConcatProperties
  <2> QED BY <2>1
<1>3. PICK k \in Nat : k = Len(p) + 1
  BY <1>1
<1>4. k \in 1..Len(p) + Len(w) /\ ~(k <= Len(p)) /\ k - Len(p) = 1
  BY <1>1, <1>3
<1>5. PICK s : s = p \o w /\ s = a \o r /\ s[k] = w[1]
  <2>1. (p \o w)[k] = IF k <= Len(p) THEN p[k] ELSE w[k - Len(p)]
    BY <1>4, ConcatProperties
  <2>2. (p \o w)[k] = w[1]
    BY <2>1, <1>4
  <2> QED BY <2>2
<1>6. k \in 1..Len(a) + Len(r)
  BY <1>2, <1>4
<1>7. s[k] = IF k <= Len(a) THEN a[k] ELSE r[k - Len(a)]
  <2>1. (a \o r)[k] = IF k <= Len(a) THEN a[k] ELSE r[k - Len(a)]
    BY <1>6, ConcatProperties
  <2> QED BY <2>1, <1>5, Zenon
<1>8. ~(k <= Len(a))
  <2> SUFFICES ASSUME k <= Len(a) PROVE FALSE
    OBVIOUS
  <2>1. k \in 1..Len(a)
    BY <1>1, <1>4
  <2>2. a[k].is = "act"
    BY <2>1 DEF AllAre
  <2> QED BY <2>2, <1>5, <1>7
<1>9. PICK j \in Nat : j = k - Len(a) /\ j \in 1..Len(c) + Len(d)
  <2>1. k - Len(a) \in Nat /\ k - Len(a) \in 1..Len(c) + Len(d)
    BY <1>1, <1>2, <1>6, <1>8
  <2> QED BY <2>1, Zenon
<1>10. r[j].is = "pk"
  BY <1>5, <1>7, <1>8, <1>9
<1>11. r[j] = IF j <= Len(c) THEN c[j] ELSE d[j - Len(c)]
  BY <1>9, ConcatProperties
<1>12. j <= Len(c)
  <2> SUFFICES ASSUME ~(j <= Len(c)) PROVE FALSE
    OBVIOUS
  <2>1. PICK m \in Nat : m = j - Len(c) /\ m \in 1..Len(d)
    <3>1. j - Len(c) \in Nat /\ j - Len(c) \in 1..Len(d)
      BY <1>1, <1>9
    <3> QED BY <3>1, Zenon
  <2>2. d[m].is = "data"
    BY <2>1 DEF AllAre
  <2> QED BY <2>1, <2>2, <1>10, <1>11
<1>13. c[j].is = "pk"
  BY <1>10, <1>11, <1>12
<1>14. j = 1
  <2> SUFFICES ASSUME j # 1 PROVE FALSE
    OBVIOUS
  <2>1. j \in 2..Len(c)
    BY <1>9, <1>12, <1>1
  <2>2. c[j].is = "sig"
    BY <2>1 DEF RestAre
  <2> QED BY <2>2, <1>13
<1>15. Len(p) = Len(a)
  BY <1>14, <1>9, <1>3, <1>1
<1>16. a = p /\ r = w
  <2>1. Len(a) = Len(p)
    BY <1>15
  <2> QED BY <2>1, RestOfEqual, Zenon
<1>17. c # <<>>
  BY <1>12, <1>14, <1>1
<1> QED BY <1>16, <1>17

(* A key at the front of the wire is that of the writer's credentials, and  *)
(* these and the data are what is there.                                    *)
LEMMA KeyInFront ==
    ASSUME Shape, NEW e \in Ends, NEW p \in Seq(Units), Follows(e, p),
           1 <= Len(wire[e]), wire[e][1].is = "pk"
    PROVE  sent[e] /\ wire[e] = Credentials(context[e]) \o Data(0, wrote[e])
<1>1. PICK a : a = ActsOut(e)
  OBVIOUS
<1>2. PICK c : c = CredentialsOut(e)
  OBVIOUS
<1>3. PICK d : d = Data(0, wrote[e])
  OBVIOUS
<1>4. PICK r : r = c \o d
  OBVIOUS
<1>5. PICK w : w = wire[e]
  OBVIOUS
<1>6. /\ a \in Seq(Units) /\ c \in Seq(Units) /\ d \in Seq(Units) /\ r \in Seq(Units)
      /\ AllAre(a, "act") /\ AllAre(d, "data")
      /\ Stream(e) = a \o r
      /\ context[e] \in Contexts
  BY <1>1, <1>2, <1>3, <1>4, StreamParts DEF AllAre
<1>7. w \in Seq(Units)
  BY <1>5 DEF Shape
<1>8. a \o r = p \o w
  BY <1>5, <1>6 DEF Follows
<1>9. RestAre(c, "sig")
  <2>1. CASE sent[e]
    <3>1. c = Credentials(context[e])
      BY <2>1, <1>2 DEF CredentialsOut
    <3> QED BY <3>1, <1>6, CredentialsProps DEF RestAre
  <2>2. CASE ~sent[e]
    <3>1. c = <<>>
      BY <2>2, <1>2 DEF CredentialsOut
    <3>2. Len(c) = 0
      BY <3>1
    <3> QED BY <3>2 DEF RestAre
  <2> QED BY <2>1, <2>2
<1>10. c # <<>> /\ w = r
  <2>1. 1 <= Len(w) /\ w[1].is = "pk"
    BY <1>5
  <2>2. Parts(a, c, d, r, p, w)
    BY <2>1, <1>4, <1>6, <1>7, <1>8, <1>9 DEF Parts
  <2>3. c # <<>> /\ w = r /\ p = a
    BY <2>2, KeyInRest
  <2> QED BY <2>3
<1>11. sent[e] /\ c = Credentials(context[e])
  BY <1>10, <1>2 DEF CredentialsOut
<1> QED BY <1>3, <1>4, <1>5, <1>10, <1>11

(* Credentials at the front of the wire: what is read with them is the      *)
(* writer's key and its signature, and data is all that is left.            *)
LEMMA CredentialsRead ==
    ASSUME Shape, NEW e \in Ends, wire[e] = Credentials(context[e]) \o Data(0, wrote[e])
    PROVE  /\ 3 <= Len(wire[e])
           /\ SubSeq(wire[e], 1, 3)[1].key = context[e].cert /\ context[e].cert \in Keys
           /\ Signed(SubSeq(wire[e], 1, 3)) <=> context[e].valid
           /\ SubSeq(wire[e], 4, Len(wire[e])) = Data(0, wrote[e])
<1>1. PICK c : c = Credentials(context[e])
  OBVIOUS
<1>2. PICK d : d = Data(0, wrote[e])
  OBVIOUS
<1>3. PICK w : w = wire[e]
  OBVIOUS
<1>4. /\ c \in Seq(Units) /\ Len(c) = 3 /\ c[1].key = context[e].cert /\ context[e].cert \in Keys
      /\ Signed(c) <=> context[e].valid
  <2>1. context[e] \in Contexts
    BY StreamParts
  <2>2. /\ c \in Seq(Units) /\ Len(c) = 3 /\ c[1].key = context[e].cert /\ context[e].cert \in Keys
        /\ \A x : x[1] = c[1] /\ x[2] = c[2] /\ x[3] = c[3] => (Signed(x) <=> context[e].valid)
    BY <2>1, <1>1, CredentialsProps, Zenon
  <2>3. Signed(c) <=> context[e].valid
    BY <2>2, Zenon
  <2> QED BY <2>2, <2>3
<1>5. d \in Seq(Units) /\ Len(d) \in Nat
  BY <1>2, StreamParts, LenProperties
<1>6. w \in Seq(Units) /\ w = c \o d /\ Len(w) = 3 + Len(d)
  <2>1. w = c \o d
    BY <1>1, <1>2, <1>3
  <2>2. c \in Seq(Units) /\ d \in Seq(Units) /\ Len(c) = 3
    BY <1>4, <1>5
  <2>3. c \o d \in Seq(Units) /\ Len(c \o d) = Len(c) + Len(d)
    BY <2>2, ConcatProperties, Zenon
  <2> QED BY <2>1, <2>2, <2>3
<1>7. 3 \in 0..Len(w)
  BY <1>5, <1>6
<1>8. PICK x, y : x = SubSeq(w, 1, 3) /\ y = SubSeq(w, 4, Len(w))
  OBVIOUS
<1>9. x \in Seq(Units) /\ y \in Seq(Units) /\ Len(x) = 3 /\ w = x \o y
  <2>1. 3 + 1 = 4
    OBVIOUS
  <2> QED BY <2>1, <1>6, <1>7, <1>8, Cut, SMTT(30)
<1>10. x \o y = c \o d /\ Len(x) = Len(c)
  BY <1>4, <1>6, <1>9
<1>11. x = c /\ y = d
  BY <1>4, <1>5, <1>9, <1>10, RestOfEqual, Zenon
<1>12. 3 <= Len(w)
  BY <1>7
<1> QED BY <1>2, <1>3, <1>4, <1>8, <1>11, <1>12

-----------------------------------------------------------------------------
(* Steps. The other end, and what a step leaves of it.                      *)

(* Each of the two ends has the other for its peer.                         *)
LEMMA TwoEnds ==
    ASSUME NEW e \in Ends
    PROVE  /\ Peer(e) \in Ends /\ Peer(e) # e /\ Peer(Peer(e)) = e
           /\ \A x \in Ends : x = e \/ x = Peer(e)
           /\ e = "I" => Peer(e) = "R"
           /\ e = "R" => Peer(e) = "I"
BY DEF Ends, Peer

(* An end has the same acts, credentials and data behind it after a step.   *)
Quiet(e) == acts'[e] = acts[e] /\ sent'[e] = sent[e] /\ wrote'[e] = wrote[e]

(* Such an end has written nothing.                                         *)
LEMMA StreamKept ==
    ASSUME NEW e \in Ends, UNCHANGED chosen, Quiet(e)
    PROVE  Stream(e)' = Stream(e)
<1>1. Act(1)' = Act(1) /\ Act(2)' = Act(2) /\ Act(3)' = Act(3)
  BY DEF Act, Unit, chosen
<1>2. ActsOut(e)' = ActsOut(e)
  BY <1>1 DEF ActsOut, Quiet
<1>3. CredentialsOut(e)' = CredentialsOut(e)
  BY DEF CredentialsOut, Credentials, Unit, Quiet, chosen
<1>4. Data(0, wrote[e])' = Data(0, wrote[e])
  BY DEF Data, Unit, Quiet
<1> QED BY <1>2, <1>3, <1>4 DEF Stream

(* The wires after end e has read n units and written out.                  *)
LEMMA WiresAfter ==
    ASSUME Shape, NEW e \in Ends, NEW n \in 0..Ready(e), NEW out \in Seq(Units), ReadWrite(e, n, out)
    PROVE  /\ wire' \in [Ends -> Seq(Units)] /\ arrived' \in [Ends -> Nat]
           /\ \A x \in Ends : arrived'[x] \in 0..Len(wire'[x])
           /\ wire'[e] = wire[e] \o out
           /\ wire'[Peer(e)] = SubSeq(wire[Peer(e)], n + 1, Len(wire[Peer(e)]))
           /\ n \in 0..Len(wire[Peer(e)]) /\ n \in Nat
<1>1. Peer(e) \in Ends /\ Peer(e) # e /\ \A x \in Ends : x = e \/ x = Peer(e)
  BY TwoEnds
<1>2. /\ wire \in [Ends -> Seq(Units)] /\ arrived \in [Ends -> Nat]
      /\ wire[e] \in Seq(Units) /\ wire[Peer(e)] \in Seq(Units)
      /\ arrived[e] \in 0..Len(wire[e]) /\ arrived[Peer(e)] \in 0..Len(wire[Peer(e)])
      /\ Len(wire[e]) \in Nat /\ Len(wire[Peer(e)]) \in Nat /\ Len(out) \in Nat
  BY <1>1, LenProperties DEF Shape, TypeOK
<1>3. n \in 0..Len(wire[Peer(e)]) /\ n <= arrived[Peer(e)] /\ n \in Nat
  BY <1>2 DEF Ready
<1>4. /\ wire'[e] = wire[e] \o out
      /\ wire'[Peer(e)] = SubSeq(wire[Peer(e)], n + 1, Len(wire[Peer(e)]))
      /\ wire' = [x \in Ends |-> wire'[x]]
  BY <1>1, <1>2 DEF ReadWrite
<1>5. /\ arrived'[e] = arrived[e] /\ arrived'[Peer(e)] = arrived[Peer(e)] - n
      /\ arrived' = [x \in Ends |-> arrived'[x]]
  BY <1>1, <1>2 DEF ReadWrite
<1>6. wire[e] \o out \in Seq(Units) /\ Len(wire[e] \o out) = Len(wire[e]) + Len(out)
  BY <1>2, ConcatProperties
<1>7. /\ SubSeq(wire[Peer(e)], n + 1, Len(wire[Peer(e)])) \in Seq(Units)
      /\ Len(SubSeq(wire[Peer(e)], n + 1, Len(wire[Peer(e)]))) = Len(wire[Peer(e)]) - n
  BY <1>2, <1>3, Cut
<1>8. \A x \in Ends : wire'[x] \in Seq(Units)
  BY <1>1, <1>4, <1>6, <1>7, Zenon
<1>9. arrived'[e] \in 0..Len(wire'[e])
  BY <1>2, <1>4, <1>5, <1>6
<1>10. arrived'[Peer(e)] \in 0..Len(wire'[Peer(e)])
  BY <1>2, <1>3, <1>4, <1>5, <1>7
<1>11. \A x \in Ends : arrived'[x] \in 0..Len(wire'[x])
  BY <1>1, <1>9, <1>10, Zenon
<1>12. arrived'[e] \in Nat /\ arrived'[Peer(e)] \in Nat
  BY <1>2, <1>3, <1>5
<1>13. wire' \in [Ends -> Seq(Units)]
  BY <1>4, <1>8
<1>14. arrived' \in [Ends -> Nat]
  BY <1>1, <1>5, <1>12
<1> QED BY <1>3, <1>4, <1>11, <1>13, <1>14

(* What an end writes goes behind what is on the wire; what its peer has    *)
(* read of the stream stays what it was.                                    *)
LEMMA FollowsWrite ==
    ASSUME Shape, NEW e \in Ends, NEW out \in Seq(Units), NEW p \in Seq(Units), Follows(e, p),
           Stream(e)' = Stream(e) \o out, wire'[e] = wire[e] \o out
    PROVE  Follows(e, p)'
<1>1. PICK s, t, w, v : s = Stream(e) /\ t = Stream(e)' /\ w = wire[e] /\ v = wire'[e]
  OBVIOUS
<1>2. s = p \o w /\ t = s \o out /\ v = w \o out
  BY <1>1 DEF Follows
<1>3. w \in Seq(Units)
  BY <1>1 DEF Shape
<1>4. (p \o w) \o out = p \o (w \o out)
  BY <1>3, ConcatAssociative
<1>5. t = p \o v
  BY <1>2, <1>4
<1> QED BY <1>1, <1>5 DEF Follows

(* What the peer reads is taken from the front of the wire.                 *)
LEMMA FollowsRead ==
    ASSUME Shape, NEW e \in Ends, NEW p \in Seq(Units), Follows(e, p),
           NEW n \in 0..Len(wire[e]), Stream(e)' = Stream(e),
           wire'[e] = SubSeq(wire[e], n + 1, Len(wire[e])),
           NEW q, q = p \o SubSeq(wire[e], 1, n)
    PROVE  q \in Seq(Units) /\ Follows(e, q)'
<1>1. PICK s, t, w, v : s = Stream(e) /\ t = Stream(e)' /\ w = wire[e] /\ v = wire'[e]
  OBVIOUS
<1>2. PICK x : x = SubSeq(w, 1, n)
  OBVIOUS
<1>3. w \in Seq(Units) /\ n \in 0..Len(w)
  BY <1>1 DEF Shape
<1>4. x \in Seq(Units) /\ v \in Seq(Units) /\ w = x \o v
  <2>1. /\ SubSeq(w, 1, n) \in Seq(Units) /\ SubSeq(w, n + 1, Len(w)) \in Seq(Units)
        /\ w = SubSeq(w, 1, n) \o SubSeq(w, n + 1, Len(w))
    BY <1>3, Cut
  <2>2. v = SubSeq(w, n + 1, Len(w))
    BY <1>1
  <2> QED BY <2>1, <2>2, <1>2, Zenon
<1>5. s = p \o w /\ t = s /\ q = p \o x
  BY <1>1, <1>2 DEF Follows
<1>6. (p \o x) \o v = p \o (x \o v) /\ p \o x \in Seq(Units)
  <2>1. x \in Seq(Units) /\ v \in Seq(Units)
    BY <1>4
  <2> QED BY <2>1, ConcatAssociative, ConcatProperties, SMTT(30)
<1>7. t = q \o v
  BY <1>4, <1>5, <1>6
<1> QED BY <1>1, <1>5, <1>6, <1>7 DEF Follows

(* A step of end e that reads n units and writes out, which makes its       *)
(* stream longer by as much.                                                *)
LEMMA RestKept ==
    ASSUME Shape, NEW e \in Ends, NEW n \in 0..Ready(e), NEW out \in Seq(Units), ReadWrite(e, n, out),
           UNCHANGED chosen, Quiet(Peer(e)), Stream(e)' = Stream(e) \o out, Rest(e), Rest(Peer(e))
    PROVE  /\ \A x \in Ends : Rest(x)'
           /\ \A p \in Seq(Units) : Follows(e, p) => Follows(e, p)'
           /\ \A p \in Seq(Units) : \A q :
                 Follows(Peer(e), p) /\ q = p \o SubSeq(wire[Peer(e)], 1, n) => Follows(Peer(e), q)'
<1>1. Peer(e) \in Ends /\ Peer(e) # e /\ \A x \in Ends : x = e \/ x = Peer(e)
  BY TwoEnds
<1>2. /\ wire'[e] = wire[e] \o out
      /\ wire'[Peer(e)] = SubSeq(wire[Peer(e)], n + 1, Len(wire[Peer(e)]))
      /\ n \in 0..Len(wire[Peer(e)])
  BY WiresAfter
<1>3. Stream(Peer(e))' = Stream(Peer(e))
  BY <1>1, StreamKept
<1>4. ASSUME NEW p \in Seq(Units), Follows(e, p) PROVE Follows(e, p)'
  BY <1>2, <1>4, FollowsWrite, Zenon
<1>5. ASSUME NEW p \in Seq(Units), Follows(Peer(e), p), NEW q, q = p \o SubSeq(wire[Peer(e)], 1, n)
      PROVE  q \in Seq(Units) /\ Follows(Peer(e), q)'
  BY <1>1, <1>2, <1>3, <1>5, FollowsRead, Zenon
<1>6. Rest(e)'
  BY <1>4, Zenon DEF Rest
<1>7. Rest(Peer(e))'
  BY <1>5, Zenon DEF Rest
<1>8. \A x \in Ends : Rest(x)'
  BY <1>1, <1>6, <1>7, Zenon
<1>9. \A p \in Seq(Units) : Follows(e, p) => Follows(e, p)'
  BY <1>4, Zenon
<1>10. \A p \in Seq(Units) : \A q : Follows(Peer(e), p) /\ q = p \o SubSeq(wire[Peer(e)], 1, n)
                                          => Follows(Peer(e), q)'
  BY <1>5, Zenon
<1> QED BY <1>8, <1>9, <1>10

(* Nothing before or behind a sequence.                                     *)
LEMMA JoinNothing ==
    ASSUME NEW s \in Seq(Units)
    PROVE  s \o <<>> = s /\ <<>> \o s = s /\ <<>> \in Seq(Units)
BY ConcatEmptySeq, EmptySeq

(* The next acts, while there are neither credentials nor data.             *)
LEMMA StreamActs ==
    ASSUME Shape, NEW e \in Ends, Ordered(e), acts[e] # 3, UNCHANGED chosen,
           sent'[e] = sent[e], wrote'[e] = wrote[e],
           NEW out \in Seq(Units), ActsOut(e)' = ActsOut(e) \o out
    PROVE  Stream(e)' = Stream(e) \o out
<1>1. ~sent[e] /\ wrote[e] = 0
  <2>1. wrote[e] \in Nat /\ ~sent[e]
    BY NoiseSessionAssumption DEF Shape, TypeOK, Ordered
  <2> QED BY <2>1 DEF Ordered
<1>2. CredentialsOut(e) = <<>> /\ CredentialsOut(e)' = <<>>
  BY <1>1 DEF CredentialsOut
<1>3. Data(0, wrote[e]) = <<>>
  BY <1>1, NoData
<1>4. Data(0, wrote[e])' = Data(0, wrote[e])
  BY DEF Data, Unit
<1>5. PICK a, b : a = ActsOut(e) /\ b = ActsOut(e)'
  OBVIOUS
<1>6. a \in Seq(Units) /\ b = a \o out /\ b \in Seq(Units)
  <2>1. a \in Seq(Units)
    BY <1>5, StreamParts
  <2>2. b = a \o out
    BY <1>5
  <2> QED BY <2>1, <2>2, ConcatProperties
<1>7. Stream(e) = (a \o <<>>) \o <<>> /\ Stream(e)' = (b \o <<>>) \o <<>>
  BY <1>2, <1>3, <1>4, <1>5 DEF Stream
<1>8. Stream(e) = a /\ Stream(e)' = b
  BY <1>6, <1>7, JoinNothing
<1> QED BY <1>6, <1>8

(* The acts that follow upon the first, upon what is read, or upon nothing. *)
LEMMA ActsGrow ==
    ASSUME Shape, NEW e \in Ends, Ordered(e), UNCHANGED chosen, acts[e] # 3
    PROVE  /\ e = "I" /\ acts[e] = 0 /\ acts'[e] = 1 => ActsOut(e)' = ActsOut(e) \o Act(1)
           /\ (e = "I" => acts[e] # 0) /\ acts'[e] = Advanced(e)
                 => /\ ActsOut(e)' = ActsOut(e) \o Answer(e) /\ Answer(e) \in Seq(Units)
                    /\ acts'[e] \in {2, 3} /\ (e = "I" => acts'[e] = 3)
<1>1. target \in Keys
  BY DEF Shape, TypeOK
<1>2. /\ Act(1) \in Seq(Units) /\ Act(2) \in Seq(Units) /\ Act(3) \in Seq(Units)
  BY <1>1, ActProps
<1>3. Act(1)' = Act(1) /\ Act(2)' = Act(2) /\ Act(3)' = Act(3)
  BY DEF Act, Unit, chosen
<1>4. PICK a, b, c : a = Act(1) /\ b = Act(2) /\ c = Act(3)
  OBVIOUS
<1>5. ASSUME e = "I", acts[e] = 0, acts'[e] = 1 PROVE ActsOut(e)' = ActsOut(e) \o Act(1)
  <2>1. ActsOut(e) = <<>> /\ ActsOut(e)' = Act(1)
    BY <1>5, <1>3 DEF ActsOut
  <2> QED BY <2>1, <1>2, JoinNothing
<1>6. ASSUME (e = "I" => acts[e] # 0), acts'[e] = Advanced(e)
      PROVE  /\ ActsOut(e)' = ActsOut(e) \o Answer(e) /\ Answer(e) \in Seq(Units)
             /\ acts'[e] \in {2, 3} /\ (e = "I" => acts'[e] = 3)
  <2>1. CASE e = "I"
    <3>1. acts[e] = 1
      BY <2>1, <1>6 DEF Ordered
    <3>2. Advanced(e) = 3 /\ 1 + 2 = 3 /\ 1 # 2
      BY <3>1 DEF Advanced
    <3>3. Answer(e) = Act(3)
      BY <3>1, <3>2 DEF Answer
    <3>4. ActsOut(e) = Act(1) /\ ActsOut(e)' = Act(1) \o Act(3)
      BY <2>1, <3>1, <3>2, <1>3, <1>6 DEF ActsOut
    <3> QED BY <3>2, <3>3, <3>4, <1>2, <1>6
  <2>2. CASE e = "R"
    <3>1. CASE acts[e] = 0
      <4>1. Advanced(e) = 2 /\ 0 + 2 = 2 /\ 0 # 2
        BY <3>1 DEF Advanced
      <4>2. Answer(e) = Act(2)
        BY <3>1, <4>1 DEF Answer
      <4>3. ActsOut(e) = <<>> /\ ActsOut(e)' = Act(2)
        BY <2>2, <3>1, <4>1, <1>3, <1>6 DEF ActsOut
      <4>4. ActsOut(e)' = ActsOut(e) \o Answer(e)
        BY <4>2, <4>3, <1>2, JoinNothing
      <4> QED BY <4>1, <4>2, <4>4, <2>2, <1>2, <1>6
    <3>2. CASE acts[e] = 2
      <4>1. Advanced(e) = 3 /\ Answer(e) = <<>>
        BY <3>2 DEF Advanced, Answer
      <4>2. ActsOut(e) = Act(2) /\ ActsOut(e)' = Act(2)
        BY <2>2, <3>2, <4>1, <1>3, <1>6 DEF ActsOut
      <4>3. ActsOut(e)' = ActsOut(e) \o Answer(e) /\ <<>> \in Seq(Units)
        BY <4>1, <4>2, <1>2, JoinNothing
      <4> QED BY <4>1, <4>3, <2>2, <1>6
    <3> QED BY <3>1, <3>2, <2>2 DEF Ordered
  <2> QED BY <2>1, <2>2 DEF Ends
<1> QED BY <1>5, <1>6, Zenon

(* The credentials, while there is no data.                                 *)
LEMMA StreamCertified ==
    ASSUME Shape, NEW e \in Ends, Ordered(e), ~sent[e], sent'[e], UNCHANGED chosen,
           acts'[e] = acts[e], wrote'[e] = wrote[e]
    PROVE  Stream(e)' = Stream(e) \o Credentials(context[e]) /\ Credentials(context[e]) \in Seq(Units)
<1>1. wrote[e] = 0
  <2>1. wrote[e] \in Nat
    BY NoiseSessionAssumption DEF Shape, TypeOK
  <2> QED BY <2>1 DEF Ordered
<1>2. PICK a, c : a = ActsOut(e) /\ c = Credentials(context[e])
  OBVIOUS
<1>3. a \in Seq(Units) /\ c \in Seq(Units)
  <2>1. a \in Seq(Units) /\ context[e] \in Contexts
    BY <1>2, StreamParts
  <2>2. c \in Seq(Units)
    BY <2>1, <1>2, CredentialsProps
  <2> QED BY <2>1, <2>2
<1>4. CredentialsOut(e) = <<>> /\ CredentialsOut(e)' = c
  <2>1. Credentials(context[e])' = Credentials(context[e])
    BY DEF Credentials, Unit, chosen
  <2> QED BY <2>1, <1>2 DEF CredentialsOut
<1>5. Data(0, wrote[e]) = <<>>
  BY <1>1, NoData
<1>6. Data(0, wrote[e])' = Data(0, wrote[e])
  BY DEF Data, Unit
<1>7. ActsOut(e)' = a
  <2>1. Act(1)' = Act(1) /\ Act(2)' = Act(2) /\ Act(3)' = Act(3)
    BY DEF Act, Unit, chosen
  <2> QED BY <2>1, <1>2 DEF ActsOut
<1>8. Stream(e) = (a \o <<>>) \o <<>> /\ Stream(e)' = (a \o c) \o <<>>
  BY <1>2, <1>4, <1>5, <1>6, <1>7 DEF Stream
<1>9. a \o c \in Seq(Units)
  BY <1>3, ConcatProperties
<1>10. Stream(e) = a /\ Stream(e)' = a \o c
  BY <1>3, <1>8, <1>9, JoinNothing
<1> QED BY <1>2, <1>3, <1>10

(* More data.                                                               *)
LEMMA StreamData ==
    ASSUME Shape, NEW e \in Ends, UNCHANGED chosen, acts'[e] = acts[e], sent'[e] = sent[e],
           NEW m \in Nat, wrote[e] <= m, wrote'[e] = m
    PROVE  Stream(e)' = Stream(e) \o Data(wrote[e], m) /\ Data(wrote[e], m) \in Seq(Units)
<1>1. PICK a, d, f, g : /\ a = ActsOut(e) \o CredentialsOut(e) /\ d = Data(0, wrote[e])
                        /\ f = Data(wrote[e], m) /\ g = Data(0, m)
  OBVIOUS
<1>2. wrote[e] \in Nat /\ ActsOut(e) \in Seq(Units) /\ CredentialsOut(e) \in Seq(Units) /\ d \in Seq(Units)
  BY <1>1, StreamParts
<1>3. a \in Seq(Units)
  BY <1>1, <1>2, ConcatProperties
<1>4. f \in Seq(Units)
  BY <1>1, <1>2, DataProps
<1>5. d \o f = g
  <2>1. 0 \in Nat /\ 0 <= wrote[e]
    BY <1>2
  <2> QED BY <2>1, <1>1, <1>2, DataJoin
<1>6. Data(0, wrote[e])' = g
  BY <1>1 DEF Data, Unit
<1>7. ActsOut(e)' = ActsOut(e)
  <2>1. Act(1)' = Act(1) /\ Act(2)' = Act(2) /\ Act(3)' = Act(3)
    BY DEF Act, Unit, chosen
  <2> QED BY <2>1 DEF ActsOut
<1>8. CredentialsOut(e)' = CredentialsOut(e)
  BY DEF CredentialsOut, Credentials, Unit, chosen
<1>9. Stream(e) = a \o d /\ Stream(e)' = a \o g
  BY <1>1, <1>6, <1>7, <1>8 DEF Stream
<1>10. (a \o d) \o f = a \o (d \o f)
  BY <1>2, <1>3, <1>4, ConcatAssociative, SMTT(30)
<1>11. Stream(e)' = Stream(e) \o f
  BY <1>5, <1>9, <1>10, Zenon
<1> QED BY <1>1, <1>4, <1>11

-----------------------------------------------------------------------------
(* What a step has to show.                                                 *)

SessionTyped ==
    /\ acts \in [Ends -> 0..3] /\ sent \in [Ends -> BOOLEAN]
    /\ remote_id \in [Ends -> Keys \cup {None}] /\ remote_addr \in [Ends -> Addresses]
    /\ wrote \in [Ends -> 0..MaxData] /\ got \in [Ends -> Seq(Units)]

DriverTyped ==
    /\ state \in [Ends -> {"Init", "Handshake", "Active", "Terminated",
                           "Dial", "Act", "Certify", "Verify", "Panic"}]
    /\ write_intent \in [Ends -> BOOLEAN]
    /\ batch \in [Ends -> {<<>>, <<"Read">>, <<"Write">>, <<"Write", "Read">>}]

(* End e reads n units and writes out; of the other end nothing changes but *)
(* what is on its wire.                                                     *)
Exchange(e, n, out) ==
    /\ n \in 0..Ready(e) /\ out \in Seq(Units) /\ ReadWrite(e, n, out)
    /\ UNCHANGED <<chosen, closed>> /\ Stream(e)' = Stream(e) \o out
    /\ Quiet(Peer(e)) /\ (sent[e] => sent'[e])
    /\ remote_id'[Peer(e)] = remote_id[Peer(e)] /\ got'[Peer(e)] = got[Peer(e)]

Aside(e) == state'[e] = state[e] /\ batch'[e] = batch[e]

(* What the end that steps still has to show for itself.                    *)
Own(e) == /\ SessionTyped /\ DriverTyped
          /\ Ordered(e) /\ ByReactor(e) /\ Identity(e) /\ Given(e)
          /\ Gives(e) /\ Gives(Peer(e))
          /\ ByCaller /\ Addressed /\ Whole /\ PanicOnlyOnWrongPeer

(* The parts of the invariant as the steps use them.                        *)
LEMMA InvParts ==
    ASSUME SessionInv, NEW e \in Ends
    PROVE  /\ Shape /\ SessionTyped /\ DriverTyped
           /\ Ordered(e) /\ ByReactor(e) /\ Identity(e) /\ Rest(e) /\ Gives(e) /\ Given(e)
           /\ ByCaller /\ Addressed /\ Whole /\ PanicOnlyOnWrongPeer
           /\ target \in Keys /\ target # None /\ mode \in {"blocking", "nonblocking"}
<1>1. Shape /\ TypeOK /\ EndInv(e)
  BY DEF SessionInv, Shape
<1>2. SessionTyped /\ DriverTyped /\ target \in Keys /\ target # None /\ mode \in {"blocking", "nonblocking"}
  BY <1>1, NoiseSessionAssumption DEF TypeOK, Shape, SessionTyped, DriverTyped
<1> QED BY <1>1, <1>2 DEF SessionInv, EndInv

(* The end that does not step keeps its part of the invariant.              *)
LEMMA PeerKept ==
    ASSUME SessionInv, NEW e \in Ends, NEW n, NEW out, Exchange(e, n, out), Aside(Peer(e))
    PROVE  Ordered(Peer(e))' /\ ByReactor(Peer(e))' /\ Identity(Peer(e))' /\ Given(Peer(e))'
<1>1. PICK p \in Ends : p = Peer(e) /\ Peer(p) = e
  BY TwoEnds
<1>2. Ordered(p) /\ ByReactor(p) /\ Identity(p) /\ Given(p)
  BY InvParts
<1>3. /\ acts'[p] = acts[p] /\ sent'[p] = sent[p] /\ wrote'[p] = wrote[p]
      /\ remote_id'[p] = remote_id[p] /\ got'[p] = got[p] /\ (sent[e] => sent'[e])
      /\ state'[p] = state[p] /\ batch'[p] = batch[p]
      /\ mode' = mode /\ target' = target /\ context' = context
  BY <1>1 DEF Exchange, Aside, Quiet, chosen
<1>4. Ordered(p)'
  BY <1>2, <1>3 DEF Ordered
<1>5. ByReactor(p)'
  BY <1>2, <1>3 DEF ByReactor, InReactor
<1>6. Identity(p)'
  BY <1>1, <1>2, <1>3 DEF Identity
<1>7. Given(p)'
  BY <1>2, <1>3 DEF Given, Data, Unit
<1> QED BY <1>1, <1>4, <1>5, <1>6, <1>7

(* A step in which one end reads and writes keeps the invariant.            *)
LEMMA ExchangeKeeps ==
    ASSUME SessionInv, NEW e \in Ends, NEW n, NEW out, Exchange(e, n, out), Aside(Peer(e)), Own(e)'
    PROVE  SessionInv'
<1>1. Peer(e) \in Ends /\ \A x \in Ends : x = e \/ x = Peer(e)
  BY TwoEnds
<1>2. Shape /\ Rest(e) /\ Rest(Peer(e))
  BY <1>1, InvParts
<1>3. /\ n \in 0..Ready(e) /\ out \in Seq(Units) /\ ReadWrite(e, n, out) /\ UNCHANGED chosen
      /\ Stream(e)' = Stream(e) \o out /\ Quiet(Peer(e)) /\ closed' = closed
      /\ mode' = mode /\ fragmented' = fragmented /\ target' = target /\ context' = context
  BY DEF Exchange, chosen
<1>4. /\ wire' \in [Ends -> Seq(Units)] /\ arrived' \in [Ends -> Nat]
      /\ \A x \in Ends : arrived'[x] \in 0..Len(wire'[x])
  BY <1>2, <1>3, WiresAfter
<1>5. SessionTyped' /\ DriverTyped'
  BY DEF Own
<1>6. TypeOK'
  <2>1. \A x \in Ends : wire'[x] \in Seq(Units) /\ got'[x] \in Seq(Units)
    BY <1>4, <1>5 DEF SessionTyped
  <2> QED BY <1>2, <1>3, <1>4, <1>5, <2>1 DEF TypeOK, Shape, SessionTyped, DriverTyped
<1>7. Shape'
  BY <1>4, <1>5, <1>6 DEF Shape, SessionTyped
<1>8. \A x \in Ends : Rest(x)'
  BY <1>2, <1>3, RestKept
<1>9. EndInv(e)'
  BY <1>8 DEF Own, EndInv
<1>10. EndInv(Peer(e))'
  <2>1. Ordered(Peer(e))' /\ ByReactor(Peer(e))' /\ Identity(Peer(e))' /\ Given(Peer(e))'
    BY PeerKept
  <2>2. Gives(Peer(e))' /\ Rest(Peer(e))'
    BY <1>1, <1>8 DEF Own
  <2> QED BY <2>1, <2>2 DEF EndInv
<1>11. \A x \in Ends : EndInv(x)'
  BY <1>1, <1>9, <1>10, Zenon
<1> QED BY <1>7, <1>11 DEF Own, SessionInv

(* The end of handle_io: the end is in a reactor, and has left Init; it is  *)
(* in the handshake while it knows no identity, and becomes active when it  *)
(* has one that was not refused.                                            *)
LEMMA Concluded ==
    ASSUME SessionInv, NEW e \in Ends, NEW io \in {"Read", "Write"}, NEW answer,
           Handling(e, io), Conclude(e, io, answer)
    PROVE  /\ InReactor(e) /\ Aside(Peer(e)) /\ DriverTyped' /\ UNCHANGED <<chosen, closed>>
           /\ state'[e] \in {"Handshake", "Active", "Terminated"}
           /\ state'[e] = "Handshake" => ~Established(e)'
           /\ state'[e] = "Active" =>
                 state[e] = "Active" \/ (state[e] \in {"Init", "Handshake"} /\ Established(e)' /\ answer # "reset")
           /\ io = "Read" => state[e] # "Init"
<1>1. DriverTyped /\ ByReactor(e) /\ ByCaller /\ mode \in {"blocking", "nonblocking"}
  BY InvParts
<1>2. Peer(e) \in Ends /\ Peer(e) # e
  BY TwoEnds
<1>3. PICK b : b = batch[e]
  OBVIOUS
<1>4. b \in {<<>>, <<"Read">>, <<"Write">>, <<"Write", "Read">>} /\ b # <<>> /\ Head(b) = io
  BY <1>1, <1>3 DEF DriverTyped, Handling
<1>5. Tail(b) \in {<<>>, <<"Read">>, <<"Write">>, <<"Write", "Read">>}
  <2>1. Tail(<<"Read">>) = <<>> /\ Tail(<<"Write">>) = <<>>
    OBVIOUS
  <2>2. Tail(<<"Write", "Read">>) = <<"Read">>
    OBVIOUS
  <2> QED BY <2>1, <2>2, <1>4, Zenon
<1>6. InReactor(e)
  <2> SUFFICES ASSUME ~InReactor(e) PROVE FALSE
    OBVIOUS
  <2>1. e = "I" /\ mode = "blocking"
    BY <1>1 DEF InReactor, Ends
  <2> QED BY <2>1, <1>1, <1>3, <1>4 DEF ByCaller
<1>7. state[e] \in {"Init", "Handshake", "Active", "Terminated"}
  BY <1>1, <1>6 DEF ByReactor
<1>8. io = "Read" => state[e] # "Init"
  <2> SUFFICES ASSUME io = "Read", state[e] = "Init" PROVE FALSE
    OBVIOUS
  <2>1. b \in {<<>>, <<"Write">>}
    BY <1>1, <1>3, <1>6 DEF ByReactor
  <2> QED BY <2>1, <1>4
<1>9. PICK st : st = IF state[e] = "Init" THEN "Handshake" ELSE state[e]
  OBVIOUS
<1>10. PICK done \in BOOLEAN, over \in BOOLEAN :
         /\ done <=> (Established(e)' /\ st = "Handshake")
         /\ over <=> (\/ answer \in {"error", "reset"}
                      \/ answer = "zero" /\ Established(e)' /\ ~done)
         /\ state' = [state EXCEPT ![e] = IF over THEN "Terminated" ELSE IF done THEN "Active" ELSE st]
         /\ write_intent' = [write_intent EXCEPT ![e] =
               IF io = "Read" THEN @ \/ (st = "Handshake" /\ ~over) ELSE ~Established(e)]
         /\ batch' = [batch EXCEPT ![e] = Tail(@)]
  BY <1>9 DEF Conclude
<1>11. UNCHANGED <<chosen, closed>>
  BY DEF Conclude
<1>12. st \in {"Handshake", "Active", "Terminated"}
  BY <1>7, <1>9, <1>10
<1>13. /\ state'[e] = IF over THEN "Terminated" ELSE IF done THEN "Active" ELSE st
       /\ state'[Peer(e)] = state[Peer(e)]
  BY <1>1, <1>2, <1>10 DEF DriverTyped
<1>14. state'[e] \in {"Handshake", "Active", "Terminated"}
  BY <1>12, <1>13
<1>15. state' \in [Ends -> {"Init", "Handshake", "Active", "Terminated",
                            "Dial", "Act", "Certify", "Verify", "Panic"}]
  BY <1>1, <1>9, <1>10, <1>12 DEF DriverTyped
<1>16. write_intent' \in [Ends -> BOOLEAN]
  BY <1>1, <1>9, <1>10 DEF DriverTyped, Established
<1>17. batch' \in [Ends -> {<<>>, <<"Read">>, <<"Write">>, <<"Write", "Read">>}]
       /\ batch'[Peer(e)] = batch[Peer(e)]
  <2>1. PICK B : B = {<<>>, <<"Read">>, <<"Write">>, <<"Write", "Read">>}
    OBVIOUS
  <2>2. Tail(batch[e]) \in B /\ batch \in [Ends -> B]
    BY <2>1, <1>1, <1>3, <1>5 DEF DriverTyped
  <2>3. PICK y : y = Tail(batch[e])
    OBVIOUS
  <2>4. batch' = [batch EXCEPT ![e] = y]
    BY <2>3, <1>9, <1>10
  <2>5. batch' \in [Ends -> B] /\ batch'[Peer(e)] = batch[Peer(e)]
    BY <2>2, <2>3, <2>4, <1>2, Zenon
  <2> QED BY <2>1, <2>5
<1>18. state'[e] = "Handshake" => ~Established(e)'
  BY <1>9, <1>10, <1>12, <1>13
<1>19. state'[e] = "Active" =>
          state[e] = "Active" \/ (state[e] \in {"Init", "Handshake"} /\ Established(e)' /\ answer # "reset")
  BY <1>9, <1>10, <1>12, <1>13
<1> QED BY <1>6, <1>8, <1>11, <1>13, <1>14, <1>15, <1>16, <1>17, <1>18, <1>19 DEF DriverTyped, Aside

(* An end in a reactor leaves a client that connects as it is: what is to   *)
(* be read by it stays whole.                                               *)
LEMMA CallerKept ==
    ASSUME SessionInv, NEW e \in Ends, InReactor(e), NEW n, NEW out, Exchange(e, n, out),
           Aside(Peer(e)), state'[e] \in {"Init", "Handshake", "Active", "Terminated"}
    PROVE  ByCaller' /\ Whole' /\ PanicOnlyOnWrongPeer'
<1>1. /\ Shape /\ Rest(e) /\ ByCaller /\ Whole /\ PanicOnlyOnWrongPeer
  BY InvParts
<1>2. /\ n \in 0..Ready(e) /\ out \in Seq(Units) /\ ReadWrite(e, n, out) /\ UNCHANGED chosen
      /\ Stream(e)' = Stream(e) \o out /\ Quiet(Peer(e))
      /\ mode' = mode /\ target' = target /\ context' = context
  BY DEF Exchange, chosen
<1>3. CASE e = "I"
  <2>1. mode' # "blocking"
    BY <1>2, <1>3 DEF InReactor
  <2> QED BY <2>1, <1>3 DEF ByCaller, Whole, PanicOnlyOnWrongPeer
<1>4. CASE e = "R"
  <2>1. Peer(e) = "I"
    BY <1>4, TwoEnds
  <2>2. /\ state'["I"] = state["I"] /\ batch'["I"] = batch["I"]
        /\ acts'["I"] = acts["I"] /\ sent'["I"] = sent["I"]
    BY <2>1, <1>2 DEF Aside, Quiet
  <2>3. ByCaller'
    BY <2>2, <1>1, <1>2 DEF ByCaller
  <2>4. PanicOnlyOnWrongPeer'
    BY <2>2, <1>1, <1>2 DEF PanicOnlyOnWrongPeer
  <2>5. \A p \in Seq(Units) : Follows("R", p) => Follows("R", p)'
    <3>1. Peer(e) \in Ends
      BY TwoEnds
    <3>2. Rest(Peer(e))
      BY <3>1, InvParts
    <3>3. \A p \in Seq(Units) : Follows(e, p) => Follows(e, p)'
      BY <3>2, <1>1, <1>2, RestKept
    <3> QED BY <3>3, <1>4
  <2>6. <<>> \in Seq(Units)
    BY EmptySeq
  <2>7. PICK a \in Seq(Units) : a = Act(2) /\ a = Act(2)'
    <3>1. Act(2)' = Act(2)
      BY <1>2 DEF Act, Unit
    <3>2. Act(2) \in Seq(Units)
      BY <1>1, ActProps DEF Shape, TypeOK
    <3> QED BY <3>1, <3>2
  <2>8. Follows("R", Act(2)) = Follows("R", a) /\ Follows("R", Act(2))' = Follows("R", a)'
    BY <2>7 DEF Follows
  <2>9. mode = "blocking" =>
           /\ state["I"] \in {"Dial", "Act"} => Follows("R", <<>>)
           /\ state["I"] \in {"Certify", "Verify"} => Follows("R", a)
    BY <2>8, <1>1 DEF Whole
  <2>10. Whole'
    BY <2>2, <2>5, <2>6, <2>8, <2>9, <1>2 DEF Whole
  <2> QED BY <2>3, <2>4, <2>10
<1> QED BY <1>3, <1>4 DEF Ends

(* The first part of Identity, which speaks of what is known and not of the *)
(* state.                                                                   *)
Known(e) == remote_id[e] # None =>
    /\ acts[e] = 3 /\ sent[Peer(e)]
    /\ remote_id[e] = context[Peer(e)].cert /\ context[Peer(e)].valid

(* What handle_io has still to show when it is known how it ends.           *)
Shown(e) == /\ SessionTyped /\ Ordered(e) /\ Given(e) /\ Gives(e) /\ Gives(Peer(e)) /\ Addressed
            /\ Known(e) /\ (e = "I" => acts[e] # 0)

(* An end learns an identity only while it has none, and refuses one other  *)
(* than the one it has dialled.                                             *)
Learns(e, answer) ==
    \/ remote_id'[e] = remote_id[e]
    \/ ~Established(e) /\ (answer = "reset" \/ (e = "I" => remote_id'[e] = target))

(* A step of handle_io keeps the invariant.                                 *)
LEMMA ReactorKeeps ==
    ASSUME SessionInv, NEW e \in Ends, NEW io \in {"Read", "Write"}, NEW answer,
           Handling(e, io), Conclude(e, io, answer), NEW n, NEW out, Exchange(e, n, out),
           Shown(e)', Learns(e, answer)
    PROVE  SessionInv'
<1>1. /\ InReactor(e) /\ Aside(Peer(e)) /\ DriverTyped'
      /\ state'[e] \in {"Handshake", "Active", "Terminated"}
      /\ state'[e] = "Handshake" => ~Established(e)'
      /\ state'[e] = "Active" =>
            state[e] = "Active" \/ (state[e] \in {"Init", "Handshake"} /\ Established(e)' /\ answer # "reset")
  BY Concluded
<1>2. Identity(e) /\ ByReactor(e)
  BY InvParts
<1>3. Known(e)' /\ Known(e)
  BY <1>2 DEF Shown, Identity, Known
<1>4. mode' = mode /\ target' = target
  BY DEF Exchange, chosen
<1>5. ByReactor(e)'
  BY <1>1, <1>4 DEF ByReactor, InReactor, Shown
<1>6. state'[e] = "Handshake" => remote_id'[e] = None
  BY <1>1, <1>3 DEF Established, Known
<1>7. ASSUME state'[e] = "Active" PROVE remote_id'[e] # None /\ (e = "I" => remote_id'[e] = target)
  <2>1. CASE state[e] = "Active"
    <3>1. remote_id[e] # None /\ (e = "I" => remote_id[e] = target)
      BY <2>1, <1>2 DEF Identity
    <3>2. Established(e)
      BY <3>1, <1>3 DEF Known, Established
    <3> QED BY <3>1, <3>2 DEF Learns
  <2>2. CASE state[e] # "Active"
    <3>1. state[e] \in {"Init", "Handshake"} /\ Established(e)' /\ answer # "reset"
      BY <2>2, <1>1, <1>7
    <3>2. remote_id[e] = None /\ remote_id'[e] # None
      BY <3>1, <1>2 DEF Identity, Established
    <3> QED BY <3>1, <3>2 DEF Learns
  <2> QED BY <2>1, <2>2
<1>8. Identity(e)'
  <2>1. Identity(e)' <=> /\ Known(e)'
                         /\ state'[e] \in {"Init", "Handshake", "Dial", "Act", "Certify", "Verify"}
                               => remote_id'[e] = None
                         /\ state'[e] = "Active" => remote_id'[e] # None /\ (e = "I" => remote_id'[e] = target')
    BY DEF Identity, Known
  <2>2. state'[e] \in {"Init", "Handshake", "Dial", "Act", "Certify", "Verify"} => remote_id'[e] = None
    BY <1>1, <1>6
  <2>3. state'[e] = "Active" => remote_id'[e] # None /\ (e = "I" => remote_id'[e] = target')
    BY <1>4, <1>7
  <2> QED BY <2>1, <2>2, <2>3, <1>3
<1>9. ByCaller' /\ Whole' /\ PanicOnlyOnWrongPeer'
  BY <1>1, CallerKept
<1>10. Own(e)'
  BY <1>1, <1>5, <1>8, <1>9 DEF Own, Shown
<1> QED BY <1>1, <1>10, ExchangeKeeps

-----------------------------------------------------------------------------
(* What can be read as data after a step.                                   *)

(* While the reader knows nobody it is given nothing.                       *)
LEMMA GivesNothing ==
    ASSUME NEW e \in Ends, Gives(e), remote_id[Peer(e)] = None,
           remote_id'[Peer(e)] = None, got'[Peer(e)] = got[Peer(e)]
    PROVE  Gives(e)'
BY DEF Gives

(* Nothing is written, nothing is read.                                     *)
LEMMA GivesSame ==
    ASSUME NEW e \in Ends, Gives(e), wire'[e] = wire[e], wrote'[e] = wrote[e],
           remote_id'[Peer(e)] = remote_id[Peer(e)], got'[Peer(e)] = got[Peer(e)]
    PROVE  Gives(e)'
<1>1. Data(Len(got[Peer(e)]), wrote[e])' = Data(Len(got[Peer(e)]), wrote[e])
  BY DEF Data, Unit
<1> QED BY <1>1 DEF Gives

(* More data is written.                                                    *)
LEMMA GivesMore ==
    ASSUME SessionInv, NEW e \in Ends, NEW m \in Nat, wrote[e] <= m, wrote'[e] = m,
           wire'[e] = wire[e] \o Data(wrote[e], m),
           remote_id'[Peer(e)] = remote_id[Peer(e)], got'[Peer(e)] = got[Peer(e)]
    PROVE  Gives(e)'
<1>1. Gives(e) /\ SessionTyped
  BY InvParts
<1>2. CASE remote_id[Peer(e)] = None
  BY <1>1, <1>2, GivesNothing
<1>3. CASE remote_id[Peer(e)] # None
  <2>1. PICK g : g = Len(got[Peer(e)])
    OBVIOUS
  <2>2. g \in Nat /\ wrote[e] \in Nat /\ g <= wrote[e]
    <3>1. Peer(e) \in Ends
      BY TwoEnds
    <3>2. got[Peer(e)] \in Seq(Units) /\ wrote[e] \in Nat
      BY <3>1, <1>1, NoiseSessionAssumption DEF SessionTyped
    <3> QED BY <3>2, <2>1, <1>1, <1>3, LenProperties DEF Gives
  <2>3. wire[e] = Data(g, wrote[e])
    BY <2>1, <1>1, <1>3 DEF Gives
  <2>4. wire'[e] = Data(g, m)
    <3>1. Data(g, wrote[e]) \o Data(wrote[e], m) = Data(g, m)
      BY <2>2, DataJoin
    <3> QED BY <3>1, <2>3
  <2>5. g <= m
    BY <2>2
  <2>6. Data(Len(got[Peer(e)]), wrote[e])' = Data(g, m)
    BY <2>1 DEF Data, Unit
  <2>7. Len(got[Peer(e)])' = g
    BY <2>1
  <2> QED BY <2>1, <2>4, <2>5, <2>6, <2>7, <1>3 DEF Gives
<1> QED BY <1>2, <1>3

(* Data is read.                                                            *)
LEMMA GivesRead ==
    ASSUME SessionInv, NEW e \in Ends, remote_id[e] # None, NEW n \in 0..Len(wire[Peer(e)]),
           wire'[Peer(e)] = SubSeq(wire[Peer(e)], n + 1, Len(wire[Peer(e)])),
           wrote'[Peer(e)] = wrote[Peer(e)], remote_id'[e] = remote_id[e],
           got'[e] = got[e] \o SubSeq(wire[Peer(e)], 1, n)
    PROVE  Gives(Peer(e))' /\ Given(e)' /\ got'[e] \in Seq(Units)
<1>1. PICK p \in Ends : p = Peer(e) /\ Peer(p) = e
  BY TwoEnds
<1>2. Gives(p) /\ Given(e) /\ SessionTyped
  BY InvParts
<1>3. PICK g : g = Len(got[e])
  OBVIOUS
<1>4. PICK w : w = wrote[p]
  OBVIOUS
<1>5. g \in Nat /\ w \in Nat /\ g <= w
  <2>1. got[e] \in Seq(Units) /\ wrote[p] \in Nat
    BY <1>2, NoiseSessionAssumption DEF SessionTyped
  <2> QED BY <2>1, <1>1, <1>2, <1>3, <1>4, LenProperties DEF Gives
<1>6. wire[p] = Data(g, w)
  BY <1>1, <1>2, <1>3, <1>4 DEF Gives
<1>7. n \in 0..(w - g)
  <2>1. Len(Data(g, w)) = w - g
    BY <1>5, DataProps
  <2> QED BY <2>1, <1>1, <1>6
<1>8. PICK h : h = g + n
  OBVIOUS
<1>9. h \in Nat /\ g <= h /\ h <= w
  BY <1>5, <1>7, <1>8
<1>10. SubSeq(wire[p], 1, n) = Data(g, h) /\ wire'[p] = Data(h, w)
  <2>1. SubSeq(Data(g, w), 1, n) = Data(g, g + n) /\ SubSeq(Data(g, w), n + 1, Len(Data(g, w))) = Data(g + n, w)
    BY <1>5, <1>7, DataCut
  <2> QED BY <2>1, <1>1, <1>6, <1>8
<1>11. got'[e] = Data(0, h)
  <2>1. got[e] = Data(0, g)
    BY <1>2, <1>3 DEF Given
  <2>2. got'[e] = Data(0, g) \o Data(g, h)
    BY <2>1, <1>1, <1>10
  <2>3. Data(0, g) \o Data(g, h) = Data(0, h)
    <3>1. 0 \in Nat /\ 0 <= g
      BY <1>5
    <3> QED BY <3>1, <1>5, <1>9, DataJoin
  <2> QED BY <2>2, <2>3
<1>12. got'[e] \in Seq(Units) /\ Len(got'[e]) = h
  <2>1. 0 \in Nat /\ 0 <= h /\ h - 0 = h
    BY <1>9
  <2>2. Data(0, h) \in Seq(Units) /\ Len(Data(0, h)) = h - 0
    BY <2>1, <1>9, DataProps
  <2> QED BY <2>1, <2>2, <1>11
<1>13. Given(e)'
  <2>1. Data(0, Len(got[e]))' = Data(0, h)
    BY <1>12 DEF Data, Unit
  <2> QED BY <2>1, <1>11 DEF Given
<1>14. Gives(p)'
  <2>1. Data(Len(got[e]), wrote[p])' = Data(h, w)
    BY <1>1, <1>4, <1>12 DEF Data, Unit
  <2>2. Len(got[e])' = h /\ h <= wrote'[p] /\ remote_id'[e] # None
    BY <1>1, <1>4, <1>9, <1>12
  <2> QED BY <2>1, <2>2, <1>1, <1>10 DEF Gives
<1> QED BY <1>1, <1>12, <1>13, <1>14

-----------------------------------------------------------------------------
(* The steps of handle_io.                                                  *)

(* A step that leaves the wires alone reads nothing and writes nothing.     *)
LEMMA NothingMoved ==
    ASSUME Shape, NEW e \in Ends, UNCHANGED <<wire, arrived>>
    PROVE  0 \in 0..Ready(e) /\ <<>> \in Seq(Units) /\ ReadWrite(e, 0, <<>>)
<1>1. Peer(e) \in Ends /\ Peer(e) # e
  BY TwoEnds
<1>2. /\ wire \in [Ends -> Seq(Units)] /\ arrived \in [Ends -> Nat]
      /\ wire[e] \in Seq(Units) /\ wire[Peer(e)] \in Seq(Units) /\ arrived[Peer(e)] \in Nat
  BY <1>1 DEF Shape
<1>3. wire[e] \o <<>> = wire[e] /\ <<>> \in Seq(Units)
  BY <1>2, JoinNothing
<1>4. SubSeq(wire[Peer(e)], 0 + 1, Len(wire[Peer(e)])) = wire[Peer(e)]
  <2>1. 0 + 1 = 1
    OBVIOUS
  <2> QED BY <2>1, <1>2, SubSeqFull
<1>5. arrived[Peer(e)] - 0 = arrived[Peer(e)]
  BY <1>2
<1>6. wire' = [wire EXCEPT ![e] = wire[e] \o <<>>,
                           ![Peer(e)] = SubSeq(wire[Peer(e)], 0 + 1, Len(wire[Peer(e)]))]
  BY <1>1, <1>2, <1>3, <1>4
<1>7. arrived' = [arrived EXCEPT ![Peer(e)] = arrived[Peer(e)] - 0]
  BY <1>1, <1>2, <1>5
<1>8. 0 \in 0..Ready(e)
  BY <1>2 DEF Ready
<1> QED BY <1>1, <1>3, <1>6, <1>7, <1>8 DEF ReadWrite

(* Reading nothing leaves the peer's wire, writing nothing one's own.       *)
LEMMA NothingOf ==
    ASSUME Shape, NEW e \in Ends
    PROVE  /\ wire[e] \o <<>> = wire[e]
           /\ SubSeq(wire[e], 0 + 1, Len(wire[e])) = wire[e]
           /\ Stream(e) \o <<>> = Stream(e)
<1>1. wire[e] \in Seq(Units) /\ Stream(e) \in Seq(Units) /\ 0 + 1 = 1
  BY StreamParts DEF Shape
<1> QED BY <1>1, JoinNothing, SubSeqFull

(* A step that writes nothing and reads n units, of a session that stays as *)
(* it is, is an exchange.                                                   *)
LEMMA OnlyReads ==
    ASSUME SessionInv, NEW e \in Ends, NEW n \in 0..Ready(e), ReadWrite(e, n, <<>>),
           UNCHANGED <<chosen, closed, acts, sent, wrote>>,
           remote_id'[Peer(e)] = remote_id[Peer(e)], got'[Peer(e)] = got[Peer(e)]
    PROVE  /\ Exchange(e, n, <<>>) /\ Gives(e)' /\ Ordered(e)'
           /\ wire'[Peer(e)] = SubSeq(wire[Peer(e)], n + 1, Len(wire[Peer(e)]))
           /\ n \in 0..Len(wire[Peer(e)])
<1>1. Shape /\ Ordered(e) /\ Gives(e)
  BY InvParts
<1>2. <<>> \in Seq(Units)
  BY EmptySeq
<1>3. UNCHANGED chosen /\ Quiet(e) /\ Quiet(Peer(e))
  BY DEF Quiet
<1>4. Stream(e)' = Stream(e) \o <<>>
  <2>1. Stream(e)' = Stream(e)
    BY <1>3, StreamKept
  <2> QED BY <2>1, <1>1, NothingOf
<1>5. Exchange(e, n, <<>>)
  BY <1>2, <1>3, <1>4 DEF Exchange
<1>6. /\ wire'[e] = wire[e] \o <<>>
      /\ wire'[Peer(e)] = SubSeq(wire[Peer(e)], n + 1, Len(wire[Peer(e)]))
      /\ n \in 0..Len(wire[Peer(e)])
  BY <1>1, <1>2, WiresAfter
<1>7. wire'[e] = wire[e]
  BY <1>1, <1>6, NothingOf
<1>8. Gives(e)'
  <2>1. wrote'[e] = wrote[e]
    OBVIOUS
  <2> QED BY <2>1, <1>1, <1>7, GivesSame
<1>9. Ordered(e)'
  BY <1>1 DEF Ordered
<1> QED BY <1>5, <1>6, <1>8, <1>9

(* What is known stays known when the session does not change.              *)
LEMMA SessionKept ==
    ASSUME SessionInv, NEW e \in Ends, UNCHANGED <<chosen, session>>
    PROVE  Known(e)' /\ Addressed' /\ \A answer : Learns(e, answer)
<1>1. Identity(e) /\ Addressed
  BY InvParts
<1>2. /\ acts' = acts /\ sent' = sent /\ remote_id' = remote_id /\ remote_addr' = remote_addr
      /\ target' = target /\ context' = context
  BY DEF session, chosen
<1>3. Known(e)'
  BY <1>1, <1>2 DEF Identity, Known
<1>4. Addressed'
  BY <1>1, <1>2 DEF Addressed
<1> QED BY <1>2, <1>3, <1>4 DEF Learns

(* An initiator that handles what it can read has sent its first act.       *)
LEMMA ReaderStarted ==
    ASSUME SessionInv, NEW e \in Ends, Handling(e, "Read"), NEW answer, Conclude(e, "Read", answer)
    PROVE  e = "I" => acts[e] # 0
<1>1. InReactor(e) /\ state[e] # "Init"
  BY Concluded
<1>2. ByReactor(e)
  BY InvParts
<1> QED BY <1>1, <1>2 DEF ByReactor

(* An end that knows nobody has been given no data.                         *)
LEMMA Unknown ==
    ASSUME SessionInv, NEW e \in Ends, ~Established(e)
    PROVE  remote_id[e] = None
BY InvParts DEF Identity, Established

(* What is read without effect on the session before it is established.     *)
LEMMA ReadsInVain ==
    ASSUME SessionInv, NEW e \in Ends, NEW n \in 0..Ready(e), ReadWrite(e, n, <<>>),
           Handling(e, "Read"), ~Established(e), UNCHANGED <<session, wrote, got>>,
           NEW answer, Conclude(e, "Read", answer)
    PROVE  SessionInv'
<1>1. UNCHANGED <<chosen, closed>> /\ (e = "I" => acts[e] # 0)
  BY Concluded, ReaderStarted
<1>2. /\ acts' = acts /\ sent' = sent /\ remote_id' = remote_id /\ remote_addr' = remote_addr
      /\ wrote' = wrote /\ got' = got
  BY DEF session
<1>3. Exchange(e, n, <<>>) /\ Gives(e)' /\ Ordered(e)'
  BY <1>1, <1>2, OnlyReads
<1>4. Known(e)' /\ Addressed' /\ Learns(e, answer)
  BY <1>1, SessionKept
<1>5. PICK p \in Ends : p = Peer(e) /\ Peer(p) = e
  BY TwoEnds
<1>6. Gives(p)'
  BY <1>2, <1>5, Unknown, InvParts, GivesNothing
<1>7. SessionTyped' /\ Given(e)'
  <2>1. SessionTyped /\ Given(e)
    BY InvParts
  <2> QED BY <2>1, <1>2 DEF SessionTyped, Given, Data, Unit
<1>8. Shown(e)'
  BY <1>1, <1>2, <1>3, <1>4, <1>5, <1>6, <1>7 DEF Shown
<1> QED BY <1>3, <1>4, <1>8, ReactorKeeps

(* Nothing but the state of the end changes: nothing is to be written, or   *)
(* the other end has closed.                                                *)
LEMMA HandlesNothing ==
    ASSUME SessionInv, NEW e \in Ends, NEW io \in {"Read", "Write"}, Handling(e, io),
           UNCHANGED <<session, wire, arrived, wrote, got>>, e = "I" => acts[e] # 0,
           NEW answer, Conclude(e, io, answer)
    PROVE  SessionInv'
<1>1. UNCHANGED <<chosen, closed>>
  BY Concluded
<1>2. /\ acts' = acts /\ sent' = sent /\ remote_id' = remote_id /\ remote_addr' = remote_addr
      /\ wrote' = wrote /\ got' = got /\ wire' = wire /\ UNCHANGED <<wire, arrived>>
  BY DEF session
<1>3. 0 \in 0..Ready(e) /\ ReadWrite(e, 0, <<>>)
  BY <1>2, InvParts, NothingMoved
<1>4. Exchange(e, 0, <<>>) /\ Gives(e)' /\ Ordered(e)'
  BY <1>1, <1>2, <1>3, OnlyReads
<1>5. Known(e)' /\ Addressed' /\ Learns(e, answer)
  BY <1>1, SessionKept
<1>6. PICK p \in Ends : p = Peer(e) /\ Peer(p) = e
  BY TwoEnds
<1>7. Gives(p)'
  BY <1>2, <1>6, InvParts, GivesSame
<1>8. SessionTyped' /\ Given(e)'
  <2>1. SessionTyped /\ Given(e)
    BY InvParts
  <2> QED BY <2>1, <1>2 DEF SessionTyped, Given, Data, Unit
<1>9. Shown(e)'
  BY <1>2, <1>4, <1>5, <1>6, <1>7, <1>8 DEF Shown
<1> QED BY <1>4, <1>5, <1>9, ReactorKeeps

(* write_nothing keeps the invariant.                                       *)
LEMMA WriteNothingKeeps ==
    ASSUME SessionInv, NEW e \in Ends, write_nothing(e)
    PROVE  SessionInv'
<1>1. /\ Handling(e, "Write") /\ UNCHANGED <<session, wire, arrived, wrote, got>>
      /\ Conclude(e, "Write", "none") /\ (e = "I" => acts[e] # 0)
  <2>1. acts[e] \in 0..3
    BY InvParts DEF SessionTyped
  <2> QED BY <2>1 DEF write_nothing
<1> QED BY <1>1, HandlesNothing

(* read_end keeps the invariant.                                            *)
LEMMA ReadEndKeeps ==
    ASSUME SessionInv, NEW e \in Ends, read_end(e)
    PROVE  SessionInv'
<1>1. /\ Handling(e, "Read") /\ UNCHANGED <<session, wire, arrived, wrote, got>>
      /\ Conclude(e, "Read", "zero")
  BY DEF read_end
<1>2. e = "I" => acts[e] # 0
  BY <1>1, ReaderStarted
<1> QED BY <1>1, <1>2, HandlesNothing

(* How much is ready is a number.                                           *)
LEMMA ReadyProps ==
    ASSUME SessionInv, NEW e \in Ends
    PROVE  Ready(e) \in Nat /\ Ready(e) \in 0..Ready(e) /\ Wanted(e) \in {2, 3}
<1>1. arrived[Peer(e)] \in Nat
  BY TwoEnds, InvParts DEF Shape
<1> QED BY <1>1 DEF Ready, Wanted

(* read_short keeps the invariant.                                          *)
LEMMA ReadShortKeeps ==
    ASSUME SessionInv, NEW e \in Ends, read_short(e)
    PROVE  SessionInv'
<1>1. PICK n, answer : n = Ready(e) /\ answer = IF AtEnd(e) THEN "error" ELSE "block"
  OBVIOUS
<1>2. /\ Handling(e, "Read") /\ ~Established(e) /\ ReadWrite(e, n, <<>>)
      /\ UNCHANGED <<session, wrote, got>> /\ Conclude(e, "Read", answer)
  BY <1>1 DEF read_short
<1>3. n \in 0..Ready(e)
  BY <1>1, ReadyProps
<1> QED BY <1>2, <1>3, ReadsInVain

(* read_credentials_invalid keeps the invariant.                            *)
LEMMA ReadInvalidKeeps ==
    ASSUME SessionInv, NEW e \in Ends, read_credentials_invalid(e)
    PROVE  SessionInv'
<1>1. PICK n : n = Wanted(e)
  OBVIOUS
<1>2. /\ Handling(e, "Read") /\ ~Established(e) /\ ReadWrite(e, n, <<>>) /\ Ready(e) >= n
      /\ UNCHANGED <<session, wrote, got>> /\ Conclude(e, "Read", "error")
  BY <1>1 DEF read_credentials_invalid
<1>3. n \in 0..Ready(e)
  BY <1>1, <1>2, ReadyProps
<1> QED BY <1>2, <1>3, ReadsInVain

(* read_data keeps the invariant.                                           *)
LEMMA ReadDataKeeps ==
    ASSUME SessionInv, NEW e \in Ends, NEW n \in 1..MaxData, read_data(e, n)
    PROVE  SessionInv'
<1>1. /\ Handling(e, "Read") /\ Established(e) /\ ReadWrite(e, n, <<>>) /\ n <= Ready(e)
      /\ UNCHANGED <<session, wrote>> /\ Conclude(e, "Read", "data")
      /\ got' = [got EXCEPT ![e] = got[e] \o SubSeq(wire[Peer(e)], 1, n)]
  BY DEF read_data, Incoming
<1>2. UNCHANGED <<chosen, closed>> /\ (e = "I" => acts[e] # 0)
  BY <1>1, Concluded, ReaderStarted
<1>3. /\ acts' = acts /\ sent' = sent /\ remote_id' = remote_id /\ remote_addr' = remote_addr
      /\ wrote' = wrote /\ remote_id[e] # None
  BY <1>1 DEF session, Established
<1>4. n \in 0..Ready(e)
  BY <1>1, ReadyProps, NoiseSessionAssumption
<1>5. SessionTyped /\ Peer(e) \in Ends /\ Peer(e) # e
  BY InvParts, TwoEnds
<1>6. PICK y : y = got[e] \o SubSeq(wire[Peer(e)], 1, n)
  OBVIOUS
<1>7. got' = [got EXCEPT ![e] = y] /\ got \in [Ends -> Seq(Units)]
  BY <1>1, <1>5, <1>6 DEF SessionTyped
<1>8. got'[e] = y /\ got'[Peer(e)] = got[Peer(e)]
  BY <1>5, <1>7
<1>9. /\ Exchange(e, n, <<>>) /\ Gives(e)' /\ Ordered(e)'
      /\ wire'[Peer(e)] = SubSeq(wire[Peer(e)], n + 1, Len(wire[Peer(e)]))
      /\ n \in 0..Len(wire[Peer(e)])
  BY <1>1, <1>2, <1>3, <1>4, <1>8, OnlyReads
<1>10. Gives(Peer(e))' /\ Given(e)' /\ got'[e] \in Seq(Units)
  BY <1>3, <1>6, <1>8, <1>9, GivesRead
<1>11. SessionTyped'
  <2>1. got' \in [Ends -> Seq(Units)]
    BY <1>7, <1>8, <1>10
  <2> QED BY <2>1, <1>3, <1>5 DEF SessionTyped
<1>12. Known(e)' /\ Addressed' /\ Learns(e, "data")
  BY <1>1, <1>2, SessionKept
<1>13. Shown(e)'
  BY <1>2, <1>3, <1>9, <1>10, <1>11, <1>12 DEF Shown
<1> QED BY <1>1, <1>9, <1>12, <1>13, ReactorKeeps

(* A step of the handshake: an end that knows nobody, and has not sent its  *)
(* credentials, writes acts or credentials.                                 *)
LEMMA HandshakeKeeps ==
    ASSUME SessionInv, NEW e \in Ends, NEW io \in {"Read", "Write"}, Handling(e, io),
           NEW answer, Conclude(e, io, answer), NEW n \in 0..Ready(e), NEW out \in Seq(Units),
           ReadWrite(e, n, out), Stream(e)' = Stream(e) \o out, ~Established(e), ~sent[e],
           acts' \in [Ends -> 0..3], sent' \in [Ends -> BOOLEAN],
           acts'[Peer(e)] = acts[Peer(e)], sent'[Peer(e)] = sent[Peer(e)],
           UNCHANGED <<remote_id, remote_addr, wrote, got>>, Ordered(e)', e = "I" => acts'[e] # 0
    PROVE  SessionInv'
<1>1. UNCHANGED <<chosen, closed>> /\ target' = target
  BY Concluded DEF chosen
<1>2. Exchange(e, n, out)
  BY <1>1 DEF Exchange, Quiet
<1>3. PICK p \in Ends : p = Peer(e) /\ Peer(p) = e
  BY TwoEnds
<1>4. remote_id[e] = None
  BY Unknown
<1>5. remote_id[p] = None
  BY <1>3, InvParts DEF Identity
<1>6. Gives(e)'
  BY <1>3, <1>5, InvParts, GivesNothing
<1>7. Gives(p)'
  BY <1>3, <1>4, InvParts, GivesNothing
<1>8. SessionTyped' /\ Given(e)' /\ Addressed' /\ Known(e)'
  <2>1. SessionTyped /\ Given(e) /\ Addressed
    BY InvParts
  <2>2. SessionTyped'
    BY <2>1 DEF SessionTyped
  <2>3. Given(e)'
    BY <2>1 DEF Given, Data, Unit
  <2>4. Addressed'
    BY <2>1, <1>1 DEF Addressed
  <2>5. Known(e)'
    BY <1>4 DEF Known
  <2> QED BY <2>2, <2>3, <2>4, <2>5
<1>9. Shown(e)'
  BY <1>3, <1>6, <1>7, <1>8 DEF Shown
<1>10. Learns(e, answer)
  BY DEF Learns
<1> QED BY <1>2, <1>9, <1>10, ReactorKeeps

(* write_begin keeps the invariant.                                         *)
LEMMA WriteBeginKeeps ==
    ASSUME SessionInv, NEW e \in Ends, write_begin(e)
    PROVE  SessionInv'
<1>1. PICK out : out = Act(1)
  OBVIOUS
<1>2. /\ Handling(e, "Write") /\ e = "I" /\ acts[e] = 0 /\ acts' = [acts EXCEPT ![e] = 1]
      /\ ReadWrite(e, 0, out) /\ UNCHANGED <<sent, remote_id, remote_addr, wrote, got>>
      /\ Conclude(e, "Write", "none")
  BY <1>1 DEF write_begin
<1>3. Shape /\ SessionTyped /\ Ordered(e) /\ target \in Keys /\ Peer(e) \in Ends /\ Peer(e) # e
  BY InvParts, TwoEnds
<1>4. /\ acts' \in [Ends -> 0..3] /\ acts'[e] = 1 /\ acts'[Peer(e)] = acts[Peer(e)]
      /\ sent' \in [Ends -> BOOLEAN] /\ sent' = sent /\ wrote' = wrote
  BY <1>2, <1>3 DEF SessionTyped
<1>5. out \in Seq(Units)
  BY <1>1, <1>3, ActProps
<1>6. UNCHANGED chosen
  BY <1>2, Concluded
<1>7. Stream(e)' = Stream(e) \o out
  <2>1. acts[e] # 3
    BY <1>2
  <2>2. ActsOut(e)' = ActsOut(e) \o out
    BY <2>1, <1>1, <1>2, <1>3, <1>4, <1>6, ActsGrow
  <2> QED BY <2>1, <2>2, <1>3, <1>4, <1>5, <1>6, StreamActs
<1>8. ~Established(e) /\ ~sent[e] /\ Ordered(e)'
  BY <1>2, <1>3, <1>4 DEF Established, Ordered
<1>9. 0 \in 0..Ready(e)
  BY ReadyProps
<1>10. /\ UNCHANGED <<remote_id, remote_addr, wrote, got>> /\ acts'[Peer(e)] = acts[Peer(e)]
       /\ sent'[Peer(e)] = sent[Peer(e)] /\ acts' \in [Ends -> 0..3] /\ sent' \in [Ends -> BOOLEAN]
       /\ Handling(e, "Write") /\ Conclude(e, "Write", "none") /\ ReadWrite(e, 0, out)
       /\ acts'[e] # 0
  BY <1>2, <1>4
<1> QED BY <1>5, <1>7, <1>8, <1>9, <1>10, HandshakeKeeps

(* write_certify keeps the invariant.                                       *)
LEMMA WriteCertifyKeeps ==
    ASSUME SessionInv, NEW e \in Ends, write_certify(e)
    PROVE  SessionInv'
<1>1. PICK out : out = Credentials(context[e])
  OBVIOUS
<1>2. /\ Handling(e, "Write") /\ acts[e] = 3 /\ ~Established(e) /\ ~sent[e]
      /\ sent' = [sent EXCEPT ![e] = TRUE]
      /\ ReadWrite(e, 0, out) /\ UNCHANGED <<acts, remote_id, remote_addr, wrote, got>>
      /\ Conclude(e, "Write", "none")
  BY <1>1 DEF write_certify
<1>3. Shape /\ SessionTyped /\ Ordered(e) /\ Peer(e) \in Ends /\ Peer(e) # e
  BY InvParts, TwoEnds
<1>4. /\ sent' \in [Ends -> BOOLEAN] /\ sent'[e] /\ sent'[Peer(e)] = sent[Peer(e)]
      /\ acts' \in [Ends -> 0..3] /\ acts' = acts /\ wrote' = wrote
  BY <1>2, <1>3 DEF SessionTyped
<1>5. UNCHANGED chosen
  BY <1>2, Concluded
<1>6. Stream(e)' = Stream(e) \o out /\ out \in Seq(Units)
  BY <1>1, <1>2, <1>3, <1>4, <1>5, StreamCertified
<1>7. Ordered(e)' /\ acts'[e] # 0
  BY <1>2, <1>3, <1>4 DEF Ordered
<1>8. 0 \in 0..Ready(e)
  BY ReadyProps
<1>9. /\ UNCHANGED <<remote_id, remote_addr, wrote, got>> /\ acts'[Peer(e)] = acts[Peer(e)]
      /\ sent'[Peer(e)] = sent[Peer(e)] /\ acts' \in [Ends -> 0..3] /\ sent' \in [Ends -> BOOLEAN]
      /\ Handling(e, "Write") /\ Conclude(e, "Write", "none") /\ ReadWrite(e, 0, out)
      /\ ~Established(e) /\ ~sent[e]
  BY <1>2, <1>4
<1> QED BY <1>6, <1>7, <1>8, <1>9, HandshakeKeeps

(* read_act keeps the invariant.                                            *)
LEMMA ReadActKeeps ==
    ASSUME SessionInv, NEW e \in Ends, read_act(e)
    PROVE  SessionInv'
<1>1. PICK n, out, answer : /\ n = Wanted(e) /\ out = Answer(e)
                            /\ answer = IF Accepts(e) THEN "zero" ELSE "error"
  OBVIOUS
<1>2. /\ Handling(e, "Read") /\ acts[e] < 3 /\ Ready(e) >= n
      /\ UNCHANGED <<sent, remote_id, remote_addr, wrote, got>> /\ Conclude(e, "Read", answer)
      /\ IF Accepts(e)
         THEN acts' = [acts EXCEPT ![e] = Advanced(e)] /\ ReadWrite(e, n, out)
         ELSE ReadWrite(e, n, <<>>) /\ UNCHANGED acts
  BY <1>1 DEF read_act
<1>3. n \in 0..Ready(e)
  BY <1>1, <1>2, ReadyProps
<1>4. Shape /\ SessionTyped /\ Ordered(e) /\ Peer(e) \in Ends /\ Peer(e) # e
  BY InvParts, TwoEnds
<1>5. acts[e] # 3 /\ ~Established(e)
  BY <1>2, <1>4 DEF Established, SessionTyped
<1>6. CASE ~Accepts(e)
  BY <1>2, <1>3, <1>5, <1>6, ReadsInVain DEF session
<1>7. CASE Accepts(e)
  <2>1. PICK a : a = Advanced(e)
    OBVIOUS
  <2>2. a \in 0..3
    BY <2>1, <1>2, <1>4 DEF Advanced, SessionTyped, Ordered
  <2>3. /\ acts' \in [Ends -> 0..3] /\ acts'[e] = Advanced(e) /\ acts'[Peer(e)] = acts[Peer(e)]
        /\ sent' \in [Ends -> BOOLEAN] /\ sent' = sent /\ wrote' = wrote
    BY <2>1, <2>2, <1>2, <1>4, <1>7 DEF SessionTyped
  <2>4. UNCHANGED chosen /\ (e = "I" => acts[e] # 0)
    BY <1>2, Concluded, ReaderStarted
  <2>5. /\ ActsOut(e)' = ActsOut(e) \o out /\ out \in Seq(Units)
        /\ acts'[e] \in {2, 3} /\ (e = "I" => acts'[e] = 3)
    BY <2>3, <2>4, <1>1, <1>4, <1>5, ActsGrow
  <2>6. Stream(e)' = Stream(e) \o out
    BY <2>3, <2>4, <2>5, <1>4, <1>5, StreamActs
  <2>7. ~sent[e] /\ Ordered(e)' /\ acts'[e] # 0
    BY <2>3, <2>5, <1>4, <1>5 DEF Ordered
  <2> QED BY <2>3, <2>5, <2>6, <2>7, <1>2, <1>3, <1>5, <1>7, HandshakeKeeps
<1> QED BY <1>6, <1>7

(* What an end that knows nobody reads as credentials, if they are signed,  *)
(* are those of its peer, and data comes after them.                        *)
LEMMA PeerIdentified ==
    ASSUME SessionInv, NEW e \in Ends, acts[e] = 3, Ready(e) >= Wanted(e), Signed(Input(e))
    PROVE  /\ sent[Peer(e)] /\ Input(e)[1].key = context[Peer(e)].cert
           /\ context[Peer(e)].cert \in Keys /\ context[Peer(e)].valid
           /\ SubSeq(wire[Peer(e)], 3 + 1, Len(wire[Peer(e)])) = Data(0, wrote[Peer(e)])
           /\ Wanted(e) = 3
<1>1. PICK p \in Ends : p = Peer(e)
  BY TwoEnds
<1>2. Shape /\ Rest(p)
  BY InvParts
<1>3. PICK q \in Seq(Units) : Follows(p, q)
  BY <1>2 DEF Rest
<1>4. Wanted(e) = 3
  BY DEF Wanted
<1>5. wire[p] \in Seq(Units) /\ arrived[p] \in 0..Len(wire[p]) /\ Len(wire[p]) \in Nat
  BY <1>2, LenProperties DEF Shape, TypeOK
<1>6. 3 \in 0..Len(wire[p]) /\ 1 <= Len(wire[p])
  BY <1>1, <1>4, <1>5 DEF Ready
<1>7. PICK x : x = SubSeq(wire[p], 1, 3)
  OBVIOUS
<1>8. Input(e) = x
  BY <1>1, <1>4, <1>7 DEF Input, Incoming
<1>9. x[1] = wire[p][1]
  <2>1. \A i \in 1..3 : SubSeq(wire[p], 1, 3)[i] = wire[p][i]
    BY <1>5, <1>6, Cut
  <2> QED BY <2>1, <1>7
<1>10. wire[p][1].is = "pk"
  BY <1>8, <1>9 DEF Signed
<1>11. sent[p] /\ wire[p] = Credentials(context[p]) \o Data(0, wrote[p])
  BY <1>2, <1>3, <1>6, <1>10, KeyInFront
<1>12. /\ SubSeq(wire[p], 1, 3)[1].key = context[p].cert /\ context[p].cert \in Keys
       /\ Signed(SubSeq(wire[p], 1, 3)) <=> context[p].valid
       /\ SubSeq(wire[p], 4, Len(wire[p])) = Data(0, wrote[p])
  BY <1>2, <1>11, CredentialsRead
<1>13. 3 + 1 = 4 /\ Signed(x)
  BY <1>8
<1>14. context[p].valid
  BY <1>7, <1>12, <1>13
<1> QED BY <1>1, <1>4, <1>7, <1>8, <1>11, <1>12, <1>13, <1>14

(* read_credentials keeps the invariant.                                    *)
LEMMA ReadCredentialsKeeps ==
    ASSUME SessionInv, NEW e \in Ends, read_credentials(e)
    PROVE  SessionInv'
<1>1. PICK id : id = Input(e)[1].key
  OBVIOUS
<1>2. PICK answer : answer = IF remote_addr[e] \notin {None, id} THEN "reset" ELSE "zero"
  OBVIOUS
<1>3. /\ Handling(e, "Read") /\ acts[e] = 3 /\ ~Established(e) /\ Ready(e) >= Wanted(e)
      /\ Signed(Input(e)) /\ ReadWrite(e, Wanted(e), <<>>)
      /\ remote_id' = [remote_id EXCEPT ![e] = id]
      /\ remote_addr' = [remote_addr EXCEPT ![e] = upgrade(remote_addr[e], id)]
      /\ UNCHANGED <<acts, sent, wrote, got>> /\ Conclude(e, "Read", answer)
  BY <1>1, <1>2 DEF read_credentials
<1>4. PICK p \in Ends : p = Peer(e) /\ Peer(p) = e /\ p # e
  BY TwoEnds
<1>5. /\ sent[p] /\ id = context[p].cert /\ id \in Keys /\ context[p].valid
      /\ SubSeq(wire[p], 3 + 1, Len(wire[p])) = Data(0, wrote[p]) /\ Wanted(e) = 3
  BY <1>1, <1>3, <1>4, PeerIdentified
<1>6. ReadWrite(e, 3, <<>>) /\ 3 \in 0..Ready(e)
  BY <1>3, <1>5, ReadyProps
<1>7. /\ UNCHANGED <<chosen, closed, acts, sent, wrote>> /\ got' = got
      /\ acts' = acts /\ sent' = sent /\ wrote' = wrote /\ target' = target /\ context' = context
  BY <1>3, Concluded DEF chosen
<1>8. /\ SessionTyped /\ Gives(p) /\ Given(e) /\ Addressed /\ target # None /\ remote_id[e] = None
      /\ id # None
  BY <1>3, <1>5, InvParts, Unknown, NoiseSessionAssumption
<1>9. remote_id'[e] = id /\ remote_id'[p] = remote_id[p] /\ remote_id' \in [Ends -> Keys \cup {None}]
  BY <1>3, <1>4, <1>5, <1>8 DEF SessionTyped
<1>10. /\ Exchange(e, 3, <<>>) /\ Gives(e)' /\ Ordered(e)'
       /\ wire'[p] = SubSeq(wire[p], 3 + 1, Len(wire[p]))
  <2>1. got'[Peer(e)] = got[Peer(e)] /\ remote_id'[Peer(e)] = remote_id[Peer(e)]
    BY <1>4, <1>7, <1>9
  <2> QED BY <2>1, <1>4, <1>6, <1>7, OnlyReads
<1>11. /\ remote_addr' \in [Ends -> Addresses] /\ remote_addr'[p] = remote_addr[p]
       /\ remote_addr'[e] = upgrade(remote_addr[e], id)
  <2>1. upgrade(remote_addr[e], id) \in Addresses
    BY <1>5, <1>8 DEF upgrade, Addresses, SessionTyped
  <2> QED BY <2>1, <1>3, <1>4, <1>8 DEF SessionTyped
<1>12. Addressed'
  <2>1. CASE e = "I"
    <3>1. p = "R" /\ remote_addr["I"] = target /\ remote_addr["R"] = remote_id["R"]
      BY <2>1, <1>4, <1>8, TwoEnds DEF Addressed
    <3>2. remote_addr'["I"] = target
      BY <3>1, <2>1, <1>8, <1>11 DEF upgrade
    <3> QED BY <3>1, <3>2, <1>7, <1>9, <1>11 DEF Addressed
  <2>2. CASE e = "R"
    <3>1. p = "I" /\ remote_addr["I"] = target /\ remote_addr["R"] = None
      BY <2>2, <1>4, <1>8, TwoEnds DEF Addressed
    <3>2. remote_addr'["R"] = id
      BY <3>1, <2>2, <1>11 DEF upgrade
    <3> QED BY <3>1, <3>2, <2>2, <1>7, <1>9, <1>11 DEF Addressed
  <2> QED BY <2>1, <2>2 DEF Ends
<1>13. Known(e)'
  BY <1>3, <1>4, <1>5, <1>7, <1>9 DEF Known
<1>14. Gives(p)'
  <2>1. got[e] = <<>> /\ Len(<<>>) = 0
    BY <1>4, <1>8 DEF Gives
  <2>2. Len(got[e])' = 0 /\ got'[e] = <<>>
    BY <2>1, <1>7
  <2>3. Data(Len(got[e]), wrote[p])' = Data(0, wrote[p])
    BY <2>2, <1>7 DEF Data, Unit
  <2>4. wire'[p] = Data(0, wrote[p])
    BY <1>5, <1>10
  <2>5. wrote[p] \in Nat
    BY <1>8, NoiseSessionAssumption DEF SessionTyped
  <2>6. 0 <= wrote'[p] /\ remote_id'[e] # None
    BY <2>5, <1>7, <1>8, <1>9
  <2> QED BY <2>2, <2>3, <2>4, <2>6, <1>4 DEF Gives
<1>15. SessionTyped' /\ Given(e)'
  BY <1>7, <1>8, <1>9, <1>11 DEF SessionTyped, Given, Data, Unit
<1>16. e = "I" => acts'[e] # 0
  BY <1>3, <1>7
<1>17. Shown(e)'
  BY <1>4, <1>10, <1>12, <1>13, <1>14, <1>15, <1>16 DEF Shown
<1>18. Learns(e, answer)
  BY <1>2, <1>3, <1>8, <1>9 DEF Learns, Addressed
<1> QED BY <1>3, <1>10, <1>17, <1>18, ReactorKeeps

-----------------------------------------------------------------------------
(* The other steps of an end in a reactor, and the network's.               *)

(* A step that reads and writes nothing, and after which the states are     *)
(* what they were.                                                          *)
LEMMA StillKeeps ==
    ASSUME SessionInv, UNCHANGED <<chosen, session, state, wire, wrote, got>>, DriverTyped',
           arrived' \in [Ends -> Nat], \A x \in Ends : arrived'[x] \in 0..Len(wire[x]),
           closed' \in [Ends -> BOOLEAN], \A x \in Ends : ByReactor(x)', ByCaller'
    PROVE  SessionInv'
<1>1. /\ acts' = acts /\ sent' = sent /\ remote_id' = remote_id /\ remote_addr' = remote_addr
      /\ mode' = mode /\ fragmented' = fragmented /\ target' = target /\ context' = context
      /\ UNCHANGED chosen /\ wire' = wire /\ wrote' = wrote /\ got' = got /\ state' = state
  BY DEF session, chosen
<1>2. Shape /\ TypeOK /\ Addressed /\ Whole /\ PanicOnlyOnWrongPeer
  BY DEF SessionInv, Shape
<1>3. Shape'
  <2>1. \A x \in Ends : /\ wire'[x] \in Seq(Units) /\ got'[x] \in Seq(Units)
                        /\ arrived'[x] \in 0..Len(wire'[x])
    BY <1>1, <1>2 DEF Shape
  <2>2. TypeOK'
    BY <2>1, <1>1, <1>2 DEF TypeOK, DriverTyped
  <2> QED BY <2>2, <1>1, <1>2 DEF Shape
<1>4. ASSUME NEW x \in Ends, NEW p PROVE Follows(x, p)' <=> Follows(x, p)
  <2>1. Stream(x)' = Stream(x)
    BY <1>1, StreamKept DEF Quiet
  <2> QED BY <2>1, <1>1 DEF Follows
<1>5. ASSUME NEW x \in Ends PROVE EndInv(x)'
  <2>1. Ordered(x) /\ Identity(x) /\ Rest(x) /\ Gives(x) /\ Given(x)
    BY InvParts
  <2>2. Rest(x)'
    BY <2>1, <1>4 DEF Rest
  <2>3. Gives(x)'
    BY <2>1, <1>1, GivesSame
  <2>4. Ordered(x)' /\ Given(x)'
    BY <2>1, <1>1 DEF Ordered, Given, Data, Unit
  <2>5. Identity(x)'
    BY <2>1, <1>1 DEF Identity
  <2>6. ByReactor(x)'
    OBVIOUS
  <2> QED BY <2>2, <2>3, <2>4, <2>5, <2>6 DEF EndInv
<1>6. Addressed' /\ PanicOnlyOnWrongPeer'
  BY <1>1, <1>2 DEF Addressed, PanicOnlyOnWrongPeer
<1>7. Whole'
  <2>1. "R" \in Ends
    BY DEF Ends
  <2>2. PICK a : a = Act(2) /\ a = Act(2)'
    BY <1>1 DEF Act, Unit
  <2>3. Follows("R", Act(2)) = Follows("R", a) /\ Follows("R", Act(2))' = Follows("R", a)'
    BY <2>2 DEF Follows
  <2>4. (Follows("R", a)' <=> Follows("R", a)) /\ (Follows("R", <<>>)' <=> Follows("R", <<>>))
    BY <2>1, <1>4
  <2> QED BY <2>3, <2>4, <1>1, <1>2 DEF Whole
<1> QED BY <1>3, <1>5, <1>6, <1>7 DEF SessionInv

(* Unchanged drivers keep what is said of them.                             *)
LEMMA DriverKept ==
    ASSUME SessionInv, UNCHANGED <<chosen, driver, acts, sent>>
    PROVE  DriverTyped' /\ ByCaller' /\ \A x \in Ends : ByReactor(x)'
<1>1. /\ state' = state /\ write_intent' = write_intent /\ batch' = batch
      /\ mode' = mode /\ acts' = acts /\ sent' = sent
  BY DEF driver, chosen
<1>2. DriverTyped /\ ByCaller /\ \A x \in Ends : ByReactor(x)
  BY InvParts DEF Ends
<1>3. DriverTyped'
  BY <1>1, <1>2 DEF DriverTyped
<1>4. ByCaller'
  BY <1>1, <1>2 DEF ByCaller
<1>5. \A x \in Ends : ByReactor(x)'
  BY <1>1, <1>2 DEF ByReactor, InReactor
<1> QED BY <1>3, <1>4, <1>5

(* The types of what the network and the closing of an end change.          *)
LEMMA NetworkTypes ==
    ASSUME SessionInv
    PROVE  /\ arrived \in [Ends -> Nat] /\ closed \in [Ends -> BOOLEAN] /\ wire \in [Ends -> Seq(Units)]
           /\ \A x \in Ends : arrived[x] \in 0..Len(wire[x]) /\ Len(wire[x]) \in Nat
<1>1. TypeOK /\ wire \in [Ends -> Seq(Units)] /\ arrived \in [Ends -> Nat]
  BY DEF SessionInv, Shape
<1>2. \A x \in Ends : arrived[x] \in 0..Len(wire[x]) /\ Len(wire[x]) \in Nat
  BY <1>1, LenProperties DEF TypeOK
<1> QED BY <1>1, <1>2 DEF TypeOK

(* disconnect keeps the invariant.                                          *)
LEMMA DisconnectKeeps ==
    ASSUME SessionInv, NEW e \in Ends, disconnect(e)
    PROVE  SessionInv'
<1>1. /\ UNCHANGED <<chosen, session, wire, wrote, got>> /\ UNCHANGED <<chosen, driver, acts, sent>>
      /\ state' = state /\ arrived' = arrived /\ closed' = [closed EXCEPT ![e] = TRUE]
  BY DEF disconnect, session, driver
<1>2. /\ arrived \in [Ends -> Nat] /\ closed \in [Ends -> BOOLEAN]
      /\ \A x \in Ends : arrived[x] \in 0..Len(wire[x])
  BY NetworkTypes
<1>3. closed' \in [Ends -> BOOLEAN]
  BY <1>1, <1>2
<1>4. DriverTyped' /\ ByCaller' /\ \A x \in Ends : ByReactor(x)'
  BY <1>1, DriverKept
<1> QED BY <1>1, <1>2, <1>3, <1>4, StillKeeps

(* deliver keeps the invariant.                                             *)
LEMMA DeliverKeeps ==
    ASSUME SessionInv, NEW e \in Ends, deliver(e)
    PROVE  SessionInv'
<1>1. /\ UNCHANGED <<chosen, session, wire, wrote, got>> /\ UNCHANGED <<chosen, driver, acts, sent>>
      /\ state' = state /\ closed' = closed
  BY DEF deliver, session, driver
<1>2. PICK n \in (arrived[e] + 1)..Len(wire[e]) : arrived' = [arrived EXCEPT ![e] = n]
  BY DEF deliver
<1>3. /\ arrived \in [Ends -> Nat] /\ closed \in [Ends -> BOOLEAN]
      /\ \A x \in Ends : arrived[x] \in 0..Len(wire[x]) /\ Len(wire[x]) \in Nat
  BY NetworkTypes
<1>4. n \in Nat /\ n \in 0..Len(wire[e])
  BY <1>2, <1>3
<1>5. arrived' \in [Ends -> Nat] /\ \A x \in Ends : arrived'[x] = IF x = e THEN n ELSE arrived[x]
  BY <1>2, <1>3, <1>4
<1>6. \A x \in Ends : arrived'[x] \in 0..Len(wire[x])
  BY <1>3, <1>4, <1>5
<1>7. DriverTyped' /\ ByCaller' /\ \A x \in Ends : ByReactor(x)'
  BY <1>1, DriverKept
<1> QED BY <1>1, <1>3, <1>5, <1>6, <1>7, StillKeeps

(* Two sequences of one element each make one of two.                       *)
LEMMA PairOf ==
    ASSUME NEW S, NEW a \in S, NEW b \in S
    PROVE  <<a>> \in Seq(S) /\ <<b>> \in Seq(S) /\ <<a>> \o <<b>> = <<a, b>>
<1>1. PICK s, t, u : s = <<a>> /\ t = <<b>> /\ u = <<a, b>>
  OBVIOUS
<1>2. s \in Seq(S) /\ Len(s) = 1 /\ s[1] = a
  BY <1>1
<1>3. t \in Seq(S) /\ Len(t) = 1 /\ t[1] = b
  BY <1>1
<1>4. u \in Seq(S) /\ Len(u) = 2 /\ u[1] = a /\ u[2] = b
  BY <1>1
<1>5. /\ s \o t \in Seq(S) /\ Len(s \o t) = Len(s) + Len(t)
      /\ \A i \in 1..Len(s) + Len(t) : (s \o t)[i] = IF i <= Len(s) THEN s[i] ELSE t[i - Len(s)]
  BY <1>2, <1>3, ConcatProperties
<1>6. Len(s \o t) = 2 /\ (s \o t)[1] = a /\ (s \o t)[2] = b
  BY <1>2, <1>3, <1>5
<1>7. \A i \in 1..Len(s \o t) : (s \o t)[i] = u[i]
  BY <1>4, <1>6
<1>8. s \o t = u
  BY <1>4, <1>5, <1>6, <1>7, SeqEqual
<1> QED BY <1>1, <1>2, <1>3, <1>8

(* poll keeps the invariant.                                                *)
LEMMA PollKeeps ==
    ASSUME SessionInv, NEW e \in Ends, poll(e)
    PROVE  SessionInv'
<1>1. PICK w \in BOOLEAN, r \in BOOLEAN :
         /\ r => ReadInterest(e)
         /\ batch' = [batch EXCEPT ![e] = (IF w THEN <<"Write">> ELSE <<>>) \o (IF r THEN <<"Read">> ELSE <<>>)]
  <2>1. PICK w \in BOOLEAN, r \in BOOLEAN :
           (w <=> WriteInterest(e)) /\ (r <=> (ReadInterest(e) /\ (Ready(e) > 0 \/ AtEnd(e))))
    BY DEF ReadInterest, WriteInterest
  <2>2. batch' = [batch EXCEPT ![e] = (IF w THEN <<"Write">> ELSE <<>>) \o (IF r THEN <<"Read">> ELSE <<>>)]
    BY <2>1 DEF poll
  <2> QED BY <2>1, <2>2
<1>2. /\ UNCHANGED <<chosen, session, state, wire, wrote, got>> /\ InReactor(e)
      /\ state' = state /\ write_intent' = write_intent /\ arrived' = arrived /\ closed' = closed
      /\ mode' = mode /\ acts' = acts /\ sent' = sent
  BY DEF poll, chosen, session
<1>3. PICK b : b = (IF w THEN <<"Write">> ELSE <<>>) \o (IF r THEN <<"Read">> ELSE <<>>)
  OBVIOUS
<1>4. b \in {<<>>, <<"Read">>, <<"Write">>, <<"Write", "Read">>} /\ (~r => b \in {<<>>, <<"Write">>})
  <2>1. PICK S : S = {"Write", "Read"}
    OBVIOUS
  <2>2. PICK x \in S, y \in S : x = "Write" /\ y = "Read"
    BY <2>1
  <2>3. /\ <<>> \o <<>> = <<>> /\ <<"Write">> \o <<>> = <<"Write">> /\ <<>> \o <<"Read">> = <<"Read">>
    <3>1. <<>> \in Seq(S) /\ <<x>> \in Seq(S) /\ <<y>> \in Seq(S)
      BY PairOf, EmptySeq, Zenon
    <3>2. <<>> \o <<>> = <<>> /\ <<x>> \o <<>> = <<x>> /\ <<>> \o <<y>> = <<y>>
      BY <3>1, ConcatEmptySeq, Zenon
    <3> QED BY <3>2, <2>2
  <2>4. <<"Write">> \o <<"Read">> = <<"Write", "Read">>
    <3>1. <<x>> \o <<y>> = <<x, y>>
      BY PairOf, Zenon
    <3> QED BY <3>1, <2>2
  <2> QED BY <2>3, <2>4, <1>3
<1>5. PICK B : B = {<<>>, <<"Read">>, <<"Write">>, <<"Write", "Read">>}
  OBVIOUS
<1>6. /\ DriverTyped /\ ByCaller /\ mode \in {"blocking", "nonblocking"} /\ batch \in [Ends -> B]
      /\ \A x \in Ends : ByReactor(x)
  BY <1>5, InvParts DEF DriverTyped, Ends
<1>7. batch' \in [Ends -> B] /\ \A x \in Ends : batch'[x] = IF x = e THEN b ELSE batch[x]
  <2>1. batch' = [batch EXCEPT ![e] = b] /\ b \in B
    BY <1>1, <1>3, <1>4, <1>5
  <2> QED BY <2>1, <1>6, Zenon
<1>8. DriverTyped'
  BY <1>2, <1>5, <1>6, <1>7 DEF DriverTyped
<1>9. ASSUME NEW x \in Ends PROVE ByReactor(x)'
  <2>1. CASE x = e
    <3>1. state[e] = "Init" => b \in {<<>>, <<"Write">>}
      BY <1>1, <1>4 DEF ReadInterest
    <3> QED BY <3>1, <2>1, <1>2, <1>6, <1>7 DEF ByReactor, InReactor
  <2>2. CASE x # e
    BY <2>2, <1>2, <1>6, <1>7 DEF ByReactor, InReactor
  <2> QED BY <2>1, <2>2
<1>10. ByCaller'
  <2>1. CASE mode = "blocking"
    <3>1. "I" # e /\ "I" \in Ends
      BY <2>1, <1>2 DEF InReactor, Ends
    <3>2. batch'["I"] = batch["I"]
      BY <3>1, <1>7
    <3> QED BY <3>2, <1>2, <1>6 DEF ByCaller
  <2>2. CASE mode # "blocking"
    BY <2>2, <1>2 DEF ByCaller
  <2> QED BY <2>1, <2>2
<1>11. /\ arrived \in [Ends -> Nat] /\ closed \in [Ends -> BOOLEAN]
       /\ \A x \in Ends : arrived[x] \in 0..Len(wire[x])
  BY NetworkTypes
<1> QED BY <1>2, <1>8, <1>9, <1>10, <1>11, StillKeeps

(* write_data keeps the invariant.                                          *)
LEMMA WriteDataKeeps ==
    ASSUME SessionInv, NEW e \in Ends, write_data(e)
    PROVE  SessionInv'
<1>1. PICK m, out : m = wrote[e] + 1 /\ out = Data(wrote[e], wrote[e] + 1)
  OBVIOUS
<1>2. /\ InReactor(e) /\ state[e] = "Active" /\ sent[e] /\ wrote[e] < MaxData
      /\ wrote' = [wrote EXCEPT ![e] = m] /\ ReadWrite(e, 0, out)
      /\ UNCHANGED <<chosen, closed>> /\ UNCHANGED <<chosen, session>> /\ UNCHANGED <<chosen, driver, acts, sent>>
  BY <1>1 DEF write_data, session
<1>3. PICK p \in Ends : p = Peer(e) /\ Peer(p) = e /\ p # e
  BY TwoEnds
<1>4. /\ acts' = acts /\ sent' = sent /\ remote_id' = remote_id /\ remote_addr' = remote_addr /\ got' = got
      /\ state' = state /\ batch' = batch /\ target' = target /\ context' = context
  BY <1>2 DEF session, driver, chosen, write_data
<1>5. /\ Shape /\ SessionTyped /\ Ordered(e) /\ Identity(e) /\ Given(e) /\ Gives(p) /\ Addressed
      /\ ByReactor(e)
  BY InvParts
<1>6. /\ m \in Nat /\ m \in 0..MaxData /\ wrote[e] <= m
      /\ wrote'[e] = m /\ wrote'[p] = wrote[p] /\ wrote' \in [Ends -> 0..MaxData]
  <2>1. wrote[e] \in 0..MaxData /\ wrote \in [Ends -> 0..MaxData]
    BY <1>5 DEF SessionTyped
  <2>2. m \in Nat /\ m \in 0..MaxData /\ wrote[e] <= m
    BY <2>1, <1>1, <1>2, NoiseSessionAssumption
  <2> QED BY <2>1, <2>2, <1>2, <1>3
<1>7. Stream(e)' = Stream(e) \o out /\ out \in Seq(Units)
  <2>1. out = Data(wrote[e], m)
    BY <1>1
  <2> QED BY <2>1, <1>2, <1>4, <1>5, <1>6, StreamData
<1>8. 0 \in 0..Ready(e)
  BY ReadyProps
<1>9. Exchange(e, 0, out)
  BY <1>2, <1>3, <1>4, <1>6, <1>7, <1>8 DEF Exchange, Quiet
<1>10. Aside(Peer(e)) /\ state'[e] \in {"Init", "Handshake", "Active", "Terminated"}
  BY <1>2, <1>4 DEF Aside
<1>11. ByCaller' /\ Whole' /\ PanicOnlyOnWrongPeer'
  BY <1>2, <1>9, <1>10, CallerKept
<1>12. /\ wire'[e] = wire[e] \o out
       /\ wire'[Peer(e)] = SubSeq(wire[Peer(e)], 0 + 1, Len(wire[Peer(e)]))
  BY <1>2, <1>5, <1>7, <1>8, WiresAfter
<1>13. Gives(e)'
  <2>1. /\ wire'[e] = wire[e] \o Data(wrote[e], m)
        /\ remote_id'[Peer(e)] = remote_id[Peer(e)] /\ got'[Peer(e)] = got[Peer(e)]
    BY <1>1, <1>4, <1>12
  <2> QED BY <2>1, <1>6, GivesMore
<1>14. Gives(p)'
  <2>1. wire'[p] = wire[p]
    BY <1>3, <1>5, <1>12, NothingOf
  <2> QED BY <2>1, <1>4, <1>5, <1>6, GivesSame
<1>15. DriverTyped' /\ ByReactor(e)'
  BY <1>2, DriverKept
<1>16. SessionTyped' /\ Given(e)' /\ Addressed' /\ Identity(e)' /\ Ordered(e)'
  <2>1. SessionTyped'
    BY <1>4, <1>5, <1>6 DEF SessionTyped
  <2>2. Given(e)' /\ Addressed'
    BY <1>4, <1>5 DEF Given, Data, Unit, Addressed
  <2>3. Identity(e)'
    BY <1>4, <1>5 DEF Identity
  <2>4. Ordered(e)'
    BY <1>2, <1>4, <1>5 DEF Ordered
  <2> QED BY <2>1, <2>2, <2>3, <2>4
<1>17. Own(e)'
  BY <1>3, <1>11, <1>13, <1>14, <1>15, <1>16 DEF Own
<1> QED BY <1>9, <1>10, <1>17, ExchangeKeeps

-----------------------------------------------------------------------------
(* The steps of connect_blocking and of the client.                         *)

(* What the caller has to show to stand at s.                               *)
Stage(s) ==
    /\ s \in {"Act", "Certify", "Verify", "Active", "Terminated", "Panic"}
    /\ s = "Act" => acts["I"] = 1 /\ remote_id["I"] = None /\ Follows("R", <<>>)
    /\ s \in {"Certify", "Verify"} => acts["I"] = 3 /\ remote_id["I"] = None /\ Follows("R", Act(2))
    /\ s = "Certify" => ~sent["I"]
    /\ s \in {"Verify", "Active"} => acts["I"] = 3 /\ sent["I"]
    /\ s = "Active" => remote_id["I"] # None /\ remote_id["I"] = target
    /\ s = "Panic" => context["R"].cert # target \/ ~context["R"].valid

(* A step of the caller keeps the invariant.                                *)
LEMMA CallerKeeps ==
    ASSUME SessionInv, mode = "blocking", NEW s, Moves(s), NEW n, NEW out, Exchange("I", n, out),
           Shown("I")', Stage(s)'
    PROVE  SessionInv'
<1>1. PICK e \in Ends : e = "I" /\ Peer(e) = "R" /\ "R" \in Ends
  BY TwoEnds DEF Ends
<1>2. s \in {"Act", "Certify", "Verify", "Active", "Terminated", "Panic"}
  BY DEF Stage
<1>3. /\ state' = [state EXCEPT !["I"] = s] /\ write_intent' = write_intent /\ batch' = batch
      /\ mode' = mode /\ target' = target
  BY DEF Moves, Exchange, chosen
<1>4. DriverTyped /\ ByCaller
  BY <1>1, InvParts
<1>5. DriverTyped' /\ state'["I"] = s /\ state'["R"] = state["R"]
  <2>1. state'["I"] = s /\ state'["R"] = state["R"]
    BY <1>1, <1>3, <1>4 DEF DriverTyped
  <2>2. state' \in [Ends -> {"Init", "Handshake", "Active", "Terminated",
                             "Dial", "Act", "Certify", "Verify", "Panic"}]
    BY <1>1, <1>2, <1>3, <1>4 DEF DriverTyped
  <2> QED BY <2>1, <2>2, <1>3, <1>4 DEF DriverTyped
<1>6. Aside(Peer(e))
  BY <1>1, <1>3, <1>5 DEF Aside
<1>7. ByReactor("I")'
  BY <1>3 DEF ByReactor, InReactor
<1>8. ByCaller'
  BY <1>2, <1>3, <1>4, <1>5 DEF ByCaller, Stage
<1>9. Identity("I")'
  BY <1>2, <1>3, <1>5 DEF Identity, Stage, Shown, Known
<1>10. Whole' /\ PanicOnlyOnWrongPeer'
  BY <1>2, <1>5 DEF Whole, PanicOnlyOnWrongPeer, Stage
<1>11. Own(e)'
  BY <1>1, <1>5, <1>7, <1>8, <1>9, <1>10 DEF Own, Shown
<1>12. Exchange(e, n, out)
  BY <1>1
<1> QED BY <1>1, <1>6, <1>11, <1>12, ExchangeKeeps

(* While connect_blocking is at an act or at the credentials the caller     *)
(* knows nobody; the responder's stream is read up to there.                *)
LEMMA CallerStands ==
    ASSUME SessionInv, NEW s \in {"Dial", "Act", "Certify", "Verify"}, Stands(s)
    PROVE  /\ mode = "blocking" /\ remote_id["I"] = None
           /\ s \in {"Dial", "Act"} => Follows("R", <<>>)
           /\ s \in {"Certify", "Verify"} => Follows("R", Act(2)) /\ acts["I"] = 3
           /\ s = "Dial" => acts["I"] = 0
           /\ s = "Act" => acts["I"] = 1
           /\ s = "Certify" => ~sent["I"]
           /\ s = "Verify" => sent["I"]
           /\ "I" \in Ends /\ "R" \in Ends /\ Peer("I") = "R" /\ Peer("R") = "I"
<1>1. "I" \in Ends /\ "R" \in Ends /\ Peer("I") = "R" /\ Peer("R") = "I"
  BY DEF Ends, Peer
<1>2. Identity("I") /\ ByCaller /\ Whole
  BY <1>1, InvParts
<1>3. mode = "blocking" /\ state["I"] = s
  BY DEF Stands
<1> QED BY <1>1, <1>2, <1>3 DEF Identity, ByCaller, Whole

(* A step of the handshake of the caller, who knows nobody and has not sent *)
(* its credentials.                                                         *)
LEMMA CallerWrites ==
    ASSUME SessionInv, mode = "blocking", NEW s, Moves(s), NEW n \in 0..Ready("I"),
           NEW out \in Seq(Units), ReadWrite("I", n, out), Stream("I")' = Stream("I") \o out,
           remote_id["I"] = None, ~sent["I"], UNCHANGED <<chosen, closed>>,
           acts' \in [Ends -> 0..3], sent' \in [Ends -> BOOLEAN], acts'["I"] # 0,
           acts'["R"] = acts["R"], sent'["R"] = sent["R"], Ordered("I")',
           UNCHANGED <<remote_id, remote_addr, wrote, got>>, Stage(s)'
    PROVE  SessionInv'
<1>1. "I" \in Ends /\ "R" \in Ends /\ Peer("I") = "R" /\ Peer("R") = "I"
  BY DEF Ends, Peer
<1>2. Exchange("I", n, out)
  BY <1>1 DEF Exchange, Quiet
<1>3. remote_id["R"] = None
  BY <1>1, InvParts DEF Identity
<1>4. Gives("I")'
  BY <1>1, <1>3, InvParts, GivesNothing
<1>5. Gives("R")'
  BY <1>1, InvParts, GivesNothing
<1>6. SessionTyped' /\ Given("I")' /\ Addressed' /\ Known("I")'
  <2>1. SessionTyped /\ Given("I") /\ Addressed /\ target' = target
    BY <1>1, InvParts DEF chosen
  <2>2. SessionTyped'
    BY <2>1 DEF SessionTyped
  <2>3. Given("I")'
    BY <2>1 DEF Given, Data, Unit
  <2>4. Addressed'
    BY <2>1 DEF Addressed
  <2>5. Known("I")'
    BY DEF Known
  <2> QED BY <2>2, <2>3, <2>4, <2>5
<1>7. Shown("I")'
  BY <1>1, <1>4, <1>5, <1>6 DEF Shown
<1> QED BY <1>2, <1>7, CallerKeeps

(* Acts that do not change.                                                 *)
LEMMA ActsKept ==
    ASSUME SessionInv, UNCHANGED chosen
    PROVE  /\ Act(1)' = Act(1) /\ Act(2)' = Act(2) /\ Act(3)' = Act(3)
           /\ Act(1) \in Seq(Units) /\ Act(2) \in Seq(Units) /\ Act(3) \in Seq(Units)
           /\ Len(Act(2)) = 2
<1>1. target \in Keys
  BY DEF SessionInv, Shape, TypeOK
<1>2. Act(1)' = Act(1) /\ Act(2)' = Act(2) /\ Act(3)' = Act(3)
  BY DEF Act, Unit, chosen
<1> QED BY <1>1, <1>2, ActProps

(* What the caller has read of the responder's stream after it has read     *)
(* nothing, or n units.                                                     *)
LEMMA CallerReads ==
    ASSUME SessionInv, NEW n \in 0..Ready("I"), NEW out \in Seq(Units), ReadWrite("I", n, out),
           UNCHANGED <<chosen, wrote>>, acts'["R"] = acts["R"], sent'["R"] = sent["R"],
           Stream("I")' = Stream("I") \o out
    PROVE  /\ \A p \in Seq(Units) : \A q : Follows("R", p) /\ q = p \o SubSeq(wire["R"], 1, n) => Follows("R", q)'
           /\ \A p \in Seq(Units) : Follows("R", p) /\ n = 0 => Follows("R", p)'
<1>1. "I" \in Ends /\ "R" \in Ends /\ Peer("I") = "R"
  BY DEF Ends, Peer
<1>2. Shape /\ Rest("I") /\ Rest("R") /\ UNCHANGED chosen /\ Quiet("R")
  BY <1>1, InvParts DEF Quiet
<1>3. \A p \in Seq(Units) : \A q : Follows("R", p) /\ q = p \o SubSeq(wire["R"], 1, n) => Follows("R", q)'
  BY <1>1, <1>2, RestKept
<1>4. ASSUME NEW p \in Seq(Units), Follows("R", p), n = 0 PROVE Follows("R", p)'
  <2>1. SubSeq(wire["R"], 1, n) \in Seq(Units) /\ Len(SubSeq(wire["R"], 1, n)) = 0
    <3>1. wire["R"] \in Seq(Units) /\ Len(wire["R"]) \in Nat
      BY <1>1, <1>2, LenProperties DEF Shape
    <3>2. 0 \in 0..Len(wire["R"])
      BY <3>1
    <3> QED BY <3>1, <3>2, <1>4, Cut
  <2>2. SubSeq(wire["R"], 1, n) = <<>>
    BY <2>1, EmptySeq
  <2>3. p = p \o SubSeq(wire["R"], 1, n)
    BY <2>2, JoinNothing
  <2> QED BY <2>3, <1>3, <1>4, Zenon
<1> QED BY <1>3, <1>4

(* connect_begin keeps the invariant.                                       *)
LEMMA ConnectBeginKeeps ==
    ASSUME SessionInv, connect_begin
    PROVE  SessionInv'
<1>1. PICK out : out = Act(1)
  OBVIOUS
<1>2. /\ Stands("Dial") /\ acts' = [acts EXCEPT !["I"] = 1] /\ ReadWrite("I", 0, out) /\ Moves("Act")
      /\ UNCHANGED <<chosen, closed>> /\ UNCHANGED <<chosen, wrote>>
      /\ UNCHANGED <<remote_id, remote_addr, wrote, got>> /\ sent' = sent
  BY <1>1 DEF connect_begin
<1>3. /\ mode = "blocking" /\ remote_id["I"] = None /\ Follows("R", <<>>) /\ acts["I"] = 0
      /\ "I" \in Ends /\ "R" \in Ends /\ Peer("I") = "R"
  BY <1>2, CallerStands
<1>4. Shape /\ SessionTyped /\ Ordered("I") /\ UNCHANGED chosen
  BY <1>2, <1>3, InvParts
<1>5. /\ acts' \in [Ends -> 0..3] /\ acts'["I"] = 1 /\ acts'["R"] = acts["R"]
      /\ sent' \in [Ends -> BOOLEAN] /\ sent'["R"] = sent["R"] /\ sent'["I"] = sent["I"]
      /\ wrote'["I"] = wrote["I"] /\ acts'["I"] # 0
  BY <1>2, <1>3, <1>4 DEF SessionTyped
<1>6. out \in Seq(Units) /\ <<>> \in Seq(Units)
  BY <1>1, <1>4, ActsKept, EmptySeq
<1>7. Stream("I")' = Stream("I") \o out
  <2>1. acts["I"] # 3
    BY <1>3
  <2>2. ActsOut("I")' = ActsOut("I") \o out
    BY <2>1, <1>1, <1>3, <1>4, <1>5, ActsGrow
  <2> QED BY <2>1, <2>2, <1>3, <1>4, <1>5, <1>6, StreamActs
<1>8. 0 \in 0..Ready("I")
  BY <1>3, ReadyProps
<1>9. Follows("R", <<>>)'
  BY <1>2, <1>3, <1>5, <1>6, <1>7, <1>8, CallerReads
<1>10. ~sent["I"] /\ Ordered("I")'
  BY <1>3, <1>4, <1>5 DEF Ordered
<1>11. Stage("Act")'
  BY <1>2, <1>3, <1>5, <1>9 DEF Stage
<1> QED BY <1>2, <1>3, <1>5, <1>6, <1>7, <1>8, <1>10, <1>11, CallerWrites

(* connect_certify keeps the invariant.                                     *)
LEMMA ConnectCertifyKeeps ==
    ASSUME SessionInv, connect_certify
    PROVE  SessionInv'
<1>1. PICK out : out = Credentials(context["I"])
  OBVIOUS
<1>2. /\ Stands("Certify") /\ sent' = [sent EXCEPT !["I"] = TRUE] /\ ReadWrite("I", 0, out) /\ Moves("Verify")
      /\ UNCHANGED <<chosen, closed>> /\ UNCHANGED <<chosen, wrote>>
      /\ UNCHANGED <<remote_id, remote_addr, wrote, got>> /\ acts' = acts
  BY <1>1 DEF connect_certify
<1>3. /\ mode = "blocking" /\ remote_id["I"] = None /\ Follows("R", Act(2)) /\ acts["I"] = 3 /\ ~sent["I"]
      /\ "I" \in Ends /\ "R" \in Ends /\ Peer("I") = "R"
  BY <1>2, CallerStands
<1>4. Shape /\ SessionTyped /\ Ordered("I") /\ UNCHANGED chosen
  BY <1>2, <1>3, InvParts
<1>5. /\ sent' \in [Ends -> BOOLEAN] /\ sent'["I"] /\ sent'["R"] = sent["R"]
      /\ acts' \in [Ends -> 0..3] /\ acts'["R"] = acts["R"] /\ acts'["I"] = acts["I"]
      /\ wrote'["I"] = wrote["I"] /\ acts'["I"] # 0
  BY <1>2, <1>3, <1>4 DEF SessionTyped
<1>6. Stream("I")' = Stream("I") \o out /\ out \in Seq(Units)
  BY <1>1, <1>3, <1>4, <1>5, StreamCertified
<1>7. 0 \in 0..Ready("I")
  BY <1>3, ReadyProps
<1>8. PICK a \in Seq(Units) : a = Act(2) /\ a = Act(2)'
  BY <1>4, ActsKept
<1>9. Follows("R", Act(2)) = Follows("R", a) /\ Follows("R", Act(2))' = Follows("R", a)'
  BY <1>8 DEF Follows
<1>10. Follows("R", a)'
  <2>1. Follows("R", a)
    BY <1>3, <1>9
  <2> QED BY <2>1, <1>2, <1>5, <1>6, <1>7, CallerReads
<1>11. Ordered("I")'
  BY <1>3, <1>4, <1>5 DEF Ordered
<1>12. Stage("Verify")'
  BY <1>2, <1>3, <1>5, <1>9, <1>10 DEF Stage
<1> QED BY <1>2, <1>3, <1>5, <1>6, <1>7, <1>11, <1>12, CallerWrites

(* What the caller reads without effect on the session.                     *)
LEMMA CallerInVain ==
    ASSUME SessionInv, mode = "blocking", NEW s, Moves(s), NEW n \in 0..Ready("I"),
           ReadWrite("I", n, <<>>), remote_id["I"] = None, acts["I"] # 0,
           UNCHANGED <<chosen, session, closed, wrote, got>>, Stage(s)'
    PROVE  SessionInv'
<1>1. "I" \in Ends /\ "R" \in Ends /\ Peer("I") = "R" /\ Peer("R") = "I"
  BY DEF Ends, Peer
<1>2. /\ acts' = acts /\ sent' = sent /\ remote_id' = remote_id /\ remote_addr' = remote_addr
      /\ wrote' = wrote /\ got' = got /\ UNCHANGED <<chosen, closed, acts, sent, wrote>>
      /\ UNCHANGED <<chosen, session>>
  BY DEF session
<1>3. Exchange("I", n, <<>>) /\ Gives("I")' /\ Ordered("I")'
  BY <1>1, <1>2, OnlyReads
<1>4. Known("I")' /\ Addressed'
  BY <1>1, <1>2, SessionKept
<1>5. Gives("R")'
  BY <1>1, <1>2, InvParts, GivesNothing
<1>6. SessionTyped' /\ Given("I")'
  <2>1. SessionTyped /\ Given("I")
    BY <1>1, InvParts
  <2> QED BY <2>1, <1>2 DEF SessionTyped, Given, Data, Unit
<1>7. Shown("I")'
  BY <1>1, <1>2, <1>3, <1>4, <1>5, <1>6 DEF Shown
<1> QED BY <1>3, <1>7, CallerKeeps

(* connect_act keeps the invariant.                                         *)
LEMMA ConnectActKeeps ==
    ASSUME SessionInv, connect_act
    PROVE  SessionInv'
<1>1. PICK n, out : n = Wanted("I") /\ out = Answer("I")
  OBVIOUS
<1>2. /\ Stands("Act") /\ Ready("I") >= n /\ UNCHANGED <<chosen, closed>> /\ UNCHANGED <<chosen, wrote>>
      /\ UNCHANGED <<remote_id, remote_addr, wrote, got>> /\ sent' = sent /\ remote_id' = remote_id
  BY <1>1 DEF connect_act
<1>3. /\ mode = "blocking" /\ remote_id["I"] = None /\ Follows("R", <<>>) /\ acts["I"] = 1
      /\ "I" \in Ends /\ "R" \in Ends /\ Peer("I") = "R"
  BY <1>2, CallerStands
<1>4. Shape /\ SessionTyped /\ Ordered("I") /\ UNCHANGED chosen
  BY <1>2, <1>3, InvParts
<1>5. n \in 0..Ready("I") /\ n = 2
  BY <1>1, <1>2, <1>3, ReadyProps DEF Wanted
<1>6. CASE ~Accepts("I")
  <2>1. /\ ReadWrite("I", n, <<>>) /\ Moves("Terminated")
        /\ UNCHANGED <<chosen, session, closed, wrote, got>>
    BY <1>1, <1>2, <1>6 DEF connect_act, session
  <2>2. Stage("Terminated")'
    BY DEF Stage
  <2>3. acts["I"] # 0
    BY <1>3
  <2> QED BY <2>1, <2>2, <2>3, <1>3, <1>5, CallerInVain
<1>7. CASE Accepts("I")
  <2>1. acts' = [acts EXCEPT !["I"] = Advanced("I")] /\ ReadWrite("I", n, out) /\ Moves("Certify")
    BY <1>1, <1>7 DEF connect_act
  <2>2. Advanced("I") = 3
    BY <1>3 DEF Advanced
  <2>3. /\ acts' \in [Ends -> 0..3] /\ acts'["I"] = Advanced("I") /\ acts'["R"] = acts["R"]
        /\ sent' \in [Ends -> BOOLEAN] /\ sent'["R"] = sent["R"] /\ sent'["I"] = sent["I"]
        /\ wrote'["I"] = wrote["I"] /\ acts'["I"] # 0 /\ acts'["I"] = 3
    BY <2>1, <2>2, <1>2, <1>3, <1>4 DEF SessionTyped
  <2>4. acts["I"] # 3 /\ acts["I"] # 0
    BY <1>3
  <2>5. ActsOut("I")' = ActsOut("I") \o out /\ out \in Seq(Units)
    BY <2>3, <2>4, <1>1, <1>3, <1>4, ActsGrow
  <2>6. Stream("I")' = Stream("I") \o out
    BY <2>3, <2>4, <2>5, <1>3, <1>4, StreamActs
  <2>7. ~sent["I"] /\ Ordered("I")'
    BY <2>3, <2>4, <1>4 DEF Ordered
  <2>8. PICK a \in Seq(Units) : a = Act(2) /\ a = Act(2)'
    BY <1>4, ActsKept
  <2>9. SubSeq(wire["R"], 1, n) = a
    <3>1. 1 + 1 = 2
      OBVIOUS
    <3>2. Input("I") = Act(2)
      BY <3>1, <1>3, <1>7 DEF Accepts
    <3> QED BY <3>2, <2>8, <1>1, <1>3 DEF Input, Incoming
  <2>10. a = <<>> \o SubSeq(wire["R"], 1, n) /\ <<>> \in Seq(Units)
    BY <2>8, <2>9, JoinNothing
  <2>11. Follows("R", a)'
    BY <2>1, <2>3, <2>5, <2>6, <2>10, <1>2, <1>3, <1>5, CallerReads
  <2>12. Follows("R", Act(2))'
    BY <2>8, <2>11 DEF Follows
  <2>13. Stage("Certify")'
    BY <2>3, <2>7, <2>12, <1>2, <1>3 DEF Stage
  <2> QED BY <2>1, <2>3, <2>5, <2>6, <2>7, <2>13, <1>2, <1>3, <1>5, CallerWrites
<1> QED BY <1>6, <1>7

(* connect_fails keeps the invariant.                                       *)
LEMMA ConnectFailsKeeps ==
    ASSUME SessionInv, connect_fails
    PROVE  SessionInv'
<1>1. PICK n : n = Ready("I")
  OBVIOUS
<1>2. /\ Stands("Act") \/ Stands("Verify")
      /\ ReadWrite("I", n, <<>>) /\ Moves("Terminated") /\ UNCHANGED <<chosen, session, closed, wrote, got>>
  BY <1>1 DEF connect_fails
<1>3. mode = "blocking" /\ remote_id["I"] = None /\ acts["I"] \in {1, 3} /\ "I" \in Ends
  BY <1>2, CallerStands
<1>4. n \in 0..Ready("I") /\ acts["I"] # 0
  BY <1>1, <1>3, ReadyProps
<1>5. Stage("Terminated")'
  BY DEF Stage
<1> QED BY <1>2, <1>3, <1>4, <1>5, CallerInVain

(* What connect_blocking reads when as much as credentials has arrived is   *)
(* the responder's credentials, whole: nothing else can be there.           *)
LEMMA CallerCredentials ==
    ASSUME SessionInv, Stands("Verify"), Ready("I") >= Wanted("I")
    PROVE  /\ Wanted("I") = 3 /\ Input("I")[1].key = context["R"].cert
           /\ Signed(Input("I")) <=> context["R"].valid
<1>1. /\ Follows("R", Act(2)) /\ acts["I"] = 3 /\ "I" \in Ends /\ "R" \in Ends /\ Peer("I") = "R"
  BY CallerStands
<1>2. Shape /\ Ordered("R") /\ target \in Keys /\ SessionTyped
  BY <1>1, InvParts
<1>3. PICK a, c, d, r, w, b : /\ a = ActsOut("R") /\ c = CredentialsOut("R") /\ d = Data(0, wrote["R"])
                              /\ r = c \o d /\ w = wire["R"] /\ b = Act(2)
  OBVIOUS
<1>4. /\ a \in Seq(Units) /\ c \in Seq(Units) /\ d \in Seq(Units) /\ r \in Seq(Units)
      /\ Stream("R") = a \o r /\ wrote["R"] \in Nat
  BY <1>1, <1>2, <1>3, StreamParts
<1>5. w \in Seq(Units) /\ b \in Seq(Units) /\ Len(b) = 2
  BY <1>1, <1>2, <1>3, ActProps DEF Shape
<1>6. a \o r = b \o w
  BY <1>1, <1>3, <1>4 DEF Follows
<1>7. Wanted("I") = 3 /\ arrived["R"] \in 0..Len(w) /\ Len(w) \in Nat /\ Len(w) >= 3
  <2>1. Wanted("I") = 3
    BY <1>1 DEF Wanted
  <2>2. arrived["R"] \in 0..Len(w) /\ Len(w) \in Nat
    BY <1>1, <1>3, NetworkTypes
  <2>3. arrived["R"] >= 3
    BY <2>1, <1>1 DEF Ready
  <2> QED BY <2>1, <2>2, <2>3
<1>8. sent["R"]
  <2> SUFFICES ASSUME ~sent["R"] PROVE FALSE
    OBVIOUS
  <2>1. c = <<>> /\ d = <<>>
    <3>1. wrote["R"] = 0
      BY <1>2, <1>4 DEF Ordered
    <3>2. d = <<>>
      BY <3>1, <1>3, NoData
    <3> QED BY <3>2, <1>3 DEF CredentialsOut
  <2>2. r = <<>>
    <3>1. <<>> \o <<>> = <<>>
      BY <1>4, <2>1, JoinNothing
    <3> QED BY <3>1, <2>1, <1>3
  <2>3. a = b \o w
    BY <2>2, <1>4, <1>6, JoinNothing
  <2>4. Len(a) # 0 /\ Len(a) # 2
    <3>1. Len(b \o w) = Len(b) + Len(w)
      BY <1>5, ConcatProperties
    <3> QED BY <3>1, <2>3, <1>5, <1>7
  <2>5. a = <<>> \/ a = b
    BY <1>3 DEF ActsOut
  <2>6. Len(a) = 0 \/ Len(a) = 2
    BY <2>5, <1>5
  <2> QED BY <2>4, <2>6
<1>9. a = b
  <2>1. acts["R"] = 3
    BY <1>2, <1>8 DEF Ordered
  <2> QED BY <2>1, <1>3 DEF ActsOut
<1>10. r = w
  <2>1. Len(a) = Len(b)
    BY <1>9
  <2> QED BY <2>1, <1>4, <1>5, <1>6, RestOfEqual, Zenon
<1>11. wire["R"] = Credentials(context["R"]) \o Data(0, wrote["R"])
  BY <1>3, <1>8, <1>10 DEF CredentialsOut
<1>12. /\ SubSeq(wire["R"], 1, 3)[1].key = context["R"].cert
       /\ Signed(SubSeq(wire["R"], 1, 3)) <=> context["R"].valid
  BY <1>1, <1>2, <1>11, CredentialsRead
<1>13. Input("I") = SubSeq(wire["R"], 1, 3)
  BY <1>1, <1>7 DEF Input, Incoming
<1> QED BY <1>7, <1>12, <1>13

(* connect_verify keeps the invariant: it panics only at credentials that   *)
(* are not valid or not those of the key dialled.                           *)
LEMMA ConnectVerifyKeeps ==
    ASSUME SessionInv, connect_verify
    PROVE  SessionInv'
<1>1. PICK id : id = Input("I")[1].key
  OBVIOUS
<1>2. /\ Stands("Verify") /\ Ready("I") >= Wanted("I") /\ ReadWrite("I", Wanted("I"), <<>>)
      /\ UNCHANGED <<chosen, closed, acts, sent, wrote>> /\ remote_addr' = remote_addr /\ got' = got
      /\ acts' = acts /\ sent' = sent /\ wrote' = wrote /\ context' = context /\ target' = target
  BY DEF connect_verify, chosen
<1>3. /\ mode = "blocking" /\ remote_id["I"] = None /\ acts["I"] = 3 /\ sent["I"]
      /\ "I" \in Ends /\ "R" \in Ends /\ Peer("I") = "R" /\ Peer("R") = "I"
  BY <1>2, CallerStands
<1>4. Wanted("I") = 3 /\ id = context["R"].cert /\ (Signed(Input("I")) <=> context["R"].valid)
  BY <1>1, <1>2, CallerCredentials
<1>5. ReadWrite("I", 3, <<>>) /\ 3 \in 0..Ready("I") /\ acts["I"] # 0
  BY <1>2, <1>3, <1>4, ReadyProps
<1>6. CASE ~Signed(Input("I"))
  <2>1. Moves("Panic") /\ remote_id' = remote_id
    BY <1>6 DEF connect_verify
  <2>2. UNCHANGED <<chosen, session, closed, wrote, got>>
    BY <2>1, <1>2 DEF session
  <2>3. Stage("Panic")'
    BY <1>2, <1>4, <1>6 DEF Stage
  <2> QED BY <2>1, <2>2, <2>3, <1>3, <1>5, CallerInVain
<1>7. CASE Signed(Input("I"))
  <2>1. PICK s : s = IF id = target THEN "Active" ELSE "Panic"
    OBVIOUS
  <2>2. remote_id' = [remote_id EXCEPT !["I"] = id] /\ Moves(s)
    BY <2>1, <1>1, <1>7 DEF connect_verify
  <2>3. /\ sent["R"] /\ id \in Keys /\ context["R"].valid
        /\ SubSeq(wire["R"], 3 + 1, Len(wire["R"])) = Data(0, wrote["R"])
    BY <1>2, <1>3, <1>4, <1>7, PeerIdentified
  <2>4. SessionTyped /\ Gives("R") /\ Given("I") /\ Addressed /\ id # None
    BY <2>3, <1>3, InvParts, NoiseSessionAssumption
  <2>5. remote_id'["I"] = id /\ remote_id'["R"] = remote_id["R"] /\ remote_id' \in [Ends -> Keys \cup {None}]
    BY <2>2, <2>3, <2>4, <1>3 DEF SessionTyped
  <2>6. /\ Exchange("I", 3, <<>>) /\ Gives("I")' /\ Ordered("I")'
        /\ wire'["R"] = SubSeq(wire["R"], 3 + 1, Len(wire["R"]))
    <3>1. got'[Peer("I")] = got[Peer("I")] /\ remote_id'[Peer("I")] = remote_id[Peer("I")]
      BY <2>5, <1>2, <1>3
    <3> QED BY <3>1, <1>2, <1>3, <1>5, OnlyReads
  <2>7. Known("I")'
    BY <2>3, <2>5, <1>2, <1>3, <1>4 DEF Known
  <2>8. Addressed'
    BY <2>4, <2>5, <1>2 DEF Addressed
  <2>9. Gives("R")'
    <3>1. got["I"] = <<>> /\ Len(<<>>) = 0
      BY <2>4, <1>3 DEF Gives
    <3>2. Len(got["I"])' = 0 /\ got'["I"] = <<>>
      BY <3>1, <1>2
    <3>3. Data(Len(got["I"]), wrote["R"])' = Data(0, wrote["R"])
      BY <3>2, <1>2 DEF Data, Unit
    <3>4. wire'["R"] = Data(0, wrote["R"])
      BY <2>3, <2>6
    <3>5. wrote["R"] \in Nat
      BY <2>4, <1>3, NoiseSessionAssumption DEF SessionTyped
    <3>6. 0 <= wrote'["R"] /\ remote_id'["I"] # None
      BY <3>5, <2>4, <2>5, <1>2
    <3> QED BY <3>2, <3>3, <3>4, <3>6, <1>3 DEF Gives
  <2>10. SessionTyped' /\ Given("I")'
    BY <2>4, <2>5, <1>2 DEF SessionTyped, Given, Data, Unit
  <2>11. Shown("I")'
    BY <2>6, <2>7, <2>8, <2>9, <2>10, <1>2, <1>3 DEF Shown
  <2>12. Stage(s)'
    BY <2>1, <2>4, <2>5, <1>2, <1>3, <1>4 DEF Stage
  <2> QED BY <2>2, <2>6, <2>11, <2>12, <1>3, CallerKeeps
<1> QED BY <1>6, <1>7

(* An active caller knows the peer it has dialled, and a step that does not *)
(* change its driver leaves it where it stands.                             *)
LEMMA CallerActive ==
    ASSUME SessionInv, Stands("Active")
    PROVE  /\ mode = "blocking" /\ acts["I"] = 3 /\ sent["I"]
           /\ remote_id["I"] # None /\ remote_id["I"] = target
           /\ "I" \in Ends /\ "R" \in Ends /\ Peer("I") = "R" /\ Peer("R") = "I"
           /\ UNCHANGED driver => Moves("Active")
<1>1. "I" \in Ends /\ "R" \in Ends /\ Peer("I") = "R" /\ Peer("R") = "I"
  BY DEF Ends, Peer
<1>2. Identity("I") /\ ByCaller /\ DriverTyped
  BY <1>1, InvParts
<1>3. mode = "blocking" /\ state["I"] = "Active"
  BY DEF Stands
<1>4. UNCHANGED driver => Moves("Active")
  BY <1>1, <1>2, <1>3 DEF driver, Moves, DriverTyped
<1> QED BY <1>1, <1>2, <1>3, <1>4 DEF Identity, ByCaller

(* exec keeps the invariant.                                                *)
LEMMA ExecKeeps ==
    ASSUME SessionInv, exec
    PROVE  SessionInv'
<1>1. PICK out : out = Data(0, MaxData)
  OBVIOUS
<1>2. /\ Stands("Active") /\ wrote["I"] = 0 /\ wrote' = [wrote EXCEPT !["I"] = MaxData]
      /\ ReadWrite("I", 0, out) /\ UNCHANGED driver /\ UNCHANGED <<chosen, session>>
      /\ UNCHANGED <<chosen, closed>> /\ got' = got
      /\ acts' = acts /\ sent' = sent /\ remote_id' = remote_id /\ target' = target
  BY <1>1 DEF exec, session, chosen
<1>3. /\ mode = "blocking" /\ acts["I"] = 3 /\ sent["I"]
      /\ remote_id["I"] # None /\ remote_id["I"] = target /\ Moves("Active")
      /\ "I" \in Ends /\ "R" \in Ends /\ Peer("I") = "R" /\ Peer("R") = "I"
  BY <1>2, CallerActive
<1>4. Shape /\ SessionTyped /\ Ordered("I") /\ Given("I") /\ Gives("R") /\ MaxData \in Nat
  BY <1>3, InvParts, NoiseSessionAssumption
<1>5. /\ wrote'["I"] = MaxData /\ wrote'["R"] = wrote["R"] /\ wrote' \in [Ends -> 0..MaxData]
      /\ wrote["I"] <= MaxData
  BY <1>2, <1>3, <1>4 DEF SessionTyped
<1>6. Stream("I")' = Stream("I") \o out /\ out \in Seq(Units)
  <2>1. UNCHANGED chosen /\ acts'["I"] = acts["I"] /\ sent'["I"] = sent["I"] /\ out = Data(wrote["I"], MaxData)
    BY <1>1, <1>2
  <2> QED BY <2>1, <1>3, <1>4, <1>5, StreamData
<1>7. 0 \in 0..Ready("I")
  BY <1>3, ReadyProps
<1>8. Exchange("I", 0, out)
  BY <1>2, <1>3, <1>5, <1>6, <1>7 DEF Exchange, Quiet
<1>9. wire'["I"] = wire["I"] \o out /\ wire'["R"] = SubSeq(wire["R"], 0 + 1, Len(wire["R"]))
  BY <1>2, <1>3, <1>4, <1>6, <1>7, WiresAfter
<1>10. Gives("I")'
  <2>1. wire'["I"] = wire["I"] \o Data(wrote["I"], MaxData)
    BY <1>1, <1>2, <1>9
  <2>2. remote_id'[Peer("I")] = remote_id[Peer("I")] /\ got'[Peer("I")] = got[Peer("I")]
    BY <1>2
  <2> QED BY <2>1, <2>2, <1>3, <1>4, <1>5, GivesMore
<1>11. Gives("R")'
  <2>1. wire'["R"] = wire["R"]
    BY <1>3, <1>4, <1>9, NothingOf
  <2> QED BY <2>1, <1>2, <1>3, <1>4, <1>5, GivesSame
<1>12. Known("I")' /\ Addressed'
  BY <1>2, <1>3, SessionKept
<1>13. SessionTyped' /\ Given("I")' /\ Ordered("I")'
  <2>1. SessionTyped'
    BY <1>2, <1>4, <1>5 DEF SessionTyped, session
  <2>2. Given("I")'
    BY <1>2, <1>4 DEF Given, Data, Unit
  <2>3. Ordered("I")'
    BY <1>2, <1>3, <1>4 DEF Ordered
  <2> QED BY <2>1, <2>2, <2>3
<1>14. Shown("I")'
  BY <1>2, <1>3, <1>10, <1>11, <1>12, <1>13 DEF Shown
<1>15. Stage("Active")'
  BY <1>2, <1>3 DEF Stage
<1> QED BY <1>3, <1>8, <1>14, <1>15, CallerKeeps

(* recv keeps the invariant.                                                *)
LEMMA RecvKeeps ==
    ASSUME SessionInv, NEW n \in 1..MaxData, recv(n)
    PROVE  SessionInv'
<1>1. PICK y : y = got["I"] \o SubSeq(Incoming("I"), 1, n)
  OBVIOUS
<1>2. /\ Stands("Active") /\ n <= Ready("I") /\ got' = [got EXCEPT !["I"] = y]
      /\ ReadWrite("I", n, <<>>) /\ UNCHANGED driver /\ UNCHANGED <<chosen, session>>
      /\ UNCHANGED <<chosen, closed, acts, sent, wrote>> /\ remote_id' = remote_id
      /\ acts' = acts /\ sent' = sent /\ wrote' = wrote /\ target' = target
  BY <1>1 DEF recv, session, chosen
<1>3. /\ mode = "blocking" /\ acts["I"] = 3 /\ sent["I"]
      /\ remote_id["I"] # None /\ remote_id["I"] = target /\ Moves("Active")
      /\ "I" \in Ends /\ "R" \in Ends /\ Peer("I") = "R" /\ Peer("R") = "I"
  BY <1>2, CallerActive
<1>4. SessionTyped
  BY <1>3, InvParts
<1>5. n \in 0..Ready("I")
  BY <1>2, <1>3, ReadyProps, NoiseSessionAssumption
<1>6. got'["I"] = y /\ got'["R"] = got["R"] /\ got \in [Ends -> Seq(Units)]
  BY <1>2, <1>3, <1>4 DEF SessionTyped
<1>7. /\ Exchange("I", n, <<>>) /\ Gives("I")' /\ Ordered("I")'
      /\ wire'["R"] = SubSeq(wire["R"], n + 1, Len(wire["R"])) /\ n \in 0..Len(wire["R"])
  <2>1. got'[Peer("I")] = got[Peer("I")] /\ remote_id'[Peer("I")] = remote_id[Peer("I")]
    BY <1>2, <1>3, <1>6
  <2> QED BY <2>1, <1>2, <1>3, <1>5, OnlyReads
<1>8. Gives("R")' /\ Given("I")' /\ got'["I"] \in Seq(Units)
  <2>1. got'["I"] = got["I"] \o SubSeq(wire["R"], 1, n)
    BY <1>1, <1>3, <1>6 DEF Incoming
  <2> QED BY <2>1, <1>2, <1>3, <1>7, GivesRead
<1>9. SessionTyped'
  <2>1. got' \in [Ends -> Seq(Units)]
    BY <1>2, <1>6, <1>8
  <2> QED BY <2>1, <1>2, <1>4 DEF SessionTyped, session
<1>10. Known("I")' /\ Addressed'
  BY <1>2, <1>3, SessionKept
<1>11. Shown("I")'
  BY <1>2, <1>3, <1>7, <1>8, <1>9, <1>10 DEF Shown
<1>12. Stage("Active")'
  BY <1>2, <1>3 DEF Stage
<1> QED BY <1>3, <1>7, <1>11, <1>12, CallerKeeps

(* recv_end keeps the invariant.                                            *)
LEMMA RecvEndKeeps ==
    ASSUME SessionInv, recv_end
    PROVE  SessionInv'
<1>1. /\ Stands("Active") /\ Moves("Terminated") /\ UNCHANGED <<wire, arrived>>
      /\ UNCHANGED <<chosen, session>> /\ UNCHANGED <<chosen, closed, acts, sent, wrote>>
      /\ acts' = acts /\ sent' = sent /\ remote_id' = remote_id /\ remote_addr' = remote_addr
      /\ wrote' = wrote /\ got' = got /\ wire' = wire
  BY DEF recv_end, session
<1>2. /\ mode = "blocking" /\ acts["I"] = 3
      /\ "I" \in Ends /\ "R" \in Ends /\ Peer("I") = "R" /\ Peer("R") = "I"
  BY <1>1, CallerActive
<1>3. Shape /\ SessionTyped /\ Given("I") /\ Gives("R")
  BY <1>2, InvParts
<1>4. 0 \in 0..Ready("I") /\ ReadWrite("I", 0, <<>>)
  BY <1>1, <1>2, <1>3, NothingMoved
<1>5. Exchange("I", 0, <<>>) /\ Gives("I")' /\ Ordered("I")'
  BY <1>1, <1>2, <1>4, OnlyReads
<1>6. Known("I")' /\ Addressed'
  BY <1>1, <1>2, SessionKept
<1>7. Gives("R")'
  BY <1>1, <1>2, <1>3, GivesSame
<1>8. SessionTyped' /\ Given("I")'
  BY <1>1, <1>3 DEF SessionTyped, Given, Data, Unit
<1>9. Shown("I")'
  BY <1>1, <1>2, <1>5, <1>6, <1>7, <1>8 DEF Shown
<1>10. Stage("Terminated")'
  BY DEF Stage
<1> QED BY <1>1, <1>2, <1>5, <1>9, <1>10, CallerKeeps

-----------------------------------------------------------------------------
(* The initial states.                                                      *)
LEMMA InitHolds == Init => SessionInv
<1> SUFFICES ASSUME Init PROVE SessionInv
  OBVIOUS
<1>1. "I" \in Ends /\ "R" \in Ends /\ \A x \in Ends : (x = "I" \/ x = "R") /\ Peer(x) \in Ends
  BY DEF Ends, Peer
<1>2. /\ mode \in Modes /\ fragmented \in Fragmentation /\ target \in Keys /\ context \in [Ends -> Contexts]
      /\ mode \in {"blocking", "nonblocking"} /\ target # None /\ MaxData \in Nat
  BY NoiseSessionAssumption DEF Init
<1>3. /\ \A x \in Ends : /\ ~write_intent[x] /\ batch[x] = <<>> /\ acts[x] = 0 /\ ~sent[x]
                         /\ remote_id[x] = None /\ wire[x] = <<>> /\ arrived[x] = 0
                         /\ closed[x] = FALSE /\ wrote[x] = 0 /\ got[x] = <<>>
      /\ state["R"] = "Handshake" /\ remote_addr["R"] = None /\ remote_addr["I"] = target
      /\ state["I"] = IF mode = "nonblocking" THEN "Init" ELSE "Dial"
  <2>1. \A x \in Ends : /\ ~write_intent[x] /\ batch[x] = <<>> /\ acts[x] = 0 /\ ~sent[x]
                        /\ remote_id[x] = None /\ wire[x] = <<>> /\ arrived[x] = 0
                        /\ closed[x] = FALSE /\ wrote[x] = 0 /\ got[x] = <<>>
    BY DEF Init
  <2>2. Start("R").state = "Handshake" /\ Start("R").remote_addr = None
    BY DEF Start, accept
  <2>3. /\ Start("I").state = IF mode = "nonblocking" THEN "Init" ELSE "Dial"
        /\ Start("I").remote_addr = target
    <3>1. CASE mode = "nonblocking"
      BY <3>1 DEF Start, connect_nonblocking
    <3>2. CASE mode = "blocking"
      BY <3>2 DEF Start, connect_blocking
    <3> QED BY <3>1, <3>2, <1>2
  <2>4. \A x \in Ends : state[x] = Start(x).state /\ remote_addr[x] = Start(x).remote_addr
    BY DEF Init
  <2> QED BY <2>1, <2>2, <2>3, <2>4, <1>1
<1>4. /\ state \in [Ends -> {"Init", "Handshake", "Active", "Terminated",
                             "Dial", "Act", "Certify", "Verify", "Panic"}]
      /\ remote_addr \in [Ends -> Addresses]
  <2>1. state = [x \in Ends |-> state[x]] /\ remote_addr = [x \in Ends |-> remote_addr[x]]
    BY DEF Init
  <2>2. \A x \in Ends : /\ state[x] \in {"Init", "Handshake", "Dial"} /\ remote_addr[x] \in Addresses
    BY <1>1, <1>2, <1>3 DEF Addresses
  <2> QED BY <2>1, <2>2
<1>5. /\ wire \in [Ends -> Seq(Units)] /\ got \in [Ends -> Seq(Units)] /\ arrived \in [Ends -> Nat]
      /\ <<>> \in Seq(Units) /\ Len(<<>>) = 0
  <2>1. <<>> \in Seq(Units) /\ Len(<<>>) = 0
    BY EmptySeq
  <2> QED BY <2>1 DEF Init
<1>6. TypeOK
  <2>1. \A x \in Ends : /\ wire[x] \in Seq(Units) /\ got[x] \in Seq(Units)
                        /\ arrived[x] \in 0..Len(wire[x])
    BY <1>3, <1>5
  <2>2. batch \in [Ends -> {<<>>, <<"Read">>, <<"Write">>, <<"Write", "Read">>}]
    BY DEF Init
  <2>3. /\ write_intent \in [Ends -> BOOLEAN] /\ acts \in [Ends -> 0..3] /\ sent \in [Ends -> BOOLEAN]
        /\ remote_id \in [Ends -> Keys \cup {None}] /\ closed \in [Ends -> BOOLEAN]
        /\ wrote \in [Ends -> 0..MaxData]
    BY <1>2 DEF Init
  <2> QED BY <2>1, <2>2, <2>3, <1>2, <1>4 DEF TypeOK
<1>7. Shape
  BY <1>5, <1>6 DEF Shape
<1>8. Data(0, 0) = <<>>
  BY NoData
<1>9. ASSUME NEW x \in Ends PROVE Follows(x, <<>>)
  <2>1. ActsOut(x) = <<>> /\ CredentialsOut(x) = <<>> /\ Data(0, wrote[x]) = <<>>
    BY <1>3, <1>8 DEF ActsOut, CredentialsOut
  <2>2. <<>> \o <<>> = <<>>
    BY <1>5, JoinNothing
  <2> QED BY <2>1, <2>2, <1>3 DEF Follows, Stream
<1>10. ASSUME NEW x \in Ends PROVE EndInv(x)
  <2>1. Ordered(x)
    BY <1>3 DEF Ordered
  <2>2. ByReactor(x)
    BY <1>1, <1>2, <1>3 DEF ByReactor, InReactor
  <2>3. Identity(x)
    BY <1>1, <1>3 DEF Identity
  <2>4. Rest(x)
    BY <1>5, <1>9 DEF Rest
  <2>5. Gives(x)
    BY <1>1, <1>3 DEF Gives
  <2>6. Given(x)
    BY <1>3, <1>5, <1>8 DEF Given
  <2> QED BY <2>1, <2>2, <2>3, <2>4, <2>5, <2>6 DEF EndInv
<1>11. ByCaller
  BY <1>1, <1>2, <1>3 DEF ByCaller
<1>12. Addressed
  BY <1>1, <1>3 DEF Addressed
<1>13. Whole /\ PanicOnlyOnWrongPeer
  BY <1>1, <1>2, <1>3, <1>9 DEF Whole, PanicOnlyOnWrongPeer
<1> QED BY <1>7, <1>10, <1>11, <1>12, <1>13 DEF SessionInv

(* A step that changes nothing.                                             *)
LEMMA StutterKeeps ==
    ASSUME SessionInv, UNCHANGED vars
    PROVE  SessionInv'
<1>1. /\ UNCHANGED <<chosen, session, state, wire, wrote, got>> /\ UNCHANGED <<chosen, driver, acts, sent>>
      /\ arrived' = arrived /\ closed' = closed
  BY DEF vars, chosen, session, driver
<1>2. /\ arrived \in [Ends -> Nat] /\ closed \in [Ends -> BOOLEAN]
      /\ \A x \in Ends : arrived[x] \in 0..Len(wire[x])
  BY NetworkTypes
<1>3. DriverTyped' /\ ByCaller' /\ \A x \in Ends : ByReactor(x)'
  BY <1>1, DriverKept
<1> QED BY <1>1, <1>2, <1>3, StillKeeps

(* Every step keeps the invariant.                                          *)
LEMMA NextKeeps ==
    ASSUME SessionInv, [Next]_vars
    PROVE  SessionInv'
<1>1. CASE client
  <2>1. CASE connect_begin
    BY <2>1, ConnectBeginKeeps
  <2>2. CASE connect_act
    BY <2>2, ConnectActKeeps
  <2>3. CASE connect_certify
    BY <2>3, ConnectCertifyKeeps
  <2>4. CASE connect_verify
    BY <2>4, ConnectVerifyKeeps
  <2>5. CASE connect_fails
    BY <2>5, ConnectFailsKeeps
  <2>6. CASE exec
    BY <2>6, ExecKeeps
  <2>7. CASE \E n \in 1..MaxData : recv(n)
    BY <2>7, RecvKeeps
  <2>8. CASE recv_end
    BY <2>8, RecvEndKeeps
  <2> QED BY <1>1, <2>1, <2>2, <2>3, <2>4, <2>5, <2>6, <2>7, <2>8 DEF client
<1>2. ASSUME NEW e \in Ends, handle_io(e) PROVE SessionInv'
  <2>1. CASE write_begin(e)
    BY <2>1, WriteBeginKeeps
  <2>2. CASE write_certify(e)
    BY <2>2, WriteCertifyKeeps
  <2>3. CASE write_nothing(e)
    BY <2>3, WriteNothingKeeps
  <2>4. CASE read_short(e)
    BY <2>4, ReadShortKeeps
  <2>5. CASE read_act(e)
    BY <2>5, ReadActKeeps
  <2>6. CASE read_credentials(e)
    BY <2>6, ReadCredentialsKeeps
  <2>7. CASE read_credentials_invalid(e)
    BY <2>7, ReadInvalidKeeps
  <2>8. CASE \E n \in 1..MaxData : read_data(e, n)
    BY <2>8, ReadDataKeeps
  <2>9. CASE read_end(e)
    BY <2>9, ReadEndKeeps
  <2> QED BY <1>2, <2>1, <2>2, <2>3, <2>4, <2>5, <2>6, <2>7, <2>8, <2>9 DEF handle_io
<1>3. ASSUME NEW e \in Ends, poll(e) \/ handle_io(e) \/ write_data(e) \/ disconnect(e) \/ deliver(e)
      PROVE  SessionInv'
  BY <1>2, <1>3, PollKeeps, WriteDataKeeps, DisconnectKeeps, DeliverKeeps
<1>4. CASE UNCHANGED vars
  BY <1>4, StutterKeeps
<1> QED BY <1>1, <1>3, <1>4 DEF Next

-----------------------------------------------------------------------------
(* The invariant of the two ends holds in every behaviour.                  *)
THEOREM SessionInvariant == Spec => []SessionInv
<1>1. SessionInv /\ [Next]_vars => SessionInv'
  BY NextKeeps
<1> QED BY <1>1, InitHolds, PTL DEF Spec

(* Types: the variables of both ends, of the wires and of the histories     *)
(* stay in their sets.                                                      *)
THEOREM SessionTypes == Spec => []TypeOK
<1>1. SessionInv => TypeOK
  BY DEF SessionInv, Shape
<1> QED BY <1>1, SessionInvariant, PTL

(* What an end is given as data is what its peer has written as data, from  *)
(* the beginning, whatever pieces the stream arrives in and though a short  *)
(* read_exact throws its piece away: NoiseXk::read never takes an act or a  *)
(* part of the credentials for data.                                        *)
THEOREM OnlyDataIsData == Spec => []DataUnaltered
<1>1. ASSUME SessionInv PROVE DataUnaltered
  <2> SUFFICES ASSUME NEW e \in Ends
               PROVE  Len(got[e]) <= wrote[Peer(e)] /\ got[e] = Data(0, Len(got[e]))
    BY DEF DataUnaltered
  <2>1. PICK p \in Ends : p = Peer(e) /\ Peer(p) = e
    BY TwoEnds
  <2>2. Gives(p) /\ Given(e) /\ SessionTyped
    BY <1>1, InvParts
  <2>3. wrote[p] \in Nat /\ Len(<<>>) = 0
    BY <2>2, NoiseSessionAssumption DEF SessionTyped
  <2>4. Len(got[e]) <= wrote[p]
    BY <2>1, <2>2, <2>3 DEF Gives
  <2> QED BY <2>1, <2>2, <2>4 DEF Given
<1>2. SessionInv => DataUnaltered
  BY <1>1
<1> QED BY <1>2, SessionInvariant, PTL

(* A session that handle_io or connect_blocking has made active has the     *)
(* identity of its peer: the key the other end certifies, validly, and for  *)
(* the end that connected the key it has dialled.                           *)
THEOREM PeersIdentified == Spec => []IdentityAgreed
<1>1. ASSUME SessionInv PROVE IdentityAgreed
  <2> SUFFICES ASSUME NEW e \in Ends, state[e] = "Active"
               PROVE  /\ remote_addr[e] = context[Peer(e)].cert /\ context[Peer(e)].valid
                      /\ e = "I" => context["R"].cert = target
    BY DEF IdentityAgreed
  <2>1. Identity(e) /\ Addressed
    BY <1>1, InvParts
  <2>2. /\ remote_id[e] = context[Peer(e)].cert /\ context[Peer(e)].valid
        /\ (e = "I" => remote_id[e] = target)
    BY <2>1 DEF Identity
  <2>3. CASE e = "I"
    BY <2>1, <2>2, <2>3, TwoEnds DEF Addressed
  <2>4. CASE e = "R"
    BY <2>1, <2>2, <2>4 DEF Addressed
  <2> QED BY <2>3, <2>4 DEF Ends
<1>2. SessionInv => IdentityAgreed
  BY <1>1
<1> QED BY <1>2, SessionInvariant, PTL

(* connect_blocking panics only if the other end's credentials are not      *)
(* valid or not those of the key dialled, in whatever pieces they arrive.   *)
THEOREM PanicsOnlyAtWrongPeers == Spec => []PanicOnlyOnWrongPeer
<1>1. SessionInv => PanicOnlyOnWrongPeer
  BY DEF SessionInv
<1> QED BY <1>1, SessionInvariant, PTL
================================================================================
