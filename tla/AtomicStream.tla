----------------------------- MODULE AtomicStream -----------------------------
(***************************************************************************)
(* What trait WriteAtomic promises (io-reactor/src/resource.rs): a message  *)
(* is taken in full or, on an error, not at all, and what leaves for the    *)
(* peer are the messages taken, in the order they were taken.               *)
(***************************************************************************)
EXTENDS Naturals, Sequences

CONSTANT Messages   \* the byte strings a service may ask to write

VARIABLES
    accepted,   \* the bytes of all messages taken, in order
    delivered   \* the bytes handed to the connection

streamVars == <<accepted, delivered>>

PrefixOf(s, t) == Len(s) <= Len(t) /\ s = SubSeq(t, 1, Len(s))

Init == accepted = <<>> /\ delivered = <<>>

(* One write takes at most one message; bytes may leave in the same step.   *)
Write ==
    /\ \/ accepted' = accepted
       \/ \E m \in Messages : accepted' = accepted \o m
    /\ PrefixOf(delivered, delivered')
    /\ PrefixOf(delivered', accepted')

Spec == Init /\ [][Write]_streamVars
=============================================================================
