---------------------------- MODULE MCNetResource ----------------------------
(* Instances of NetResource for TLC.                                         *)
EXTENDS NetResource

Origin(k, s) == [kind |-> k, start |-> s]

(* Transports that enter the reactor with a session that is still to be      *)
(* established, or already active.                                           *)
Consistent == {Origin("noise", "accepted"), Origin("noise", "connecting"),
               Origin("plain", "connecting"), Origin("noise", "session")}

Connecting == {Origin("plain", "connecting")}

AnyFlush  == {"ok", "block", "error"}
OnlyOk    == {"ok"}
=============================================================================
