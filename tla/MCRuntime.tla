------------------------------ MODULE MCRuntime ------------------------------
(* Instances of Runtime for TLC.                                             *)
EXTENDS Runtime

CONSTANTS a1

MCFds   == 1..2
MCAddrs == {a1}
OnlyErr == {"err"}
WithAndWithout == BOOLEAN
HupAndErr == {"hup", "err"}
=============================================================================
