--------------------------- MODULE MCReactorControl ---------------------------
(* Instances of ReactorControl for TLC: two controller threads, one of them  *)
(* the thread that launched the reactor.                                     *)
EXTENDS ReactorControl

CONSTANTS c1, c2, r1, r2

MCControllers == {c1, c2}
MCResources   == {r1, r2}
MCPreset      == <<r1>>
=============================================================================
