--------------------------- MODULE MCNoiseSession ---------------------------
(* Two keys: ends that have the key they certify, one whose credentials     *)
(* are for another key, and one with a signature that is not valid.         *)
EXTENDS NoiseSession

CONSTANTS k1, k2

MCKeys == {k1, k2}
MCContexts == { [key |-> k1, cert |-> k1, valid |-> TRUE],
                [key |-> k2, cert |-> k2, valid |-> TRUE],
                [key |-> k1, cert |-> k2, valid |-> TRUE],
                [key |-> k1, cert |-> k1, valid |-> FALSE] }
=============================================================================
