------------------------------ MODULE MCTimeouts ------------------------------
(* Instances of Timeouts for TLC: the threshold 0 allows equal times, which  *)
(* an unstable sort may arrange in any order.                                *)
EXTENDS Timeouts

MCThresholds == {0, 2}
=============================================================================
