------------------------------- MODULE MCServer -------------------------------
(* Instances of Server for TLC.                                              *)
EXTENDS Server

MCFds == 1..2
=============================================================================
