----------------------------- MODULE MCSignalStop -----------------------------
(* Instances of SignalStop for TLC. *)
EXTENDS SignalStop

CONSTANTS t1, t2
=============================================================================
