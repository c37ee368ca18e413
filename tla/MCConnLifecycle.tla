--------------------------- MODULE MCConnLifecycle ---------------------------
(* Instances of ConnLifecycle for TLC. *)
EXTENDS ConnLifecycleProps, TLC

CONSTANTS t1, t2, f1, f2, f3

WorkerSymmetry == Permutations({t1, t2})
=============================================================================
