----------------------------- MODULE MCTaskQueue -----------------------------
(* Instances of TaskQueue for TLC. *)
EXTENDS TaskQueueProps, TLC

CONSTANTS w1, w2, w3, w4, w5, w6, e1, e2, e3

WorkerSymmetry == Permutations({w1, w2, w3, w4, w5, w6}) \cup Permutations({e1, e2, e3})
=============================================================================
