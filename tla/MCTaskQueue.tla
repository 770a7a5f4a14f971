---------------------------- MODULE MCTaskQueue ----------------------------
(* Small instances of the task queue for TLC. *)
EXTENDS TaskQueueProperties, TLC

CONSTANTS t1, t2, a1, y1, y2, k1, w1, w2

OneApp == [w \in Workers |-> a1]
Symmetric == Permutations(Tasks)
=============================================================================
