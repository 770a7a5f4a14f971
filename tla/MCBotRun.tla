----------------------------- MODULE MCBotRun ------------------------------
(* Small instances of the queued bot runs for TLC. *)
EXTENDS BotRunProperties, TLC

CONSTANTS r1, r2, r3, p1, p2, e1, e2, e3, s1

OneSession == [r \in Runs |-> s1]
Symmetric == Permutations(Runs) \cup Permutations(Execs)
FullySymmetric == Symmetric \cup Permutations(Pods)
=============================================================================
