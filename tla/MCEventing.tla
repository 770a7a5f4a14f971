----------------------------- MODULE MCEventing -----------------------------
(* Small instances of Eventing for TLC; each configuration sets the bounds.  *)
EXTENDS Eventing, TLC

CONSTANTS g1, s1, s2, t1, t2, st1, st2, k1, k2, k3, q1, q2, a1, f1, d1, d2

OneFilter == {{t1}}
TwoFilters == {{t1}, {t1, t2}}
Symmetric == Permutations(Keys) \cup Permutations(Streams) \cup Permutations(Subs)
=============================================================================
