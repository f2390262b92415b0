----------------------------- MODULE MCProvider -----------------------------
(* Provider on small sets of values, all of them model values or strings.  *)
EXTENDS Provider, TLC

CONSTANTS k1, k2, m1, m2, u1, u2, t1, t2

FirstValues == [key |-> k1, model |-> m1, url |-> u1, timeout |-> t1]

CallerSymmetry == Permutations(Callers)
=============================================================================
