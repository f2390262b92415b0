----------------------------- MODULE MCExecutor -----------------------------
(***************************************************************************)
(* Instances of Executor for TLC.  outer and outer2 submit a task each and *)
(* wait for it (get), inner and bad throw, a1 submits a2 without waiting.  *)
(***************************************************************************)
EXTENDS Executor, TLC

CONSTANTS outer, inner, outer2, inner2, a1, a2, bad

(* submits[t]: the child of t, given for the tasks that have one.          *)
WithChildren(submits) ==
  [t \in Tasks |-> IF t \in DOMAIN submits THEN submits[t] ELSE NoTask]

NestedTasks == {outer, inner, outer2, inner2, a1, a2, bad}
NestedChild == WithChildren((outer :> inner) @@ (outer2 :> inner2) @@ (a1 :> a2))
=============================================================================
