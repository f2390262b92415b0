---------------------------- MODULE TaskService ----------------------------
(***************************************************************************)
(* What boostchain::Executor promises its callers, without threads, mutex  *)
(* or condition variable: every accepted task is started in the order of   *)
(* acceptance and settled exactly once, and the service closes only after  *)
(* it has settled everything it accepted.                                  *)
(***************************************************************************)
EXTENDS Naturals, Sequences

CONSTANT Tasks          \* the tasks callers may ever submit

VARIABLES
  pending,              \* accepted, not yet started: a sequence of tasks
  running,              \* started, future not ready yet
  settled,              \* future ready: value or exception
  closed                \* the destructor has returned

vars == <<pending, running, settled, closed>>

Queued == {pending[i] : i \in DOMAIN pending}

Init ==
  /\ pending = <<>>
  /\ running = {}
  /\ settled = {}
  /\ closed = FALSE

(* A task is accepted at most once, at the tail of the line.               *)
Accept(t) ==
  /\ ~closed
  /\ t \notin Queued \cup running \cup settled
  /\ pending' = Append(pending, t)
  /\ UNCHANGED <<running, settled, closed>>

(* The task that has waited longest starts.                                *)
Start ==
  /\ pending # <<>>
  /\ pending' = Tail(pending)
  /\ running' = running \cup {Head(pending)}
  /\ UNCHANGED <<settled, closed>>

Settle(t) ==
  /\ t \in running
  /\ running' = running \ {t}
  /\ settled' = settled \cup {t}
  /\ UNCHANGED <<pending, closed>>

(* The service closes only when nothing accepted is still outstanding.     *)
Close ==
  /\ ~closed
  /\ pending = <<>>
  /\ running = {}
  /\ closed' = TRUE
  /\ UNCHANGED <<pending, running, settled>>

Next ==
  \/ \E t \in Tasks : Accept(t) \/ Settle(t)
  \/ Start
  \/ Close

Spec == Init /\ [][Next]_vars

(* With no task waiting for another, accepted tasks are also started and   *)
(* settled eventually.                                                     *)
Fairness ==
  /\ WF_vars(Start)
  /\ \A t \in Tasks : WF_vars(Settle(t))
=============================================================================
