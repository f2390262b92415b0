------------------------------ MODULE Executor ------------------------------
(***************************************************************************)
(* boostchain::Executor (src/executor.cpp, include/boostchain/             *)
(* executor.hpp): a fixed pool of worker threads taking packaged tasks     *)
(* from one queue guarded by queue_mutex_ and condition_.                  *)
(*                                                                         *)
(* One critical section is one action: nothing blocks inside one except    *)
(* condition_.wait, which releases the mutex and is an action of its own   *)
(* (Sleep).  notify_one and notify_all run after the mutex is released and *)
(* are separate actions, so every interleaving between a push and its      *)
(* notification is explored.                                               *)
(***************************************************************************)
EXTENDS Naturals, Sequences, FiniteSets

CONSTANTS
  NumThreads,           \* the constructor's argument
  HardwareConcurrency,  \* std::thread::hardware_concurrency(): may be 0
  Clients,              \* threads outside the pool that call submit
  Tasks,                \* the tasks that may be submitted
  Child,                \* Child[t]: the task t's body submits, or NoTask
  Blocking,             \* tasks whose body calls get() on the child's future
  Throwing,             \* tasks whose body ends in an exception
  NoTask

(* executor.cpp:6-11: never an empty pool.                                 *)
PoolSize(requested, hardware) ==
  IF requested # 0 THEN requested ELSE IF hardware # 0 THEN hardware ELSE 4

Workers == 1 .. PoolSize(NumThreads, HardwareConcurrency)

Children == {Child[t] : t \in Tasks} \ {NoTask}
Roots == Tasks \ Children    \* submitted by clients; the rest by task bodies

ASSUME PoolAssumption ==
  /\ NumThreads \in Nat
  /\ HardwareConcurrency \in Nat
  /\ IsFiniteSet(Clients)

(* A task object is submitted once: by the one task whose body creates it, *)
(* or by a client.                                                         *)
ASSUME TaskAssumption ==
  /\ NoTask \notin Tasks
  /\ Child \in [Tasks -> Tasks \cup {NoTask}]
  /\ \A s, t \in Tasks : Child[s] = Child[t] /\ Child[s] # NoTask => s = t
  /\ Blocking \subseteq {t \in Tasks : Child[t] # NoTask}
  /\ Throwing \subseteq Tasks

VARIABLES
  stop,      \* stop_
  tasks,     \* tasks_
  wpc,       \* where each worker thread is in worker_loop
  job,       \* the local `task' of each worker
  cpc,       \* where each client is in submit
  future,    \* the state of the future submit returned for each task
  owner      \* where the owning thread is: constructor, use or destructor

vars == <<stop, tasks, wpc, job, cpc, future, owner>>

Outcomes == {"value", "exception"}
Busy == {"submit", "notify", "body"}        \* a worker inside task()
Places == Busy \cup {"unborn", "lock", "waiting", "exited"}

Sleeping(pc) == {w \in Workers : pc[w] = "waiting"}

Init ==
  /\ stop = FALSE
  /\ tasks = <<>>
  /\ wpc = [w \in Workers |-> "unborn"]
  /\ job = [w \in Workers |-> NoTask]
  /\ cpc = [c \in Clients |-> "idle"]
  /\ future = [t \in Tasks |-> "none"]
  /\ owner = "construct"

-----------------------------------------------------------------------------
(* Constructor: threads start one by one and enter worker_loop before the  *)
(* later ones exist.                                                       *)
Spawn(w) ==
  /\ owner = "construct"
  /\ wpc[w] = "unborn"
  /\ \A v \in Workers : v < w => wpc[v] # "unborn"
  /\ wpc' = [wpc EXCEPT ![w] = "lock"]
  /\ owner' = IF \A v \in Workers : v <= w THEN "alive" ELSE owner
  /\ UNCHANGED <<stop, tasks, job, cpc, future>>

-----------------------------------------------------------------------------
(* submit: executor.hpp:36-50.                                             *)

(* The critical section past the stop_ test: t goes to the back of tasks_. *)
Enqueue(t) ==
  /\ tasks' = Append(tasks, t)
  /\ future' = [future EXCEPT ![t] = "pending"]

(* Faulty: the notification is forgotten.                                  *)
NotifiedNobody(pc) == {pc}

(* notify_one: if threads sleep, any one of them is woken.                 *)
Notified(pc) ==
  IF Sleeping(pc) = {} THEN {pc}
  ELSE {[pc EXCEPT ![w] = "lock"] : w \in Sleeping(pc)}

(* A client may call submit only while the object is alive, so it never    *)
(* meets stop_.                                                            *)
ClientSubmit(c, t) ==
  /\ owner = "alive"
  /\ cpc[c] = "idle"
  /\ t \in Roots
  /\ future[t] = "none"
  /\ Enqueue(t)
  /\ cpc' = [cpc EXCEPT ![c] = "notify"]
  /\ UNCHANGED <<stop, wpc, job, owner>>

(* Faulty: notify only when the push made tasks_ non-empty.                *)
ClientNotifyIfFirst(c) ==
  /\ cpc[c] = "notify"
  /\ cpc' = [cpc EXCEPT ![c] = "idle"]
  /\ wpc' \in IF Len(tasks) <= 1 THEN Notified(wpc) ELSE {wpc}
  /\ UNCHANGED <<stop, tasks, job, future, owner>>

ClientNotify(c) ==
  /\ cpc[c] = "notify"
  /\ cpc' = [cpc EXCEPT ![c] = "idle"]
  /\ wpc' \in Notified(wpc)
  /\ UNCHANGED <<stop, tasks, job, future, owner>>

-----------------------------------------------------------------------------
(* worker_loop: executor.cpp:32-50.                                        *)

(* Faulty: leave as soon as stop_ is set, whatever is queued.              *)
MayExitUndrained == stop

(* stop_ && tasks_.empty(): the only way out of the loop.                  *)
MayExit == stop /\ tasks = <<>>

(* wait's predicate, evaluated under the mutex.                            *)
MayProceed == stop \/ tasks # <<>>

Sleep(w) ==
  /\ wpc[w] = "lock"
  /\ ~MayProceed
  /\ wpc' = [wpc EXCEPT ![w] = "waiting"]
  /\ UNCHANGED <<stop, tasks, job, cpc, future, owner>>

(* The standard lets condition_.wait wake without a notification.          *)
WakeSpuriously(w) ==
  /\ wpc[w] = "waiting"
  /\ wpc' = [wpc EXCEPT ![w] = "lock"]
  /\ UNCHANGED <<stop, tasks, job, cpc, future, owner>>

Exit(w) ==
  /\ wpc[w] = "lock"
  /\ MayExit
  /\ wpc' = [wpc EXCEPT ![w] = "exited"]
  /\ UNCHANGED <<stop, tasks, job, cpc, future, owner>>

(* Faulty: the newest task is taken; the task taken stays in tasks_.       *)
TakeNewest(w) ==
  /\ wpc[w] = "lock"
  /\ tasks # <<>>
  /\ job' = [job EXCEPT ![w] = tasks[Len(tasks)]]
  /\ tasks' = SubSeq(tasks, 1, Len(tasks) - 1)
  /\ wpc' = [wpc EXCEPT ![w] =
               IF Child[job'[w]] = NoTask THEN "body" ELSE "submit"]
  /\ UNCHANGED <<stop, cpc, future, owner>>

TakeWithoutPop(w) ==
  /\ wpc[w] = "lock"
  /\ tasks # <<>>
  /\ job' = [job EXCEPT ![w] = Head(tasks)]
  /\ wpc' = [wpc EXCEPT ![w] =
               IF Child[Head(tasks)] = NoTask THEN "body" ELSE "submit"]
  /\ UNCHANGED <<stop, tasks, cpc, future, owner>>

TakeTask(w) ==
  /\ wpc[w] = "lock"
  /\ tasks # <<>>
  /\ job' = [job EXCEPT ![w] = Head(tasks)]
  /\ tasks' = Tail(tasks)
  /\ wpc' = [wpc EXCEPT ![w] =
               IF Child[Head(tasks)] = NoTask THEN "body" ELSE "submit"]
  /\ UNCHANGED <<stop, cpc, future, owner>>

-----------------------------------------------------------------------------
(* task(): the packaged_task runs the body and stores what it returned or  *)
(* threw in the future; the worker goes round the loop either way.         *)

(* Faulty: the worker keeps its hold on the task it has run.               *)
SettleKeepsJob(w, outcome) ==
  /\ future' = [future EXCEPT ![job[w]] = outcome]
  /\ wpc' = [wpc EXCEPT ![w] = "lock"]
  /\ UNCHANGED job

Settle(w, outcome) ==
  /\ future' = [future EXCEPT ![job[w]] = outcome]
  /\ job' = [job EXCEPT ![w] = NoTask]
  /\ wpc' = [wpc EXCEPT ![w] = "lock"]

(* Faulty: the exception of submit is swallowed.                           *)
TaskSubmitSwallows(w) ==
  /\ wpc[w] = "submit"
  /\ stop
  /\ Settle(w, "value")
  /\ UNCHANGED <<stop, tasks, cpc, owner>>

(* The body calls submit.  Once stop_ is set submit throws, the exception  *)
(* leaves the body and ends up in the calling task's own future.           *)
TaskSubmit(w) ==
  /\ wpc[w] = "submit"
  /\ ~stop
  /\ Enqueue(Child[job[w]])
  /\ wpc' = [wpc EXCEPT ![w] = "notify"]
  /\ UNCHANGED <<stop, job, cpc, owner>>

TaskSubmitThrows(w) ==
  /\ wpc[w] = "submit"
  /\ stop
  /\ Settle(w, "exception")
  /\ UNCHANGED <<stop, tasks, cpc, owner>>

TaskNotify(w) ==
  /\ wpc[w] = "notify"
  /\ wpc' \in Notified([wpc EXCEPT ![w] = "body"])
  /\ UNCHANGED <<stop, tasks, job, cpc, future, owner>>

(* A body that calls get() stays inside task() until the child's future is *)
(* ready; an exception stored there is rethrown by get().                  *)
Blocked(w) ==
  /\ wpc[w] = "body"
  /\ job[w] \in Blocking
  /\ future[Child[job[w]]] = "pending"

BodyThrows(t) ==
  \/ t \in Throwing
  \/ t \in Blocking /\ future[Child[t]] = "exception"

FinishTask(w) ==
  /\ wpc[w] = "body"
  /\ ~Blocked(w)
  /\ Settle(w, IF BodyThrows(job[w]) THEN "exception" ELSE "value")
  /\ UNCHANGED <<stop, tasks, cpc, owner>>

-----------------------------------------------------------------------------
(* Destructor: executor.cpp:19-30.  The owner may call it only when no     *)
(* client is inside submit; tasks may still be queued and running.         *)
BeginDestroy ==
  /\ owner = "alive"
  /\ \A c \in Clients : cpc[c] = "idle"
  /\ stop' = TRUE
  /\ owner' = "broadcast"
  /\ UNCHANGED <<tasks, wpc, job, cpc, future>>

(* Faulty: notify_one where the code has notify_all.                       *)
NotifyOneOnly ==
  /\ owner = "broadcast"
  /\ wpc' \in Notified(wpc)
  /\ owner' = "join"
  /\ UNCHANGED <<stop, tasks, job, cpc, future>>

NotifyAll ==
  /\ owner = "broadcast"
  /\ wpc' = [w \in Workers |-> IF wpc[w] = "waiting" THEN "lock" ELSE wpc[w]]
  /\ owner' = "join"
  /\ UNCHANGED <<stop, tasks, job, cpc, future>>

JoinAll ==
  /\ owner = "join"
  /\ \A w \in Workers : wpc[w] = "exited"
  /\ owner' = "destroyed"
  /\ UNCHANGED <<stop, tasks, wpc, job, cpc, future>>

Destroyed == owner = "destroyed" /\ UNCHANGED vars

-----------------------------------------------------------------------------
WorkerStep(w) ==
  \/ Sleep(w) \/ Exit(w) \/ TakeTask(w)
  \/ TaskSubmit(w) \/ TaskSubmitThrows(w) \/ TaskNotify(w) \/ FinishTask(w)

Next ==
  \/ \E w \in Workers : Spawn(w) \/ WorkerStep(w) \/ WakeSpuriously(w)
  \/ \E c \in Clients : ClientNotify(c) \/ \E t \in Tasks : ClientSubmit(c, t)
  \/ BeginDestroy \/ NotifyAll \/ JoinAll \/ Destroyed

Spec == Init /\ [][Next]_vars

(* A thread that can run does run, and queue_mutex_ is only ever held for  *)
(* a few instructions: weak fairness for each thread.  Nobody is obliged   *)
(* to submit or to destroy, and no sleeper is obliged to wake spuriously.  *)
Fairness ==
  /\ \A w \in Workers : WF_vars(Spawn(w)) /\ WF_vars(WorkerStep(w))
  /\ \A c \in Clients : WF_vars(ClientNotify(c))
  /\ WF_vars(NotifyAll)
  /\ WF_vars(JoinAll)

FairSpec == Spec /\ Fairness

-----------------------------------------------------------------------------
(* Properties.                                                             *)

Queued == {tasks[i] : i \in DOMAIN tasks}
Running == {job[w] : w \in Workers} \ {NoTask}
At(pc, place) == {x \in DOMAIN pc : pc[x] = place}

(* The type invariant: a worker holds a task exactly while inside task(),  *)
(* and only the body of a task that creates another is inside submit.      *)
TypeOK ==
  /\ stop \in BOOLEAN
  /\ tasks \in Seq(Tasks)
  /\ wpc \in [Workers -> Places]
  /\ job \in [Workers -> Tasks \cup {NoTask}]
  /\ \A w \in Workers : job[w] # NoTask <=> wpc[w] \in Busy
  /\ \A w \in Workers : wpc[w] \in {"submit", "notify"} => Child[job[w]] # NoTask
  /\ cpc \in [Clients -> {"idle", "notify"}]
  /\ future \in [Tasks -> Outcomes \cup {"none", "pending"}]
  /\ owner \in {"construct", "alive", "broadcast", "join", "destroyed"}

(* A task whose body has not reached its own submit yet.                   *)
BeforeSubmit(t) ==
  \/ future[t] = "none"
  \/ t \in Queued
  \/ \E w \in Workers : job[w] = t /\ wpc[w] = "submit"

(* The queue and the workers share out the unsettled tasks: none is lost   *)
(* between pop and task(), queued twice or run by two workers; and a task  *)
(* created by another enters only through that one's submit.               *)
Conservation ==
  /\ \A i, j \in DOMAIN tasks : tasks[i] = tasks[j] => i = j
  /\ \A v, w \in Workers : job[v] = job[w] /\ job[v] # NoTask => v = w
  /\ Queued \cap Running = {}
  /\ {t \in Tasks : future[t] = "pending"} = Queued \cup Running
  /\ \A t \in Tasks :
       Child[t] # NoTask /\ BeforeSubmit(t) => future[Child[t]] = "none"

(* While a worker sleeps, every queued task has a thread on its way to it: *)
(* a worker about to test the predicate or a notification still to come.   *)
NoLostWakeup ==
  Sleeping(wpc) # {} =>
    Len(tasks) <= Cardinality(At(wpc, "lock")) + Cardinality(At(wpc, "notify"))
                  + Cardinality(At(cpc, "notify"))

(* Once past notify_all nobody sleeps again; a worker leaves only from an  *)
(* empty queue, so the destructor returns with every future settled.       *)
ShutdownSafe ==
  /\ stop <=> owner \in {"broadcast", "join", "destroyed"}
  /\ owner \in {"join", "destroyed"} => Sleeping(wpc) = {}
  /\ At(wpc, "exited") # {} => stop /\ tasks = <<>>
  /\ owner = "destroyed" => \A t \in Tasks : future[t] # "pending"

(* Every worker sits in the get() of a task it runs.                       *)
Stalled == \A w \in Workers : Blocked(w)

(* The pool can stand still with unsettled tasks in one way only: every    *)
(* worker sits in the get() of a task it runs.                             *)
StallNeedsFullPool ==
  LET stuck(w) == wpc[w] \in {"waiting", "exited"} \/ Blocked(w)
  IN  /\ \A w \in Workers : stuck(w)
      /\ \A c \in Clients : cpc[c] = "idle"
      /\ owner \in {"alive", "join"}
      /\ \E t \in Tasks : future[t] = "pending"
      => Stalled

(* A future reports the failure of its task and of what the task relied    *)
(* on: a value means the body ended, its submit was accepted and, if it    *)
(* called get(), its child had a value too; an exception has a cause.      *)
OutcomesExplained ==
  \A t \in Tasks :
    /\ future[t] = "value" =>
         /\ t \notin Throwing
         /\ Child[t] # NoTask => future[Child[t]] # "none"
         /\ t \in Blocking => future[Child[t]] = "value"
    /\ future[t] = "exception" =>
         \/ t \in Throwing
         \/ t \in Blocking /\ future[Child[t]] = "exception"
         \/ stop /\ Child[t] # NoTask /\ future[Child[t]] = "none"

(* The destructor returns, unless the pool is stalled.                     *)
DestructorReturns == owner = "broadcast" ~> owner = "destroyed" \/ Stalled

(* The refinement mapping to the abstract service.                         *)
Service == INSTANCE TaskService WITH
  pending <- tasks,
  running <- Running,
  settled <- {t \in Tasks : future[t] \in Outcomes},
  closed <- owner = "destroyed"

(* The executor implements TaskService: FIFO start, one settlement per     *)
(* task, no closing over unsettled tasks.                                  *)
ImplementsService == Service!Spec

(* Under FairSpec a pool that does not end up stalled also starts every    *)
(* task it has accepted, and settles every task it has started.            *)
ImplementsFairService == <>[]Stalled \/ Service!Fairness
=============================================================================
