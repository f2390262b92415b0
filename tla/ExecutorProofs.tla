--------------------------- MODULE ExecutorProofs ---------------------------
(***************************************************************************)
(* Theorems about Executor for every number of threads, clients and tasks. *)
(*                                                                         *)
(*   TypeCorrect, Conserved, ShutdownIsSafe   invariants                   *)
(*   WakeupsAreNotLost                        the counting invariant       *)
(*   Implementation                           Executor implements          *)
(*                                            TaskService (safety)         *)
(*   OutcomesAreExplained   what a settled future says is true             *)
(*   StallsNeedFullPool     the one way in which the pool can stand still  *)
(***************************************************************************)
EXTENDS Executor, SequenceTheorems, FiniteSetTheorems, TLAPS

-----------------------------------------------------------------------------
(* Workers is never empty: the constructor's fallback (executor.cpp:6-11). *)
LEMMA PoolNotEmpty == 1 \in Workers
BY PoolAssumption DEF Workers, PoolSize

(* A task handed over by TakeTask or TaskSubmit is a task, not NoTask.     *)
LEMMA ChildIsTask ==
  ASSUME NEW t \in Tasks, Child[t] # NoTask
  PROVE  Child[t] \in Tasks
BY TaskAssumption

(* What a notification may do to the program counters.                     *)
LEMMA NotifiedMoves ==
  ASSUME NEW pc \in [Workers -> Places], NEW pd \in Notified(pc)
  PROVE  /\ pd \in [Workers -> Places]
         /\ \A v \in Workers :
              pd[v] = pc[v] \/ (pc[v] = "waiting" /\ pd[v] = "lock")
BY DEF Notified, Sleeping, Places

(* The two ways a task ends, seen alike: its promise is set.               *)
Settles(w, outcome) ==
  /\ wpc[w] \in {"submit", "body"}
  /\ Settle(w, outcome)
  /\ UNCHANGED <<stop, tasks, cpc, owner>>

(* A submit that throws and a body that ends both settle the worker's task. *)
LEMMA SettlingSteps ==
  ASSUME NEW w \in Workers, TaskSubmitThrows(w) \/ FinishTask(w)
  PROVE  \E outcome \in Outcomes : Settles(w, outcome)
BY DEF TaskSubmitThrows, FinishTask, Settles, Outcomes

-----------------------------------------------------------------------------
(* Type correctness is inductive on its own.                               *)

(* No step of client, worker or owner leaves the types.                    *)
LEMMA TypeStep == TypeOK /\ [Next]_vars => TypeOK'
<1> SUFFICES ASSUME TypeOK, [Next]_vars PROVE TypeOK'
  OBVIOUS
<1> USE DEF TypeOK, Outcomes, Busy, Places
<1>1. ASSUME NEW w \in Workers, Spawn(w) PROVE TypeOK'
  BY <1>1 DEF Spawn
<1>2. ASSUME NEW w \in Workers, Sleep(w) PROVE TypeOK'
  BY <1>2 DEF Sleep
<1>3. ASSUME NEW w \in Workers, Exit(w) PROVE TypeOK'
  BY <1>3 DEF Exit
<1>4. ASSUME NEW w \in Workers, TakeTask(w) PROVE TypeOK'
  <2>1. Head(tasks) \in Tasks /\ Tail(tasks) \in Seq(Tasks)
    BY <1>4, HeadTailProperties DEF TakeTask
  <2> QED BY <1>4, <2>1, TaskAssumption DEF TakeTask
<1>5. ASSUME NEW w \in Workers, TaskSubmit(w) PROVE TypeOK'
  <2>1. job[w] \in Tasks /\ Child[job[w]] \in Tasks
    BY <1>5, TaskAssumption DEF TaskSubmit
  <2> QED BY <1>5, <2>1 DEF TaskSubmit, Enqueue
<1>6. ASSUME NEW w \in Workers, TaskSubmitThrows(w) \/ FinishTask(w)
      PROVE  TypeOK'
  <2>1. PICK outcome \in Outcomes : Settles(w, outcome)
    BY <1>6, SettlingSteps
  <2> QED BY <2>1 DEF Settles, Settle
<1>7. ASSUME NEW w \in Workers, TaskNotify(w) PROVE TypeOK'
  <2> DEFINE pc == [wpc EXCEPT ![w] = "body"]
  <2>1. pc \in [Workers -> Places] /\ wpc' \in Notified(pc)
    BY <1>7 DEF TaskNotify
  <2>2. /\ wpc' \in [Workers -> Places]
        /\ \A v \in Workers : \/ wpc'[v] = pc[v]
                              \/ pc[v] = "waiting" /\ wpc'[v] = "lock"
    <3> HIDE DEF pc, TypeOK
    <3> QED BY <2>1, NotifiedMoves
  <2> QED BY <1>7, <2>2 DEF TaskNotify
<1>8. ASSUME NEW w \in Workers, WakeSpuriously(w) PROVE TypeOK'
  BY <1>8 DEF WakeSpuriously
<1>9. ASSUME NEW c \in Clients, NEW t \in Tasks, ClientSubmit(c, t) PROVE TypeOK'
  BY <1>9 DEF ClientSubmit, Enqueue
<1>10. ASSUME NEW c \in Clients, ClientNotify(c) PROVE TypeOK'
  <2>1. /\ wpc' \in [Workers -> Places]
        /\ \A v \in Workers : \/ wpc'[v] = wpc[v]
                              \/ wpc[v] = "waiting" /\ wpc'[v] = "lock"
    BY <1>10, NotifiedMoves DEF ClientNotify
  <2> QED BY <1>10, <2>1 DEF ClientNotify
<1>11. CASE BeginDestroy
  BY <1>11 DEF BeginDestroy
<1>12. CASE NotifyAll
  BY <1>12 DEF NotifyAll
<1>13. CASE JoinAll
  BY <1>13 DEF JoinAll
<1>14. CASE UNCHANGED vars
  BY <1>14 DEF vars
<1> HIDE DEF TypeOK
<1> QED
  BY <1>1, <1>2, <1>3, <1>4, <1>5, <1>6, <1>7, <1>8, <1>9, <1>10, <1>11,
     <1>12, <1>13, <1>14
  DEF Next, WorkerStep, Destroyed

-----------------------------------------------------------------------------
(* What push and pop do to the contents of the queue.                      *)
Elems(q) == {q[i] : i \in DOMAIN q}
NoRepeats(q) == \A i, j \in DOMAIN q : q[i] = q[j] => i = j

(* push on tasks_ adds the one task and repeats none it did not hold.      *)
LEMMA AppendElems ==
  ASSUME NEW q \in Seq(Tasks), NEW t \in Tasks
  PROVE  /\ Elems(Append(q, t)) = Elems(q) \cup {t}
         /\ NoRepeats(q) /\ t \notin Elems(q) => NoRepeats(Append(q, t))
<1> DEFINE p == Append(q, t)
<1>1. /\ Len(q) \in Nat /\ DOMAIN q = 1 .. Len(q)
      /\ DOMAIN p = 1 .. Len(q) + 1
      /\ \A i \in 1 .. Len(q) : p[i] = q[i]
      /\ p[Len(q) + 1] = t
  OBVIOUS
<1>2. DOMAIN p = DOMAIN q \cup {Len(q) + 1}
  BY <1>1
<1> HIDE DEF p
<1>3. Elems(p) = Elems(q) \cup {t}
  BY <1>1, <1>2 DEF Elems
<1>4. NoRepeats(q) /\ t \notin Elems(q) => NoRepeats(p)
  BY <1>1, <1>2 DEF Elems, NoRepeats
<1> QED BY <1>3, <1>4 DEF p

(* pop on tasks_ removes the front task and, without repeats, only it.     *)
LEMMA TailElems ==
  ASSUME NEW q \in Seq(Tasks), q # <<>>
  PROVE  /\ Head(q) \in Tasks
         /\ Elems(q) = Elems(Tail(q)) \cup {Head(q)}
         /\ NoRepeats(q) => NoRepeats(Tail(q)) /\ Head(q) \notin Elems(Tail(q))
<1> DEFINE p == Tail(q)
<1>1. /\ Len(q) \in Nat /\ Len(q) > 0 /\ DOMAIN q = 1 .. Len(q)
      /\ DOMAIN p = 1 .. Len(q) - 1
      /\ \A i \in 1 .. Len(q) - 1 : p[i] = q[i + 1]
      /\ Head(q) = q[1] /\ Head(q) \in Tasks
  BY HeadTailProperties
<1> HIDE DEF p
<1>2. Elems(q) = Elems(p) \cup {Head(q)}
  <2>1. ASSUME NEW i \in DOMAIN q PROVE q[i] \in Elems(p) \cup {Head(q)}
    <3>1. CASE i = 1
      BY <3>1, <1>1
    <3>2. CASE i # 1
      <4>1. i - 1 \in DOMAIN p /\ q[i] = p[i - 1]
        BY <3>2, <1>1
      <4> QED BY <4>1 DEF Elems
    <3> QED BY <3>1, <3>2
  <2>2. ASSUME NEW i \in DOMAIN p PROVE p[i] \in Elems(q)
    <3>1. i + 1 \in DOMAIN q /\ p[i] = q[i + 1]
      BY <1>1
    <3> QED BY <3>1 DEF Elems
  <2>3. Head(q) \in Elems(q)
    BY <1>1 DEF Elems
  <2> QED BY <2>1, <2>2, <2>3 DEF Elems
<1>3. ASSUME NoRepeats(q) PROVE NoRepeats(p) /\ Head(q) \notin Elems(p)
  <2>1. ASSUME NEW i \in DOMAIN p, NEW j \in DOMAIN p, p[i] = p[j] PROVE i = j
    <3>1. i + 1 \in DOMAIN q /\ j + 1 \in DOMAIN q /\ q[i + 1] = q[j + 1]
      BY <1>1, <2>1
    <3>2. i + 1 = j + 1
      BY <3>1, <1>3 DEF NoRepeats
    <3> QED BY <3>2, <1>1
  <2>2. ASSUME NEW i \in DOMAIN p PROVE p[i] # Head(q)
    <3>1. i + 1 \in DOMAIN q /\ 1 \in DOMAIN q /\ p[i] = q[i + 1] /\ i + 1 # 1
      BY <1>1
    <3> QED BY <3>1, <1>1, <1>3 DEF NoRepeats
  <2> QED BY <2>1, <2>2 DEF Elems, NoRepeats
<1> QED BY <1>1, <1>2, <1>3 DEF p

-----------------------------------------------------------------------------
(* Conservation is inductive relative to TypeOK.                           *)
LEMMA ConservationStep ==
  TypeOK /\ Conservation /\ [Next]_vars => Conservation'
<1> SUFFICES ASSUME TypeOK, Conservation, [Next]_vars PROVE Conservation'
  OBVIOUS
<1> USE DEF Busy
(* A step that moves no task, sets no promise and brings no worker to its  *)
(* submit: all the steps of threads that only wait, wake or notify.        *)
<1>1. ASSUME UNCHANGED <<tasks, job, future>>,
             \A w \in Workers : wpc'[w] = "submit" => wpc[w] = "submit"
      PROVE  Conservation'
  BY <1>1 DEF Conservation, BeforeSubmit, Queued, Running
<1>2. ASSUME NEW t \in Tasks, future[t] = "none",
             Enqueue(t), UNCHANGED job,
             \A s \in Tasks : Child[s] = t =>
               /\ s \in Running
               /\ \A w \in Workers : job[w] = s => wpc'[w] # "submit",
             \A w \in Workers : wpc'[w] = "submit" => wpc[w] = "submit"
      PROVE  Conservation'
  <2>1. t \notin Queued \cup Running
    BY <1>2 DEF Conservation
  <2>2. NoRepeats(tasks)' /\ Queued' = Queued \cup {t}
    <3>1. tasks \in Seq(Tasks) /\ NoRepeats(tasks) /\ tasks' = Append(tasks, t)
      BY <1>2 DEF TypeOK, Conservation, Enqueue, NoRepeats
    <3>2. Queued = Elems(tasks) /\ Queued' = Elems(tasks')
      BY DEF Queued, Elems
    <3> QED BY <2>1, <3>1, <3>2, AppendElems
  <2>3. /\ future' \in [Tasks -> Outcomes \cup {"none", "pending"}]
        /\ \A s \in Tasks : future'[s] = IF s = t THEN "pending" ELSE future[s]
    BY <1>2 DEF Enqueue, TypeOK
  <2>4. Running' = Running /\ Running \subseteq Tasks
    BY <1>2 DEF Running, TypeOK
  <2>5. (Queued \cap Running = {})'
    BY <2>1, <2>2, <2>4 DEF Conservation
  <2>6. {s \in Tasks : future'[s] = "pending"} = Queued' \cup Running'
    BY <2>2, <2>3, <2>4 DEF Conservation
  <2>7. ASSUME NEW s \in Tasks, Child[s] # NoTask, BeforeSubmit(s)'
        PROVE  future'[Child[s]] = "none"
    <3>1. Child[s] \in Tasks
      BY <2>7, ChildIsTask
    <3>2. ASSUME Child[s] = t PROVE FALSE
      <4>1. s \in Running /\ s \notin Queued /\ future[s] = "pending" /\ s # t
        BY <1>2, <3>2, <2>1 DEF Conservation
      <4>2. \A w \in Workers : ~(job'[w] = s /\ wpc'[w] = "submit")
        BY <1>2, <3>2
      <4> QED BY <4>1, <4>2, <2>2, <2>3, <2>7 DEF BeforeSubmit
    <3>3. BeforeSubmit(s)
      BY <2>7, <2>2, <2>3, <1>2 DEF BeforeSubmit
    <3> QED BY <3>1, <3>2, <3>3, <2>3, <2>7 DEF Conservation
  <2> QED
    BY <1>2, <2>2, <2>5, <2>6, <2>7 DEF Conservation, NoRepeats
<1>3. ASSUME NEW w \in Workers, TakeTask(w) PROVE Conservation'
  <2> DEFINE t == Head(tasks)
  <2>1. /\ t \in Tasks /\ Queued = Queued' \cup {t} /\ t \notin Queued'
        /\ NoRepeats(tasks)'
    <3>1. /\ tasks \in Seq(Tasks) /\ tasks # <<>> /\ NoRepeats(tasks)
          /\ tasks' = Tail(tasks)
      BY <1>3 DEF TypeOK, Conservation, TakeTask, NoRepeats
    <3>2. Queued = Elems(tasks) /\ Queued' = Elems(tasks')
      BY DEF Queued, Elems
    <3> QED BY <3>1, <3>2, TailElems
  <2>2. /\ job[w] = NoTask
        /\ job' \in [Workers -> Tasks \cup {NoTask}]
        /\ \A v \in Workers : job'[v] = IF v = w THEN t ELSE job[v]
    BY <1>3, <2>1 DEF TakeTask, TypeOK
  <2> HIDE DEF t
  <2>3. Running' = Running \cup {t} /\ t \notin Running
    BY <2>1, <2>2, TaskAssumption DEF Running, Conservation, TypeOK
  <2>4. ASSUME NEW u \in Workers, NEW v \in Workers, job'[u] = job'[v], job'[u] # NoTask
        PROVE  u = v
    BY <2>2, <2>3, <2>4 DEF Conservation, Running
  <2>5. UNCHANGED future
    BY <1>3 DEF TakeTask
  <2>6. ASSUME NEW s \in Tasks, BeforeSubmit(s)' PROVE BeforeSubmit(s)
    <3>1. \A v \in Workers : v # w => wpc'[v] = wpc[v]
      BY <1>3 DEF TakeTask, TypeOK
    <3> QED BY <2>1, <2>2, <2>5, <2>6, <3>1 DEF BeforeSubmit
  <2> QED
    BY <2>1, <2>3, <2>4, <2>5, <2>6 DEF Conservation, NoRepeats
<1>4. ASSUME NEW w \in Workers, NEW outcome \in Outcomes, Settles(w, outcome)
      PROVE  Conservation'
  <2> DEFINE t == job[w]
  <2>1. t \in Tasks /\ t # NoTask /\ t \in Running
    BY <1>4, TaskAssumption DEF Settles, TypeOK, Running
  <2>2. /\ \A v \in Workers : job'[v] = IF v = w THEN NoTask ELSE job[v]
        /\ \A s \in Tasks : future'[s] = IF s = t THEN outcome ELSE future[s]
        /\ \A v \in Workers : wpc'[v] = IF v = w THEN "lock" ELSE wpc[v]
        /\ Queued' = Queued /\ tasks' = tasks
    BY <1>4 DEF Settles, Settle, TypeOK, Queued
  <2> HIDE DEF t
  <2>3. Running' = Running \ {t}
    BY <2>1, <2>2 DEF Running, Conservation, t
  <2>4. outcome # "none" /\ outcome # "pending"
    BY DEF Outcomes
  <2>5. {s \in Tasks : future'[s] = "pending"} = Queued' \cup Running'
    BY <2>1, <2>2, <2>3, <2>4 DEF Conservation
  <2>6. ASSUME NEW s \in Tasks, Child[s] # NoTask, BeforeSubmit(s)'
        PROVE  future'[Child[s]] = "none"
    <3>1. BeforeSubmit(s)
      BY <2>2, <2>4, <2>6, TaskAssumption DEF BeforeSubmit
    <3>2. Child[s] \in Tasks /\ future[Child[s]] = "none" /\ future[t] = "pending"
      BY <3>1, <2>1, <2>6, ChildIsTask DEF Conservation
    <3> QED BY <3>2, <2>2
  <2> QED
    BY <2>2, <2>3, <2>5, <2>6 DEF Conservation
<1>5. ASSUME NEW c \in Clients, NEW t \in Tasks, ClientSubmit(c, t)
      PROVE  Conservation'
  <2>1. \A s \in Tasks : Child[s] # t
    BY <1>5, TaskAssumption DEF ClientSubmit, Roots, Children
  <2> QED BY <1>5, <2>1, <1>2 DEF ClientSubmit
<1>6. ASSUME NEW w \in Workers, TaskSubmit(w) PROVE Conservation'
  <2> DEFINE s == job[w]
  <2>1. s \in Tasks /\ s \in Running /\ Child[s] \in Tasks /\ Child[s] # NoTask
    BY <1>6, ChildIsTask, TaskAssumption DEF TaskSubmit, TypeOK, Running
  <2>2. BeforeSubmit(s) /\ future[Child[s]] = "none"
    BY <1>6, <2>1 DEF TaskSubmit, BeforeSubmit, Conservation
  <2>3. \A v \in Workers : wpc'[v] = IF v = w THEN "notify" ELSE wpc[v]
    BY <1>6 DEF TaskSubmit, TypeOK
  <2>4. \A v \in Workers : job[v] = s => v = w
    BY <2>1, TaskAssumption DEF Conservation
  <2>5. \A r \in Tasks : Child[r] = Child[s] => r = s
    BY <2>1, TaskAssumption
  <2>6. Enqueue(Child[s]) /\ UNCHANGED job
    BY <1>6 DEF TaskSubmit
  <2> HIDE DEF s
  <2> QED BY <2>1, <2>2, <2>3, <2>4, <2>5, <2>6, <1>2
<1>7. ASSUME NEW w \in Workers, TaskNotify(w) PROVE Conservation'
  <2> DEFINE pc == [wpc EXCEPT ![w] = "body"]
  <2>1. /\ pc \in [Workers -> Places] /\ wpc' \in Notified(pc)
        /\ \A v \in Workers : pc[v] = "submit" => wpc[v] = "submit"
    BY <1>7 DEF TypeOK, Places, TaskNotify
  <2> HIDE DEF pc
  <2>2. \A v \in Workers : wpc'[v] = "submit" => wpc[v] = "submit"
    BY <2>1, NotifiedMoves
  <2> QED BY <1>7, <2>2, <1>1 DEF TaskNotify
<1>8. ASSUME NEW c \in Clients, ClientNotify(c) PROVE Conservation'
  <2>1. \A v \in Workers : wpc'[v] = "submit" => wpc[v] = "submit"
    BY <1>8, NotifiedMoves DEF ClientNotify, TypeOK
  <2> QED BY <1>8, <2>1, <1>1 DEF ClientNotify
<1>9. ASSUME NEW w \in Workers, Spawn(w) \/ Sleep(w) \/ Exit(w) \/ WakeSpuriously(w)
      PROVE  Conservation'
  BY <1>9, <1>1 DEF Spawn, Sleep, Exit, WakeSpuriously, TypeOK
<1>10. CASE BeginDestroy \/ NotifyAll \/ JoinAll \/ UNCHANGED vars
  BY <1>10, <1>1 DEF BeginDestroy, NotifyAll, JoinAll, vars
<1> QED
  BY <1>3, <1>4, <1>5, <1>6, <1>7, <1>8, <1>9, <1>10, SettlingSteps
  DEF Next, WorkerStep, Destroyed

-----------------------------------------------------------------------------
(* Shutdown: relative to TypeOK and Conservation.                          *)
LEMMA ShutdownStep ==
  TypeOK /\ Conservation /\ ShutdownSafe /\ [Next]_vars => ShutdownSafe'
<1> SUFFICES ASSUME TypeOK, Conservation, ShutdownSafe, [Next]_vars
             PROVE  ShutdownSafe'
  OBVIOUS
<1> USE DEF ShutdownSafe, At, Sleeping, Busy
<1>1. ASSUME NEW w \in Workers, Spawn(w) PROVE ShutdownSafe'
  BY <1>1 DEF Spawn, TypeOK
<1>2. ASSUME NEW w \in Workers, Sleep(w) PROVE ShutdownSafe'
  BY <1>2 DEF Sleep, MayProceed, TypeOK
<1>3. ASSUME NEW w \in Workers, Exit(w) PROVE ShutdownSafe'
  BY <1>3 DEF Exit, MayExit, TypeOK
<1>4. ASSUME NEW w \in Workers, TakeTask(w) PROVE ShutdownSafe'
  BY <1>4 DEF TakeTask, TypeOK
<1>5. ASSUME NEW w \in Workers, TaskSubmit(w) PROVE ShutdownSafe'
  BY <1>5 DEF TaskSubmit, Enqueue, TypeOK
<1>6. ASSUME NEW w \in Workers, NEW outcome \in Outcomes, Settles(w, outcome)
      PROVE  ShutdownSafe'
  BY <1>6 DEF Settles, Settle, TypeOK, Outcomes
<1>7. ASSUME NEW w \in Workers, TaskNotify(w) PROVE ShutdownSafe'
  <2> DEFINE pc == [wpc EXCEPT ![w] = "body"]
  <2>1. /\ pc \in [Workers -> Places] /\ wpc' \in Notified(pc)
        /\ \A v \in Workers : pc[v] = wpc[v] \/ (v = w /\ pc[v] = "body")
    BY <1>7 DEF TypeOK, Places, TaskNotify
  <2> HIDE DEF pc
  <2>2. /\ wpc' \in [Workers -> Places]
        /\ \A v \in Workers : wpc'[v] \in {"waiting", "exited"} => wpc'[v] = wpc[v]
    BY <2>1, NotifiedMoves
  <2> QED BY <1>7, <2>2 DEF TaskNotify, TypeOK
<1>8. ASSUME NEW c \in Clients, ClientNotify(c) PROVE ShutdownSafe'
  <2>1. /\ wpc' \in [Workers -> Places]
        /\ \A v \in Workers : wpc'[v] \in {"waiting", "exited"} => wpc'[v] = wpc[v]
    BY <1>8, NotifiedMoves DEF ClientNotify, TypeOK
  <2> QED BY <1>8, <2>1 DEF ClientNotify, TypeOK
<1>9. ASSUME NEW w \in Workers, WakeSpuriously(w) PROVE ShutdownSafe'
  BY <1>9 DEF WakeSpuriously, TypeOK
<1>10. ASSUME NEW c \in Clients, NEW t \in Tasks, ClientSubmit(c, t)
       PROVE  ShutdownSafe'
  BY <1>10 DEF ClientSubmit, Enqueue, TypeOK
<1>11. CASE BeginDestroy
  BY <1>11 DEF BeginDestroy, TypeOK
<1>12. CASE NotifyAll
  BY <1>12 DEF NotifyAll, TypeOK
(* The destructor returns: all workers have exited, so the queue is empty, *)
(* nobody holds a task and, by Conservation, no future is pending.         *)
<1>13. CASE JoinAll
  <2>1. 1 \in At(wpc, "exited")
    BY <1>13, PoolNotEmpty DEF JoinAll, TypeOK
  <2>2. Queued = {} /\ Running = {}
    BY <1>13, <2>1 DEF JoinAll, TypeOK, Queued, Running
  <2> QED BY <1>13, <2>2 DEF JoinAll, Conservation, TypeOK
<1>14. CASE UNCHANGED vars
  BY <1>14 DEF vars
<1> HIDE DEF ShutdownSafe
<1> QED
  BY <1>1, <1>2, <1>3, <1>4, <1>5, <1>6, <1>7, <1>8, <1>9, <1>10, <1>11,
     <1>12, <1>13, <1>14, SettlingSteps
  DEF Next, WorkerStep, Destroyed

-----------------------------------------------------------------------------
(* The inductive invariant and what follows from it.                       *)
IInv == TypeOK /\ Conservation /\ ShutdownSafe

(* The object before its constructor ran: nothing queued, nobody running.  *)
LEMMA InitIInv == Init => IInv
<1> SUFFICES ASSUME Init PROVE IInv
  OBVIOUS
<1> USE DEF Init
<1>1. TypeOK
  <2>1. tasks \in Seq(Tasks)
    OBVIOUS
  <2>2. wpc \in [Workers -> Places] /\ \A w \in Workers : wpc[w] = "unborn"
    BY DEF Places
  <2>3. job \in [Workers -> Tasks \cup {NoTask}] /\ \A w \in Workers : job[w] = NoTask
    OBVIOUS
  <2>4. cpc \in [Clients -> {"idle", "notify"}]
    OBVIOUS
  <2>5. future \in [Tasks -> Outcomes \cup {"none", "pending"}]
    OBVIOUS
  <2> QED BY <2>1, <2>2, <2>3, <2>4, <2>5 DEF TypeOK, Busy
<1>2. Queued = {} /\ Running = {}
  BY DEF Queued, Running
<1>3. Conservation
  BY <1>2, ChildIsTask DEF Conservation
<1>4. ShutdownSafe
  BY DEF ShutdownSafe, At, Sleeping
<1> QED BY <1>1, <1>3, <1>4 DEF IInv

(* Every reachable state is well typed, holds each pending task in exactly *)
(* one place, and lets no worker leave before the queue of a stopped       *)
(* executor is empty (executor.cpp:19-50, executor.hpp:36-50).             *)
THEOREM Invariance == Spec => []IInv
<1>1. IInv /\ [Next]_vars => IInv'
  BY TypeStep, ConservationStep, ShutdownStep DEF IInv
<1> QED BY <1>1, InitIInv, PTL DEF Spec

(* Every reachable state is well typed.                                    *)
THEOREM TypeCorrect == Spec => []TypeOK
<1>1. IInv => TypeOK
  BY DEF IInv
<1> QED BY <1>1, Invariance, PTL

(* No task is ever lost, queued twice or run by two workers.               *)
THEOREM Conserved == Spec => []Conservation
<1>1. IInv => Conservation
  BY DEF IInv
<1> QED BY <1>1, Invariance, PTL

(* The destructor wakes everybody, drains the queue and returns with every *)
(* accepted task settled.                                                  *)
THEOREM ShutdownIsSafe == Spec => []ShutdownSafe
<1>1. IInv => ShutdownSafe
  BY DEF IInv
<1> QED BY <1>1, Invariance, PTL

-----------------------------------------------------------------------------
(* NoLostWakeup counts threads, so it needs the number of threads at a     *)
(* place before and after one of them moves.                               *)
LEMMA PlacesFinite ==
  ASSUME NEW pc, IsFiniteSet(DOMAIN pc), NEW place
  PROVE  IsFiniteSet(At(pc, place)) /\ Cardinality(At(pc, place)) \in Nat
<1>1. At(pc, place) \in SUBSET DOMAIN pc
  BY DEF At
<1> QED BY <1>1, FS_Subset, FS_CardinalityType

(* What a place gains when a thread goes from one place to another.        *)
Gain(place, from, to) ==
  (IF to = place THEN 1 ELSE 0) - (IF from = place THEN 1 ELSE 0)

(* In the step from pc to pd, thread x and no other thread moves.          *)
Moved(pc, pd, x, to) ==
  /\ IsFiniteSet(DOMAIN pc) /\ x \in DOMAIN pc /\ DOMAIN pd = DOMAIN pc
  /\ pd[x] = to
  /\ \A y \in DOMAIN pc : y # x => pd[y] = pc[y]

(* Who moves to the place from elsewhere adds one to its count.            *)
LEMMA GainComing ==
  ASSUME NEW place, NEW from, from # place
  PROVE  Gain(place, from, place) = 1
BY DEF Gain

(* Who moves between two other places changes nothing there.               *)
LEMMA GainElsewhere ==
  ASSUME NEW place, NEW from, NEW to, from # place, to # place
  PROVE  Gain(place, from, to) = 0
BY DEF Gain

(* When one thread moves, the head count of a place changes by its Gain.   *)
LEMMA OneMoves ==
  ASSUME NEW pc, NEW pd, NEW x, NEW to, Moved(pc, pd, x, to), NEW place
  PROVE  Cardinality(At(pd, place)) = Cardinality(At(pc, place)) + Gain(place, pc[x], to)
<1> DEFINE before == At(pc, place)
           after == At(pd, place)
<1>1. IsFiniteSet(before) /\ Cardinality(before) \in Nat
  BY PlacesFinite DEF Moved
<1>2. x \in before <=> pc[x] = place
  BY DEF At, Moved
<1>3. to = place => after = before \cup {x}
  BY DEF At, Moved
<1>4. to # place => after = before \ {x}
  BY DEF At, Moved
<1> HIDE DEF before, after
<1>5. CASE to = place
  <2>1. Cardinality(after) = IF x \in before THEN Cardinality(before)
                                             ELSE Cardinality(before) + 1
    BY <1>1, <1>3, <1>5, FS_AddElement
  <2>2. CASE pc[x] = place
    BY <1>1, <1>2, <1>5, <2>1, <2>2 DEF Gain, before, after
  <2>3. CASE pc[x] # place
    BY <1>1, <1>2, <1>5, <2>1, <2>3 DEF Gain, before, after
  <2> QED BY <2>2, <2>3
<1>6. CASE to # place
  <2>1. Cardinality(after) = IF x \in before THEN Cardinality(before) - 1
                                             ELSE Cardinality(before)
    BY <1>1, <1>4, <1>6, FS_RemoveElement
  <2>2. CASE pc[x] = place
    BY <1>1, <1>2, <1>6, <2>1, <2>2 DEF Gain, before, after
  <2>3. CASE pc[x] # place
    BY <1>1, <1>2, <1>6, <2>1, <2>3 DEF Gain, before, after
  <2> QED BY <2>2, <2>3
<1> QED BY <1>5, <1>6

(* The pool is finite, so its threads can be counted.                      *)
LEMMA WorkersFinite == IsFiniteSet(Workers)
BY PoolAssumption, FS_Interval DEF Workers, PoolSize

(* The premise of NoLostWakeup and the numbers it compares.                *)
SomeoneSleeps == Sleeping(wpc) # {}
Count(pc, place) == Cardinality(At(pc, place))

(* The head counts are natural numbers: what arithmetic on them needs.     *)
LEMMA CountsNat ==
  TypeOK => /\ Count(wpc, "lock") \in Nat
            /\ Count(wpc, "notify") \in Nat
            /\ Count(cpc, "notify") \in Nat
<1> HAVE TypeOK
<1>1. DOMAIN wpc = Workers /\ DOMAIN cpc = Clients
  BY DEF TypeOK
<1>2. Cardinality(At(wpc, "lock")) \in Nat /\ Cardinality(At(wpc, "notify")) \in Nat
  BY <1>1, WorkersFinite, PlacesFinite
<1>3. Cardinality(At(cpc, "notify")) \in Nat
  BY <1>1, PoolAssumption, PlacesFinite
<1> QED BY <1>2, <1>3 DEF Count

(* How the counts change when worker w goes to another place.              *)
LEMMA ExceptMoves ==
  ASSUME NEW S, IsFiniteSet(S), NEW pc, DOMAIN pc = S, NEW x \in S, NEW to
  PROVE  Moved(pc, [pc EXCEPT ![x] = to], x, to)
BY DEF Moved

(* OneMoves for the two places of the pool that NoLostWakeup counts.       *)
LEMMA WorkerMoves ==
  ASSUME NEW w, NEW to, Moved(wpc, wpc', w, to), DOMAIN wpc = Workers
  PROVE  /\ Count(wpc', "lock") = Count(wpc, "lock") + Gain("lock", wpc[w], to)
         /\ Count(wpc', "notify") = Count(wpc, "notify") + Gain("notify", wpc[w], to)
         /\ to # "waiting" /\ SomeoneSleeps' => SomeoneSleeps
<1>1. /\ Cardinality(At(wpc', "lock")) =
           Cardinality(At(wpc, "lock")) + Gain("lock", wpc[w], to)
      /\ Cardinality(At(wpc', "notify")) =
           Cardinality(At(wpc, "notify")) + Gain("notify", wpc[w], to)
  BY OneMoves
<1>2. to # "waiting" /\ SomeoneSleeps' => SomeoneSleeps
  BY DEF SomeoneSleeps, Sleeping, Moved
<1> QED BY <1>1, <1>2 DEF Count

(* OneMoves for the clients between push and notify_one.                   *)
LEMMA ClientMoves ==
  ASSUME NEW c, NEW to, Moved(cpc, cpc', c, to)
  PROVE  Count(cpc', "notify") = Count(cpc, "notify") + Gain("notify", cpc[c], to)
BY OneMoves DEF Count

(* A worker leaves its notify_one and a sleeper wakes in the same step.    *)
LEMMA TwoMove ==
  ASSUME NEW pc, NEW w, NEW v, Moved(wpc, pc, w, "body"), Moved(pc, wpc', v, "lock"),
         wpc[w] = "notify", pc[v] = "waiting", DOMAIN wpc = Workers,
         Count(wpc, "lock") \in Nat, Count(wpc, "notify") \in Nat
  PROVE  /\ Count(wpc', "lock") = Count(wpc, "lock") + 1
         /\ Count(wpc', "notify") = Count(wpc, "notify") - 1
         /\ (SomeoneSleeps' => SomeoneSleeps)
<1>1. /\ Cardinality(At(pc, "lock")) =
           Cardinality(At(wpc, "lock")) + Gain("lock", wpc[w], "body")
      /\ Cardinality(At(pc, "notify")) =
           Cardinality(At(wpc, "notify")) + Gain("notify", wpc[w], "body")
  BY OneMoves
<1>2. /\ Cardinality(At(wpc', "lock")) =
           Cardinality(At(pc, "lock")) + Gain("lock", pc[v], "lock")
      /\ Cardinality(At(wpc', "notify")) =
           Cardinality(At(pc, "notify")) + Gain("notify", pc[v], "lock")
  BY OneMoves
<1>3. (SomeoneSleeps' => SomeoneSleeps)
  BY DEF SomeoneSleeps, Sleeping, Moved
<1>4. /\ Gain("lock", wpc[w], "body") = 0 /\ Gain("lock", pc[v], "lock") = 1
      /\ Gain("notify", wpc[w], "body") = -1 /\ Gain("notify", pc[v], "lock") = 0
  BY DEF Gain
<1> QED BY <1>1, <1>2, <1>3, <1>4 DEF Count

(* notify_one met a sleeper or there was none.                             *)
LEMMA NotifiedOne ==
  ASSUME NEW pc, NEW pd \in Notified(pc)
  PROVE  \/ pd = pc /\ Sleeping(pc) = {}
         \/ \E v \in Workers : pc[v] = "waiting" /\ pd = [pc EXCEPT ![v] = "lock"]
BY DEF Notified, Sleeping

(* NoLostWakeup in terms of the counts.                                    *)
Coverage(wp, cp) == Count(wp, "lock") + Count(wp, "notify") + Count(cp, "notify")
Covered == SomeoneSleeps => Len(tasks) <= Coverage(wpc, cpc)

(* Covered is NoLostWakeup with its counts folded away from the provers.   *)
LEMMA CoveredIsNoLostWakeup == Covered <=> NoLostWakeup
BY DEF Covered, Coverage, SomeoneSleeps, NoLostWakeup, Count

(* Every push brings its notification, every notification that wakes a     *)
(* sleeper brings a worker, and who takes a task leaves one fewer to cover. *)
LEMMA WakeupStep ==
  TypeOK /\ TypeOK' /\ ShutdownSafe /\ Covered /\ [Next]_vars => Covered'
<1> SUFFICES ASSUME TypeOK, TypeOK', ShutdownSafe, Covered, [Next]_vars
             PROVE  Covered'
  OBVIOUS
<1>1. /\ Count(wpc, "lock") \in Nat /\ Count(wpc, "notify") \in Nat
      /\ Count(cpc, "notify") \in Nat
      /\ Len(tasks) \in Nat
  BY CountsNat DEF TypeOK
<1>2. /\ Count(wpc', "lock") \in Nat /\ Count(wpc', "notify") \in Nat
      /\ Count(cpc', "notify") \in Nat
  <2>1. DOMAIN wpc' = Workers /\ DOMAIN cpc' = Clients
    BY DEF TypeOK
  <2>2. \A place : Cardinality(At(wpc', place)) \in Nat
    BY <2>1, WorkersFinite, PlacesFinite
  <2>3. \A place : Cardinality(At(cpc', place)) \in Nat
    BY <2>1, PoolAssumption, PlacesFinite
  <2> QED BY <2>2, <2>3 DEF Count
<1>dom. DOMAIN wpc = Workers /\ DOMAIN cpc = Clients
  BY DEF TypeOK
<1>w. ASSUME NEW w \in Workers, NEW to, wpc' = [wpc EXCEPT ![w] = to]
      PROVE  Moved(wpc, wpc', w, to)
  BY <1>dom, <1>w, WorkersFinite, ExceptMoves
<1>c. ASSUME NEW c \in Clients, NEW to, cpc' = [cpc EXCEPT ![c] = to]
      PROVE  Moved(cpc, cpc', c, to)
  BY <1>dom, <1>c, PoolAssumption, ExceptMoves
(* The one way Covered is used and established.                            *)
<1>e. ASSUME SomeoneSleeps' => SomeoneSleeps,
             Coverage(wpc', cpc') - Len(tasks') >= Coverage(wpc, cpc) - Len(tasks),
             Len(tasks') \in Nat
      PROVE  Covered'
  <2> SUFFICES ASSUME SomeoneSleeps'
               PROVE  Len(tasks') <= Coverage(wpc', cpc')
    BY DEF Covered
  <2>1. Len(tasks) <= Coverage(wpc, cpc)
    BY <1>e DEF Covered
  <2> QED BY <1>1, <1>2, <1>e, <2>1 DEF Coverage
(* A worker that comes back to the mutex, everything else as it was.       *)
<1>3. ASSUME NEW w \in Workers, wpc[w] \notin {"lock", "notify"},
             wpc' = [wpc EXCEPT ![w] = "lock"], UNCHANGED <<tasks, cpc>>
      PROVE  Covered'
  <2>1. Moved(wpc, wpc', w, "lock")
    BY <1>3, <1>w
  <2>2. /\ Count(wpc', "lock") = Count(wpc, "lock") + Gain("lock", wpc[w], "lock")
        /\ Count(wpc', "notify") = Count(wpc, "notify") + Gain("notify", wpc[w], "lock")
        /\ (SomeoneSleeps' => SomeoneSleeps)
    BY <1>dom, <2>1, WorkerMoves
  <2>3. Gain("lock", wpc[w], "lock") = 1 /\ Gain("notify", wpc[w], "lock") = 0
    <3>1. wpc[w] # "lock" /\ wpc[w] # "notify"
      BY <1>3
    <3> QED BY <3>1, GainComing, GainElsewhere
  <2>4. Count(cpc', "notify") = Count(cpc, "notify") /\ tasks' = tasks
    BY <1>3 DEF Count
  <2> QED BY <1>1, <2>2, <2>3, <2>4, <1>e DEF Coverage
<1>4. ASSUME NEW w \in Workers, Spawn(w) \/ WakeSpuriously(w) PROVE Covered'
  BY <1>3, <1>4 DEF Spawn, WakeSpuriously
<1>5. ASSUME NEW w \in Workers, NEW outcome \in Outcomes, Settles(w, outcome)
      PROVE  Covered'
  BY <1>3, <1>5 DEF Settles, Settle
(* The predicate of wait: a worker goes to sleep over an empty queue only, *)
(* and leaves the loop over an empty queue only.                           *)
<1>6. ASSUME NEW w \in Workers, Sleep(w) \/ Exit(w) PROVE Covered'
  <2>1. Len(tasks') = 0
    BY <1>6 DEF Sleep, Exit, MayProceed, MayExit
  <2>2. Len(tasks') <= Coverage(wpc', cpc')
    BY <1>2, <2>1 DEF Coverage
  <2> QED BY <2>2 DEF Covered
<1>7. ASSUME NEW w \in Workers, TakeTask(w) PROVE Covered'
  <2>1. PICK to \in {"body", "submit"} : Moved(wpc, wpc', w, to)
    BY <1>7, <1>w DEF TakeTask
  <2>2. /\ Count(wpc', "lock") = Count(wpc, "lock") + Gain("lock", wpc[w], to)
        /\ Count(wpc', "notify") = Count(wpc, "notify") + Gain("notify", wpc[w], to)
        /\ (SomeoneSleeps' => SomeoneSleeps)
    BY <1>dom, <2>1, WorkerMoves
  <2>3. Gain("lock", wpc[w], to) = -1 /\ Gain("notify", wpc[w], to) = 0
    BY <1>7, <2>1 DEF Gain, TakeTask
  <2>4. Len(tasks') = Len(tasks) - 1 /\ Len(tasks') \in Nat
    BY <1>7, HeadTailProperties, LenProperties DEF TakeTask, TypeOK
  <2>5. Count(cpc', "notify") = Count(cpc, "notify")
    BY <1>7 DEF TakeTask
  <2> QED BY <1>1, <2>2, <2>3, <2>4, <2>5, <1>e DEF Coverage
(* A push comes with a notification to follow.                             *)
<1>8. ASSUME NEW w \in Workers, TaskSubmit(w) PROVE Covered'
  <2>1. Moved(wpc, wpc', w, "notify") /\ wpc[w] = "submit"
    BY <1>8, <1>w DEF TaskSubmit
  <2>2. /\ Count(wpc', "lock") = Count(wpc, "lock") + Gain("lock", wpc[w], "notify")
        /\ Count(wpc', "notify") = Count(wpc, "notify") + Gain("notify", wpc[w], "notify")
        /\ (SomeoneSleeps' => SomeoneSleeps)
    BY <1>dom, <2>1, WorkerMoves
  <2>3. Gain("lock", wpc[w], "notify") = 0 /\ Gain("notify", wpc[w], "notify") = 1
    BY <2>1 DEF Gain
  <2>4. tasks' = Append(tasks, Child[job[w]]) /\ Count(cpc', "notify") = Count(cpc, "notify")
    BY <1>8 DEF TaskSubmit, Enqueue
  <2>5. Len(tasks') = Len(tasks) + 1
    BY <2>4 DEF TypeOK
  <2> QED BY <1>1, <2>2, <2>3, <2>4, <2>5, <1>e DEF Coverage
<1>9. ASSUME NEW c \in Clients, NEW t \in Tasks, ClientSubmit(c, t)
      PROVE  Covered'
  <2>1. /\ cpc[c] = "idle" /\ Moved(cpc, cpc', c, "notify")
        /\ UNCHANGED wpc /\ tasks' = Append(tasks, t)
    BY <1>9, <1>c DEF ClientSubmit, Enqueue
  <2>2. Count(cpc', "notify") = Count(cpc, "notify") + Gain("notify", cpc[c], "notify")
    BY <2>1, ClientMoves
  <2>3. Gain("notify", cpc[c], "notify") = 1
    BY <2>1 DEF Gain
  <2>4. Len(tasks') = Len(tasks) + 1
    BY <2>1 DEF TypeOK
  <2>5. /\ Count(wpc', "lock") = Count(wpc, "lock")
        /\ Count(wpc', "notify") = Count(wpc, "notify")
        /\ SomeoneSleeps' = SomeoneSleeps
    BY <2>1 DEF SomeoneSleeps
  <2> QED BY <1>1, <2>2, <2>3, <2>4, <2>5, <1>e DEF Coverage
(* The notification: it puts a sleeper where the notifier stood, or there  *)
(* is no sleeper.                                                          *)
<1>10. ASSUME NEW c \in Clients, ClientNotify(c) PROVE Covered'
  <2>1. /\ cpc[c] = "notify" /\ Moved(cpc, cpc', c, "idle")
        /\ tasks' = tasks /\ wpc' \in Notified(wpc)
    BY <1>10, <1>c DEF ClientNotify
  <2>2. Count(cpc', "notify") = Count(cpc, "notify") + Gain("notify", cpc[c], "idle")
    BY <2>1, ClientMoves
  <2>3. Gain("notify", cpc[c], "idle") = -1
    BY <2>1 DEF Gain
  <2>4. CASE wpc' = wpc /\ Sleeping(wpc) = {}
    BY <2>4 DEF SomeoneSleeps, Covered
  <2>5. ASSUME NEW v \in Workers, wpc[v] = "waiting", wpc' = [wpc EXCEPT ![v] = "lock"]
        PROVE  Covered'
    <3>1. Moved(wpc, wpc', v, "lock")
      BY <2>5, <1>w
    <3>2. /\ Count(wpc', "lock") = Count(wpc, "lock") + Gain("lock", wpc[v], "lock")
          /\ Count(wpc', "notify") = Count(wpc, "notify") + Gain("notify", wpc[v], "lock")
          /\ (SomeoneSleeps' => SomeoneSleeps)
      BY <1>dom, <3>1, WorkerMoves
    <3>3. Gain("lock", wpc[v], "lock") = 1 /\ Gain("notify", wpc[v], "lock") = 0
      BY <2>5 DEF Gain
    <3> QED BY <1>1, <2>1, <2>2, <2>3, <3>2, <3>3, <1>e DEF Coverage
  <2> QED BY <2>1, <2>4, <2>5, NotifiedOne
<1>11. ASSUME NEW w \in Workers, TaskNotify(w) PROVE Covered'
  <2>1. PICK pc : /\ pc = [wpc EXCEPT ![w] = "body"] /\ wpc' \in Notified(pc)
                  /\ wpc[w] = "notify" /\ UNCHANGED <<tasks, cpc>>
    BY <1>11 DEF TaskNotify
  <2>2. Moved(wpc, pc, w, "body") /\ DOMAIN pc = Workers
    BY <2>1, <1>dom, WorkersFinite, ExceptMoves
  <2>3. CASE wpc' = pc /\ Sleeping(pc) = {}
    BY <2>3 DEF SomeoneSleeps, Covered
  <2>4. ASSUME NEW v \in Workers, pc[v] = "waiting", wpc' = [pc EXCEPT ![v] = "lock"]
        PROVE  Covered'
    <3>1. Moved(pc, wpc', v, "lock")
      BY <2>2, <2>4, WorkersFinite, ExceptMoves
    <3>2. /\ Count(wpc', "lock") = Count(wpc, "lock") + 1
          /\ Count(wpc', "notify") = Count(wpc, "notify") - 1
          /\ (SomeoneSleeps' => SomeoneSleeps)
      BY <1>dom, <1>1, <2>1, <2>2, <2>4, <3>1, TwoMove
    <3>3. Count(cpc', "notify") = Count(cpc, "notify") /\ tasks' = tasks
      BY <2>1 DEF Count
    <3> QED BY <1>1, <3>2, <3>3, <1>e DEF Coverage
  <2>5. \/ wpc' = pc /\ Sleeping(pc) = {}
        \/ \E v \in Workers : pc[v] = "waiting" /\ wpc' = [pc EXCEPT ![v] = "lock"]
    <3>1. wpc' \in Notified(pc)
      BY <2>1
    <3> QED BY <3>1, NotifiedOne
  <2> QED BY <2>3, <2>4, <2>5
<1>12. CASE NotifyAll
  <2>1. ~SomeoneSleeps'
    BY <1>12 DEF NotifyAll, SomeoneSleeps, Sleeping
  <2> QED BY <2>1 DEF Covered
<1>13. ASSUME UNCHANGED <<tasks, wpc, cpc>> PROVE Covered'
  BY <1>13 DEF Covered, SomeoneSleeps
<1>14. CASE BeginDestroy \/ JoinAll \/ UNCHANGED vars
  BY <1>13, <1>14 DEF BeginDestroy, JoinAll, vars
<1> QED
  BY <1>4, <1>5, <1>6, <1>7, <1>8, <1>9, <1>10, <1>11, <1>12, <1>14, SettlingSteps
  DEF Next, WorkerStep, Destroyed

(* While a worker sleeps, every queued task has a thread on its way to it, *)
(* for any number of workers and clients: no notification is ever missed.  *)
THEOREM WakeupsAreNotLost == Spec => []NoLostWakeup
<1>1. Init => Covered
  BY DEF Init, Covered, SomeoneSleeps, Sleeping
<1>2. IInv /\ IInv' /\ Covered /\ [Next]_vars => Covered'
  BY WakeupStep DEF IInv
<1>3. Spec => []Covered
  BY <1>1, <1>2, Invariance, PTL DEF Spec
<1> QED BY <1>3, CoveredIsNoLostWakeup, PTL

-----------------------------------------------------------------------------
(* Refinement: every step of the executor is a step of TaskService or      *)
(* leaves its view of the executor alone.                                  *)
Settled == {t \in Tasks : future[t] \in Outcomes}

(* The parts of the state that TaskService sees.                           *)
LEMMA ServiceView ==
  /\ Service!Queued = Queued
  /\ Service!vars = <<tasks, Running, Settled, owner = "destroyed">>
BY DEF Service!Queued, Service!vars, Queued, Settled

(* The executor starts where the abstract service starts.                  *)
LEMMA InitService == Init => Service!Init
<1> SUFFICES ASSUME Init PROVE Service!Init
  OBVIOUS
<1>1. Running = {} /\ Settled = {} /\ tasks = <<>> /\ owner # "destroyed"
  BY DEF Init, Running, Settled, Outcomes
<1> QED BY <1>1 DEF Service!Init, Settled

(* Every step is a step of the service or invisible to it.                 *)
LEMMA StepService == IInv /\ IInv' /\ [Next]_vars => [Service!Next]_(Service!vars)
<1> SUFFICES ASSUME IInv, IInv', [Next]_vars
             PROVE  Service!Next \/ UNCHANGED Service!vars
  OBVIOUS
<1> USE DEF IInv
<1>1. ASSUME UNCHANGED <<tasks, job, future>>, owner' # "destroyed", owner # "destroyed"
      PROVE  UNCHANGED Service!vars
  BY <1>1 DEF Service!vars, Running
(* Accept: the task was nowhere before, by Conservation.                   *)
<1>2. ASSUME NEW t \in Tasks, future[t] = "none", Enqueue(t), ~stop,
             UNCHANGED <<job, owner>>
      PROVE  Service!Next
  <2>1. t \notin Queued \cup Running \cup Settled
    BY <1>2 DEF Conservation, Settled, Outcomes
  <2>2. Settled' = Settled
    BY <1>2 DEF Enqueue, Settled, Outcomes, TypeOK
  <2>3. owner # "destroyed" /\ owner' # "destroyed"
    BY <1>2 DEF ShutdownSafe
  <2>4. tasks' = Append(tasks, t) /\ Running' = Running
    BY <1>2 DEF Enqueue, Running
  <2>5. Service!Accept(t)
    BY <2>1, <2>2, <2>3, <2>4, ServiceView DEF Service!Accept, Settled
  <2> QED BY <2>5 DEF Service!Next
(* Start: the worker held nothing and now holds the head of the queue.     *)
<1>3. ASSUME NEW w \in Workers, TakeTask(w) PROVE Service!Next
  <2>1. /\ tasks # <<>> /\ tasks' = Tail(tasks)
        /\ UNCHANGED <<future, owner>>
        /\ job[w] = NoTask
        /\ \A v \in Workers : job'[v] = IF v = w THEN Head(tasks) ELSE job[v]
    BY <1>3 DEF TakeTask, TypeOK, Busy
  <2>2. Head(tasks) # NoTask
    BY <2>1, TailElems, TaskAssumption DEF TypeOK
  <2>3. Running' = Running \cup {Head(tasks)}
    BY <2>1, <2>2 DEF Running
  <2>4. Service!Start
    BY <2>1, <2>3 DEF Service!Start, Settled
  <2> QED BY <2>4 DEF Service!Next
(* Settle: nobody else holds the task.                                     *)
<1>4. ASSUME NEW w \in Workers, NEW outcome \in Outcomes, Settles(w, outcome)
      PROVE  Service!Next
  <2>1. PICK t \in Tasks : t = job[w] /\ t # NoTask /\ t \in Running
    BY <1>4, TaskAssumption DEF Settles, TypeOK, Running, Busy
  <2>2. /\ \A v \in Workers : job'[v] = IF v = w THEN NoTask ELSE job[v]
        /\ \A s \in Tasks : future'[s] = IF s = t THEN outcome ELSE future[s]
        /\ UNCHANGED <<tasks, owner>>
    BY <1>4, <2>1 DEF Settles, Settle, TypeOK
  <2>3. \A v \in Workers : job[v] = t => v = w
    BY <2>1 DEF Conservation
  <2>4. Running' = Running \ {t}
    BY <2>1, <2>2, <2>3 DEF Running
  <2>5. Settled' = Settled \cup {t}
    BY <2>1, <2>2 DEF Settled
  <2>6. Service!Settle(t)
    BY <2>1, <2>2, <2>4, <2>5 DEF Service!Settle, Settled
  <2> QED BY <2>1, <2>6 DEF Service!Next
<1>5. ASSUME NEW c \in Clients, NEW t \in Tasks, ClientSubmit(c, t)
      PROVE  Service!Next
  BY <1>5, <1>2 DEF ClientSubmit, ShutdownSafe
<1>6. ASSUME NEW w \in Workers, TaskSubmit(w) PROVE Service!Next
  <2> DEFINE s == job[w]
  <2>1. s \in Tasks /\ Child[s] # NoTask /\ Child[s] \in Tasks /\ BeforeSubmit(s)
    BY <1>6, ChildIsTask, TaskAssumption DEF TaskSubmit, TypeOK, Busy, BeforeSubmit
  <2>2. future[Child[s]] = "none"
    BY <2>1 DEF Conservation
  <2>3. Enqueue(Child[s]) /\ ~stop /\ UNCHANGED <<job, owner>>
    BY <1>6 DEF TaskSubmit
  <2> HIDE DEF s
  <2> QED BY <2>1, <2>2, <2>3, <1>2
<1>7. ASSUME NEW w \in Workers,
             Spawn(w) \/ Sleep(w) \/ Exit(w) \/ TaskNotify(w) \/ WakeSpuriously(w)
      PROVE  UNCHANGED Service!vars
  <2>1. UNCHANGED <<tasks, job, future>>
    BY <1>7 DEF Spawn, Sleep, Exit, TaskNotify, WakeSpuriously
  <2>2. (owner = "destroyed") = (owner' = "destroyed")
    BY <1>7 DEF Spawn, Sleep, Exit, TaskNotify, WakeSpuriously
  <2> QED BY <2>1, <2>2 DEF Service!vars, Running
<1>8. ASSUME NEW c \in Clients, ClientNotify(c) PROVE UNCHANGED Service!vars
  BY <1>8 DEF ClientNotify, Service!vars, Running
<1>9. CASE BeginDestroy \/ NotifyAll
  BY <1>9, <1>1 DEF BeginDestroy, NotifyAll
(* Close: by ShutdownSafe after the step, nothing is outstanding.          *)
<1>10. CASE JoinAll
  <2>1. /\ owner = "join" /\ owner' = "destroyed"
        /\ UNCHANGED <<tasks, job, future>>
    BY <1>10 DEF JoinAll
  <2>2. Queued = {} /\ Running = {}
    BY <2>1 DEF ShutdownSafe, Conservation, Queued, Running
  <2>3. tasks = <<>>
    <3>1. SUFFICES ASSUME tasks # <<>> PROVE FALSE
      OBVIOUS
    <3>2. tasks \in Seq(Tasks) /\ Head(tasks) \in Elems(tasks)
      BY <3>1, TailElems DEF TypeOK
    <3> QED BY <3>2, <2>2 DEF Elems, Queued
  <2>4. Service!Close
    BY <2>1, <2>2, <2>3 DEF Service!Close, Running
  <2> QED BY <2>4 DEF Service!Next
<1>11. CASE UNCHANGED vars
  BY <1>11 DEF vars, Service!vars, Running
<1> QED
  BY <1>3, <1>4, <1>5, <1>6, <1>7, <1>8, <1>9, <1>10, <1>11, SettlingSteps
  DEF Next, WorkerStep, Destroyed

(* The executor implements TaskService: FIFO start, one settlement for     *)
(* each accepted task, and no return of the destructor before that.        *)
THEOREM Implementation == Spec => ImplementsService
<1> QED
  BY InitService, StepService, Invariance, PTL
  DEF Spec, ImplementsService, Service!Spec

-----------------------------------------------------------------------------
(* What an accepted submit of t does to the promises, t being new.         *)
Accepts(t) ==
  /\ ~stop /\ UNCHANGED stop
  /\ future[t] = "none"
  /\ future' = [future EXCEPT ![t] = "pending"]
  /\ Child[t] # NoTask => Child[t] # t /\ future[Child[t]] = "none"

(* A client submits a root task, which no other task creates.              *)
LEMMA ClientAccepts ==
  ASSUME IInv, NEW c \in Clients, NEW t \in Tasks, ClientSubmit(c, t)
  PROVE  Accepts(t)
<1>1. future[t] = "none" /\ future' = [future EXCEPT ![t] = "pending"]
  BY DEF ClientSubmit, Enqueue
<1>2. ~stop /\ UNCHANGED stop
  BY DEF ClientSubmit, IInv, ShutdownSafe
<1>3. Child[t] # t
  BY TaskAssumption DEF ClientSubmit, Roots, Children
<1>4. Child[t] # NoTask => future[Child[t]] = "none"
  BY <1>1 DEF IInv, Conservation, BeforeSubmit
<1> QED BY <1>1, <1>2, <1>3, <1>4 DEF Accepts

(* A body submits the child of its task, which was nowhere before.         *)
LEMMA BodyAccepts ==
  ASSUME IInv, NEW w \in Workers, TaskSubmit(w)
  PROVE  /\ job[w] \in Tasks /\ Child[job[w]] \in Tasks
         /\ Accepts(Child[job[w]])
<1> DEFINE s == job[w]
           t == Child[s]
<1>1. s \in Tasks /\ s # NoTask /\ t # NoTask /\ t \in Tasks
  BY ChildIsTask, TaskAssumption DEF TaskSubmit, IInv, TypeOK, Busy
<1>2. BeforeSubmit(s) /\ future[s] = "pending"
  BY <1>1 DEF TaskSubmit, BeforeSubmit, IInv, Conservation, Running
<1>3. future[t] = "none"
  BY <1>1, <1>2 DEF IInv, Conservation
<1>4. Child[t] # NoTask => future[Child[t]] = "none"
  BY <1>1, <1>3 DEF IInv, Conservation, BeforeSubmit
<1>5. Child[t] # t
  BY <1>1, <1>2, <1>3, TaskAssumption
<1>6. ~stop /\ UNCHANGED stop /\ future' = [future EXCEPT ![t] = "pending"]
  BY DEF TaskSubmit, Enqueue
<1> QED BY <1>1, <1>3, <1>4, <1>5, <1>6 DEF Accepts

-----------------------------------------------------------------------------
(* Tasks create each other in an order: among any submitted ones there is  *)
(* one whose child is not among them, the one submitted last for example.  *)
Submitted == {t \in Tasks : future[t] # "none"}
Ordered == \A S \in SUBSET Submitted : S # {} => \E t \in S : Child[t] \notin S

(* No step makes a circle of tasks: a child joins before its own children. *)
LEMMA OrderedStep == IInv /\ Ordered /\ [Next]_vars => Ordered'
<1> SUFFICES ASSUME IInv, Ordered, [Next]_vars PROVE Ordered'
  OBVIOUS
<1>1. ASSUME NEW t \in Tasks, Accepts(t) PROVE Ordered'
  <2>1. Submitted' = Submitted \cup {t}
    BY <1>1 DEF Accepts, Submitted, IInv, TypeOK
  <2>2. Child[t] \notin Submitted \cup {t}
    BY <1>1, TaskAssumption DEF Accepts, Submitted
  <2> SUFFICES ASSUME NEW S \in SUBSET (Submitted \cup {t}), S # {}
               PROVE  \E s \in S : Child[s] \notin S
    BY <2>1 DEF Ordered
  <2>3. CASE t \in S
    BY <2>2, <2>3
  <2>4. CASE t \notin S
    BY <2>4 DEF Ordered
  <2> QED BY <2>3, <2>4
<1>2. ASSUME Submitted' = Submitted PROVE Ordered'
  BY <1>2 DEF Ordered
<1>3. ASSUME NEW w \in Workers, NEW outcome \in Outcomes, Settles(w, outcome)
      PROVE  Submitted' = Submitted
  <2>1. job[w] \in Tasks /\ future[job[w]] = "pending"
    BY <1>3, TaskAssumption
    DEF Settles, IInv, TypeOK, Conservation, Running, Busy
  <2>2. \A s \in Tasks : future'[s] = IF s = job[w] THEN outcome ELSE future[s]
    BY <1>3 DEF Settles, Settle, IInv, TypeOK
  <2>3. outcome # "none"
    BY DEF Outcomes
  <2> QED BY <2>1, <2>2, <2>3 DEF Submitted
<1>4. UNCHANGED future => Submitted' = Submitted
  BY DEF Submitted
<1> QED
  BY <1>1, <1>2, <1>3, <1>4, ClientAccepts, BodyAccepts, SettlingSteps
  DEF Next, WorkerStep, Spawn, Sleep, Exit, TakeTask, TaskNotify, ClientNotify,
      WakeSpuriously, BeginDestroy, NotifyAll, JoinAll, Destroyed, vars

(* If nobody sleeps beside a queue and nobody has left it, and each stuck  *)
(* worker waits for the child of its task, the last child in the chain has *)
(* to be queued: then every worker is in a get().                          *)
LEMMA StallFollows == IInv /\ Ordered /\ NoLostWakeup => StallNeedsFullPool
<1> SUFFICES ASSUME IInv, Ordered, NoLostWakeup,
                    \A w \in Workers : wpc[w] \in {"waiting", "exited"} \/ Blocked(w),
                    \A c \in Clients : cpc[c] = "idle",
                    NEW t \in Tasks, future[t] = "pending",
                    NEW w \in Workers, ~Blocked(w)
             PROVE  FALSE
  BY DEF StallNeedsFullPool, Stalled
<1>1. tasks = <<>>
  <2>1. CASE wpc[w] = "exited"
    BY <2>1 DEF IInv, ShutdownSafe, At, TypeOK
  <2>2. CASE wpc[w] = "waiting"
    <3>1. At(wpc, "lock") = {} /\ At(wpc, "notify") = {} /\ At(cpc, "notify") = {}
      BY DEF At, Blocked, IInv, TypeOK
    <3>2. Len(tasks) <= Cardinality({}) + Cardinality({}) + Cardinality({})
      BY <2>2, <3>1 DEF NoLostWakeup, Sleeping
    <3>3. Cardinality({}) = 0
      BY FS_EmptySet
    <3>4. Len(tasks) <= 0
      BY <3>2, <3>3
    <3> QED BY <3>4, EmptySeq DEF IInv, TypeOK
  <2> QED BY <2>1, <2>2
<1>2. Queued = {}
  BY <1>1 DEF Queued
<1>3. {s \in Tasks : future[s] = "pending"} = Running
  BY <1>2 DEF IInv, Conservation
<1>4. \A s \in Running : Child[s] \in Running
  <2> TAKE s \in Running
  <2>1. PICK v \in Workers : job[v] = s /\ s # NoTask
    BY DEF Running
  <2>2. wpc[v] \in Busy
    BY <2>1 DEF IInv, TypeOK
  <2>3. Blocked(v)
    BY <2>2 DEF Busy
  <2>4. future[Child[s]] = "pending" /\ s \in Tasks /\ Child[s] # NoTask
    BY <2>1, <2>3, TaskAssumption DEF Blocked
  <2> QED BY <1>3, <2>4, ChildIsTask
<1>5. Running # {} /\ Running \subseteq Submitted
  BY <1>3 DEF Submitted
<1> QED BY <1>4, <1>5 DEF Ordered

(* However many workers there are: if nobody can move although a task is   *)
(* unsettled, all of them sit in the get() of a task they run.             *)
THEOREM StallsNeedFullPool == Spec => []StallNeedsFullPool
<1>1. Init => Ordered
  BY DEF Init, Ordered, Submitted
<1>2. Spec => []Ordered
  BY <1>1, OrderedStep, Invariance, PTL DEF Spec
<1> QED BY <1>2, StallFollows, Invariance, WakeupsAreNotLost, PTL

-----------------------------------------------------------------------------
(* A body past its own submit has a child that was accepted.               *)
BodiesHaveSubmitted ==
  \A w \in Workers :
    wpc[w] \in {"notify", "body"} /\ Child[job[w]] # NoTask =>
      future[Child[job[w]]] # "none"

Explained(t) ==
  /\ future[t] = "value" =>
       /\ t \notin Throwing
       /\ Child[t] # NoTask => future[Child[t]] # "none"
       /\ t \in Blocking => future[Child[t]] = "value"
  /\ future[t] = "exception" =>
       \/ t \in Throwing
       \/ t \in Blocking /\ future[Child[t]] = "exception"
       \/ stop /\ Child[t] # NoTask /\ future[Child[t]] = "none"

(* What the futures may do in one step: a settled one stays, an accepted   *)
(* one stays accepted, and nothing is accepted once stop_ is set.          *)
Forward ==
  /\ stop => stop'
  /\ \A t \in Tasks :
       /\ future[t] \in Outcomes => future'[t] = future[t]
       /\ future[t] # "none" => future'[t] # "none"
       /\ stop /\ future[t] = "none" => future'[t] = "none"

(* The three ways futures change all go forward.                           *)
LEMMA ForwardStep == IInv /\ [Next]_vars => Forward
<1> SUFFICES ASSUME IInv, [Next]_vars PROVE Forward
  OBVIOUS
<1> USE DEF Forward, Outcomes
<1>1. ASSUME NEW t \in Tasks, Accepts(t) PROVE Forward
  BY <1>1 DEF Accepts, IInv, TypeOK
<1>2. ASSUME NEW w \in Workers, NEW outcome \in Outcomes, Settles(w, outcome)
      PROVE  Forward
  <2>1. job[w] \in Tasks /\ future[job[w]] = "pending"
    BY <1>2, TaskAssumption
    DEF Settles, IInv, TypeOK, Conservation, Running, Busy
  <2>2. /\ \A s \in Tasks : future'[s] = IF s = job[w] THEN outcome ELSE future[s]
        /\ UNCHANGED stop
    BY <1>2 DEF Settles, Settle, IInv, TypeOK
  <2> QED BY <2>1, <2>2
<1>3. ASSUME UNCHANGED future, stop => stop' PROVE Forward
  BY <1>3
<1> HIDE DEF Forward, Outcomes
<1>4. ASSUME NEW w \in Workers,
             Spawn(w) \/ Sleep(w) \/ Exit(w) \/ TakeTask(w) \/ TaskNotify(w) \/ WakeSpuriously(w)
      PROVE  Forward
  BY <1>3, <1>4 DEF Spawn, Sleep, Exit, TakeTask, TaskNotify, WakeSpuriously
<1>5. ASSUME NEW c \in Clients, ClientNotify(c) PROVE Forward
  BY <1>3, <1>5 DEF ClientNotify
<1>6. CASE BeginDestroy \/ NotifyAll \/ JoinAll \/ UNCHANGED vars
  BY <1>3, <1>6 DEF BeginDestroy, NotifyAll, JoinAll, vars
<1>7. ASSUME NEW c \in Clients, NEW t \in Tasks, ClientSubmit(c, t) PROVE Forward
  BY <1>1, <1>7, ClientAccepts
<1>8. ASSUME NEW w \in Workers, TaskSubmit(w) PROVE Forward
  BY <1>1, <1>8, BodyAccepts
<1> QED
  BY <1>2, <1>4, <1>5, <1>6, <1>7, <1>8, SettlingSteps
  DEF Next, WorkerStep, Destroyed

(* A body gets past its submit only through Enqueue.                       *)
LEMMA SubmittedStep ==
  IInv /\ BodiesHaveSubmitted /\ [Next]_vars => BodiesHaveSubmitted'
<1> SUFFICES ASSUME IInv, BodiesHaveSubmitted, [Next]_vars,
                    NEW w \in Workers, wpc'[w] \in {"notify", "body"},
                    Child[job'[w]] # NoTask
             PROVE  future'[Child[job'[w]]] # "none"
  BY DEF BodiesHaveSubmitted
<1>1. ASSUME wpc[w] \in {"notify", "body"}, job'[w] = job[w]
      PROVE  future'[Child[job'[w]]] # "none"
  <2>1. Child[job[w]] \in Tasks /\ future[Child[job[w]]] # "none"
    BY <1>1, ChildIsTask, TaskAssumption
    DEF BodiesHaveSubmitted, IInv, TypeOK, Busy
  <2> QED BY <1>1, <2>1, ForwardStep DEF Forward
<1>2. CASE TaskSubmit(w)
  <2>1. Child[job[w]] \in Tasks /\ Accepts(Child[job[w]]) /\ UNCHANGED job
    BY <1>2, BodyAccepts DEF TaskSubmit
  <2> QED BY <2>1 DEF Accepts, IInv, TypeOK
<1>3. CASE TakeTask(w)
  <2>1. /\ job'[w] = Head(tasks)
        /\ wpc'[w] = IF Child[Head(tasks)] = NoTask THEN "body" ELSE "submit"
    BY <1>3 DEF TakeTask, IInv, TypeOK
  <2> QED BY <2>1
<1>4. CASE ~TakeTask(w) /\ ~TaskSubmit(w)
  <2>1. ASSUME NEW v \in Workers, NEW outcome \in Outcomes, Settles(v, outcome)
        PROVE  wpc[w] \in {"notify", "body"} /\ job'[w] = job[w]
    BY <2>1 DEF Settles, Settle, IInv, TypeOK
  <2>2. ASSUME NEW v \in Workers, TaskNotify(v)
        PROVE  wpc[w] \in {"notify", "body"} /\ job'[w] = job[w]
    <3> DEFINE pc == [wpc EXCEPT ![v] = "body"]
    <3>1. /\ pc \in [Workers -> Places] /\ wpc' \in Notified(pc)
          /\ pc[w] \in {"notify", "body"} => wpc[w] \in {"notify", "body"}
      BY <2>2 DEF TaskNotify, IInv, TypeOK, Places, Busy
    <3> HIDE DEF pc
    <3>2. wpc'[w] = pc[w]
      BY <3>1, NotifiedMoves
    <3> QED BY <2>2, <3>1, <3>2 DEF TaskNotify
  <2>3. ASSUME NEW c \in Clients, ClientNotify(c)
        PROVE  wpc[w] \in {"notify", "body"} /\ job'[w] = job[w]
    <3>1. wpc'[w] = wpc[w]
      BY <2>3, NotifiedMoves DEF ClientNotify, IInv, TypeOK
    <3> QED BY <2>3, <3>1 DEF ClientNotify
  <2>4. ASSUME NEW v \in Workers, v # w, TakeTask(v) \/ TaskSubmit(v)
        PROVE  wpc[w] \in {"notify", "body"} /\ job'[w] = job[w]
    BY <2>4 DEF TakeTask, TaskSubmit, IInv, TypeOK
  <2>5. ASSUME NEW v \in Workers, Spawn(v) \/ Sleep(v) \/ Exit(v) \/ WakeSpuriously(v)
        PROVE  wpc[w] \in {"notify", "body"} /\ job'[w] = job[w]
    BY <2>5 DEF Spawn, Sleep, Exit, WakeSpuriously, IInv, TypeOK
  <2>6. ASSUME NEW c \in Clients, NEW t \in Tasks, ClientSubmit(c, t)
        PROVE  wpc[w] \in {"notify", "body"} /\ job'[w] = job[w]
    BY <2>6 DEF ClientSubmit
  <2>7. ASSUME BeginDestroy \/ NotifyAll \/ JoinAll \/ UNCHANGED vars
        PROVE  wpc[w] \in {"notify", "body"} /\ job'[w] = job[w]
    BY <2>7 DEF BeginDestroy, NotifyAll, JoinAll, vars
  <2>8. wpc[w] \in {"notify", "body"} /\ job'[w] = job[w]
    BY <1>4, <2>1, <2>2, <2>3, <2>4, <2>5, <2>6, <2>7, SettlingSteps
    DEF Next, WorkerStep, Destroyed
  <2> QED BY <1>1, <2>8
<1> QED BY <1>2, <1>3, <1>4

(* Why a task ends as it does, at the moment it ends.                      *)
LEMMA EndExplained ==
  ASSUME IInv, BodiesHaveSubmitted, NEW w \in Workers,
         TaskSubmitThrows(w) \/ FinishTask(w)
  PROVE  \E t \in Tasks :
           /\ future[t] = "pending"
           /\ \A s \in Tasks : s # t => future'[s] = future[s]
           /\ Explained(t)'
<1>1. PICK t \in Tasks : t = job[w] /\ t # NoTask /\ future[t] = "pending"
  BY TaskAssumption
  DEF TaskSubmitThrows, FinishTask, IInv, TypeOK, Conservation, Running, Busy
<1>2. CASE TaskSubmitThrows(w)
  <2>1. Child[t] # NoTask /\ Child[t] \in Tasks /\ future[Child[t]] = "none"
    BY <1>1, <1>2, ChildIsTask
    DEF TaskSubmitThrows, IInv, TypeOK, Conservation, BeforeSubmit
  <2>2. /\ stop /\ stop'
        /\ \A s \in Tasks : future'[s] = IF s = t THEN "exception" ELSE future[s]
    BY <1>1, <1>2 DEF TaskSubmitThrows, Settle, IInv, TypeOK
  <2> QED BY <1>1, <2>1, <2>2 DEF Explained
<1>3. CASE FinishTask(w)
  <2>1. PICK outcome : outcome = IF BodyThrows(t) THEN "exception" ELSE "value"
    OBVIOUS
  <2>2. \A s \in Tasks : future'[s] = IF s = t THEN outcome ELSE future[s]
    BY <1>1, <1>3, <2>1 DEF FinishTask, Settle, IInv, TypeOK
  <2>3. Child[t] # NoTask => Child[t] \in Tasks /\ future[Child[t]] # "none"
    BY <1>1, <1>3, ChildIsTask DEF FinishTask, BodiesHaveSubmitted
  <2>4. t \in Blocking => /\ Child[t] # NoTask
                          /\ future[Child[t]] \in {"value", "exception"}
                          /\ Child[t] # t
    BY <1>1, <1>3, <2>3, TaskAssumption DEF FinishTask, Blocked, IInv, TypeOK, Outcomes
  <2>5. future'[t] = outcome
    BY <1>1, <2>2
  <2>6. Child[t] # NoTask => future'[Child[t]] # "none"
    BY <2>1, <2>2, <2>3
  <2>7. t \in Blocking => future'[Child[t]] = future[Child[t]]
    BY <2>2, <2>3, <2>4
  <2>8. ASSUME BodyThrows(t) PROVE Explained(t)'
    BY <2>1, <2>4, <2>5, <2>7, <2>8 DEF BodyThrows, Explained
  <2>9. ASSUME ~BodyThrows(t) PROVE Explained(t)'
    BY <2>1, <2>4, <2>5, <2>6, <2>7, <2>9 DEF BodyThrows, Explained
  <2> QED BY <1>1, <2>2, <2>8, <2>9
<1> QED BY <1>2, <1>3

(* What explains a settled future goes on explaining it: the child's value *)
(* or exception stays, and what was refused after stop_ stays refused.     *)
LEMMA StaysExplained ==
  ASSUME IInv, Forward, NEW t \in Tasks, Explained(t), future'[t] = future[t]
  PROVE  Explained(t)'
<1>1. Child[t] # NoTask => Child[t] \in Tasks
  BY ChildIsTask
<1>2. t \in Blocking => Child[t] # NoTask
  BY TaskAssumption
<1> QED BY <1>1, <1>2 DEF Explained, Forward, Outcomes

(* OutcomesExplained is inductive relative to IInv and BodiesHaveSubmitted. *)
LEMMA OutcomesStep ==
  IInv /\ BodiesHaveSubmitted /\ OutcomesExplained /\ [Next]_vars
    => OutcomesExplained'
<1> SUFFICES ASSUME IInv, BodiesHaveSubmitted, OutcomesExplained, [Next]_vars,
                    NEW t \in Tasks
             PROVE  Explained(t)'
  BY DEF OutcomesExplained, Explained
<1>1. Explained(t)
  BY DEF OutcomesExplained, Explained
<1>2. Forward
  BY ForwardStep
<1>3. CASE future'[t] = future[t]
  BY <1>1, <1>2, <1>3, StaysExplained
<1>4. ASSUME NEW w \in Workers, TaskSubmitThrows(w) \/ FinishTask(w)
      PROVE  Explained(t)'
  BY <1>3, <1>4, EndExplained
<1>5. ASSUME NEW s \in Tasks, Accepts(s) PROVE Explained(t)'
  <2>1. CASE s = t
    BY <1>5, <2>1 DEF Accepts, Explained, IInv, TypeOK
  <2>2. CASE s # t
    BY <1>3, <1>5, <2>2 DEF Accepts, IInv, TypeOK
  <2> QED BY <2>1, <2>2
<1> QED
  BY <1>3, <1>4, <1>5, ClientAccepts, BodyAccepts
  DEF Next, WorkerStep, Spawn, Sleep, Exit, TakeTask, TaskNotify, ClientNotify,
      WakeSpuriously, BeginDestroy, NotifyAll, JoinAll, Destroyed, vars

(* A value means that the body ended, was accepted wherever it submitted,  *)
(* and waited for nothing that failed; an exception has a cause: the body, *)
(* the child it waited for, or a submit after the destructor had begun.    *)
THEOREM OutcomesAreExplained == Spec => []OutcomesExplained
<1>1. Init => BodiesHaveSubmitted /\ OutcomesExplained
  BY DEF Init, BodiesHaveSubmitted, OutcomesExplained
<1>2. Spec => []BodiesHaveSubmitted
  BY <1>1, SubmittedStep, Invariance, PTL DEF Spec
<1> QED BY <1>1, <1>2, OutcomesStep, Invariance, PTL DEF Spec
=============================================================================
