\* Two workers can both sit in get(): the pool really stops, so deadlock is
\* allowed here and StallNeedsFullPool says when it happens.
SPECIFICATION FairSpec
CHECK_DEADLOCK FALSE
CONSTANTS
    outer = outer
    inner = inner
    outer2 = outer2
    inner2 = inner2
    a1 = a1
    a2 = a2
    bad = bad
    NoTask = NoTask
    NumThreads = 0
    HardwareConcurrency = 2
    Clients = {c1, c2}
    Tasks <- NestedTasks
    Child <- NestedChild
    Blocking = {outer, outer2}
    Throwing = {inner, bad}
INVARIANTS
    TypeOK
    Conservation
    NoLostWakeup
    ShutdownSafe
    OutcomesExplained
    StallNeedsFullPool
PROPERTIES
    ImplementsService
    ImplementsFairService
    DestructorReturns
