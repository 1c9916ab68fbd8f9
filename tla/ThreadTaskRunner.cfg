\* Two callers, destruction at any moment, spurious wakeups.
SPECIFICATION FairSpec
CONSTANTS
    Callers = {c1, c2}
    AsyncTasks = {a1, a2}
    None = None
    Throwing = {c2}
    MayDestroy = TRUE
    SpuriousWakeups = TRUE
INVARIANTS
    SyncNeverStranded
    NoDanglingDone
PROPERTIES
    ImplementsTaskRunner
    TasksRun
\* The system stops once the runner is joined.
CHECK_DEADLOCK FALSE
