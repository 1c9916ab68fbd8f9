\* Two callers: a caller of runSyncTask is released.
SPECIFICATION FairSpec
CONSTANTS
    Callers = {c1, c2}
    AsyncTasks = {a1}
    None = None
    Throwing = {}
    MayDestroy = FALSE
    SpuriousWakeups = FALSE
PROPERTIES
    SyncCallReturns
