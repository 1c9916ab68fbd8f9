\* The comment of isRequestVsync_, with updatePageSync.
SPECIFICATION Spec
CONSTANTS
    Nodes = {n1}
    Ticks = {t1}
    Updates = {u1}
    Attaches = {a1}
    None = None
    MaxDirty = 2
    MayUpdateSync = TRUE
    MayClean = FALSE
INVARIANTS
    FlagMeansRequested
CHECK_DEADLOCK FALSE
