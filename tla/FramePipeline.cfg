\* Two kinds of work besides next ticks, RequestFrame may fail once.
SPECIFICATION FairSpec
CONSTANTS
    MaxIds = 4
    MaxFailures = 1
    Nodes = {n1}
    Ticks = {t1}
    Updates = {u1}
    Attaches = {}
    None = None
    MaxDirty = 1
    MayUpdateSync = TRUE
    MayClean = FALSE
INVARIANTS
    NothingForgotten
PROPERTIES
    ImplementsPipeline
    WorkGetsDone
\* The vsync thread rests when everything is flushed.
CHECK_DEADLOCK FALSE
