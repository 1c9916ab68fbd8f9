\* Three callbacks, one of them persistent, two priorities, RequestFrame may
\* fail twice.
SPECIFICATION FairSpec
CONSTANTS
    c1 = c1
    c2 = c2
    c3 = c3
    Callbacks = {c1, c2, c3}
    OneShot = {c1, c2}
    Priority <- MixedPriority
    MaxFailures = 2
INVARIANTS
    FlagTellsTheTruth
    PendingIsBound
    OneShotOnce
    DeletedStaysOut
    PriorityOrder
PROPERTIES
    AttachedRuns
    PersistentKeepsRunning
\* The vsync thread rests when nothing is attached.
CHECK_DEADLOCK FALSE
