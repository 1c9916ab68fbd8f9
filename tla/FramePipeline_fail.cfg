\* RequestFrame fails once: does the next request bind again?
SPECIFICATION Spec
CONSTANTS
    MaxIds = 3
    MaxFailures = 1
    Nodes = {}
    Ticks = {}
    Updates = {u1, u2}
    Attaches = {}
    None = None
    MaxDirty = 0
    MayUpdateSync = FALSE
    MayClean = FALSE
PROPERTIES
    LaterBindRecovers
CHECK_DEADLOCK FALSE
