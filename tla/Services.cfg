\* Events: three rows for two native nodes, names of one ArkUI type, one
\* widget listening.  Marks: two boxes, both may be hidden and one fixed, and
\* a text.  Images: three loads of two urls with one file name, any step may
\* fail; one size of image fits twice into the budget, the other not at all.
\* Queue: three nodes, five pushes, so that one is pushed again after each way
\* out.
SPECIFICATION AllSpec
CONSTANTS
    Rows = {r1, r2, r3}
    Handles = {h1, h2}
    Names = {"touchstart", "touchend"}
    Types = {"touch"}
    Type <- OneType
    None = None
    MaxWidgets = 1
    AvoidTwice = TRUE
    RenderNodes = {box, other, t}
    Root = Root
    Texts = {t}
    Painted = {t}
    Fixable = {other}
    Hideable = {box, other}
    AvoidedMarks = {"clean", "stranded", "marked", "detached"}
    Requests = {r1, r2, r3}
    Urls = {h1, h2}
    File <- OneFile
    Sizes = {2, 5}
    maxMemorySize = 4
    Dirty = {r1, r2, r3}
    MaxPushes = 5
SYMMETRY Symmetry
INVARIANTS
    LayersAgree
    Heard
    LayoutAwaited
    MarksQueued
    PaintAwaited
    CacheAccounted
    AnsweredOnce
    DequeAndSet
PROPERTIES
    PopMakesProgress
\* All rows may be removed, all loads over and all pushes used up.
CHECK_DEADLOCK FALSE
