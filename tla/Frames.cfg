\* Flushes: two tasks of each ordered kind, one node; JS flushes on its own
\* (updatePageSync) and the ability may be destroyed.  Animations: three
\* styles after the first, of two values; at most three tasks wait when a
\* frame comes.  Styles: a page and two views, two class changes.
SPECIFICATION FrameSpec
CONSTANTS
    Nodes = {n1}
    Ticks = {t1, t2}
    Updates = {u1, u2}
    Attaches = {a1}
    None = None
    MaxDirty = 1
    MayUpdateSync = TRUE
    MayClean = TRUE
    Values = {x1, x2}
    MaxStyles = 3
    MaxTasks = 3
    AvoidedStyles = {"zero", "outlived", "beneath", "late", "leftover", "unstarted", "moved", "versioned"}
    Views = {v, w}
    Page = Page
    NoView = NoView
    MaxChanges = 2
    AvoidedChanges = {"deep", "moved", "siblings", "emptied", "movemarked",
                      "forgotten", "early", "doubled", "toggle"}
SYMMETRY Symmetry
INVARIANTS
    MountOrder
    WorkRequested
    RequestOutstanding
    NextTickInTwo
    Ticked
    Settled
    Styled
\* The instance runs out of work to queue, of styles and of frames to run.
CHECK_DEADLOCK FALSE
