\* Three elements and the page, static and fixed views created, moved,
\* replaced and removed in any order, at most three delayed calls a frame.
SPECIFICATION Spec
CONSTANTS
    Nodes = {a, b, c}
    Page = Page
    None = None
    MaxBuilds = 2
    MaxCalls = 3
    MaxRestyles = 2
    Avoided = {"replace", "rebuild", "movefixed", "movemarked", "between", "miscount"}
SYMMETRY Symmetry
INVARIANTS
    SiblingPointers
    RenderOrder
    NativeMirrors
    StyleFresh
\* Every element may have been created and removed.
CHECK_DEADLOCK FALSE
