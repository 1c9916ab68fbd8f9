\* A box and a text; images in the text may get another mode.
SPECIFICATION Spec
CONSTANTS
    Nodes = {b, t}
    Root = Root
    Texts = {t}
    Painted = {t}
    Fixable = {}
    Hideable = {}
    None = None
    Avoided = {"clean", "stranded", "detached"}
INVARIANTS
    LayoutAwaited
