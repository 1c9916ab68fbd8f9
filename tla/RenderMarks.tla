----------------------------- MODULE RenderMarks -----------------------------
(***************************************************************************)
(* Who is laid out and painted again, and when.                            *)
(*                                                                         *)
(*   dom/ark_nodes/arkui_base_node  is_layout_dirty_ and is_draw_dirty_    *)
(*   dom/ark_nodes/arkui_node       SetStyle, ApplyLayout, Layout, Paint   *)
(*   dom/element, exports/document  the changes that set the marks         *)
(*   runtime/dirty_vsync_task       the page waiting for layout, the nodes *)
(*                                  waiting for paint                      *)
(*                                                                         *)
(* Layout is lazy twice: a render node's mark queues the page only when it *)
(* is set anew, and Yoga, which has dirty flags and caches of its own,     *)
(* goes only where they lead.  ApplyLayout follows Yoga's, not the marks,  *)
(* so a mark it does not get to stays, and a mark that stays swallows      *)
(* every later one.                                                        *)
(*                                                                         *)
(* The page is one measure root and its fixed root is not told apart from  *)
(* it; an element has one render node.  Yoga is not in this repository:    *)
(* its flags are modelled from the calls made to it.  Everything happens   *)
(* on MAIN, a handler is one step.                                         *)
(*                                                                         *)
(* Sequences the code does not get right have names, as in Document, and a *)
(* run chooses which of them JS avoids:                                    *)
(*   "clean"     an element is moved whose own Yoga node is clean: nothing *)
(*               marks it, so nothing queues the page                      *)
(*   "stranded"  an element is moved whose mark was left behind while it   *)
(*               was out of ApplyLayout's reach                            *)
(*   "marked"    an image in a text gets a new mode: the text is marked    *)
(*               and its Yoga node is not                                  *)
(*   "detached"  a fixed element is removed whose parent is clean in Yoga: *)
(*               the parent is marked, and layout may not get as far       *)
(***************************************************************************)
EXTENDS Naturals, FiniteSets

CONSTANTS
    Nodes,      \* elements JS creates below the page
    Root,       \* the page, its measure root
    Texts,      \* those of Nodes that are texts: leaves Yoga measures
    Painted,    \* those of Nodes whose painting is followed; Layout has them
                \* painted again (border radius, transform, background size)
    Fixable,    \* bound: those of Nodes whose position may become fixed
    Hideable,   \* bound: those of Nodes whose display may become none
    None,       \* no parent: the element does not exist
    Avoided     \* flaws, see above, that JS does not run into

ConstantsApart ==
    /\ Root \notin Nodes /\ None \notin Nodes \cup {Root}
    /\ IsFiniteSet(Nodes)
    /\ {Texts, Painted, Fixable, Hideable} \subseteq SUBSET Nodes
    /\ Avoided \subseteq {"clean", "stranded", "marked", "detached"}

VARIABLES
    page,       \* elements, render nodes, Yoga's flags, the queues: one record
    phase       \* "js", or "style" in a flush before its layout

vars == <<page, phase>>

All == Nodes \cup {Root}
Exists(d) == {Root} \cup {n \in Nodes : d.home[n] # None}

(* A fixed render node hangs from the fixed root wherever its element is.  *)
ParentRef(d, n) ==
    IF n \in {Root, None} THEN None ELSE IF n \in d.fixed THEN Root ELSE d.home[n]

(* All render nodes above n.                                               *)
Above(d, n) ==
    LET up[k \in 0 .. Cardinality(All)] ==
            IF k = 0 THEN {ParentRef(d, n)}
            ELSE LET S == up[k - 1] IN S \cup {ParentRef(d, m) : m \in S}
    IN  up[Cardinality(All)] \ {None}

Below(d, n) == {m \in Exists(d) : n \in Above(d, m)}

(* The elements below n, fixed ones included.                              *)
Descendants(d, n) == Below([d EXCEPT !.fixed = {}], n)

(* Layout gets to a node that nothing above it hides.                      *)
Reached(d, n) == n \in Exists(d) /\ Above(d, n) \cap d.hidden = {}

-----------------------------------------------------------------------------
(* Marks.                                                                  *)
SetLayoutDirty(d, S) ==
    [d EXCEPT !.marked = @ \cup S, !.toLayout = @ \/ ~(S \subseteq d.marked)]

ClearLayoutDirty(d, S) == [d EXCEPT !.marked = @ \ S]

SetDrawDirty(d, S) ==
    [d EXCEPT !.drawn = @ \cup S, !.toPaint = @ \cup (S \ d.drawn)]

(* Yoga: a node and those above it become dirty, up to the first that is   *)
(* dirty already.                                                          *)
markDirty(d, S) ==
    LET path(n) == {n} \cup Above(d, n)
        beyond(n) == UNION {Above(d, m) : m \in path(n) \cap d.dirty}
    IN  [d EXCEPT !.dirty = @ \cup UNION {path(n) \ beyond(n) : n \in S}]

CheckIfYGDirty(d, S) == SetLayoutDirty(d, S \cap d.dirty)

(* What a layout must look at anew: n's own style, content or children.    *)
Changed(d, S) == [d EXCEPT !.stale = @ \cup S]

insertChild(d, n) == markDirty(d, {ParentRef(d, n)})

(* Yoga forgets the layout of a node taken out, not that it is clean.      *)
removeChild(d, n) ==
    [markDirty(d, {ParentRef(d, n)}) EXCEPT !.cold = @ \cup {n}]

(* Setters write Yoga's style, which dirties the node when a value is new, *)
(* and ask afterwards whether it is dirty.                                 *)
SetStyle(d, n, isNew) ==
    IF isNew THEN CheckIfYGDirty(Changed(markDirty(d, {n}), {n}), {n})
    ELSE CheckIfYGDirty(d, {n})

(* variant: the old mark is not taken off first.                           *)
createContextKeepingMark(d, n) == SetLayoutDirty(d, {n})

createContextRecursively(d, n) ==
    SetLayoutDirty(ClearLayoutDirty(d, {n}), {n})

(* From none to shown: measured nodes below are dirtied too.               *)
SetDisplay(d, n, hide) ==
    IF hide = (n \in d.hidden) THEN d
    ELSE IF hide THEN [markDirty(d, {n}) EXCEPT !.hidden = @ \cup {n}]
    ELSE [markDirty(d, {n} \cup (Texts \cap Below(d, n))) EXCEPT !.hidden = @ \ {n}]

Rehang(d, n, fix) ==
    LET out == removeChild(d, n)
        in == [out EXCEPT !.fixed = IF fix THEN @ \cup {n} ELSE @ \ {n}]
    IN  insertChild(in, n)

MountFixedRenderNode(d, n, fix) ==
    IF fix = (n \in d.fixed) THEN d
    ELSE createContextRecursively(Changed(Rehang(d, n, fix), {n, d.home[n]}), n)

-----------------------------------------------------------------------------
(* A layout.  Yoga visits a node if its parent was visited, nothing above  *)
(* it is hidden, and it is dirty, has no layout, or gets another size (W). *)
(* Whoever has a visited parent leaves with a new layout and clean; of a   *)
(* hidden subtree the layouts are reset and only its top becomes clean.    *)
calcYGLayout(d, W) ==
    LET visited == {n \in Exists(d) :
            ({n} \cup Above(d, n)) \subseteq (d.dirty \cup d.cold \cup W) \ d.hidden}
        asked == {Root} \cup {n \in Exists(d) : ParentRef(d, n) \in visited}
        reset == UNION {{n} \cup Below(d, n) : n \in asked \cap d.hidden}
    IN  [d EXCEPT !.fresh = @ \cup asked \cup reset,
                  !.dirty = @ \ asked,
                  !.cold = (@ \ asked) \cup reset]

(* It goes down as long as Yoga has a new layout and display is not none.  *)
Applied(d) == {n \in Exists(d) :
    /\ {n} \cup Above(d, n) \subseteq d.fresh
    /\ Above(d, n) \cap d.hidden = {}}

(* It asks the children of every node it lays out.                         *)
Unmarked(d) ==
    LET laid == Applied(d) \ d.hidden
    IN  {Root} \cup {n \in Exists(d) : ParentRef(d, n) \in laid}

LayoutAll(d) ==
    LET laid == Applied(d)
    IN  SetDrawDirty(
            [ClearLayoutDirty(d, Unmarked(d)) EXCEPT
                !.fresh = @ \ laid, !.stale = @ \ laid],
            laid \cap Painted)

(* The queue is moved out before its page is laid out.                     *)
FlushLayout(d, W) ==
    IF d.toLayout THEN LayoutAll(calcYGLayout([d EXCEPT !.toLayout = FALSE], W))
    ELSE d

(* variant: the mark stays on.                                             *)
PaintMarked(d) == [d EXCEPT !.toPaint = {}]

FlushPaint(d) == [d EXCEPT !.drawn = @ \ d.toPaint, !.toPaint = {}]

-----------------------------------------------------------------------------
Init ==
    /\ page = [home |-> [n \in Nodes |-> None], fixed |-> {}, hidden |-> {},
               marked |-> {}, drawn |-> {}, stale |-> {},
               dirty |-> {}, cold |-> {}, fresh |-> {},
               toLayout |-> FALSE, toPaint |-> {}]
    /\ phase = "js"

(* Values of position and display that a style of n may have.              *)
MayFix(n) == IF n \in Fixable THEN BOOLEAN ELSE {FALSE}
MayHide(n) == IF n \in Hideable THEN BOOLEAN ELSE {FALSE}

CanHold(d, p) == p \in Exists(d) \ Texts

(* A new element is built in its place.                                    *)
AppendTaroNode(n, p) ==
    /\ phase = "js"
    /\ page.home[n] = None /\ CanHold(page, p)
    /\ \E fix \in MayFix(n), hide \in MayHide(n) :
          LET new == [page EXCEPT !.home[n] = p, !.cold = @ \cup {n},
                          !.fixed = IF fix THEN @ \cup {n} ELSE @,
                          !.hidden = IF hide THEN @ \cup {n} ELSE @]
              built == SetDrawDirty(SetStyle(insertChild(new, n), n, TRUE),
                                    {n} \cap Painted)
          IN  page' = Changed(IF fix THEN createContextRecursively(built, n) ELSE built,
                              {ParentRef(new, n)})
    /\ UNCHANGED phase

(* An element that was built is appended or inserted somewhere else.  Its  *)
(* style may depend on its new parent (align-self).                        *)
MoveTaroNode(n, p) ==
    LET moved == [removeChild(page, n) EXCEPT !.home[n] = p]
        below == Descendants(page, n)
    IN
    /\ phase = "js"
    /\ page.home[n] # None /\ n \notin page.fixed
    /\ CanHold(page, p) /\ p \notin {n} \cup below
    /\ \E isNew \in BOOLEAN :
          /\ "clean" \in Avoided => isNew \/ n \in page.dirty
          /\ "stranded" \in Avoided => page.toLayout \/ n \notin page.marked
          /\ page' = CheckIfYGDirty(
                         Changed(SetStyle(insertChild(moved, n), n, isNew),
                                 {n, p, page.home[n]}),
                         below)
    /\ UNCHANGED phase

(* variant: the parent is not marked.                                      *)
ParentUnmarked(d, p) == d

ParentMarked(d, p) == SetLayoutDirty(d, {p})

(* The subtree goes.  A fixed element stays on screen until it is removed  *)
(* itself, so there is none below.                                         *)
RemoveTaroNode(n) ==
    LET gone == {n} \cup Descendants(page, n)
        out == removeChild(page, n)
        left == [home |-> [m \in Nodes |-> IF m \in gone THEN None ELSE page.home[m]],
                 fixed |-> out.fixed \ gone, hidden |-> out.hidden \ gone,
                 marked |-> out.marked \ gone, drawn |-> out.drawn \ gone,
                 stale |-> out.stale \ gone, dirty |-> out.dirty \ gone,
                 cold |-> out.cold \ gone, fresh |-> out.fresh \ gone,
                 toLayout |-> out.toLayout, toPaint |-> out.toPaint \ gone]
    IN
    /\ phase = "js"
    /\ page.home[n] # None
    /\ page.fixed \cap Descendants(page, n) = {}
    /\ "detached" \in Avoided /\ n \in page.fixed => page.home[n] \in page.dirty \cup {Root}
    /\ page' = ParentMarked(
                   IF n \in page.fixed THEN left ELSE Changed(left, {page.home[n]}),
                   page.home[n])
    /\ UNCHANGED phase

(* variant: Yoga is not told to measure the text again.                    *)
RemeasureNothing(d, t) == d

SetTextMeasureFunc(d, t) == markDirty(d, {t})

(* A text gets new content: marked, and measured again.                    *)
UpdateContent(t) ==
    /\ phase = "js" /\ page.home[t] # None
    /\ LET marked == SetLayoutDirty(SetStyle(page, t, FALSE), {t})
       IN  page' = Changed(SetTextMeasureFunc(
                       SetDrawDirty(marked, {t} \cap Painted), t), {t})
    /\ UNCHANGED phase

(* An image in a text gets a new mode: SetContent returns early.           *)
SetImageMode(t) ==
    /\ phase = "js" /\ page.home[t] # None
    /\ "marked" \in Avoided => t \in page.dirty
    /\ page' = SetDrawDirty(SetLayoutDirty(page, {t}), {t} \cap Painted)
    /\ UNCHANGED phase

(* The flush resolves marked elements' styles before it lays out.          *)
FlushStart ==
    /\ phase = "js"
    /\ phase' = "style"
    /\ UNCHANGED page

Resolve(n) ==
    /\ phase = "style" /\ page.home[n] # None
    /\ \E fix \in MayFix(n), hide \in MayHide(n), resized \in BOOLEAN,
          redrawn \in SUBSET ({n} \cap Painted) :
          LET isNew == resized \/ fix # (n \in page.fixed) \/ hide # (n \in page.hidden)
          IN  page' = MountFixedRenderNode(
                          SetDrawDirty(SetStyle(SetDisplay(page, n, hide), n, isNew),
                                       redrawn),
                          n, fix)
    /\ UNCHANGED phase

Flush ==
    /\ phase = "style"
    /\ \E W \in SUBSET (Exists(page) \ ({Root} \cup page.dirty \cup page.cold)) :
          page' = FlushPaint(FlushLayout(page, W))
    /\ phase' = "js"

Next ==
    \/ \E n \in Nodes :
          \/ \E p \in All : AppendTaroNode(n, p) \/ MoveTaroNode(n, p)
          \/ RemoveTaroNode(n)
          \/ Resolve(n)
    \/ \E t \in Texts : UpdateContent(t) \/ SetImageMode(t)
    \/ FlushStart
    \/ Flush

Spec == Init /\ [][Next]_vars

-----------------------------------------------------------------------------
(* LayoutAwaited: whatever changed since a node was laid out last, in its  *)
(* style, content or children, waits for a layout that is asked for,       *)
(* unless something above hides the node (arkui_base_node.cpp:555, `laid   *)
(* out at the next vsync').                                                *)
LayoutAwaited == \A n \in page.stale : Reached(page, n) => page.toLayout

(* MarksQueued: a mark on a node that layout gets to never outlives the    *)
(* layout it asked for, for it would swallow the next (:551-558).          *)
MarksQueued == \A n \in page.marked : Reached(page, n) => page.toLayout

(* PaintAwaited: a node is marked for painting exactly while it waits in   *)
(* the queue, across the marks that layout sets in a flush                 *)
(* (arkui_node.cpp:606-619, 964).                                          *)
PaintAwaited == page.drawn = page.toPaint
===============================================================================
