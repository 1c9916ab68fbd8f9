------------------------------ MODULE Document ------------------------------
(***************************************************************************)
(* The DOM of one page, the render tree built from it and the native tree  *)
(* the frame's mount phase brings up to date.                              *)
(*                                                                         *)
(*   exports/document.cpp      the calls of JS, one action each            *)
(*   runtime/dom/node.cpp      child lists and sibling pointers            *)
(*   runtime/dom/element       style marks, build, static and fixed mounts *)
(*   runtime/cssom/resolver    the pass over the marked elements           *)
(*   dom/ark_nodes/arkui_node  children of render nodes, delayed calls     *)
(*                                                                         *)
(* All of it runs on MAIN, so a handler is one step: an operator from a    *)
(* document to the document it leaves, named after the function.  Elements *)
(* are plain views; their style is reduced to `position', the property     *)
(* that decides where a view is mounted.  A render node is <<e, k>>: the   *)
(* k-th one built for element e.                                           *)
(*                                                                         *)
(* Some sequences of calls this code does not get right.  Each has a name, *)
(* noted in `flaws' where it happens; a run chooses which ones JS avoids,  *)
(* so that the properties say what holds of all the others:                *)
(*   "replace"    a child with a follower is replaced: replaceChild and    *)
(*                the removal inside it both write the follower's pointer, *)
(*                the stale one last                                       *)
(*   "rebuild"    a built element with children goes under an unbuilt      *)
(*                parent, is built again and leaves its children behind    *)
(*   "movefixed"  a fixed element is moved and not mounted again           *)
(*   "movemarked" an element is moved while something below it is marked:  *)
(*                the marks no longer lead there from the page             *)
(*   "between"    an element is built before the siblings on both sides of *)
(*                it while one further on has its place: it comes last     *)
(*   "miscount"   a delayed insertion is skipped although the index of a   *)
(*                later one counts it                                      *)
(***************************************************************************)
EXTENDS Naturals, Sequences, FiniteSets, SequencesExt, Lists, TLC

CONSTANTS
    Nodes,          \* elements JS creates beside the page
    Page,           \* the page element, a child of the app element
    None,           \* a null pointer
    MaxBuilds,      \* bound: render nodes built for one element
    MaxCalls,       \* bound: delayed calls between two frames
    MaxRestyles,    \* bound: style changes of a behaviour
    Avoided         \* flaws, see above, that JS does not run into

ConstantsBounded ==
    /\ IsFiniteSet(Nodes) /\ Page \notin Nodes
    /\ None \notin Nodes \cup {Page, "static", "fixed"}
    /\ None \notin (Nodes \cup {Page}) \X Nat
    /\ MaxBuilds \in Nat \ {0} /\ MaxCalls \in Nat /\ MaxRestyles \in Nat
    /\ Avoided \subseteq {"replace", "rebuild", "movefixed", "movemarked", "between", "miscount"}

VARIABLES
    doc,        \* elements and render nodes, one record
    native,     \* the children of each native node, by render node
    restyles    \* style changes so far

vars == <<doc, native, restyles>>

Elements == Nodes \cup {Page}
Positions == {"static", "fixed"}
FixedRoot == <<Page, 0>>
RenderNodes == {FixedRoot} \cup (Elements \X (1 .. MaxBuilds))

(* The render node of an element; the page's is the one its children mount on. *)
RenderOf(d, e) == <<e, d.build[e]>>
Built(d, e) == d.build[e] > 0

IndexOf(s, x) == CHOOSE i \in 1 .. Len(s) : s[i] = x
Erased(s, x) == IF Contains(s, x) THEN RemoveAt(s, IndexOf(s, x)) ELSE s

(* parent_ref_, set and reset together with children_refs_.               *)
ParentRef(d, r) ==
    IF \E q \in DOMAIN d.kids : Contains(d.kids[q], r)
    THEN CHOOSE q \in DOMAIN d.kids : Contains(d.kids[q], r) ELSE None

(* The least set with e and the children of its members.                   *)
Subtree(d, e) ==
    LET Closed == {S \in SUBSET Elements :
                    e \in S /\ \A p \in S : ToSet(d.children[p]) \subseteq S}
    IN  {n \in Elements : \A S \in Closed : n \in S}

-----------------------------------------------------------------------------
(* Render nodes.  children_refs_ changes at once, the native tree when the *)
(* delayed call is made.                                                   *)
addDelayedCall(d, op, q, r, i) ==
    [d EXCEPT !.calls = Append(@, [op |-> op, parent |-> q, child |-> r, index |-> i])]

InsertRender(d, op, q, r, i) ==
    addDelayedCall([d EXCEPT !.kids[q] = InsertAt(@, i, r)], op, q, r, i)

AppendChild(d, q, r) == InsertRender(d, "add", q, r, Len(d.kids[q]) + 1)

InsertBeside(d, q, r, sibling, offset) ==
    IF Contains(d.kids[q], sibling)
    THEN InsertRender(d, "insert", q, r, IndexOf(d.kids[q], sibling) + offset)
    ELSE d

(* From whatever parent it has: a fixed node hangs from the fixed root.    *)
RemoveChild(d, r) ==
    LET q == ParentRef(d, r) IN
    IF q = None THEN d
    ELSE addDelayedCall([d EXCEPT !.kids[q] = Erased(@, r)], "remove", q, r, 0)

-----------------------------------------------------------------------------
(* Building elements.                                                      *)
StaticSibling(d, link, e) ==      \* GetPrevious/NextStaticSibling
    LET hop[k \in 0 .. Cardinality(Nodes)] ==
            IF k = 0 THEN link[e]
            ELSE LET s == hop[k - 1]
                 IN  IF s = None THEN None ELSE IF d.style[s] = "fixed" THEN link[s] ELSE s
    IN  hop[Cardinality(Nodes)]

(* variant: takes the nearest siblings, fixed ones included.               *)
InsertBesideNeighbour(d, e) ==
    LET q == RenderOf(d, d.parent[e])
        Usable(s) == s # None /\ d.init[s]
    IN  IF ~Built(d, d.parent[e]) THEN d
        ELSE IF Usable(d.prev[e])
        THEN InsertBeside(d, q, RenderOf(d, e), RenderOf(d, d.prev[e]), 1)
        ELSE IF Usable(d.next[e])
        THEN InsertBeside(d, q, RenderOf(d, e), RenderOf(d, d.next[e]), 0)
        ELSE AppendChild(d, q, RenderOf(d, e))

AppendOrInsertIntoParent(d, e) ==
    LET q == RenderOf(d, d.parent[e])
        Usable(s) == s # None /\ d.init[s]
        prev == StaticSibling(d, d.prev, e)
        next == StaticSibling(d, d.next, e)
    IN  IF ~Built(d, d.parent[e]) THEN d
        ELSE IF Usable(prev) THEN InsertBeside(d, q, RenderOf(d, e), RenderOf(d, prev), 1)
        ELSE IF Usable(next) THEN InsertBeside(d, q, RenderOf(d, e), RenderOf(d, next), 0)
        ELSE AppendChild(d, q, RenderOf(d, e))

(* Then e comes last, though a child behind it is mounted.                 *)
Misplaced(d, e) ==
    LET s == d.children[d.parent[e]]
        Usable(n) == n # None /\ d.init[n]
    IN  /\ ~Usable(StaticSibling(d, d.prev, e)) /\ ~Usable(StaticSibling(d, d.next, e))
        /\ \E i, j \in DOMAIN s :
              i < j /\ s[i] = e /\ d.init[s[j]] /\ d.style[s[j]] = "static"

(* variant: mounts on the new parent without leaving the old one.          *)
MountTwice(d, e, old) ==
    CASE d.style[e] = "fixed" /\ old # "fixed" -> AppendChild(d, FixedRoot, RenderOf(d, e))
      [] d.style[e] = "static" /\ old = "fixed" -> AppendOrInsertIntoParent(d, e)
      [] OTHER -> d

(* old: the position the render node was last given, None if it is new.    *)
MountFixedRenderNode(d, e, old) ==
    CASE d.style[e] = "fixed" /\ old = None -> AppendChild(d, FixedRoot, RenderOf(d, e))
      [] d.style[e] = "fixed" /\ old = "static" ->
            AppendChild(RemoveChild(d, RenderOf(d, e)), FixedRoot, RenderOf(d, e))
      [] d.style[e] = "static" /\ old = "fixed" ->
            AppendOrInsertIntoParent(RemoveChild(d, RenderOf(d, e)), e)
      [] OTHER -> d

PreBuild(d, e) == IF d.init[e] THEN d ELSE [d EXCEPT !.style[e] = d.want[e]]

NewRenderNode(d, e) ==
    LET r == <<e, d.build[e] + 1>>
    IN  [d EXCEPT !.build[e] = @ + 1,
                  !.kids = [q \in DOMAIN d.kids \cup {r} |-> IF q = r THEN <<>> ELSE d.kids[q]]]

Build(d, e) == IF d.init[e] \/ d.ignore[e] THEN d ELSE NewRenderNode(d, e)

MountsAtBuild(d, e) ==
    ~d.init[e] /\ d.style[e] = "static" /\ d.parent[e] # None /\ d.init[d.parent[e]]

PostBuild(d, e, old) ==
    LET mounted == IF MountsAtBuild(d, e) THEN AppendOrInsertIntoParent(d, e) ELSE d
    IN  MountFixedRenderNode([mounted EXCEPT !.init[e] = TRUE], e, old)

BuildProcess(d, e, before) ==
    LET renewed == ~d.init[e] /\ ~d.ignore[e]
        old == IF renewed \/ ~Built(d, e) THEN None ELSE before
        matched == PreBuild(d, e)
        flaw == (IF renewed /\ Built(d, e) /\ \E c \in Nodes : d.parent[c] = e /\ d.init[c]
                 THEN {"rebuild"} ELSE {})
                \cup (IF ~d.init[e] /\ old = "fixed" /\ matched.style[e] = "fixed"
                      THEN {"movefixed"} ELSE {})
                \cup (IF MountsAtBuild(matched, e) /\ Misplaced(matched, e)
                      THEN {"between"} ELSE {})
    IN  PostBuild([Build(matched, e) EXCEPT !.ignore[e] = FALSE,
                                            !.flaws = @ \cup flaw], e, old)

(* An element before its children, and those in order: what is left to do  *)
(* is a stack.  No element is met twice, so as many steps are enough.      *)
BuildNext(s) ==
    IF s.todo = <<>> THEN s
    ELSE LET e == Head(s.todo)
         IN  [doc |-> BuildProcess(s.doc, e, s.doc.style[e]),
              todo |-> s.doc.children[e] \o Tail(s.todo)]
BuildElement(d, e) ==
    LET built[k \in 0 .. Cardinality(Elements)] ==
            IF k = 0 THEN [doc |-> d, todo |-> <<e>>] ELSE BuildNext(built[k - 1])
    IN  built[Cardinality(Elements)].doc

-----------------------------------------------------------------------------
(* The node tree.                                                          *)

(* `new' is the node whose method detaches e: its next parent, or the      *)
(* parent it is removed from.                                              *)
detachTaroNodeReference(d, new, e) ==
    LET p == d.parent[e]
        i == IndexOf(d.children[p], e)
        Before == IF i > 1 THEN {d.children[p][i - 1]} ELSE {}
        After == IF i < Len(d.children[p]) THEN {d.children[p][i + 1]} ELSE {}
        unlinked ==
            [d EXCEPT
                !.next = [n \in Elements |->
                    IF n \in Before THEN d.next[e] ELSE IF n = e THEN None ELSE @[n]],
                !.prev = [n \in Elements |->
                    IF n \in After THEN d.prev[e] ELSE IF n = e THEN None ELSE @[n]],
                !.children[p] = RemoveAt(@, i),
                !.parent[e] = None]
        unmounted == IF Built(d, p) THEN RemoveChild(unlinked, RenderOf(d, e)) ELSE unlinked
    IN  IF p = None THEN d
        ELSE IF ~d.init[e] THEN unlinked
        ELSE [unmounted EXCEPT !.ignore[e] = @ \/ (Built(d, e) /\ Built(d, new)),
                               !.init[e] = FALSE]

(* The element and its subtree leave the registry, and were owned by       *)
(* nothing else: the destructors unmount the fixed ones.                   *)
DestroyNext(s) ==
    IF s.todo = <<>> THEN s
    ELSE LET e == Head(s.todo)
         IN  [doc |-> IF Built(s.doc, e) /\ s.doc.style[e] = "fixed"
                      THEN RemoveChild(s.doc, RenderOf(s.doc, e)) ELSE s.doc,
              todo |-> s.doc.children[e] \o Tail(s.todo)]
Destroy(d, e) ==
    LET gone[k \in 0 .. Cardinality(Elements)] ==
            IF k = 0 THEN [doc |-> d, todo |-> <<e>>] ELSE DestroyNext(gone[k - 1])
    IN  gone[Cardinality(Elements)].doc

(* What is left of the elements in gone: weak pointers to them are null.   *)
Bury(d, gone) ==
    LET Unless(f, v) == [n \in Elements |-> IF n \in gone THEN v ELSE f[n]]
        Null(f) == [n \in Elements |-> IF n \in gone \/ f[n] \in gone THEN None ELSE f[n]]
    IN  [d EXCEPT !.registry = @ \ gone, !.children = Unless(@, <<>>),
                  !.parent = Null(@), !.prev = Null(@), !.next = Null(@),
                  !.init = Unless(@, FALSE), !.ignore = Unless(@, FALSE),
                  !.build = Unless(@, 0), !.style = Unless(@, "static"),
                  !.want = Unless(@, "static"),
                  !.invalid = @ \ gone, !.descend = @ \ gone]

removeChild(d, p, e) ==
    LET detached == detachTaroNodeReference(d, p, e)
    IN  Bury(Destroy(detached, e), Subtree(detached, e))

(* variant: the follower keeps its pointer to the one before.              *)
LinkHalf(d, p, e, i, prev, next) ==
    [d EXCEPT !.children[p] = InsertAt(@, i, e),
              !.parent[e] = p,
              !.prev[e] = prev,
              !.next = [n \in Elements |->
                  IF n = e THEN next ELSE IF n = prev THEN e ELSE @[n]]]

(* Links e into the children of p at position i, between prev and next.    *)
Link(d, p, e, i, prev, next) ==
    [d EXCEPT !.children[p] = InsertAt(@, i, e),
              !.parent[e] = p,
              !.prev = [n \in Elements |->
                  IF n = e THEN prev ELSE IF n = next THEN e ELSE @[n]],
              !.next = [n \in Elements |->
                  IF n = e THEN next ELSE IF n = prev THEN e ELSE @[n]],
              !.flaws = @ \cup
                  IF e \in d.descend /\ (~d.dirty \/ (p # Page /\ p \notin d.descend))
                  THEN {"movemarked"} ELSE {}]

appendChild(d, p, e) ==
    LET free == detachTaroNodeReference(d, p, e)
        s == free.children[p]
    IN  Link(free, p, e, Len(s) + 1, IF s = <<>> THEN None ELSE Last(s), None)

insertBefore(d, p, e, ref) ==
    LET free == detachTaroNodeReference(d, p, e)
    IN  Link(free, p, e, IndexOf(free.children[p], ref), free.prev[ref], ref)

replaceChild(d, p, e, old) ==
    LET free == detachTaroNodeReference(d, p, e)
        linked == Link(free, p, e, IndexOf(free.children[p], old), free.prev[old], free.next[old])
        (* The follower gets the pointer `old' had when it is detached.    *)
        flawed == [linked EXCEPT !.flaws = @ \cup
                      IF Last(linked.children[p]) # old THEN {"replace"} ELSE {}]
    IN  removeChild(flawed, p, old)

-----------------------------------------------------------------------------
(* Styles.                                                                 *)
(* From parent to parent up to one that is marked: the least set of marks  *)
(* with the parents of e and of what is marked here.                       *)
markAncestorsForInvalidatedStyle(d, e) ==
    LET Marked == {M \in SUBSET Elements :
                    /\ d.descend \subseteq M
                    /\ \A n \in {e} \cup (M \ d.descend) : d.parent[n] \in M \cup {None}}
    IN  [d EXCEPT !.descend = {n \in Elements : \A M \in Marked : n \in M}]

(* variant: marks the parent only.                                         *)
InvalidateBelowParent(d, e) ==
    [d EXCEPT !.invalid = @ \cup {e}, !.dirty = @ \/ Built(d, e),
              !.descend = @ \cup ({d.parent[e]} \ {None})]

invalidateStyle(d, e) ==
    [markAncestorsForInvalidatedStyle([d EXCEPT !.invalid = @ \cup {e}], e)
        EXCEPT !.dirty = @ \/ Built(d, e)]

(* One child of the element the resolver has popped.                       *)
ResolveChild(d, e) ==
    IF e \notin d.invalid THEN d
    ELSE LET matched == [d EXCEPT !.invalid = @ \ {e}, !.style[e] = d.want[e]]
         IN  BuildProcess(matched, e, d.style[e])

(* StyleTreeResolver::resolver over its stack, the top first: pops an      *)
(* element and looks at its children, the last one first.  A child is      *)
(* pushed for its mark, and no mark is set meanwhile.                      *)
ResolveNext(s, e) ==
    LET resolved == ResolveChild(s.doc, e)
    IN  IF e \in s.doc.descend
        THEN [doc |-> [resolved EXCEPT !.descend = @ \ {e}], todo |-> <<e>> \o s.todo]
        ELSE [doc |-> resolved, todo |-> s.todo]
ResolveChildren(s) ==
    IF s.todo = <<>> THEN s
    ELSE LET es == s.doc.children[Head(s.todo)]
             seen[k \in 0 .. Len(es)] ==
                IF k = 0 THEN [doc |-> s.doc, todo |-> Tail(s.todo)]
                ELSE ResolveNext(seen[k - 1], es[Len(es) + 1 - k])
         IN  seen[Len(es)]
resolver(d, e) ==
    LET popped[k \in 0 .. 1 + Cardinality(d.descend)] ==
            IF k = 0 THEN [doc |-> d, todo |-> <<e>>] ELSE ResolveChildren(popped[k - 1])
    IN  popped[1 + Cardinality(d.descend)].doc

FlushStyle(d) == IF d.dirty THEN [resolver(d, Page) EXCEPT !.dirty = FALSE] ELSE d

-----------------------------------------------------------------------------
(* FlushMount makes the delayed calls in order.  ArkUI's children: a call  *)
(* past the end appends, removing a child that is not there does nothing.  *)
addChild(s, r) == Append(s, r)
insertChildAt(s, r, i) == InsertAt(s, IF i > Len(s) THEN Len(s) + 1 ELSE i, r)

(* variant: removals of a child that is mounted again are skipped, too.    *)
SkippedAlways(d, c) == ParentRef(d, c.child) = None

(* An insertion is not made when the child has been unmounted since.       *)
Skipped(d, c) == c.op # "remove" /\ ParentRef(d, c.child) = None

Miscounts(d) ==
    LET On(i, op, f, v) == d.calls[i].op = op /\ d.calls[i][f] = v
        c == d.calls
    IN  IF \E i, j \in DOMAIN c :
                /\ i < j /\ Skipped(d, c[i]) /\ On(j, "insert", "parent", c[i].parent)
                /\ ~\E k \in i .. j : On(k, "remove", "child", c[i].child)
        THEN {"miscount"} ELSE {}

MakeCall(d, n, c) ==
    LET s == n[c.parent] IN
    IF Skipped(d, c) THEN n
    ELSE [n EXCEPT ![c.parent] = CASE c.op = "add" -> addChild(s, c.child)
                                   [] c.op = "insert" -> insertChildAt(s, c.child, c.index)
                                   [] OTHER -> Erased(s, c.child)]
Replay(d, n, calls) ==
    LET made[k \in 0 .. Len(calls)] ==
            IF k = 0 THEN n ELSE MakeCall(d, made[k - 1], calls[k])
    IN  made[Len(calls)]

(* Render nodes that nothing holds any more are destroyed.                 *)
Held(d, r) ==
    \/ r \in {FixedRoot} \cup {RenderOf(d, e) : e \in d.registry}
    \/ \E i \in DOMAIN d.calls : r \in {d.calls[i].parent, d.calls[i].child}
Become(d, n) ==
    LET held == {r \in DOMAIN d.kids : Held(d, r)}
    IN  /\ doc' = [d EXCEPT !.kids = [r \in held |-> @[r]]]
        /\ native' = [r \in held |-> IF r \in DOMAIN n THEN n[r] ELSE <<>>]

-----------------------------------------------------------------------------
Init ==
    /\ doc = [registry |-> {Page}, born |-> {Page},
              children |-> [e \in Elements |-> <<>>],
              parent |-> [e \in Elements |-> None],
              prev |-> [e \in Elements |-> None],
              next |-> [e \in Elements |-> None],
              init |-> [e \in Elements |-> FALSE],
              ignore |-> [e \in Elements |-> FALSE],
              build |-> [e \in Elements |-> 0],
              style |-> [e \in Elements |-> "static"],
              want |-> [e \in Elements |-> "static"],
              invalid |-> {}, descend |-> {}, dirty |-> FALSE,
              kids |-> [r \in {FixedRoot} |-> <<>>],
              calls |-> <<>>, flaws |-> {}]
    /\ native = [r \in {FixedRoot} |-> <<>>]
    /\ restyles = 0

(* A call of JS that leaves the document d.                                *)
Leave(d) ==
    /\ \A e \in Elements : d.build[e] <= MaxBuilds
    /\ Len(d.calls) <= MaxCalls /\ d.flaws \cap Avoided = {}
    /\ Become(d, native)

BuildIfInit(d, p, e) == IF d.init[p] THEN BuildElement(d, e) ELSE d

CreateTaroNode(e) ==
    /\ e \notin doc.born
    /\ Leave([doc EXCEPT !.registry = @ \cup {e}, !.born = @ \cup {e}])
    /\ UNCHANGED restyles

(* The app element takes the page and builds it; once.                     *)
AppendPage ==
    /\ ~Built(doc, Page)
    /\ Leave(BuildElement(doc, Page))
    /\ UNCHANGED restyles

AppendTaroNode(p, e) ==
    /\ Leave(BuildIfInit(appendChild(doc, p, e), p, e))
    /\ UNCHANGED restyles

InsertBeforeTaroNode(p, e, ref) ==
    /\ Leave(BuildIfInit(insertBefore(doc, p, e, ref), p, e))
    /\ UNCHANGED restyles

ReplaceTaroNode(p, e, old) ==
    /\ Leave(BuildIfInit(replaceChild(doc, p, e, old), p, e))
    /\ UNCHANGED restyles

RemoveTaroNode(p, e) ==
    /\ Leave(removeChild(doc, p, e))
    /\ UNCHANGED restyles

SetStyleAttribute(e, v) ==
    /\ e \in doc.registry /\ doc.want[e] # v /\ restyles < MaxRestyles
    /\ LET wanted == [doc EXCEPT !.want[e] = v]
       IN  Leave(IF doc.init[e] THEN invalidateStyle(wanted, e) ELSE wanted)
    /\ restyles' = restyles + 1

(* FlushUpdateTasks: styles first, the delayed calls last.                 *)
Flush ==
    /\ doc.dirty \/ doc.calls # <<>>
    /\ LET styled == FlushStyle(doc)
           flawed == [styled EXCEPT !.calls = <<>>, !.flaws = @ \cup Miscounts(styled)]
       IN  /\ flawed.flaws \cap Avoided = {}
           /\ Become(flawed, Replay(styled, native, styled.calls))
    /\ UNCHANGED restyles

(* JS keeps to the DOM's rule: no element below itself.                    *)
Places(e) == doc.registry \ Subtree(doc, e)

Next ==
    \/ \E e \in Nodes : CreateTaroNode(e)
    \/ AppendPage
    \/ \E e \in doc.registry \ {Page} : \E p \in Places(e) :
        \/ AppendTaroNode(p, e)
        \/ \E c \in ToSet(doc.children[p]) \ {e} :
            InsertBeforeTaroNode(p, e, c) \/ ReplaceTaroNode(p, e, c)
    \/ \E p \in doc.registry : \E c \in ToSet(doc.children[p]) : RemoveTaroNode(p, c)
    \/ \E e \in Nodes, v \in Positions : SetStyleAttribute(e, v)
    \/ Flush

Spec == Init /\ [][Next]_vars

-----------------------------------------------------------------------------
(* The structure is sound: child lists and parent pointers agree, every    *)
(* child of a registered element is registered, a render node hangs from   *)
(* one parent, and marks are on registered elements (node.cpp, arkui_node).*)
TypeOK ==
    /\ \A p, e \in Elements : Contains(doc.children[p], e) <=> doc.parent[e] = p
    /\ \A p \in Elements : IsInjective(doc.children[p])
    /\ \A p \in doc.registry : ToSet(doc.children[p]) \subseteq doc.registry
    /\ doc.invalid \cup doc.descend \subseteq doc.registry
    /\ DOMAIN doc.kids \subseteq RenderNodes /\ DOMAIN native = DOMAIN doc.kids
    /\ \A r \in DOMAIN doc.kids :
        /\ IsInjective(doc.kids[r])
        /\ \A q \in DOMAIN doc.kids \ {r} : ToSet(doc.kids[q]) \cap ToSet(doc.kids[r]) = {}

(* Append, insert, replace and remove each rewrite the sibling pointers    *)
(* beside the child list, and moves begin with a removal: whatever the     *)
(* calls of JS, the two agree, so AppendOrInsertIntoParent looks at the    *)
(* true neighbours.                                                        *)
SiblingPointers ==
    \A p \in Elements : LET s == doc.children[p] IN \A i \in DOMAIN s :
        /\ doc.prev[s[i]] = IF i = 1 THEN None ELSE s[i - 1]
        /\ doc.next[s[i]] = IF i = Len(s) THEN None ELSE s[i + 1]

(* Wherever elements are moved and whatever becomes fixed or static again, *)
(* a built element's render node holds those of its static children in the *)
(* order of the DOM, and the page's fixed root holds the fixed ones, also  *)
(* below a moved or removed ancestor (AppendOrInsertIntoParent,            *)
(* MountFixedRenderNode, detachTaroNodeReference, the destructors).        *)
StaticHeads(e) ==
    LET static == Without(doc.children[e],
                          {c \in Elements : ~doc.init[c] \/ doc.style[c] = "fixed"})
    IN  [i \in DOMAIN static |-> RenderOf(doc, static[i])]
RenderOrder ==
    /\ \A e \in doc.registry : Built(doc, e) => doc.kids[RenderOf(doc, e)] = StaticHeads(e)
    /\ ToSet(doc.kids[FixedRoot]) =
          {RenderOf(doc, e) : e \in {n \in doc.registry : doc.init[n] /\ doc.style[n] = "fixed"}}

(* After a frame the native tree is the render tree: the calls were made   *)
(* later than the changes they stand for, with the indices of that time,   *)
(* past moves, removals, deaths and render nodes built again.              *)
NativeMirrors == doc.calls = <<>> => native = doc.kids

(* "Recomputed in the next vsync" (element.cpp:238): when no resolution is *)
(* queued, the elements of the page show the style JS wants.  The resolver *)
(* only follows marks, which stop at the first ancestor already marked.    *)
StyleFresh ==
    ~doc.dirty => \A e \in Elements :
        doc.init[e] /\ doc.style[e] # doc.want[e] => e \notin Subtree(doc, Page)
=============================================================================
