----------------------------- MODULE StyleSheet -----------------------------
(***************************************************************************)
(* Which rules of a style sheet an element of a page shows.                *)
(*                                                                         *)
(*   runtime/cssom/CSSStyleSheet          matching selectors, the cascade  *)
(*   runtime/cssom/invalidations          what a class change makes stale  *)
(*   runtime/dom/class_list.cpp           the classes of an element        *)
(*   runtime/dom/element, exports         builds, marks, the calls of JS   *)
(*                                                                         *)
(* All of it runs on MAIN, so a handler is one step: an operator from a    *)
(* document to the one it leaves.  A rule is a selector, a sequence of     *)
(* classes with the combinator that leads to each from the one before,     *)
(* subject first, and a pseudo class or element.  All rules declare the    *)
(* same property: a style is the set of rules the cascade may leave last   *)
(* (std::sort does not say which of equal size).                           *)
(*                                                                         *)
(* Sequences of calls this code does not get right, by name as in          *)
(* Document; a run chooses which of them JS avoids:                        *)
(*   "deep"       a class matters two parents further down (.a > .b > .c): *)
(*                only the children are marked when it changes             *)
(*   "moved"      an element with descendants gets another parent: only    *)
(*                the element is matched again                             *)
(*   "siblings"   a change of a child list changes what :first-child,      *)
(*                :last-child or :nth-child say of the other children      *)
(*   "emptied"    the last child of an :empty candidate moves elsewhere    *)
(*   "movemarked" as in Document                                           *)
(*   "forgotten"  a move resets the class list to the class attribute,     *)
(*                which classList calls do not change                      *)
(*   "early"      a classList call on an element that is not built         *)
(*   "doubled"    replace with a class already there enters it twice       *)
(*   "toggle"     toggle without force does what leaves all as it is       *)
(***************************************************************************)
EXTENDS Integers, Sequences, FiniteSets, SequencesExt, Functions

CONSTANTS
    Nodes,          \* elements JS creates beside the page
    Page,           \* the page element
    None,           \* no element; above the page, the one of the app, without a class
    Classes,
    Attributes,     \* the class attributes elements are created with
    Sheets,         \* the style sheets of the instance, sequences of rules
    MaxChanges,     \* bound: class changes of a behaviour
    Avoided         \* flaws, see above, that JS does not run into

(* Selectors on which matching follows CSS: after the nearest ancestor     *)
(* with a class nothing else is asked of it or its parent, and an+b counts *)
(* from the first child on.                                                *)
ConstantsBounded ==
    /\ Page \notin Nodes /\ None \notin Nodes \cup {Page}
    /\ Attributes \subseteq SUBSET Classes /\ MaxChanges \in Nat
    /\ \A sheet \in Sheets : \A r \in ToSet(sheet) :
        /\ r.selector[1].match = "subject"
        /\ \A i, j \in DOMAIN r.selector :
              i < j /\ r.selector[i].match = "ancestor" => r.selector[j].match = "ancestor"
        /\ r.pseudo = "nth" => r.a \in Nat /\ r.b \in Int /\ (r.a = 0 \/ r.b <= r.a)

VARIABLES
    rules,      \* the style sheet of the page
    dom,        \* elements, their classes, styles and marks, one record
    attr,       \* the class attribute as JS last set it
    classes,    \* the classes JS gave an element, by whatever call
    changes     \* class changes so far

vars == <<rules, dom, attr, classes, changes>>

Elements == Nodes \cup {Page}
NoClass == [c \in Classes |-> 0]
Bare == [own |-> {}, before |-> {}, after |-> {}]

Children(d, e) == ToSet(d.children[e])
Siblings(d, e) == d.children[d.parent[e]]
Position(d, e) == CHOOSE i \in DOMAIN Siblings(d, e) : Siblings(d, e)[i] = e

RECURSIVE Ancestors(_, _)
Ancestors(d, e) ==
    IF d.parent[e] = None THEN {} ELSE {d.parent[e]} \cup Ancestors(d, d.parent[e])
Descendants(d, e) == {n \in Elements : e \in Ancestors(d, n)}

-----------------------------------------------------------------------------
(* Matching.                                                               *)
HasClass(d, e, c) == d.class_list[e][c] > 0

RECURSIVE Nearest(_, _, _)
Nearest(d, e, c) ==
    IF e = None \/ HasClass(d, e, c) THEN e ELSE Nearest(d, d.parent[e], c)

(* One turn of the loop over a rule's combinators: the current element or, *)
(* when matchFlag is cleared, None.                                        *)
Follow(d, current, combinator) ==
    LET If(e) == IF e # None /\ HasClass(d, e, combinator.class) THEN e ELSE None
    IN  CASE current = None -> None
          [] combinator.match \in {"subject", "multiple"} -> If(current)
          [] combinator.match = "parent" -> If(d.parent[current])
          [] combinator.match = "ancestor" ->
                Nearest(d, d.parent[current], combinator.class)

MatchNestingSelector(d, e) ==
    {r \in DOMAIN rules :
        FoldLeft(LAMBDA current, c : Follow(d, current, c), e, rules[r].selector) # None}

applyIfNeed(d, e, rule) ==
    LET pseudo == rule.pseudo IN
    CASE pseudo = "none" -> TRUE
      [] pseudo = "first" -> d.parent[e] # None /\ e = Siblings(d, e)[1]
      [] pseudo = "last" -> d.parent[e] # None /\ e = Last(Siblings(d, e))
      [] pseudo = "empty" -> d.children[e] = <<>>
      [] pseudo = "nth" ->
            /\ d.parent[e] # None
            /\ IF rule.a = 0 THEN Position(d, e) = rule.b
               ELSE (Position(d, e) - rule.b) % rule.a = 0
      [] OTHER -> FALSE

(* The longest selectors win.                                              *)
Winners(rs) ==
    {r \in rs : \A q \in rs : Len(rules[q].selector) <= Len(rules[r].selector)}
Cascade(matched, applied) ==
    [own |-> Winners(applied),
     before |-> Winners({r \in matched : rules[r].pseudo = "before"}),
     after |-> Winners({r \in matched : rules[r].pseudo = "after"})]

(* CombineCascadeStyle: without a rule it leaves has_empty_selector_.      *)
MatchStylesheet(d, es) ==
    LET Matched == [e \in es |-> MatchNestingSelector(d, e)]
    IN  [d EXCEPT
            !.style = [e \in Elements |->
                IF e \notin es THEN @[e]
                ELSE Cascade(Matched[e], {r \in Matched[e] : applyIfNeed(d, e, rules[r])})],
            !.empty = {e \in Elements :
                IF e \in es /\ Matched[e] # {}
                THEN \E r \in Matched[e] : rules[r].pseudo = "empty"
                ELSE e \in @}]

-----------------------------------------------------------------------------
(* Marks.  An element marks its ancestors up to the first one marked.      *)
markAncestorsForInvalidatedStyle(d, e) ==
    {a \in Ancestors(d, e) :
        \A m \in d.descend \cap Ancestors(d, e) : a # m /\ a \notin Ancestors(d, m)}

invalidateStyle(d, es) ==
    [d EXCEPT !.invalid = @ \cup es,
              !.descend = @ \cup UNION {markAncestorsForInvalidatedStyle(d, e) : e \in es},
              !.dirty = @ \/ es \cap d.init # {}]

(* variant: takes the combinator of descendants for the one of children.   *)
MarkChildrenOnly(d, e, cs) ==
    LET named == {r \in ToSet(rules) : \E c \in ToSet(r.selector) : c.class \in cs}
        Nested == \E r \in named : \E c \in ToSet(r.selector) :
                      c.match \in {"parent", "ancestor"}
    IN  {n \in {e} : named # {}} \cup {n \in Children(d, e) : Nested}

(* Every rule that names one of the classes, for each of its combinators.  *)
markElementUpdateStyle(d, e, cs) ==
    LET named == {r \in ToSet(rules) : \E c \in ToSet(r.selector) : c.class \in cs}
        Some(match) == \E r \in named : \E c \in ToSet(r.selector) : c.match = match
    IN  {n \in {e} : named # {}}
        \cup {n \in Children(d, e) : Some("parent")}
        \cup {n \in Descendants(d, e) : Some("ancestor")}

(* The class list becomes `list'; the element is bound once it was built.  *)
Relist(d, e, list, bound) ==
    LET changed == {c \in Classes : list[c] # d.class_list[e][c]}
        relisted == [d EXCEPT !.class_list[e] = list]
        deep == \E r \in ToSet(rules) : \E i, j \in DOMAIN r.selector :
                    /\ 1 < i /\ i < j /\ r.selector[j].class \in changed
                    /\ {r.selector[i].match, r.selector[j].match} = {"parent"}
                    /\ \A c \in ToSet(r.selector) : c.match # "ancestor"
    IN  IF ~bound \/ changed = {} THEN relisted
        ELSE invalidateStyle(
                [relisted EXCEPT !.flaws = @ \cup
                    IF deep /\ Descendants(d, e) # Children(d, e) THEN {"deep"} ELSE {}],
                markElementUpdateStyle(d, e, changed))

reset(list, cs) ==
    [c \in Classes |-> IF c \notin cs THEN 0 ELSE IF list[c] = 0 THEN 1 ELSE list[c]]

CheckMatchEmptySelector(d, p) == IF p \in d.empty THEN invalidateStyle(d, {p}) ELSE d

(* The resolver descends from the page along the marks and takes them off. *)
resolver(d) ==
    LET Reached == {e \in Elements : e = Page \/
                        (Page \in Ancestors(d, e) /\ ({e} \cup Ancestors(d, e)) \ {Page}
                                                        \subseteq d.descend)}
        Visited == {n \in Elements : d.parent[n] \in Reached}
    IN  [MatchStylesheet(d, Visited \cap d.invalid)
            EXCEPT !.invalid = @ \ Visited, !.descend = @ \ Visited, !.dirty = FALSE]

-----------------------------------------------------------------------------
(* Builds and the tree.                                                    *)

(* PreBuild of what is not built in the subtree, from the top: attributes, *)
(* class list, match.  The root was bound before if it was built.          *)
BuildElement(d, e, bound) ==
    LET fresh == ({e} \cup Descendants(d, e)) \ d.init
        known == [d EXCEPT !.init = IF bound THEN @ \cup {e} ELSE @]
        rooted == Relist(known, e, reset(d.class_list[e], attr[e]), bound)
        listed == [rooted EXCEPT !.class_list = [n \in Elements |->
                      IF n \in fresh \ {e} THEN reset(@[n], attr[n]) ELSE @[n]]]
    IN  [MatchStylesheet(listed, fresh) EXCEPT !.init = @ \cup fresh]

detachTaroNodeReference(d, e) ==
    IF d.parent[e] = None THEN d
    ELSE [d EXCEPT !.children[d.parent[e]] = Remove(@, e), !.parent[e] = None,
                   !.init = @ \ {e}]

Link(d, p, e, i) == [d EXCEPT !.children[p] = InsertAt(@, i, e), !.parent[e] = p]

(* What the flaws of a move from d to the tree of m have in common.        *)
Positional == {"first", "last", "nth"}
MoveFlaws(d, m, p, e) ==
    LET Answers(kinds, n) ==        \* whether a rule says another thing of n
            \E r \in ToSet(rules) :
                r.pseudo \in kinds /\ applyIfNeed(d, n, r) # applyIfNeed(m, n, r)
        others == (d.init \cap m.init) \ {e, Page}
        nested == \E r \in ToSet(rules) : \E c \in ToSet(r.selector) :
                      c.match \in {"parent", "ancestor"}
        flaw == [siblings |-> \E n \in others : Answers(Positional, n),
                 emptied |-> \E n \in others \ {p} : Answers({"empty"}, n),
                 moved |-> /\ e \in d.init /\ p # d.parent[e] /\ nested
                           /\ Descendants(d, e) # {},
                 movemarked |-> /\ e \in d.descend
                                /\ ~d.dirty \/ (p # Page /\ p \notin d.descend),
                 forgotten |-> e \in d.init /\ attr[e] # classes[e]]
    IN  {f \in DOMAIN flaw : flaw[f]}

(* e linked into p before ref, at the end without one.                     *)
Linked(p, e, ref) ==
    LET free == detachTaroNodeReference(dom, e)
        s == free.children[p]
    IN  Link(free, p, e, IF ref = None THEN Len(s) + 1
                         ELSE CHOOSE i \in DOMAIN s : s[i] = ref)

Unless(gone, f, v) == [n \in Elements |-> IF n \in gone THEN v ELSE f[n]]

(* The subtrees leave the registry; JS may create other elements.          *)
removeChild(d, p, e) ==
    LET gone == {e} \cup Descendants(d, e)
        unlinked == [d.children EXCEPT ![p] = Remove(@, e)]
    IN  [d EXCEPT !.children = Unless(gone, unlinked, <<>>),
                  !.parent = Unless(gone, @, None),
                  !.class_list = Unless(gone, @, NoClass),
                  !.style = Unless(gone, @, Bare),
                  !.born = @ \ gone, !.init = @ \ gone, !.empty = @ \ gone,
                  !.invalid = @ \ gone, !.descend = @ \ gone]

(* A parent that is built builds what was put into it.                     *)
Settle(d, p, e) ==
    LET built == IF p \in d.init THEN BuildElement(d, e, e \in dom.init) ELSE d
    IN  CheckMatchEmptySelector(
            [built EXCEPT !.flaws = @ \cup MoveFlaws(dom, built, p, e)], p)

-----------------------------------------------------------------------------
Init ==
    /\ rules \in Sheets
    /\ \E cs \in Attributes :
        /\ attr = [e \in Elements |-> IF e = Page THEN cs ELSE {}]
        /\ dom = MatchStylesheet(
                [born |-> {Page}, init |-> {Page},
                 children |-> [e \in Elements |-> <<>>],
                 parent |-> [e \in Elements |-> None],
                 class_list |-> [e \in Elements |->
                     IF e = Page THEN reset(NoClass, cs) ELSE NoClass],
                 style |-> [e \in Elements |-> Bare],
                 empty |-> {}, invalid |-> {}, descend |-> {}, dirty |-> FALSE,
                 flaws |-> {}], {Page})
    /\ classes = attr
    /\ changes = 0

Leave(d) == d.flaws \cap Avoided = {} /\ dom' = d

CreateTaroNode(e, cs) ==
    /\ e \notin dom.born
    /\ Leave([dom EXCEPT !.born = @ \cup {e}])
    /\ attr' = [attr EXCEPT ![e] = cs] /\ classes' = [classes EXCEPT ![e] = cs]
    /\ UNCHANGED <<rules, changes>>

(* JS keeps to the DOM's rule, no element below itself, and takes an       *)
(* element off the page by removing it only.                               *)
Legal(p, e) ==
    /\ {p, e} \subseteq dom.born /\ e # Page /\ p # e /\ e \notin Ancestors(dom, p)
    /\ e \in dom.init => p \in dom.init

AppendTaroNode(p, e) ==
    /\ Legal(p, e)
    /\ Leave(Settle(Linked(p, e, None), p, e))
    /\ UNCHANGED <<rules, attr, classes, changes>>

InsertBeforeTaroNode(p, e, ref) ==
    /\ Legal(p, e) /\ ref # e
    /\ Leave(Settle(Linked(p, e, ref), p, e))
    /\ UNCHANGED <<rules, attr, classes, changes>>

Forget(gone) ==
    /\ attr' = Unless(gone, attr, {}) /\ classes' = Unless(gone, classes, {})
    /\ UNCHANGED <<rules, changes>>

RemoveTaroNode(p, e) ==
    LET left == removeChild(dom, p, e)
        flaws == MoveFlaws(dom, left, p, e) \cap {"siblings"}
    IN  /\ Leave(CheckMatchEmptySelector([left EXCEPT !.flaws = @ \cup flaws], p))
        /\ Forget({e} \cup Descendants(dom, e))

ReplaceTaroNode(p, e, old) ==
    /\ Legal(p, e) /\ old # e
    /\ LET linked == Linked(p, e, old)
       IN  /\ Leave(Settle(removeChild(linked, p, old), p, e))
           /\ Forget({old} \cup Descendants(linked, old))

(* A class call by which the classes of e should become cs, and its list   *)
(* becomes `list'.                                                         *)
Change(e, cs, list, flaws) ==
    /\ e \in dom.born /\ changes < MaxChanges
    /\ Leave(Relist([dom EXCEPT !.flaws = @ \cup flaws], e, list, e \in dom.init))
    /\ classes' = [classes EXCEPT ![e] = cs]
    /\ changes' = changes + 1
    /\ UNCHANGED rules

SetClassAttribute(e, cs) ==
    /\ Change(e, cs, reset(dom.class_list[e], cs), {})
    /\ attr' = [attr EXCEPT ![e] = cs]

(* ExecuteFunc passes classList calls on once there is a render node.      *)
ClassListCall(e, cs, list, flaws) ==
    /\ IF e \in dom.init THEN Change(e, cs, list, flaws)
       ELSE Change(e, cs, dom.class_list[e], {"early"})
    /\ UNCHANGED attr

Added(list, c) == IF list[c] > 0 THEN list ELSE [list EXCEPT ![c] = 1]
Removed(list, c) == IF list[c] = 0 THEN list ELSE [list EXCEPT ![c] = @ - 1]

ClassListAdd(e, c) ==
    ClassListCall(e, classes[e] \cup {c}, Added(dom.class_list[e], c), {})
ClassListRemove(e, c) ==
    ClassListCall(e, classes[e] \ {c}, Removed(dom.class_list[e], c), {})

(* With force, toggle adds or removes; without, force is what contains     *)
(* says, so it adds what is there or removes what is not.                  *)
ClassListToggle(e, c, force) ==
    LET list == dom.class_list[e]
        adds == IF force = "unset" THEN list[c] > 0 ELSE force = "add"
        wanted == IF force = "unset" THEN c \notin classes[e] ELSE force = "add"
    IN  ClassListCall(e, IF wanted THEN classes[e] \cup {c} ELSE classes[e] \ {c},
                      IF adds THEN Added(list, c) ELSE Removed(list, c),
                      IF force = "unset" THEN {"toggle"} ELSE {})

(* Nothing happens when the class is not there.                            *)
ClassListReplace(e, c, new) ==
    LET list == dom.class_list[e] IN
    /\ c # new /\ list[c] > 0
    /\ ClassListCall(e, (classes[e] \ {c}) \cup {new},
                     [list EXCEPT ![c] = @ - 1, ![new] = @ + 1],
                     IF list[new] > 0 THEN {"doubled"} ELSE {})

Flush ==
    /\ dom.dirty
    /\ Leave(resolver(dom))
    /\ UNCHANGED <<rules, attr, classes, changes>>

Next ==
    \/ \E e \in Nodes, cs \in Attributes : CreateTaroNode(e, cs)
    \/ \E p \in dom.born :
        \/ \E e \in Nodes : AppendTaroNode(p, e)
        \/ \E c \in Children(dom, p) :
            \/ \E e \in Nodes : InsertBeforeTaroNode(p, e, c) \/ ReplaceTaroNode(p, e, c)
            \/ RemoveTaroNode(p, c)
    \/ \E e \in dom.born :
        \/ \E cs \in SUBSET Classes : SetClassAttribute(e, cs)
        \/ \E c \in Classes :
            \/ ClassListAdd(e, c) \/ ClassListRemove(e, c)
            \/ \E force \in {"add", "remove", "unset"} : ClassListToggle(e, c, force)
            \/ \E new \in Classes : ClassListReplace(e, c, new)
    \/ Flush

Spec == Init /\ [][Next]_vars

-----------------------------------------------------------------------------
(* What CSS says of a selector and of a pseudo class.                      *)
Selects(e, rule) ==
    LET Leads(f, i) ==
            CASE rule.selector[i].match = "multiple" -> f[i] = f[i - 1]
              [] rule.selector[i].match = "parent" -> f[i] = dom.parent[f[i - 1]]
              [] OTHER -> f[i] \in Ancestors(dom, f[i - 1])
    IN  \E f \in [DOMAIN rule.selector -> Elements] :
            /\ f[1] = e
            /\ \A i \in DOMAIN f : rule.selector[i].class \in classes[f[i]]
            /\ \A i \in DOMAIN f \ {1} : Leads(f, i)
Qualifies(e, rule) ==
    LET s == Siblings(dom, e)
        earlier == {i \in DOMAIN s : \E j \in DOMAIN s : i < j /\ s[j] = e}
        later == {j \in DOMAIN s : \E i \in DOMAIN s : i < j /\ s[i] = e}
    IN  CASE rule.pseudo = "none" -> TRUE
          [] rule.pseudo = "first" -> earlier = {}
          [] rule.pseudo = "last" -> later = {}
          [] rule.pseudo = "empty" -> \A n \in Elements : dom.parent[n] # e
          [] rule.pseudo = "nth" ->
                \E n \in DOMAIN s \cup {0} : rule.a * n + rule.b = Cardinality(earlier) + 1
          [] OTHER -> FALSE

(* When no resolution is queued, every element on the page shows the rules *)
(* CSS selects for the classes JS gave it and its ancestors and for its    *)
(* place among its siblings, whatever was changed, moved and flushed in    *)
(* between: marks on elements below a changed class, the match of a build  *)
(* and the candidates for :empty leave nothing stale                       *)
(* (StyleInvalidator.cpp, CSSStyleSheet.cpp:651, element.cpp:792).         *)
Styled ==
    ~dom.dirty => \A e \in Descendants(dom, Page) :
        LET selected == {r \in DOMAIN rules : Selects(e, rules[r])}
        IN  dom.style[e] = Cascade(selected, {r \in selected : Qualifies(e, rules[r])})
=============================================================================
