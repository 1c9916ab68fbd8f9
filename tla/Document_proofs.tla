--------------------------- MODULE Document_proofs ---------------------------
(***************************************************************************)
(* Proofs about Document for any number of elements and calls: the sibling *)
(* pointers, the styles of what the page shows, and the native tree (the   *)
(* order of the rows is in RenderOrder_proofs).  The handlers come first,  *)
(* as the fields each one changes; then, for each theorem, its invariant,  *)
(* that every handler keeps it, and the step.                              *)
(***************************************************************************)
EXTENDS MCPage, ListTheorems, FiniteSetTheorems

-----------------------------------------------------------------------------
(* A document, and what the parts of a handler leave alone.                *)
IsDoc(d) ==
    d = [registry |-> d.registry, born |-> d.born, children |-> d.children,
         parent |-> d.parent, prev |-> d.prev, next |-> d.next, init |-> d.init,
         ignore |-> d.ignore, build |-> d.build, style |-> d.style, want |-> d.want,
         invalid |-> d.invalid, descend |-> d.descend, dirty |-> d.dirty,
         kids |-> d.kids, calls |-> d.calls, flaws |-> d.flaws]

(* The fields of a document.                                             *)
Fields == {"registry", "born", "children", "parent", "prev", "next", "init", "ignore", "build",
           "style", "want", "invalid", "descend", "dirty", "kids", "calls", "flaws"}

LEMMA DocIsRecord ==
  ASSUME NEW d
  PROVE  IsDoc(d) <=> d = [n \in Fields |-> d[n]]
  <1>1. ASSUME IsDoc(d) PROVE d = [n \in Fields |-> d[n]]
    BY <1>1 DEF IsDoc, Fields
  <1>2. ASSUME d = [n \in Fields |-> d[n]] PROVE IsDoc(d)
    <2> DEFINE x == [registry |-> d.registry, born |-> d.born, children |-> d.children,
         parent |-> d.parent, prev |-> d.prev, next |-> d.next, init |-> d.init,
         ignore |-> d.ignore, build |-> d.build, style |-> d.style, want |-> d.want,
         invalid |-> d.invalid, descend |-> d.descend, dirty |-> d.dirty,
         kids |-> d.kids, calls |-> d.calls, flaws |-> d.flaws]
    <2>1. \A n \in Fields : x[n] = d[n]
      BY DEF Fields
    <2>2. DOMAIN x = Fields /\ x = [n \in DOMAIN x |-> x[n]]
      BY DEF Fields
    <2> HIDE DEF x
    <2>3. x = [n \in Fields |-> d[n]]
      BY <2>1, <2>2
    <2> QED
      BY <1>2, <2>3 DEF x, IsDoc
  <1> QED
    BY <1>1, <1>2

(* The elements and their places.                                          *)
SameTree(d, x) ==
    /\ x.registry = d.registry /\ x.born = d.born
    /\ x.children = d.children /\ x.parent = d.parent
    /\ x.prev = d.prev /\ x.next = d.next

SameStyles(d, x) ==
    /\ x.want = d.want /\ x.invalid = d.invalid
    /\ x.descend = d.descend /\ x.dirty = d.dirty

SameBuilds(d, x) ==
    /\ x.init = d.init /\ x.ignore = d.ignore
    /\ x.build = d.build /\ x.style = d.style

(* Only render nodes are mounted or unmounted.                             *)
RenderOnly(d, x) ==
    IsDoc(x) /\ SameTree(d, x) /\ SameStyles(d, x) /\ SameBuilds(d, x) /\ x.flaws = d.flaws

(* Only elements are built.                                                *)
BuildOnly(d, x) == IsDoc(x) /\ SameTree(d, x) /\ SameStyles(d, x) /\ d.flaws \subseteq x.flaws

(* Elements are built and styles resolved.                                 *)
InPlace(d, x) ==
    /\ IsDoc(x) /\ SameTree(d, x) /\ d.flaws \subseteq x.flaws
    /\ x.want = d.want /\ x.invalid \subseteq d.invalid /\ x.descend \subseteq d.descend

LEMMA RenderComposes ==
  ASSUME NEW d, NEW x, NEW y, RenderOnly(d, x), RenderOnly(x, y)
  PROVE  RenderOnly(d, y)
  BY DEF RenderOnly, SameTree, SameStyles, SameBuilds

LEMMA RenderParts ==
  ASSUME NEW d, IsDoc(d), NEW op, NEW q, NEW r, NEW i, NEW sibling, NEW offset
  PROVE  /\ RenderOnly(d, d)
         /\ RenderOnly(d, InsertRender(d, op, q, r, i))
         /\ RenderOnly(d, AppendChild(d, q, r))
         /\ RenderOnly(d, InsertBeside(d, q, r, sibling, offset))
         /\ RenderOnly(d, RemoveChild(d, r))
  <1>1. ASSUME NEW s, NEW o, NEW p, NEW c, NEW n
        PROVE  RenderOnly(d, addDelayedCall([d EXCEPT !.kids[p] = s], o, p, c, n))
    <2>1. \A x, v : IsDoc(x) => RenderOnly(x, [x EXCEPT !.calls = v])
      BY DEF RenderOnly, IsDoc, SameTree, SameStyles, SameBuilds
    <2>2. RenderOnly(d, [d EXCEPT !.kids[p] = s]) /\ IsDoc([d EXCEPT !.kids[p] = s])
      BY DEF RenderOnly, IsDoc, SameTree, SameStyles, SameBuilds
    <2> QED
      BY <2>1, <2>2, RenderComposes DEF addDelayedCall
  <1>2. RenderOnly(d, d)
    BY DEF RenderOnly, SameTree, SameStyles, SameBuilds
  <1>3. \A o, c, n : RenderOnly(d, InsertRender(d, o, q, c, n))
    BY <1>1 DEF InsertRender
  <1> QED
    BY <1>1, <1>2, <1>3 DEF AppendChild, InsertBeside, RemoveChild

LEMMA MountRender ==
  ASSUME NEW d, IsDoc(d), NEW e, NEW old
  PROVE  /\ RenderOnly(d, AppendOrInsertIntoParent(d, e))
         /\ RenderOnly(d, MountFixedRenderNode(d, e, old))
  <1>1. \A x : IsDoc(x) => RenderOnly(x, AppendOrInsertIntoParent(x, e))
    BY RenderParts DEF AppendOrInsertIntoParent
  <1>2. \A r : RenderOnly(d, RemoveChild(d, r)) /\ IsDoc(RemoveChild(d, r))
    BY RenderParts DEF RenderOnly
  <1>3. \A q, r, c : RenderOnly(d, AppendChild(RemoveChild(d, c), q, r))
    BY <1>2, RenderParts, RenderComposes
  <1>4. \A c : RenderOnly(d, AppendOrInsertIntoParent(RemoveChild(d, c), e))
    BY <1>1, <1>2, RenderComposes
  <1> QED
    BY <1>1, <1>3, <1>4, RenderParts DEF MountFixedRenderNode

LEMMA BuildComposes ==
  ASSUME NEW d, NEW x, NEW y
  PROVE  /\ BuildOnly(d, x) /\ BuildOnly(x, y) => BuildOnly(d, y)
         /\ InPlace(d, x) /\ InPlace(x, y) => InPlace(d, y)
         /\ BuildOnly(d, x) => InPlace(d, x)
         /\ RenderOnly(d, x) => BuildOnly(d, x)
         /\ IsDoc(d) => BuildOnly(d, d)
  BY DEF BuildOnly, InPlace, RenderOnly, SameTree, SameStyles

LEMMA BuildFields ==
  ASSUME NEW d, IsDoc(d), NEW e, NEW v
  PROVE  /\ BuildOnly(d, [d EXCEPT !.init[e] = v])
         /\ BuildOnly(d, [d EXCEPT !.ignore[e] = v])
         /\ BuildOnly(d, [d EXCEPT !.build[e] = v])
         /\ BuildOnly(d, [d EXCEPT !.style[e] = v])
         /\ BuildOnly(d, [d EXCEPT !.kids = v])
         /\ BuildOnly(d, [d EXCEPT !.flaws = @ \cup v])
  <1>1. BuildOnly(d, [d EXCEPT !.init[e] = v])
    BY DEF BuildOnly, IsDoc, SameTree, SameStyles
  <1>2. BuildOnly(d, [d EXCEPT !.ignore[e] = v])
    BY DEF BuildOnly, IsDoc, SameTree, SameStyles
  <1>3. BuildOnly(d, [d EXCEPT !.build[e] = v])
    BY DEF BuildOnly, IsDoc, SameTree, SameStyles
  <1>4. BuildOnly(d, [d EXCEPT !.style[e] = v])
    BY DEF BuildOnly, IsDoc, SameTree, SameStyles
  <1>5. BuildOnly(d, [d EXCEPT !.kids = v])
    BY DEF BuildOnly, IsDoc, SameTree, SameStyles
  <1>6. BuildOnly(d, [d EXCEPT !.flaws = @ \cup v])
    <2> DEFINE x == [d EXCEPT !.flaws = @ \cup v]
    <2>1. IsDoc(x)
      <3>1. d = [n \in Fields |-> d[n]]
        BY DocIsRecord
      <3>2. x = [n \in Fields |-> x[n]]
        BY <3>1
      <3> HIDE DEF x
      <3> QED
        BY <3>2, DocIsRecord
    <2>3. x.flaws = d.flaws \cup v
      BY DEF IsDoc
    <2>2. SameTree(d, x) /\ SameStyles(d, x)
      BY DEF IsDoc, SameTree, SameStyles
    <2> HIDE DEF x
    <2>4. BuildOnly(d, x)
      BY <2>1, <2>2, <2>3 DEF BuildOnly
    <2> QED
      BY <2>4 DEF x
  <1> QED
    BY <1>1, <1>2, <1>3, <1>4, <1>5, <1>6

LEMMA BuildParts ==
  ASSUME NEW d, IsDoc(d), NEW e, NEW before
  PROVE  BuildOnly(d, BuildProcess(d, e, before))
  <1>1. \A x : BuildOnly(d, x) => IsDoc(x)
    BY DEF BuildOnly
  <1>2. ASSUME NEW x, BuildOnly(d, x)
        PROVE  BuildOnly(d, PreBuild(x, e)) /\ BuildOnly(d, Build(x, e))
    <2> DEFINE y == [x EXCEPT !.build[e] = @ + 1]
    <2> DEFINE r == <<e, x.build[e] + 1>>
               k == [q \in DOMAIN x.kids \cup {r} |-> IF q = r THEN <<>> ELSE x.kids[q]]
    <2>1. NewRenderNode(x, e) = [y EXCEPT !.kids = k]
      BY <1>1, <1>2 DEF NewRenderNode, IsDoc
    <2>2. BuildOnly(d, y) /\ IsDoc(y)
      <3>1. BuildOnly(x, y)
        BY <1>1, <1>2, BuildFields
      <3> HIDE DEF y
      <3> QED
        BY <1>1, <1>2, <3>1, BuildComposes
    <2>3. BuildOnly(d, NewRenderNode(x, e))
      <3> HIDE DEF y, k
      <3> QED
        BY <2>1, <2>2, BuildFields, BuildComposes
    <2>4. BuildOnly(d, PreBuild(x, e))
      BY <1>1, <1>2, BuildFields, BuildComposes DEF PreBuild
    <2> QED
      BY <1>2, <2>3, <2>4 DEF Build
  <1>3. ASSUME NEW x, BuildOnly(d, x), NEW old
        PROVE  BuildOnly(d, PostBuild(x, e, old))
    <2>1. BuildOnly(d, AppendOrInsertIntoParent(x, e))
      BY <1>1, <1>3, MountRender, BuildComposes
    <2>2. \A y : BuildOnly(d, y) => BuildOnly(d, [y EXCEPT !.init[e] = TRUE])
      BY <1>1, BuildFields, BuildComposes
    <2>3. \A y : BuildOnly(d, y) => BuildOnly(d, MountFixedRenderNode(y, e, old))
      BY <1>1, MountRender, BuildComposes
    <2> QED
      BY <1>3, <2>1, <2>2, <2>3 DEF PostBuild
  <1>4. ASSUME NEW x, BuildOnly(d, x), NEW f
        PROVE  BuildOnly(d, [x EXCEPT !.ignore[e] = FALSE, !.flaws = @ \cup f])
    <2> DEFINE y == [x EXCEPT !.ignore[e] = FALSE]
    <2>1. [x EXCEPT !.ignore[e] = FALSE, !.flaws = @ \cup f] = [y EXCEPT !.flaws = @ \cup f]
      BY <1>1, <1>4 DEF IsDoc
    <2>2. BuildOnly(d, y) /\ IsDoc(y)
      BY <1>1, <1>4, BuildFields, BuildComposes
    <2> HIDE DEF y
    <2> QED
      BY <2>1, <2>2, BuildFields, BuildComposes
  <1>5. BuildOnly(d, Build(PreBuild(d, e), e))
    BY <1>2, BuildComposes
  <1>6. \A f, old : BuildOnly(d, PostBuild([Build(PreBuild(d, e), e) EXCEPT
                                              !.ignore[e] = FALSE, !.flaws = @ \cup f], e, old))
    BY <1>3, <1>4, <1>5
  <1> QED
    BY <1>6, Zenon DEF BuildProcess

-----------------------------------------------------------------------------
(* The steps of the walks through the tree: a recursive function takes the *)
(* values its definition says.                                             *)
LEMMA ElementsFinite == IsFiniteSet(Elements) /\ Cardinality(Elements) \in Nat
  <1>1. IsFiniteSet(Nodes)
    BY TreesAssumption DEF ConstantsBounded
  <1>2. IsFiniteSet(Nodes \cup {Page})
    BY <1>1, FS_AddElement
  <1> QED
    BY <1>2, FS_CardinalityType DEF Elements

LEMMA BuildTrace ==
  ASSUME NEW d, NEW e
  PROVE  \E g : /\ g[0] = [doc |-> d, todo |-> <<e>>]
                /\ \A k \in 1 .. Cardinality(Elements) : g[k] = BuildNext(g[k - 1])
                /\ BuildElement(d, e) = g[Cardinality(Elements)].doc
  <1> DEFINE N == Cardinality(Elements)
             b == [doc |-> d, todo |-> <<e>>]
             Eq(j, f) == f = [k \in 0 .. j |-> IF k = 0 THEN b ELSE BuildNext(f[k - 1])]
             T == {j \in Nat : \E f : Eq(j, f)}
             g == CHOOSE f : Eq(N, f)
  <1>1. 0 \in T
    <2> DEFINE f == [k \in 0 .. 0 |-> b]
    <2>1. Eq(0, f)
      OBVIOUS
    <2> HIDE DEF Eq
    <2> QED BY <2>1
  <1>2. ASSUME NEW j \in Nat, j \in T PROVE j + 1 \in T
    <2>1. PICK f : Eq(j, f)
      BY <1>2
    <2> DEFINE h == [k \in 0 .. j + 1 |-> IF k = j + 1 THEN BuildNext(f[j]) ELSE f[k]]
    <2>2. ASSUME NEW k \in 0 .. j + 1
          PROVE  h[k] = IF k = 0 THEN b ELSE BuildNext(h[k - 1])
      <3> HIDE DEF b
      <3>1. CASE k = j + 1
        <4>1. k - 1 = j /\ j \in 0 .. j + 1 /\ j # j + 1 /\ k # 0
          BY <3>1
        <4>2. h[j] = f[j] /\ h[j + 1] = BuildNext(f[j])
          BY <4>1
        <4> HIDE DEF h
        <4> QED BY <3>1, <4>1, <4>2
      <3>2. CASE k # j + 1
        <4>1. k \in 0 .. j /\ (k # 0 => k - 1 \in 0 .. j)
          BY <3>2
        <4>2. \A i \in 0 .. j : i \in 0 .. j + 1 /\ i # j + 1
          OBVIOUS
        <4>4. h[k] = f[k] /\ (k # 0 => h[k - 1] = f[k - 1])
          BY <4>1, <4>2
        <4>3. f[k] = IF k = 0 THEN b ELSE BuildNext(f[k - 1])
          BY <2>1, <4>1
        <4> HIDE DEF h, Eq
        <4> QED BY <4>4, <4>3
      <3> QED BY <3>1, <3>2
    <2>3. Eq(j + 1, h)
      <3>1. h = [k \in 0 .. j + 1 |-> h[k]]
        OBVIOUS
      <3> HIDE DEF h, b
      <3> QED BY <2>2, <3>1
    <2> HIDE DEF Eq
    <2> QED BY <2>3
  <1>3. N \in T
    <2>1. N \in Nat
      BY ElementsFinite
    <2> HIDE DEF T, N
    <2> QED BY <1>1, <1>2, <2>1, Induction
  <1>4. Eq(N, g)
    <2> HIDE DEF Eq
    <2> QED BY <1>3
  <1>5. BuildElement(d, e) = g[N].doc
    BY DEF BuildElement
  <1>6. N \in Nat
    BY ElementsFinite
  <1> HIDE DEF g, N, b
  <1>7. g[0] = b /\ \A k \in 1 .. N : g[k] = BuildNext(g[k - 1])
    BY <1>4, <1>6
  <1> QED
    BY <1>5, <1>7 DEF N, b

LEMMA DestroyTrace ==
  ASSUME NEW d, NEW e
  PROVE  \E g : /\ g[0] = [doc |-> d, todo |-> <<e>>]
                /\ \A k \in 1 .. Cardinality(Elements) : g[k] = DestroyNext(g[k - 1])
                /\ Destroy(d, e) = g[Cardinality(Elements)].doc
  <1> DEFINE N == Cardinality(Elements)
             b == [doc |-> d, todo |-> <<e>>]
             Eq(j, f) == f = [k \in 0 .. j |-> IF k = 0 THEN b ELSE DestroyNext(f[k - 1])]
             T == {j \in Nat : \E f : Eq(j, f)}
             g == CHOOSE f : Eq(N, f)
  <1>1. 0 \in T
    <2> DEFINE f == [k \in 0 .. 0 |-> b]
    <2>1. Eq(0, f)
      OBVIOUS
    <2> HIDE DEF Eq
    <2> QED BY <2>1
  <1>2. ASSUME NEW j \in Nat, j \in T PROVE j + 1 \in T
    <2>1. PICK f : Eq(j, f)
      BY <1>2
    <2> DEFINE h == [k \in 0 .. j + 1 |-> IF k = j + 1 THEN DestroyNext(f[j]) ELSE f[k]]
    <2>2. ASSUME NEW k \in 0 .. j + 1
          PROVE  h[k] = IF k = 0 THEN b ELSE DestroyNext(h[k - 1])
      <3> HIDE DEF b
      <3>1. CASE k = j + 1
        <4>1. k - 1 = j /\ j \in 0 .. j + 1 /\ j # j + 1 /\ k # 0
          BY <3>1
        <4>2. h[j] = f[j] /\ h[j + 1] = DestroyNext(f[j])
          BY <4>1
        <4> HIDE DEF h
        <4> QED BY <3>1, <4>1, <4>2
      <3>2. CASE k # j + 1
        <4>1. k \in 0 .. j /\ (k # 0 => k - 1 \in 0 .. j)
          BY <3>2
        <4>2. \A i \in 0 .. j : i \in 0 .. j + 1 /\ i # j + 1
          OBVIOUS
        <4>4. h[k] = f[k] /\ (k # 0 => h[k - 1] = f[k - 1])
          BY <4>1, <4>2
        <4>3. f[k] = IF k = 0 THEN b ELSE DestroyNext(f[k - 1])
          BY <2>1, <4>1
        <4> HIDE DEF h, Eq
        <4> QED BY <4>4, <4>3
      <3> QED BY <3>1, <3>2
    <2>3. Eq(j + 1, h)
      <3>1. h = [k \in 0 .. j + 1 |-> h[k]]
        OBVIOUS
      <3> HIDE DEF h, b
      <3> QED BY <2>2, <3>1
    <2> HIDE DEF Eq
    <2> QED BY <2>3
  <1>3. N \in T
    <2>1. N \in Nat
      BY ElementsFinite
    <2> HIDE DEF T, N
    <2> QED BY <1>1, <1>2, <2>1, Induction
  <1>4. Eq(N, g)
    <2> HIDE DEF Eq
    <2> QED BY <1>3
  <1>5. Destroy(d, e) = g[N].doc
    BY DEF Destroy
  <1>6. N \in Nat
    BY ElementsFinite
  <1> HIDE DEF g, N, b
  <1>7. g[0] = b /\ \A k \in 1 .. N : g[k] = DestroyNext(g[k - 1])
    BY <1>4, <1>6
  <1> QED
    BY <1>5, <1>7 DEF N, b

LEMMA ResolveTrace ==
  ASSUME NEW d, NEW e, Cardinality(d.descend) \in Nat
  PROVE  \E g : /\ g[0] = [doc |-> d, todo |-> <<e>>]
                /\ \A k \in 1 .. 1 + Cardinality(d.descend) : g[k] = ResolveChildren(g[k - 1])
                /\ resolver(d, e) = g[1 + Cardinality(d.descend)].doc
  <1> DEFINE N == 1 + Cardinality(d.descend)
             b == [doc |-> d, todo |-> <<e>>]
             Eq(j, f) == f = [k \in 0 .. j |-> IF k = 0 THEN b ELSE ResolveChildren(f[k - 1])]
             T == {j \in Nat : \E f : Eq(j, f)}
             g == CHOOSE f : Eq(N, f)
  <1>1. 0 \in T
    <2> DEFINE f == [k \in 0 .. 0 |-> b]
    <2>1. Eq(0, f)
      OBVIOUS
    <2> HIDE DEF Eq
    <2> QED BY <2>1
  <1>2. ASSUME NEW j \in Nat, j \in T PROVE j + 1 \in T
    <2>1. PICK f : Eq(j, f)
      BY <1>2
    <2> DEFINE h == [k \in 0 .. j + 1 |-> IF k = j + 1 THEN ResolveChildren(f[j]) ELSE f[k]]
    <2>2. ASSUME NEW k \in 0 .. j + 1
          PROVE  h[k] = IF k = 0 THEN b ELSE ResolveChildren(h[k - 1])
      <3> HIDE DEF b
      <3>1. CASE k = j + 1
        <4>1. k - 1 = j /\ j \in 0 .. j + 1 /\ j # j + 1 /\ k # 0
          BY <3>1
        <4>2. h[j] = f[j] /\ h[j + 1] = ResolveChildren(f[j])
          BY <4>1
        <4> HIDE DEF h
        <4> QED BY <3>1, <4>1, <4>2
      <3>2. CASE k # j + 1
        <4>1. k \in 0 .. j /\ (k # 0 => k - 1 \in 0 .. j)
          BY <3>2
        <4>2. \A i \in 0 .. j : i \in 0 .. j + 1 /\ i # j + 1
          OBVIOUS
        <4>4. h[k] = f[k] /\ (k # 0 => h[k - 1] = f[k - 1])
          BY <4>1, <4>2
        <4>3. f[k] = IF k = 0 THEN b ELSE ResolveChildren(f[k - 1])
          BY <2>1, <4>1
        <4> HIDE DEF h, Eq
        <4> QED BY <4>4, <4>3
      <3> QED BY <3>1, <3>2
    <2>3. Eq(j + 1, h)
      <3>1. h = [k \in 0 .. j + 1 |-> h[k]]
        OBVIOUS
      <3> HIDE DEF h, b
      <3> QED BY <2>2, <3>1
    <2> HIDE DEF Eq
    <2> QED BY <2>3
  <1>3. N \in T
    <2>1. N \in Nat
      OBVIOUS
    <2> HIDE DEF T, N
    <2> QED BY <1>1, <1>2, <2>1, Induction
  <1>4. Eq(N, g)
    <2> HIDE DEF Eq
    <2> QED BY <1>3
  <1>5. resolver(d, e) = g[N].doc
    BY DEF resolver
  <1>6. N \in Nat
    OBVIOUS
  <1> HIDE DEF g, N, b
  <1>7. g[0] = b /\ \A k \in 1 .. N : g[k] = ResolveChildren(g[k - 1])
    BY <1>4, <1>6
  <1> QED
    BY <1>5, <1>7 DEF N, b

(* The children of the element popped, the last one first.                 *)
ChildSteps(s, es, g) ==
    /\ g[0] = [doc |-> s.doc, todo |-> Tail(s.todo)]
    /\ \A k \in 1 .. Len(es) : g[k] = ResolveNext(g[k - 1], es[Len(es) + 1 - k])
    /\ ResolveChildren(s) = g[Len(es)]

LEMMA ChildrenTrace ==
  ASSUME NEW s, NEW es, es = s.doc.children[Head(s.todo)],
         s.todo # <<>>, Len(es) \in Nat
  PROVE  \E g : ChildSteps(s, es, g)
  <1> DEFINE N == Len(es)
             b == [doc |-> s.doc, todo |-> Tail(s.todo)]
             Eq(j, f) == f = [k \in 0 .. j |-> IF k = 0 THEN b ELSE ResolveNext(f[k - 1], es[Len(es) + 1 - k])]
             T == {j \in Nat : \E f : Eq(j, f)}
             g == CHOOSE f : Eq(N, f)
  <1>1. 0 \in T
    <2> DEFINE f == [k \in 0 .. 0 |-> b]
    <2>1. Eq(0, f)
      OBVIOUS
    <2> HIDE DEF Eq
    <2> QED BY <2>1
  <1>2. ASSUME NEW j \in Nat, j \in T PROVE j + 1 \in T
    <2>1. PICK f : Eq(j, f)
      BY <1>2
    <2> DEFINE h == [k \in 0 .. j + 1 |-> IF k = j + 1 THEN ResolveNext(f[j], es[Len(es) + 1 - (j + 1)]) ELSE f[k]]
    <2>2. ASSUME NEW k \in 0 .. j + 1
          PROVE  h[k] = IF k = 0 THEN b ELSE ResolveNext(h[k - 1], es[Len(es) + 1 - k])
      <3> HIDE DEF b
      <3>1. CASE k = j + 1
        <4>1. k - 1 = j /\ j \in 0 .. j + 1 /\ j # j + 1 /\ k # 0
          BY <3>1
        <4>2. h[j] = f[j] /\ h[j + 1] = ResolveNext(f[j], es[Len(es) + 1 - (j + 1)])
          BY <4>1
        <4> HIDE DEF h
        <4> QED BY <3>1, <4>1, <4>2
      <3>2. CASE k # j + 1
        <4>1. k \in 0 .. j /\ (k # 0 => k - 1 \in 0 .. j)
          BY <3>2
        <4>2. \A i \in 0 .. j : i \in 0 .. j + 1 /\ i # j + 1
          OBVIOUS
        <4>4. h[k] = f[k] /\ (k # 0 => h[k - 1] = f[k - 1])
          BY <4>1, <4>2
        <4>3. f[k] = IF k = 0 THEN b ELSE ResolveNext(f[k - 1], es[Len(es) + 1 - k])
          BY <2>1, <4>1
        <4> HIDE DEF h, Eq
        <4> QED BY <4>4, <4>3
      <3> QED BY <3>1, <3>2
    <2>3. Eq(j + 1, h)
      <3>1. h = [k \in 0 .. j + 1 |-> h[k]]
        OBVIOUS
      <3> HIDE DEF h, b
      <3> QED BY <2>2, <3>1
    <2> HIDE DEF Eq
    <2> QED BY <2>3
  <1>3. N \in T
    <2>1. N \in Nat
      OBVIOUS
    <2> HIDE DEF T, N
    <2> QED BY <1>1, <1>2, <2>1, Induction
  <1>4. Eq(N, g)
    <2> HIDE DEF Eq
    <2> QED BY <1>3
  <1>5. ResolveChildren(s) = g[N]
    BY DEF ResolveChildren
  <1>6. N \in Nat
    OBVIOUS
  <1> HIDE DEF g, N, b
  <1>7. g[0] = b /\ \A k \in 1 .. N : g[k] = ResolveNext(g[k - 1], es[Len(es) + 1 - k])
    BY <1>4, <1>6
  <1> QED
    BY <1>5, <1>7 DEF N, b, ChildSteps

(* The delayed calls made one after the other: g[k] is what k of them make. *)
CallSteps(d, n, calls, g) ==
    /\ g[0] = n
    /\ \A k \in 1 .. Len(calls) : g[k] = MakeCall(d, g[k - 1], calls[k])
    /\ Replay(d, n, calls) = g[Len(calls)]

LEMMA ReplayTrace ==
  ASSUME NEW d, NEW n, NEW calls, Len(calls) \in Nat
  PROVE  \E g : CallSteps(d, n, calls, g)
  <1> DEFINE N == Len(calls)
             b == n
             Eq(j, f) == f = [k \in 0 .. j |-> IF k = 0 THEN b ELSE MakeCall(d, f[k - 1], calls[k])]
             T == {j \in Nat : \E f : Eq(j, f)}
             g == CHOOSE f : Eq(N, f)
  <1>1. 0 \in T
    <2> DEFINE f == [k \in 0 .. 0 |-> b]
    <2>1. Eq(0, f)
      OBVIOUS
    <2> HIDE DEF Eq
    <2> QED BY <2>1
  <1>2. ASSUME NEW j \in Nat, j \in T PROVE j + 1 \in T
    <2>1. PICK f : Eq(j, f)
      BY <1>2
    <2> DEFINE h == [k \in 0 .. j + 1 |-> IF k = j + 1 THEN MakeCall(d, f[j], calls[(j + 1)]) ELSE f[k]]
    <2>2. ASSUME NEW k \in 0 .. j + 1
          PROVE  h[k] = IF k = 0 THEN b ELSE MakeCall(d, h[k - 1], calls[k])
      <3> HIDE DEF b
      <3>1. CASE k = j + 1
        <4>1. k - 1 = j /\ j \in 0 .. j + 1 /\ j # j + 1 /\ k # 0
          BY <3>1
        <4>2. h[j] = f[j] /\ h[j + 1] = MakeCall(d, f[j], calls[(j + 1)])
          BY <4>1
        <4> HIDE DEF h
        <4> QED BY <3>1, <4>1, <4>2
      <3>2. CASE k # j + 1
        <4>1. k \in 0 .. j /\ (k # 0 => k - 1 \in 0 .. j)
          BY <3>2
        <4>2. \A i \in 0 .. j : i \in 0 .. j + 1 /\ i # j + 1
          OBVIOUS
        <4>4. h[k] = f[k] /\ (k # 0 => h[k - 1] = f[k - 1])
          BY <4>1, <4>2
        <4>3. f[k] = IF k = 0 THEN b ELSE MakeCall(d, f[k - 1], calls[k])
          BY <2>1, <4>1
        <4> HIDE DEF h, Eq
        <4> QED BY <4>4, <4>3
      <3> QED BY <3>1, <3>2
    <2>3. Eq(j + 1, h)
      <3>1. h = [k \in 0 .. j + 1 |-> h[k]]
        OBVIOUS
      <3> HIDE DEF h, b
      <3> QED BY <2>2, <3>1
    <2> HIDE DEF Eq
    <2> QED BY <2>3
  <1>3. N \in T
    <2>1. N \in Nat
      OBVIOUS
    <2> HIDE DEF T, N
    <2> QED BY <1>1, <1>2, <2>1, Induction
  <1>4. Eq(N, g)
    <2> HIDE DEF Eq
    <2> QED BY <1>3
  <1>5. Replay(d, n, calls) = g[N]
    BY DEF Replay
  <1>6. N \in Nat
    OBVIOUS
  <1> HIDE DEF g, N, b
  <1>7. g[0] = b /\ \A k \in 1 .. N : g[k] = MakeCall(d, g[k - 1], calls[k])
    BY <1>4, <1>6
  <1> QED
    BY <1>5, <1>7 DEF N, b, CallSteps

-----------------------------------------------------------------------------
(* The tree of elements.                                                   *)
Tree(d) ==
    /\ IsDoc(d)
    /\ d.registry \subseteq Elements /\ Page \in d.registry
    /\ d.children \in [Elements -> Seq(Nodes)]
    /\ d.parent \in [Elements -> Elements \cup {None}]
    /\ \A p \in Elements : \A i, j \in 1 .. Len(d.children[p]) :
            d.children[p][i] = d.children[p][j] => i = j
    /\ \A p \in Elements : \A i \in 1 .. Len(d.children[p]) :
            d.parent[d.children[p][i]] = p
    /\ \A e \in Elements : d.parent[e] # None =>
            \E i \in 1 .. Len(d.children[d.parent[e]]) : d.children[d.parent[e]][i] = e
    /\ \A e \in Elements : d.parent[e] # None =>
            e \in d.registry /\ d.parent[e] \in d.registry

(* The sibling pointers of the children of p.                              *)
PointersAt(d, p) ==
    \A i \in 1 .. Len(d.children[p]) :
        /\ d.prev[d.children[p][i]] = IF i = 1 THEN None ELSE d.children[p][i - 1]
        /\ d.next[d.children[p][i]] =
              IF i = Len(d.children[p]) THEN None ELSE d.children[p][i + 1]

(* x is d with the child at i taken from the list of p.                    *)
Unlinked(d, x, p, i) ==
    LET s == d.children[p]
        Before == IF i > 1 THEN {s[i - 1]} ELSE {}
        After == IF i < Len(s) THEN {s[i + 1]} ELSE {}
    IN  /\ x.registry = d.registry /\ x.born = d.born
        /\ x.children = [d.children EXCEPT ![p] = RemoveAt(@, i)]
        /\ x.parent = [d.parent EXCEPT ![s[i]] = None]
        /\ x.next = [n \in Elements |-> IF n \in Before THEN d.next[s[i]]
                                        ELSE IF n = s[i] THEN None ELSE d.next[n]]
        /\ x.prev = [n \in Elements |-> IF n \in After THEN d.prev[s[i]]
                                        ELSE IF n = s[i] THEN None ELSE d.prev[n]]

(* x is d with e put at i into the list of p.                              *)
Linked(d, x, p, i, e, prev, next) ==
    /\ x.registry = d.registry /\ x.born = d.born
    /\ x.children = [d.children EXCEPT ![p] = InsertAt(@, i, e)]
    /\ x.parent = [d.parent EXCEPT ![e] = p]
    /\ x.next = [n \in Elements |-> IF n = e THEN next ELSE IF n = prev THEN e ELSE d.next[n]]
    /\ x.prev = [n \in Elements |-> IF n = e THEN prev ELSE IF n = next THEN e ELSE d.prev[n]]

LEMMA PlaceOfChild ==
  ASSUME NEW d, Tree(d), NEW e \in Elements, d.parent[e] # None
  PROVE  /\ d.parent[e] \in d.registry /\ e \in Nodes /\ e \in d.registry
         /\ IndexOf(d.children[d.parent[e]], e) \in 1 .. Len(d.children[d.parent[e]])
         /\ d.children[d.parent[e]][IndexOf(d.children[d.parent[e]], e)] = e
  <1>1. d.children[d.parent[e]] \in Seq(Nodes) /\ d.parent[e] \in d.registry /\ e \in d.registry
    BY DEF Tree
  <1>2. \E i \in 1 .. Len(d.children[d.parent[e]]) : d.children[d.parent[e]][i] = e
    BY DEF Tree
  <1>3. \A t : (\E i \in 1 .. Len(t) : t[i] = e) =>
             IndexOf(t, e) \in 1 .. Len(t) /\ t[IndexOf(t, e)] = e
    BY DEF IndexOf
  <1>4. e \in Nodes
    BY <1>1, <1>2
  <1> QED
    BY <1>1, <1>2, <1>3, <1>4

LEMMA UnlinkedPointers ==
  ASSUME NEW d, NEW x, NEW p, NEW i, Unlinked(d, x, p, i), NEW n \in Elements
  PROVE  /\ x.next[n] = IF i > 1 /\ n = d.children[p][i - 1] THEN d.next[d.children[p][i]]
                        ELSE IF n = d.children[p][i] THEN None ELSE d.next[n]
         /\ x.prev[n] = IF i < Len(d.children[p]) /\ n = d.children[p][i + 1]
                        THEN d.prev[d.children[p][i]]
                        ELSE IF n = d.children[p][i] THEN None ELSE d.prev[n]
  BY DEF Unlinked

(* The children of one element.                                            *)
LEMMA RowMembers ==
  ASSUME NEW d, Tree(d), NEW p \in Elements
  PROVE  /\ d.children[p] \in Seq(Nodes) /\ Len(d.children[p]) \in Nat
         /\ \A j, k \in 1 .. Len(d.children[p]) : d.children[p][j] = d.children[p][k] => j = k
         /\ \A k \in 1 .. Len(d.children[p]) :
                /\ d.children[p][k] \in Nodes /\ d.children[p][k] \in Elements
                /\ d.parent[d.children[p][k]] = p
  <1>1. /\ \A j, k \in 1 .. Len(d.children[p]) : d.children[p][j] = d.children[p][k] => j = k
        /\ \A k \in 1 .. Len(d.children[p]) : d.parent[d.children[p][k]] = p
    BY DEF Tree
  <1>2. d.children[p] \in Seq(Nodes)
    BY DEF Tree
  <1>3. Len(d.children[p]) \in Nat /\ \A k \in 1 .. Len(d.children[p]) : d.children[p][k] \in Nodes
    BY <1>2
  <1> QED
    BY <1>1, <1>2, <1>3 DEF Elements

LEMMA UnlinkedTree ==
  ASSUME NEW d, Tree(d), NEW x, IsDoc(x), NEW p \in Elements,
         NEW i \in 1 .. Len(d.children[p]), Unlinked(d, x, p, i)
  PROVE  /\ Tree(x) /\ x.parent[d.children[p][i]] = None
         /\ \A q \in Elements : PointersAt(d, q) => PointersAt(x, q)
  <1> DEFINE s == d.children[p]
             t == RemoveAt(s, i)
             e == s[i]
  <1>1. s \in Seq(Nodes) /\ Len(s) \in Nat /\ e \in Nodes /\ e \in Elements /\ d.parent[e] = p
    BY DEF Tree, Elements
  <1>2. /\ t \in Seq(Nodes) /\ Len(t) = Len(s) - 1 /\ Len(t) \in Nat
        /\ \A k \in 1 .. Len(s) - 1 : t[k] = IF k < i THEN s[k] ELSE s[k + 1]
    <2>1. s \in Seq(Nodes) /\ i \in 1 .. Len(s) /\ Len(s) \in Nat
      BY <1>1
    <2> HIDE DEF s
    <2>2. /\ RemoveAt(s, i) \in Seq(Nodes)
          /\ Len(RemoveAt(s, i)) = Len(s) - 1
          /\ \A k \in 1 .. Len(s) - 1 : RemoveAt(s, i)[k] = IF k < i THEN s[k] ELSE s[k + 1]
      BY <2>1, RemovedAt
    <2> QED
      BY <2>1, <2>2
  <1>3. /\ x.children \in [Elements -> Seq(Nodes)] /\ x.children[p] = t
        /\ \A q \in Elements : q # p => x.children[q] = d.children[q]
    BY <1>2 DEF Unlinked, Tree
  <1>4. /\ x.parent \in [Elements -> Elements \cup {None}] /\ x.parent[e] = None
        /\ \A n \in Elements : n # e => x.parent[n] = d.parent[n]
    BY <1>1 DEF Unlinked, Tree
  <1>5. /\ \A j, k \in 1 .. Len(s) : s[j] = s[k] => j = k
        /\ \A k \in 1 .. Len(s) : s[k] \in Nodes /\ s[k] \in Elements /\ d.parent[s[k]] = p
    BY RowMembers
  (* Where the members of t were.                                          *)
  <1>6. ASSUME NEW k \in 1 .. Len(t)
        PROVE  /\ k \in 1 .. Len(s) /\ k + 1 \in 1 .. Len(s)
               /\ t[k] # e
               /\ k < i => t[k] = s[k]
               /\ ~(k < i) => t[k] = s[k + 1]
    <2>1. k \in 1 .. Len(s) /\ k + 1 \in 1 .. Len(s) /\ k \in 1 .. Len(s) - 1
      BY <1>1, <1>2
    <2>2. t[k] = IF k < i THEN s[k] ELSE s[k + 1]
      BY <1>2, <2>1
    <2>3. (k < i => k # i) /\ (~(k < i) => k + 1 # i)
      BY <2>1
    <2>4. (k < i => t[k] = s[k]) /\ (~(k < i) => t[k] = s[k + 1])
      BY <2>2
    <2>5. t[k] # e
      <3> i \in 1 .. Len(s) /\ e = s[i]
        OBVIOUS
      <3> HIDE DEF s, t, e
      <3>1. CASE k < i
        BY <1>5, <2>1, <2>3, <2>4, <3>1
      <3>2. CASE ~(k < i)
        BY <1>5, <2>1, <2>3, <2>4, <3>2
      <3> QED
        BY <3>1, <3>2
    <2> HIDE DEF s, t
    <2> QED
      BY <2>1, <2>4, <2>5
  (* And where those of s are now.                                         *)
  <1>7. ASSUME NEW k \in 1 .. Len(s), s[k] # e
        PROVE  /\ k # i
               /\ k < i => k \in 1 .. Len(t) /\ t[k] = s[k]
               /\ k > i => k - 1 \in 1 .. Len(t) /\ t[k - 1] = s[k]
    <2>1. k # i
      BY <1>7
    <2>2. k < i => k \in 1 .. Len(t) /\ k \in 1 .. Len(s) - 1
      BY <1>1, <1>2
    <2>3. k > i => k - 1 \in 1 .. Len(t) /\ k - 1 \in 1 .. Len(s) - 1 /\ ~(k - 1 < i) /\ (k - 1) + 1 = k
      BY <1>1, <1>2
    <2> HIDE DEF s, t
    <2> QED
      BY <1>2, <2>1, <2>2, <2>3
  <1>8. i \in 1 .. Len(s) /\ e = s[i] /\ x.registry = d.registry
    BY DEF Unlinked
  <1>9. x.next = [n \in Elements |->
                    IF n \in (IF i > 1 THEN {s[i - 1]} ELSE {}) THEN d.next[e]
                    ELSE IF n = e THEN None ELSE d.next[n]]
    BY DEF Unlinked
  <1>10. x.prev = [n \in Elements |->
                    IF n \in (IF i < Len(s) THEN {s[i + 1]} ELSE {}) THEN d.prev[e]
                    ELSE IF n = e THEN None ELSE d.prev[n]]
    BY DEF Unlinked
  <1>11. d.children[p] = s
    OBVIOUS
  <1> HIDE DEF s, t, e
  <1>12. ASSUME NEW q \in Elements, q # p, NEW k \in 1 .. Len(d.children[q])
         PROVE  /\ d.children[q][k] \in Nodes /\ d.children[q][k] \in Elements
                /\ d.parent[d.children[q][k]] = q /\ d.children[q][k] # e
                /\ \A j \in 1 .. Len(s) : d.children[q][k] # s[j]
    <2>1. d.children[q][k] \in Nodes /\ d.parent[d.children[q][k]] = q
      BY DEF Tree
    <2> QED
      BY <2>1, <1>1, <1>5, <1>12 DEF Elements
  <1>13. Tree(x)
    <2>1. ASSUME NEW q \in Elements, NEW j \in 1 .. Len(x.children[q]), NEW k \in 1 .. Len(x.children[q]),
                 x.children[q][j] = x.children[q][k]
          PROVE  j = k
      <3>1. CASE q = p
        <4>1. t[j] = t[k] /\ j \in 1 .. Len(t) /\ k \in 1 .. Len(t)
          BY <2>1, <3>1, <1>3
        <4>2. (IF j < i THEN j ELSE j + 1) = (IF k < i THEN k ELSE k + 1)
          <5> DEFINE m == IF j < i THEN j ELSE j + 1
                     n == IF k < i THEN k ELSE k + 1
          <5>1. m \in 1 .. Len(s) /\ n \in 1 .. Len(s) /\ s[m] = t[j] /\ s[n] = t[k]
            BY <4>1, <1>6
          <5> HIDE DEF m, n
          <5>2. m = n
            BY <5>1, <4>1, <1>5
          <5> QED
            BY <5>2 DEF m, n
        <4> QED
          BY <4>1, <4>2
      <3>2. CASE q # p
        BY <2>1, <3>2, <1>3 DEF Tree
      <3> QED
        BY <3>1, <3>2
    <2>2. ASSUME NEW q \in Elements, NEW k \in 1 .. Len(x.children[q])
          PROVE  x.parent[x.children[q][k]] = q
      <3>1. CASE q = p
        <4>1. k \in 1 .. Len(t) /\ x.children[q][k] = t[k]
          BY <3>1, <1>3
        <4>2. t[k] # e /\ t[k] \in Elements /\ d.parent[t[k]] = p
          BY <4>1, <1>5, <1>6
        <4> QED
          BY <4>1, <4>2, <3>1, <1>4
      <3>2. CASE q # p
        <4>1. k \in 1 .. Len(d.children[q]) /\ x.children[q][k] = d.children[q][k]
          BY <3>2, <1>3
        <4> QED
          BY <4>1, <3>2, <1>4, <1>12
      <3> QED
        BY <3>1, <3>2
    <2>3. ASSUME NEW n \in Elements, x.parent[n] # None
          PROVE  \E k \in 1 .. Len(x.children[x.parent[n]]) : x.children[x.parent[n]][k] = n
      <3>1. n # e /\ x.parent[n] = d.parent[n] /\ d.parent[n] \in Elements
        BY <2>3, <1>4 DEF Tree
      <3>2. PICK k \in 1 .. Len(d.children[d.parent[n]]) : d.children[d.parent[n]][k] = n
        BY <2>3, <3>1 DEF Tree
      <3>3. CASE d.parent[n] = p
        <4>1. k \in 1 .. Len(s) /\ s[k] = n /\ s[k] # e
          BY <3>1, <3>2, <3>3, <1>11
        <4>2. k # i /\ (k < i \/ k > i)
          BY <4>1, <1>7, <1>1
        <4>3. \E m \in 1 .. Len(t) : t[m] = n
          BY <4>1, <4>2, <1>7
        <4> QED
          BY <4>3, <3>1, <3>3, <1>3
      <3>4. CASE d.parent[n] # p
        BY <3>1, <3>2, <3>4, <1>3
      <3> QED
        BY <3>3, <3>4
    <2>4. \A n \in Elements : x.parent[n] # None => n \in x.registry /\ x.parent[n] \in x.registry
      BY <1>4, <1>8 DEF Tree
    <2>5. x.registry \subseteq Elements /\ Page \in x.registry
      BY <1>8 DEF Tree
    <2> QED
      BY <1>3, <1>4, <2>1, <2>2, <2>3, <2>4, <2>5 DEF Tree
  <1>14. ASSUME NEW q \in Elements, PointersAt(d, q)
         PROVE  PointersAt(x, q)
    <2>1. CASE q # p
      <3>1. ASSUME NEW k \in 1 .. Len(d.children[q])
            PROVE  LET n == d.children[q][k] IN x.prev[n] = d.prev[n] /\ x.next[n] = d.next[n]
        BY <2>1, <3>1, <1>9, <1>10, <1>12, <1>1, <1>8
      <3>2. x.children[q] = d.children[q]
        BY <2>1, <1>3
      <3> QED
        BY <3>1, <3>2, <1>14 DEF PointersAt
    <2>2. CASE q = p
      <3>1. \A k \in 1 .. Len(s) : /\ d.prev[s[k]] = IF k = 1 THEN None ELSE s[k - 1]
                                   /\ d.next[s[k]] = IF k = Len(s) THEN None ELSE s[k + 1]
        BY <2>2, <1>11, <1>14 DEF PointersAt
      <3>2. ASSUME NEW k \in 1 .. Len(t)
            PROVE  /\ x.prev[t[k]] = IF k = 1 THEN None ELSE t[k - 1]
                   /\ x.next[t[k]] = IF k = Len(t) THEN None ELSE t[k + 1]
        <4>1. \A m \in 1 .. Len(s) : m # i =>
                 /\ x.prev[s[m]] = IF m = i + 1 THEN d.prev[e] ELSE d.prev[s[m]]
                 /\ x.next[s[m]] = IF m = i - 1 THEN d.next[e] ELSE d.next[s[m]]
          <5> TAKE m \in 1 .. Len(s)
          <5> HAVE m # i
          <5>1. s[m] \in Elements /\ s[m] # e
            BY <1>5, <1>8
          <5>2. i < Len(s) => (s[m] = s[i + 1] <=> m = i + 1)
            <6> HAVE i < Len(s)
            <6>1. i + 1 \in 1 .. Len(s)
              BY <1>1
            <6> QED
              BY <6>1, <1>5
          <5>3. i > 1 => (s[m] = s[i - 1] <=> m = i - 1)
            <6> HAVE i > 1
            <6>1. i - 1 \in 1 .. Len(s)
              BY <1>1, <1>8
            <6> QED
              BY <6>1, <1>5
          <5>4. (~(i < Len(s)) => m # i + 1) /\ (~(i > 1) => m # i - 1)
            BY <1>1
          <5>5. x.prev[s[m]] = IF m = i + 1 THEN d.prev[e] ELSE d.prev[s[m]]
            BY <5>1, <5>2, <5>4, <1>10
          <5>6. x.next[s[m]] = IF m = i - 1 THEN d.next[e] ELSE d.next[s[m]]
            BY <5>1, <5>3, <5>4, <1>9
          <5> QED
            BY <5>5, <5>6
        <4>2. k < i => t[k] = s[k] /\ (k # 1 => t[k - 1] = s[k - 1])
          <5> HAVE k < i
          <5>1. k # 1 => k - 1 \in 1 .. Len(t) /\ k - 1 < i
            BY <1>1, <1>2
          <5> QED
            BY <5>1, <1>6
        <4>3. k + 1 < i => t[k + 1] = s[k + 1]
          <5> HAVE k + 1 < i
          <5>1. k + 1 \in 1 .. Len(t) /\ k + 1 < i
            BY <1>1, <1>2, <1>8
          <5> QED
            BY <5>1, <1>6
        <4>4. ~(k + 1 < i) /\ k # Len(t) => t[k + 1] = s[k + 2]
          <5> HAVE ~(k + 1 < i) /\ k # Len(t)
          <5>1. k + 1 \in 1 .. Len(t) /\ (k + 1) + 1 = k + 2
            BY <1>1, <1>2
          <5> QED
            BY <5>1, <1>6
        <4>5. ~(k < i) => t[k] = s[k + 1] /\ (k > i => t[k - 1] = s[k])
          <5> HAVE ~(k < i)
          <5>1. k > i => k - 1 \in 1 .. Len(t) /\ ~(k - 1 < i) /\ (k - 1) + 1 = k
            BY <1>1, <1>2
          <5> QED
            BY <5>1, <1>6
        <4>6. k \in 1 .. Len(s) /\ k + 1 \in 1 .. Len(s) /\ Len(t) = Len(s) - 1
          BY <1>2, <1>6
        <4>7. /\ d.prev[e] = IF i = 1 THEN None ELSE s[i - 1]
              /\ d.next[e] = IF i = Len(s) THEN None ELSE s[i + 1]
          BY <3>1, <1>8
        <4>8. CASE k + 1 < i
          <5>1. k # i /\ k # i + 1 /\ k # i - 1 /\ k # Len(t) /\ k # Len(s) /\ k < i
            BY <4>6, <4>8, <1>1, <1>8
          <5> QED
            BY <5>1, <4>1, <4>2, <4>3, <4>6, <4>8, <3>1
        <4>9. CASE k + 1 = i
          <5>1. /\ k # i /\ k # i + 1 /\ k = i - 1 /\ k < i /\ ~(k + 1 < i) /\ i # 1
                /\ (k = Len(t) <=> i = Len(s)) /\ k + 2 = i + 1
            BY <4>6, <4>9, <1>1
          <5>2. x.prev[t[k]] = d.prev[s[k]] /\ x.next[t[k]] = d.next[e]
            BY <5>1, <4>1, <4>2, <4>6
          <5>3. k # Len(t) => t[k + 1] = s[i + 1]
            BY <5>1, <4>4
          <5>4. x.next[t[k]] = IF k = Len(t) THEN None ELSE t[k + 1]
            BY <5>1, <5>2, <5>3, <4>7
          <5> QED
            BY <5>1, <5>2, <5>4, <4>2, <4>6, <3>1
        <4>10. CASE k = i
          <5>1. /\ k + 1 # i /\ k + 1 = i + 1 /\ k + 1 # i - 1 /\ ~(k < i) /\ ~(k + 1 < i)
                /\ (k = Len(t) <=> k + 1 = Len(s)) /\ (k + 1) + 1 = k + 2
            BY <4>6, <4>10, <1>1
          <5>2. k # 1 => t[k - 1] = s[k - 1]
            <6> HAVE k # 1
            <6>1. k - 1 \in 1 .. Len(t) /\ k - 1 < i
              BY <4>10, <1>1, <1>2
            <6> QED
              BY <6>1, <1>6
          <5> QED
            BY <5>1, <5>2, <4>1, <4>4, <4>5, <4>6, <4>7, <4>10, <3>1
        <4>11. CASE k > i
          <5>1. /\ k + 1 # i /\ k + 1 # i + 1 /\ k + 1 # i - 1 /\ ~(k < i) /\ ~(k + 1 < i)
                /\ (k = Len(t) <=> k + 1 = Len(s)) /\ (k + 1) + 1 = k + 2
                /\ k # 1 /\ k + 1 # 1 /\ (k + 1) - 1 = k
            BY <4>6, <4>11, <1>1
          <5> QED
            BY <5>1, <4>1, <4>4, <4>5, <4>6, <4>11, <3>1
        <4> QED
          BY <4>8, <4>9, <4>10, <4>11, <1>1
      <3> QED
        BY <3>2, <2>2, <1>3 DEF PointersAt
    <2> QED
      BY <2>1, <2>2
  <1> QED
    BY <1>4, <1>13, <1>14 DEF s, e

ChildOrNone(d, p, n) == n = None \/ (n \in Elements /\ d.parent[n] = p)

(* The neighbours of the place i in the list of p.                         *)
Between(d, p, i, prev, next) ==
    /\ prev = IF i = 1 THEN None ELSE d.children[p][i - 1]
    /\ next = IF i = Len(d.children[p]) + 1 THEN None ELSE d.children[p][i]

LEMMA LinkedTree ==
  ASSUME NEW d, Tree(d), NEW x, IsDoc(x), NEW p \in d.registry, NEW e \in Nodes,
         e \in d.registry, d.parent[e] = None,
         NEW i \in 1 .. Len(d.children[p]) + 1,
         NEW prev, NEW next, Linked(d, x, p, i, e, prev, next)
  PROVE  /\ Tree(x)
         /\ ChildOrNone(d, p, prev) /\ ChildOrNone(d, p, next) =>
                \A q \in Elements : q # p /\ PointersAt(d, q) => PointersAt(x, q)
         /\ PointersAt(d, p) /\ Between(d, p, i, prev, next) => PointersAt(x, p)
  <1> DEFINE s == d.children[p]
             t == InsertAt(s, i, e)
  <1>1. s \in Seq(Nodes) /\ Len(s) \in Nat /\ p \in Elements /\ e \in Elements /\ p # None
    BY TreesAssumption DEF Tree, Elements, ConstantsBounded
  <1>2. /\ t \in Seq(Nodes) /\ Len(t) = Len(s) + 1 /\ Len(t) \in Nat
        /\ \A k \in 1 .. Len(s) + 1 : t[k] = IF k < i THEN s[k] ELSE IF k = i THEN e ELSE s[k - 1]
    <2>1. s \in Seq(Nodes) /\ i \in 1 .. Len(s) + 1 /\ Len(s) \in Nat
      BY <1>1
    <2> HIDE DEF s
    <2>2. /\ InsertAt(s, i, e) \in Seq(Nodes)
          /\ Len(InsertAt(s, i, e)) = Len(s) + 1
          /\ \A k \in 1 .. Len(s) + 1 : InsertAt(s, i, e)[k] =
                IF k < i THEN s[k] ELSE IF k = i THEN e ELSE s[k - 1]
      <3>1. InsertAt(s, i, e) \in Seq(Nodes) /\ Wider(s, i, e, InsertAt(s, i, e))
        BY <2>1, WidenedRow
      <3> QED
        BY <3>1 DEF Wider
    <2> QED
      BY <2>1, <2>2
  <1>3. /\ x.children \in [Elements -> Seq(Nodes)] /\ x.children[p] = t
        /\ \A q \in Elements : q # p => x.children[q] = d.children[q]
    BY <1>1, <1>2 DEF Linked, Tree
  <1>4. /\ x.parent \in [Elements -> Elements \cup {None}] /\ x.parent[e] = p
        /\ \A n \in Elements : n # e => x.parent[n] = d.parent[n]
    BY <1>1 DEF Linked, Tree
  <1>5. /\ \A j, k \in 1 .. Len(s) : s[j] = s[k] => j = k
        /\ \A k \in 1 .. Len(s) : s[k] \in Nodes /\ s[k] \in Elements /\ d.parent[s[k]] = p /\ s[k] # e
    BY <1>1, RowMembers
  <1>6. /\ i \in 1 .. Len(s) + 1 /\ i \in Nat /\ x.registry = d.registry
        /\ x.next = [n \in Elements |-> IF n = e THEN next ELSE IF n = prev THEN e ELSE d.next[n]]
        /\ x.prev = [n \in Elements |-> IF n = e THEN prev ELSE IF n = next THEN e ELSE d.prev[n]]
    BY DEF Linked
  <1>7. d.children[p] = s
    OBVIOUS
  <1> HIDE DEF s, t
  (* Where the members of t were, and where those of s are now.            *)
  <1>8. ASSUME NEW k \in 1 .. Len(t)
        PROVE  /\ k < i => k \in 1 .. Len(s) /\ t[k] = s[k]
               /\ k = i => t[k] = e
               /\ k > i => k - 1 \in 1 .. Len(s) /\ t[k] = s[k - 1]
    <2>1. t[k] = IF k < i THEN s[k] ELSE IF k = i THEN e ELSE s[k - 1]
      BY <1>2
    <2>2. (k < i => k \in 1 .. Len(s)) /\ (k > i => k - 1 \in 1 .. Len(s) /\ ~(k < i) /\ k # i)
      BY <1>1, <1>2, <1>6
    <2>3. k = i => ~(k < i)
      BY <1>6
    <2> QED
      BY <2>1, <2>2, <2>3
  <1>9. ASSUME NEW k \in 1 .. Len(s)
        PROVE  /\ k \in 1 .. Len(t) /\ k + 1 \in 1 .. Len(t)
               /\ k < i => t[k] = s[k]
               /\ ~(k < i) => t[k + 1] = s[k]
    <2>1. k \in 1 .. Len(t) /\ k + 1 \in 1 .. Len(t) /\ (k + 1) - 1 = k
      BY <1>1, <1>2
    <2>2. ~(k < i) => k + 1 > i
      BY <1>6
    <2> QED
      BY <2>1, <2>2, <1>8
  <1>10. ASSUME NEW q \in Elements, q # p, NEW k \in 1 .. Len(d.children[q])
         PROVE  /\ d.children[q][k] \in Nodes /\ d.children[q][k] \in Elements
                /\ d.parent[d.children[q][k]] = q /\ d.children[q][k] # e
                /\ ChildOrNone(d, p, prev) => d.children[q][k] # prev
                /\ ChildOrNone(d, p, next) => d.children[q][k] # next
    <2>1. d.children[q][k] \in Nodes /\ d.parent[d.children[q][k]] = q
      BY DEF Tree
    <2>2. q # None /\ \A n \in Nodes : n # None
      BY TreesAssumption DEF ConstantsBounded, Elements
    <2> QED
      BY <2>1, <2>2, <1>10 DEF Elements, ChildOrNone
  <1>11. Tree(x)
    <2>1. ASSUME NEW q \in Elements, NEW j \in 1 .. Len(x.children[q]), NEW k \in 1 .. Len(x.children[q]),
                 x.children[q][j] = x.children[q][k]
          PROVE  j = k
      <3>1. CASE q = p
        <4>1. t[j] = t[k] /\ j \in 1 .. Len(t) /\ k \in 1 .. Len(t)
          BY <2>1, <3>1, <1>3
        <4>2. /\ j < i => j \in 1 .. Len(s) /\ t[j] = s[j] /\ t[j] # e
              /\ j = i => t[j] = e
              /\ j > i => j - 1 \in 1 .. Len(s) /\ t[j] = s[j - 1] /\ t[j] # e
          BY <4>1, <1>5, <1>8
        <4>3. /\ k < i => k \in 1 .. Len(s) /\ t[k] = s[k] /\ t[k] # e
              /\ k = i => t[k] = e
              /\ k > i => k - 1 \in 1 .. Len(s) /\ t[k] = s[k - 1] /\ t[k] # e
          BY <4>1, <1>5, <1>8
        <4>4. j \in Int /\ k \in Int
          BY <4>1
        <4>5. CASE j < i /\ k < i
          BY <4>1, <4>2, <4>3, <4>5, <1>5
        <4>6. CASE j > i /\ k > i
          <5>1. j - 1 = k - 1
            BY <4>1, <4>2, <4>3, <4>6, <1>5
          <5> QED
            BY <5>1, <4>4
        <4>7. CASE j < i /\ k > i
          <5>1. j = k - 1
            BY <4>1, <4>2, <4>3, <4>7, <1>5
          <5> QED
            BY <5>1, <4>4, <4>7, <1>6
        <4>8. CASE j > i /\ k < i
          <5>1. j - 1 = k
            BY <4>1, <4>2, <4>3, <4>8, <1>5
          <5> QED
            BY <5>1, <4>4, <4>8, <1>6
        <4>9. CASE j = i \/ k = i
          BY <4>1, <4>2, <4>3, <4>4, <4>9, <1>6
        <4> QED
          BY <4>4, <4>5, <4>6, <4>7, <4>8, <4>9, <1>6
      <3>2. CASE q # p
        <4>1. x.children[q] = d.children[q]
          BY <3>2, <1>3
        <4> QED
          BY <2>1, <4>1 DEF Tree
      <3> QED
        BY <3>1, <3>2
    <2>2. ASSUME NEW q \in Elements, NEW k \in 1 .. Len(x.children[q])
          PROVE  x.parent[x.children[q][k]] = q
      <3>1. CASE q = p
        <4>1. k \in 1 .. Len(t) /\ x.children[q][k] = t[k] /\ k \in Int
          BY <3>1, <1>3
        <4>2. t[k] = e \/ \E m \in 1 .. Len(s) : t[k] = s[m]
          BY <4>1, <1>6, <1>8
        <4> QED
          BY <4>1, <4>2, <3>1, <1>4, <1>5
      <3>2. CASE q # p
        <4>1. k \in 1 .. Len(d.children[q]) /\ x.children[q][k] = d.children[q][k]
          BY <3>2, <1>3
        <4> QED
          BY <4>1, <3>2, <1>4, <1>10
      <3> QED
        BY <3>1, <3>2
    <2>3. ASSUME NEW n \in Elements, x.parent[n] # None
          PROVE  \E k \in 1 .. Len(x.children[x.parent[n]]) : x.children[x.parent[n]][k] = n
      <3>1. CASE n = e
        <4>1. i \in 1 .. Len(t) /\ t[i] = e
          BY <1>2, <1>6, <1>8
        <4> QED
          BY <4>1, <3>1, <1>3, <1>4
      <3>2. CASE n # e
        <4>1. x.parent[n] = d.parent[n] /\ d.parent[n] \in Elements
          BY <2>3, <3>2, <1>4 DEF Tree
        <4>2. PICK k \in 1 .. Len(d.children[d.parent[n]]) : d.children[d.parent[n]][k] = n
          BY <2>3, <4>1 DEF Tree
        <4>3. CASE d.parent[n] = p
          <5>1. k \in 1 .. Len(s) /\ s[k] = n
            BY <4>2, <4>3, <1>7
          <5>2. \E m \in 1 .. Len(t) : t[m] = n
            BY <5>1, <1>9
          <5> QED
            BY <5>2, <4>1, <4>3, <1>3
        <4>4. CASE d.parent[n] # p
          BY <4>1, <4>2, <4>4, <1>3
        <4> QED
          BY <4>3, <4>4
      <3> QED
        BY <3>1, <3>2
    <2>4. \A n \in Elements : x.parent[n] # None => n \in x.registry /\ x.parent[n] \in x.registry
      BY <1>4, <1>6 DEF Tree
    <2>5. x.registry \subseteq Elements /\ Page \in x.registry
      BY <1>6 DEF Tree
    <2> QED
      BY <1>3, <1>4, <2>1, <2>2, <2>3, <2>4, <2>5 DEF Tree
  <1>12. ASSUME ChildOrNone(d, p, prev), ChildOrNone(d, p, next),
                NEW q \in Elements, q # p, PointersAt(d, q)
         PROVE  PointersAt(x, q)
    <2>1. ASSUME NEW k \in 1 .. Len(d.children[q])
          PROVE  LET n == d.children[q][k] IN x.prev[n] = d.prev[n] /\ x.next[n] = d.next[n]
      BY <1>6, <1>10, <1>12
    <2>2. x.children[q] = d.children[q]
      BY <1>3, <1>12
    <2> QED
      BY <2>1, <2>2, <1>12 DEF PointersAt
  <1>13. ASSUME PointersAt(d, p), prev = IF i = 1 THEN None ELSE s[i - 1],
                next = IF i = Len(s) + 1 THEN None ELSE s[i]
         PROVE  PointersAt(x, p)
    <2>1. \A k \in 1 .. Len(s) : /\ d.prev[s[k]] = IF k = 1 THEN None ELSE s[k - 1]
                                 /\ d.next[s[k]] = IF k = Len(s) THEN None ELSE s[k + 1]
      BY <1>7, <1>13 DEF PointersAt
    <2>2. \A m \in 1 .. Len(s) :
                 /\ x.prev[s[m]] = IF m = i THEN e ELSE d.prev[s[m]]
                 /\ x.next[s[m]] = IF m = i - 1 THEN e ELSE d.next[s[m]]
      <3> TAKE m \in 1 .. Len(s)
      <3>1. s[m] \in Elements /\ s[m] # e /\ s[m] # None
        BY <1>5, TreesAssumption DEF ConstantsBounded
      <3>2. s[m] = next <=> m = i
        <4>1. i # Len(s) + 1 => i \in 1 .. Len(s)
          BY <1>1, <1>6
        <4>2. i = Len(s) + 1 => m # i
          BY <1>1, <1>6
        <4> QED
          BY <4>1, <4>2, <3>1, <1>5, <1>13
      <3>3. s[m] = prev <=> m = i - 1
        <4>1. i # 1 => i - 1 \in 1 .. Len(s)
          BY <1>1, <1>6
        <4>2. i = 1 => m # i - 1
          BY <1>1, <1>6
        <4> QED
          BY <4>1, <4>2, <3>1, <1>5, <1>13
      <3> QED
        BY <3>1, <3>2, <3>3, <1>6
    <2>3. ASSUME NEW k \in 1 .. Len(t)
          PROVE  /\ x.prev[t[k]] = IF k = 1 THEN None ELSE t[k - 1]
                 /\ x.next[t[k]] = IF k = Len(t) THEN None ELSE t[k + 1]
      <3>1. Len(t) = Len(s) + 1 /\ k \in Int /\ k >= 1 /\ k <= Len(s) + 1
        BY <1>1, <1>2
      <3>2. k # 1 => k - 1 \in 1 .. Len(t) /\ (k - 1) \in Int
        BY <3>1
      <3>3. k # Len(t) => k + 1 \in 1 .. Len(t) /\ (k + 1) \in Int
        BY <3>1, <1>1
      <3>4. CASE k < i
        <4>1. k \in 1 .. Len(s) /\ t[k] = s[k] /\ k # i /\ k # Len(t)
          BY <3>1, <3>4, <1>1, <1>6, <1>8
        <4>2. k # 1 => t[k - 1] = s[k - 1]
          <5>1. k - 1 < i
            BY <3>1, <3>4, <1>6
          <5> QED
            BY <5>1, <3>2, <1>8
        <4>3. CASE k = i - 1
          <5>1. k + 1 = i
            BY <4>3, <3>1, <1>6
          <5>2. t[k + 1] = e
            BY <5>1, <4>1, <3>3, <1>8
          <5> QED
            BY <5>2, <4>1, <4>2, <4>3, <2>1, <2>2
        <4>4. CASE k # i - 1
          <5>1. k + 1 < i /\ k # Len(s)
            BY <4>1, <4>4, <3>1, <3>4, <1>6
          <5>2. t[k + 1] = s[k + 1]
            BY <5>1, <4>1, <3>3, <1>8
          <5> QED
            BY <5>1, <5>2, <4>1, <4>2, <4>4, <2>1, <2>2
        <4> QED
          BY <4>3, <4>4
      <3>5. CASE k = i
        <4>1. t[k] = e /\ x.prev[e] = prev /\ x.next[e] = next
          BY <3>5, <1>1, <1>6, <1>8
        <4>2. k # 1 => t[k - 1] = s[k - 1]
          <5>1. k - 1 < i
            BY <3>1, <3>5
          <5> QED
            BY <5>1, <3>2, <1>8
        <4>3. k # Len(t) => t[k + 1] = s[k]
          <5>1. k + 1 > i /\ (k + 1) - 1 = k
            BY <3>1, <3>5
          <5> QED
            BY <5>1, <3>3, <1>8
        <4> QED
          BY <4>1, <4>2, <4>3, <3>1, <3>5, <1>13
      <3>6. CASE k > i
        <4>1. k - 1 \in 1 .. Len(s) /\ t[k] = s[k - 1] /\ k - 1 # i - 1 /\ k # 1
          BY <3>1, <3>6, <1>6, <1>8
        <4>2. x.prev[t[k]] = t[k - 1]
          <5>1. CASE k - 1 = i
            BY <5>1, <4>1, <2>2, <3>2, <1>8
          <5>2. CASE k - 1 # i
            <6>1. k - 1 > i /\ k - 1 # 1
              BY <5>2, <3>1, <3>6, <1>6
            <6>2. t[k - 1] = s[(k - 1) - 1]
              BY <6>1, <3>2, <4>1, <1>8
            <6> QED
              BY <6>1, <6>2, <5>2, <4>1, <2>1, <2>2
          <5> QED
            BY <5>1, <5>2
        <4>3. x.next[t[k]] = IF k = Len(t) THEN None ELSE t[k + 1]
          <5>1. x.next[t[k]] = IF k - 1 = Len(s) THEN None ELSE s[(k - 1) + 1]
            BY <4>1, <2>1, <2>2
          <5>2. (k - 1) + 1 = k /\ (k - 1 = Len(s) <=> k = Len(t))
            BY <3>1, <1>1
          <5>3. k # Len(t) => t[k + 1] = s[k]
            <6>1. k + 1 > i /\ (k + 1) - 1 = k
              BY <3>1, <3>6, <1>6
            <6> QED
              BY <6>1, <3>3, <1>8
          <5> QED
            BY <5>1, <5>2, <5>3
        <4> QED
          BY <4>1, <4>2, <4>3
      <3> QED
        BY <3>1, <3>4, <3>5, <3>6, <1>6
    <2> QED
      BY <2>3, <1>3 DEF PointersAt
  <1> QED
    BY <1>11, <1>12, <1>13 DEF s, Between

-----------------------------------------------------------------------------
(* The subtree of an element, and what remains when it is gone.            *)
LEMMA SubtreeClosed ==
  ASSUME NEW d, NEW e \in Elements
  PROVE  /\ Subtree(d, e) \subseteq Elements /\ e \in Subtree(d, e)
         /\ \A p \in Subtree(d, e) : ToSet(d.children[p]) \subseteq Elements
                => ToSet(d.children[p]) \subseteq Subtree(d, e)
         /\ \A S \in SUBSET Elements :
                e \in S /\ (\A p \in S : ToSet(d.children[p]) \subseteq S) => Subtree(d, e) \subseteq S
  BY DEF Subtree

LEMMA SubtreeParents ==
  ASSUME NEW d, Tree(d), NEW e \in Elements
  PROVE  /\ \A n \in Subtree(d, e) : n # e => d.parent[n] \in Subtree(d, e)
         /\ \A n \in Elements : d.parent[n] \in Subtree(d, e) => n \in Subtree(d, e)
  <1>1. ASSUME NEW p \in Elements, NEW n \in ToSet(d.children[p])
        PROVE  d.parent[n] = p
    <2>1. DOMAIN d.children[p] = 1 .. Len(d.children[p])
      BY DEF Tree
    <2>2. PICK i \in 1 .. Len(d.children[p]) : d.children[p][i] = n
      BY <2>1 DEF ToSet
    <2> QED
      BY <2>2 DEF Tree
  <1>2. \A p \in Elements : ToSet(d.children[p]) \subseteq Elements
    BY DEF Tree, ToSet, Elements
  <1>3. ASSUME NEW n \in Elements, d.parent[n] # None
        PROVE  n \in ToSet(d.children[d.parent[n]])
    <2>1. d.parent[n] \in Elements
      BY <1>3 DEF Tree
    <2>2. DOMAIN d.children[d.parent[n]] = 1 .. Len(d.children[d.parent[n]])
      BY <2>1 DEF Tree
    <2> QED
      BY <1>3, <2>2 DEF Tree, ToSet
  <1>4. None \notin Elements
    BY TreesAssumption DEF ConstantsBounded, Elements
  <1>5. ASSUME NEW n \in Subtree(d, e), n # e, d.parent[n] \notin Subtree(d, e)
        PROVE  FALSE
    <2> DEFINE S == Subtree(d, e) \ {n}
    <2>1. S \subseteq Elements /\ e \in S
      BY <1>5, SubtreeClosed
    <2>2. ASSUME NEW p \in S, NEW c \in ToSet(d.children[p]) PROVE c \in S
      <3>1. c \in Subtree(d, e) /\ d.parent[c] = p /\ p \in Subtree(d, e)
        BY <2>2, <1>1, <1>2, SubtreeClosed
      <3> QED
        BY <3>1, <1>5
    <2> HIDE DEF S
    <2>3. Subtree(d, e) \subseteq S
      BY <2>1, <2>2, SubtreeClosed
    <2> QED
      BY <2>3 DEF S
  <1>6. ASSUME NEW n \in Elements, d.parent[n] \in Subtree(d, e)
        PROVE  n \in Subtree(d, e)
    <2>1. d.parent[n] \in Elements /\ d.parent[n] # None
      BY <1>4, <1>6, SubtreeClosed
    <2> QED
      BY <2>1, <1>2, <1>3, <1>6, SubtreeClosed
  <1> QED
    BY <1>5, <1>6

(* x is d without the elements of gone.                                    *)
Buried(d, x, gone) ==
    /\ x.registry = d.registry \ gone /\ x.born = d.born
    /\ x.children = [n \in Elements |-> IF n \in gone THEN <<>> ELSE d.children[n]]
    /\ x.parent = [n \in Elements |->
                     IF n \in gone \/ d.parent[n] \in gone THEN None ELSE d.parent[n]]
    /\ x.prev = [n \in Elements |->
                     IF n \in gone \/ d.prev[n] \in gone THEN None ELSE d.prev[n]]
    /\ x.next = [n \in Elements |->
                     IF n \in gone \/ d.next[n] \in gone THEN None ELSE d.next[n]]

(* And what else it leaves.                                                *)
Emptied(d, x, gone) ==
    /\ x.init = [n \in Elements |-> IF n \in gone THEN FALSE ELSE d.init[n]]
    /\ x.ignore = [n \in Elements |-> IF n \in gone THEN FALSE ELSE d.ignore[n]]
    /\ x.build = [n \in Elements |-> IF n \in gone THEN 0 ELSE d.build[n]]
    /\ x.style = [n \in Elements |-> IF n \in gone THEN "static" ELSE d.style[n]]
    /\ x.want = [n \in Elements |-> IF n \in gone THEN "static" ELSE d.want[n]]
    /\ x.invalid = d.invalid \ gone /\ x.descend = d.descend \ gone
    /\ x.dirty = d.dirty /\ x.kids = d.kids /\ x.calls = d.calls /\ x.flaws = d.flaws

LEMMA BuryFields ==
  ASSUME NEW d, IsDoc(d), NEW gone
  PROVE  /\ IsDoc(Bury(d, gone)) /\ Buried(d, Bury(d, gone), gone)
         /\ Emptied(d, Bury(d, gone), gone)
  <1> DEFINE x == Bury(d, gone)
  <1>1. IsDoc(x)
    <2>1. d = [n \in Fields |-> d[n]]
      BY DocIsRecord
    <2>2. x = [n \in Fields |-> x[n]]
      BY <2>1 DEF Bury
    <2> HIDE DEF x
    <2> QED
      BY <2>2, DocIsRecord
  <1>2. x.registry = d.registry \ gone /\ x.born = d.born
    BY DEF Bury, IsDoc
  <1>3. /\ x.dirty = d.dirty /\ x.kids = d.kids /\ x.calls = d.calls /\ x.flaws = d.flaws
    BY DEF Bury, IsDoc
  <1>4. x.children = [n \in Elements |-> IF n \in gone THEN <<>> ELSE d.children[n]]
    BY DEF Bury, IsDoc
  <1>5. x.init = [n \in Elements |-> IF n \in gone THEN FALSE ELSE d.init[n]]
    BY DEF Bury, IsDoc
  <1>6. x.ignore = [n \in Elements |-> IF n \in gone THEN FALSE ELSE d.ignore[n]]
    BY DEF Bury, IsDoc
  <1>7. x.build = [n \in Elements |-> IF n \in gone THEN 0 ELSE d.build[n]]
    BY DEF Bury, IsDoc
  <1>8. x.style = [n \in Elements |-> IF n \in gone THEN "static" ELSE d.style[n]]
    BY DEF Bury, IsDoc
  <1>9. x.want = [n \in Elements |-> IF n \in gone THEN "static" ELSE d.want[n]]
    BY DEF Bury, IsDoc
  <1>10. x.parent = [n \in Elements |->
                   IF n \in gone \/ d.parent[n] \in gone THEN None ELSE d.parent[n]]
    BY DEF Bury, IsDoc
  <1>11. x.prev = [n \in Elements |->
                   IF n \in gone \/ d.prev[n] \in gone THEN None ELSE d.prev[n]]
    BY DEF Bury, IsDoc
  <1>12. x.next = [n \in Elements |->
                   IF n \in gone \/ d.next[n] \in gone THEN None ELSE d.next[n]]
    BY DEF Bury, IsDoc
  <1>13. x.invalid = d.invalid \ gone /\ x.descend = d.descend \ gone
    BY DEF Bury, IsDoc
  <1> HIDE DEF x
  <1>14. Buried(d, x, gone)
    BY <1>2, <1>4, <1>10, <1>11, <1>12 DEF Buried
  <1> QED
    BY <1>1, <1>3, <1>5, <1>6, <1>7, <1>8, <1>9, <1>13, <1>14 DEF x, Emptied

LEMMA BuriedTree ==
  ASSUME NEW d, Tree(d), NEW x, IsDoc(x), NEW e \in Nodes, d.parent[e] = None,
         Buried(d, x, Subtree(d, e))
  PROVE  /\ Tree(x)
         /\ \A q \in Elements : (q \notin Subtree(d, e) => PointersAt(d, q)) => PointersAt(x, q)
  <1> DEFINE gone == Subtree(d, e)
  <1>1. gone \subseteq Elements /\ e \in gone /\ e \in Elements
    BY SubtreeClosed DEF Elements
  <1>2. \A n \in Elements : (n \in gone <=> n = e \/ d.parent[n] \in gone)
    BY <1>1, SubtreeParents
  <1>3. None \notin Elements /\ Page \notin Nodes /\ Page \in Elements
    BY TreesAssumption DEF ConstantsBounded, Elements
  <1>4. \A q \in Elements : d.children[q] \in Seq(Nodes)
    BY DEF Tree
  <1> HIDE DEF gone
  <1>5. \A q \in Elements : \A i \in 1 .. Len(d.children[q]) :
            /\ d.children[q][i] \in Elements /\ d.parent[d.children[q][i]] = q
            /\ d.children[q][i] \in gone <=> q \in gone
    <2> TAKE q \in Elements
    <2> TAKE i \in 1 .. Len(d.children[q])
    <2>1. d.children[q][i] \in Elements /\ d.parent[d.children[q][i]] = q
      BY <1>4 DEF Tree, Elements
    <2> QED
      BY <2>1, <1>1, <1>2, <1>3
  <1>6. /\ x.children \in [Elements -> Seq(Nodes)]
        /\ \A n \in Elements : n \in gone => x.children[n] = <<>> /\ x.parent[n] = None
        /\ \A n \in Elements : n \notin gone =>
              x.children[n] = d.children[n] /\ x.parent[n] = d.parent[n]
        /\ x.registry = d.registry \ gone
    BY <1>1, <1>2, <1>4 DEF Buried, gone
  <1>7. Page \notin gone
    <2>1. d.parent[Page] = None
      <3>1. ASSUME d.parent[Page] # None PROVE Page \in Nodes
        BY <1>3, <3>1, PlaceOfChild
      <3> QED
        BY <3>1, <1>3
    <2> QED
      BY <2>1, <1>1, <1>2, <1>3
  <1>8. Tree(x)
    <2>1. x.parent \in [Elements -> Elements \cup {None}]
      BY DEF Buried, Tree
    <2>2. \A q \in Elements : \A i, j \in 1 .. Len(x.children[q]) :
            x.children[q][i] = x.children[q][j] => i = j
      <3> TAKE q \in Elements
      <3>1. CASE q \in gone
        BY <3>1, <1>6
      <3>2. CASE q \notin gone
        BY <3>2, <1>6 DEF Tree
      <3> QED
        BY <3>1, <3>2
    <2>3. \A q \in Elements : \A i \in 1 .. Len(x.children[q]) : x.parent[x.children[q][i]] = q
      <3> TAKE q \in Elements
      <3>1. CASE q \in gone
        BY <3>1, <1>6
      <3>2. CASE q \notin gone
        BY <3>2, <1>5, <1>6
      <3> QED
        BY <3>1, <3>2
    <2>4. ASSUME NEW n \in Elements, x.parent[n] # None
          PROVE  /\ \E i \in 1 .. Len(x.children[x.parent[n]]) : x.children[x.parent[n]][i] = n
                 /\ n \in x.registry /\ x.parent[n] \in x.registry
      <3>1. n \notin gone /\ x.parent[n] = d.parent[n] /\ d.parent[n] # None
        BY <2>4, <1>6
      <3>2. d.parent[n] \in Elements /\ d.parent[n] \notin gone
        BY <3>1, <1>2 DEF Tree
      <3>3. x.children[d.parent[n]] = d.children[d.parent[n]]
        BY <3>2, <1>6
      <3> QED
        BY <3>1, <3>2, <3>3, <1>6 DEF Tree
    <2>5. x.registry \subseteq Elements /\ Page \in x.registry
      BY <1>6, <1>7 DEF Tree
    <2> QED
      BY <1>6, <2>1, <2>2, <2>3, <2>4, <2>5 DEF Tree
  <1>9. ASSUME NEW q \in Elements, q \notin gone => PointersAt(d, q)
        PROVE  PointersAt(x, q)
    <2>1. CASE q \in gone
      BY <2>1, <1>6 DEF PointersAt
    <2>2. CASE q \notin gone
      <3> DEFINE s == d.children[q]
      <3>1. /\ x.children[q] = s /\ Len(s) \in Nat
            /\ \A i \in 1 .. Len(s) : s[i] \in Elements /\ s[i] \notin gone
        BY <2>2, <1>4, <1>5, <1>6
      <3>2. \A i \in 1 .. Len(s) : /\ d.prev[s[i]] = IF i = 1 THEN None ELSE s[i - 1]
                                   /\ d.next[s[i]] = IF i = Len(s) THEN None ELSE s[i + 1]
        BY <2>2, <1>9 DEF PointersAt
      <3>3. x.prev = [n \in Elements |-> IF n \in gone \/ d.prev[n] \in gone THEN None ELSE d.prev[n]]
        BY DEF Buried, gone
      <3>4. x.next = [n \in Elements |-> IF n \in gone \/ d.next[n] \in gone THEN None ELSE d.next[n]]
        BY DEF Buried, gone
      <3> HIDE DEF s
      <3>5. \A i \in 1 .. Len(s) : (i # 1 => i - 1 \in 1 .. Len(s)) /\ (i # Len(s) => i + 1 \in 1 .. Len(s))
        BY <3>1
      <3>6. ASSUME NEW i \in 1 .. Len(s)
            PROVE  x.prev[s[i]] = d.prev[s[i]] /\ x.next[s[i]] = d.next[s[i]]
        <4>1. d.prev[s[i]] \notin gone /\ d.next[s[i]] \notin gone
          BY <3>1, <3>2, <3>5, <1>1, <1>3
        <4> QED
          BY <4>1, <3>1, <3>3, <3>4
      <3> QED
        BY <3>1, <3>2, <3>6 DEF PointersAt
    <2> QED
      BY <2>1, <2>2
  <1> QED
    BY <1>8, <1>9 DEF gone

-----------------------------------------------------------------------------
(* What the calls of JS do to the tree.                                    *)
LEMMA RemoveFields ==
  ASSUME NEW d, IsDoc(d), NEW r
  PROVE  LET q == ParentRef(d, r)
         IN  /\ RemoveChild(d, r).kids = IF q = None THEN d.kids
                                         ELSE [d.kids EXCEPT ![q] = Erased(@, r)]
             /\ RemoveChild(d, r).calls =
                    IF q = None THEN d.calls
                    ELSE Append(d.calls, [op |-> "remove", parent |-> q, child |-> r, index |-> 0])
  <1> DEFINE q == ParentRef(d, r)
             y == [d EXCEPT !.kids[q] = Erased(@, r)]
             z == addDelayedCall(y, "remove", q, r, 0)
  <1>1. RemoveChild(d, r) = IF q = None THEN d ELSE z
    BY DEF RemoveChild
  <1> HIDE DEF q
  <1>2. IsDoc(y) /\ y.kids = [d.kids EXCEPT ![q] = Erased(@, r)] /\ y.calls = d.calls
    BY DEF IsDoc
  <1> HIDE DEF y
  <1>3. z.kids = y.kids
    BY <1>2 DEF addDelayedCall, IsDoc
  <1>4. z.calls = Append(y.calls, [op |-> "remove", parent |-> q, child |-> r, index |-> 0])
    BY <1>2 DEF addDelayedCall, IsDoc
  <1> HIDE DEF z
  <1> QED
    BY <1>1, <1>2, <1>3, <1>4 DEF q

LEMMA RemoveSame ==
  ASSUME NEW d, IsDoc(d), NEW u, IsDoc(u), u.kids = d.kids, u.calls = d.calls, NEW r
  PROVE  /\ RemoveChild(u, r).kids = RemoveChild(d, r).kids
         /\ RemoveChild(u, r).calls = RemoveChild(d, r).calls
  <1>1. ParentRef(u, r) = ParentRef(d, r)
    BY Zenon DEF ParentRef
  <1>2. /\ RemoveChild(u, r).kids = IF ParentRef(u, r) = None THEN u.kids
                                    ELSE [u.kids EXCEPT ![ParentRef(u, r)] = Erased(@, r)]
        /\ RemoveChild(u, r).calls = IF ParentRef(u, r) = None THEN u.calls
             ELSE Append(u.calls, [op |-> "remove", parent |-> ParentRef(u, r), child |-> r, index |-> 0])
    BY RemoveFields
  <1>3. /\ RemoveChild(d, r).kids = IF ParentRef(d, r) = None THEN d.kids
                                    ELSE [d.kids EXCEPT ![ParentRef(d, r)] = Erased(@, r)]
        /\ RemoveChild(d, r).calls = IF ParentRef(d, r) = None THEN d.calls
             ELSE Append(d.calls, [op |-> "remove", parent |-> ParentRef(d, r), child |-> r, index |-> 0])
    BY RemoveFields
  <1> QED
    BY <1>1, <1>2, <1>3, Zenon

LEMMA DetachFields ==
  ASSUME NEW d, Tree(d), NEW e \in Elements, NEW new
  PROVE  LET x == detachTaroNodeReference(d, new, e)
             p == d.parent[e]
             y == IF d.init[e] /\ Built(d, p) THEN RemoveChild(d, RenderOf(d, e)) ELSE d
         IN  /\ IsDoc(x) /\ SameStyles(d, x)
             /\ x.build = d.build /\ x.style = d.style /\ x.flaws = d.flaws
             /\ p = None => x = d
             /\ p # None =>
                /\ Unlinked(d, x, p, IndexOf(d.children[p], e))
                /\ x.init = IF d.init[e] THEN [d.init EXCEPT ![e] = FALSE] ELSE d.init
                /\ x.ignore = IF d.init[e]
                              THEN [d.ignore EXCEPT ![e] = @ \/ (Built(d, e) /\ Built(d, new))]
                              ELSE d.ignore
                /\ x.kids = y.kids /\ x.calls = y.calls
  <1> DEFINE p == d.parent[e]
             i == IndexOf(d.children[p], e)
             Before == IF i > 1 THEN {d.children[p][i - 1]} ELSE {}
             After == IF i < Len(d.children[p]) THEN {d.children[p][i + 1]} ELSE {}
             u == [d EXCEPT
                    !.next = [n \in Elements |->
                        IF n \in Before THEN d.next[e] ELSE IF n = e THEN None ELSE @[n]],
                    !.prev = [n \in Elements |->
                        IF n \in After THEN d.prev[e] ELSE IF n = e THEN None ELSE @[n]],
                    !.children[p] = RemoveAt(@, i),
                    !.parent[e] = None]
             m == IF Built(d, p) THEN RemoveChild(u, RenderOf(d, e)) ELSE u
             x == [m EXCEPT !.ignore[e] = @ \/ (Built(d, e) /\ Built(d, new)),
                            !.init[e] = FALSE]
             y == IF d.init[e] /\ Built(d, p) THEN RemoveChild(d, RenderOf(d, e)) ELSE d
  <1>1. detachTaroNodeReference(d, new, e) = IF p = None THEN d ELSE IF ~d.init[e] THEN u ELSE x
    BY DEF detachTaroNodeReference
  <1>2. IsDoc(d) /\ SameStyles(d, d)
    BY DEF Tree, SameStyles
  <1>3. CASE p = None
    BY <1>1, <1>2, <1>3
  <1>4. CASE p # None
    <2>1. d.children[p][i] = e
      BY <1>4, PlaceOfChild
    <2>2. IsDoc(u)
      <3>1. d = [n \in Fields |-> d[n]]
        BY <1>2, DocIsRecord
      <3>2. u = [n \in Fields |-> u[n]]
        BY <3>1
      <3> HIDE DEF u
      <3> QED
        BY <3>2, DocIsRecord
    <2> HIDE DEF i
    <2>3. /\ u.registry = d.registry /\ u.born = d.born /\ SameStyles(d, u) /\ SameBuilds(d, u)
          /\ u.flaws = d.flaws /\ u.kids = d.kids /\ u.calls = d.calls
      BY <1>2 DEF IsDoc, SameStyles, SameBuilds
    <2>4. u.children = [d.children EXCEPT ![p] = RemoveAt(@, i)]
      BY <1>2 DEF IsDoc
    <2>5. u.parent = [d.parent EXCEPT ![e] = None]
      BY <1>2 DEF IsDoc
    <2>6. u.next = [n \in Elements |-> IF n \in Before THEN d.next[e]
                                       ELSE IF n = e THEN None ELSE d.next[n]]
      BY <1>2 DEF IsDoc
    <2>7. u.prev = [n \in Elements |-> IF n \in After THEN d.prev[e]
                                       ELSE IF n = e THEN None ELSE d.prev[n]]
      BY <1>2 DEF IsDoc
    <2>8. Unlinked(d, u, p, i)
      <3> HIDE DEF u
      <3>1. u.next = [n \in Elements |-> IF n \in Before THEN d.next[d.children[p][i]]
                                       ELSE IF n = d.children[p][i] THEN None ELSE d.next[n]]
        BY <2>1, <2>6
      <3>2. u.prev = [n \in Elements |-> IF n \in After THEN d.prev[d.children[p][i]]
                                       ELSE IF n = d.children[p][i] THEN None ELSE d.prev[n]]
        BY <2>1, <2>7
      <3> HIDE DEF p
      <3> QED
        BY <2>1, <2>3, <2>4, <2>5, <3>1, <3>2 DEF Unlinked
    <2> HIDE DEF u
    <2>9. RenderOnly(u, m) /\ IsDoc(m)
      BY <2>2, RenderParts DEF RenderOnly
    <2>10. /\ m.kids = (IF Built(d, p) THEN RemoveChild(d, RenderOf(d, e)) ELSE d).kids
           /\ m.calls = (IF Built(d, p) THEN RemoveChild(d, RenderOf(d, e)) ELSE d).calls
      <3>1. \A r : /\ RemoveChild(u, r).kids = RemoveChild(d, r).kids
                   /\ RemoveChild(u, r).calls = RemoveChild(d, r).calls
        BY <1>2, <2>2, <2>3, RemoveSame
      <3> QED
        BY <2>3, <3>1 DEF m
    <2> HIDE DEF m, p
    <2>11. IsDoc(x)
      <3>1. m = [n \in Fields |-> m[n]]
        BY <2>9, DocIsRecord
      <3>2. x = [n \in Fields |-> x[n]]
        BY <3>1
      <3> HIDE DEF x
      <3> QED
        BY <3>2, DocIsRecord
    <2>12. /\ SameTree(m, x) /\ SameStyles(m, x) /\ x.build = m.build /\ x.style = m.style
           /\ x.flaws = m.flaws /\ x.kids = m.kids /\ x.calls = m.calls
      BY <2>9 DEF IsDoc, SameTree, SameStyles
    <2>13. x.init = [m.init EXCEPT ![e] = FALSE]
      BY <2>9 DEF IsDoc
    <2>14. x.ignore = [m.ignore EXCEPT ![e] = @ \/ (Built(d, e) /\ Built(d, new))]
      BY <2>9 DEF IsDoc
    <2> HIDE DEF x
    <2>15. Unlinked(d, x, p, i)
      BY <2>8, <2>9, <2>12 DEF Unlinked, RenderOnly, SameTree
    <2>16. CASE ~d.init[e]
      <3>1. detachTaroNodeReference(d, new, e) = u
        BY <1>1, <1>4, <2>16 DEF p
      <3> QED
        BY <1>4, <2>2, <2>3, <2>8, <2>16, <3>1 DEF SameBuilds, i, p
    <2>17. CASE d.init[e]
      <3>1. detachTaroNodeReference(d, new, e) = x
        BY <1>1, <1>4, <2>17 DEF p
      <3>2. /\ SameStyles(d, x) /\ x.build = d.build /\ x.style = d.style /\ x.flaws = d.flaws
            /\ x.init = [d.init EXCEPT ![e] = FALSE]
            /\ x.ignore = [d.ignore EXCEPT ![e] = @ \/ (Built(d, e) /\ Built(d, new))]
        BY <2>3, <2>9, <2>12, <2>13, <2>14 DEF SameBuilds, SameStyles, RenderOnly
      <3> QED
        BY <1>4, <2>10, <2>11, <2>12, <2>15, <2>17, <3>1, <3>2 DEF i, p
    <2> QED
      BY <2>16, <2>17
  <1> QED
    BY <1>3, <1>4

LEMMA LinkFields ==
  ASSUME NEW d, IsDoc(d), NEW p, NEW e, NEW i, NEW prev, NEW next
  PROVE  LET x == Link(d, p, e, i, prev, next)
         IN  /\ IsDoc(x) /\ Linked(d, x, p, i, e, prev, next)
             /\ SameStyles(d, x) /\ SameBuilds(d, x)
             /\ x.kids = d.kids /\ x.calls = d.calls
             /\ x.flaws = d.flaws \cup
                    IF e \in d.descend /\ (~d.dirty \/ (p # Page /\ p \notin d.descend))
                    THEN {"movemarked"} ELSE {}
  <1> DEFINE x == Link(d, p, e, i, prev, next)
  <1>1. IsDoc(x)
    <2>1. d = [n \in Fields |-> d[n]]
      BY DocIsRecord
    <2>2. x = [n \in Fields |-> x[n]]
      BY <2>1 DEF Link
    <2> HIDE DEF x
    <2> QED
      BY <2>2, DocIsRecord
  <1>2. /\ x.registry = d.registry /\ x.born = d.born /\ x.kids = d.kids /\ x.calls = d.calls
        /\ SameStyles(d, x) /\ SameBuilds(d, x)
    BY DEF Link, IsDoc, SameStyles, SameBuilds
  <1>3. x.children = [d.children EXCEPT ![p] = InsertAt(@, i, e)]
    BY DEF Link, IsDoc
  <1>4. x.parent = [d.parent EXCEPT ![e] = p]
    BY DEF Link, IsDoc
  <1>5. x.next = [n \in Elements |-> IF n = e THEN next ELSE IF n = prev THEN e ELSE d.next[n]]
    BY DEF Link, IsDoc
  <1>6. x.prev = [n \in Elements |-> IF n = e THEN prev ELSE IF n = next THEN e ELSE d.prev[n]]
    BY DEF Link, IsDoc
  <1>7. x.flaws = d.flaws \cup
                    IF e \in d.descend /\ (~d.dirty \/ (p # Page /\ p \notin d.descend))
                    THEN {"movemarked"} ELSE {}
    BY DEF Link, IsDoc
  <1> HIDE DEF x
  <1>8. Linked(d, x, p, i, e, prev, next)
    BY <1>2, <1>3, <1>4, <1>5, <1>6 DEF Linked
  <1> QED
    BY <1>1, <1>2, <1>7, <1>8 DEF x

LEMMA DetachedTree ==
  ASSUME NEW d, Tree(d), NEW e \in Elements, NEW new
  PROVE  LET x == detachTaroNodeReference(d, new, e)
         IN  /\ Tree(x) /\ x.registry = d.registry /\ x.born = d.born /\ x.parent[e] = None
             /\ \A n \in Elements : n # e => x.parent[n] = d.parent[n]
             /\ \A q \in Elements : PointersAt(d, q) => PointersAt(x, q)
             /\ \A n \in Elements : n # d.parent[e] => x.children[n] = d.children[n]
  <1> DEFINE x == detachTaroNodeReference(d, new, e)
             p == d.parent[e]
             i == IndexOf(d.children[p], e)
  <1>1. CASE p = None
    <2>1. x = d
      BY <1>1, DetachFields
    <2> QED
      BY <1>1, <2>1
  <1>2. CASE p # None
    <2>1. IsDoc(x) /\ Unlinked(d, x, p, i)
      BY <1>2, DetachFields
    <2>2. p \in Elements /\ i \in 1 .. Len(d.children[p]) /\ d.children[p][i] = e
      BY <1>2, PlaceOfChild DEF Tree
    <2> HIDE DEF x, i
    <2>3. /\ Tree(x) /\ x.parent[e] = None
          /\ \A q \in Elements : PointersAt(d, q) => PointersAt(x, q)
      BY <2>1, <2>2, UnlinkedTree
    <2>4. /\ x.registry = d.registry /\ x.born = d.born
          /\ \A n \in Elements : n # e => x.parent[n] = d.parent[n]
          /\ \A n \in Elements : n # p => x.children[n] = d.children[n]
      BY <2>1, <2>2 DEF Unlinked, Tree
    <2> QED
      BY <2>3, <2>4 DEF x
  <1> QED
    BY <1>1, <1>2

LEMMA BuildElementParts ==
  ASSUME NEW d, IsDoc(d), NEW e
  PROVE  BuildOnly(d, BuildElement(d, e))
  <1> DEFINE N == Cardinality(Elements)
  <1>1. PICK g : /\ g[0] = [doc |-> d, todo |-> <<e>>]
                 /\ \A k \in 1 .. N : g[k] = BuildNext(g[k - 1])
                 /\ BuildElement(d, e) = g[N].doc
    BY BuildTrace
  <1> DEFINE T == {k \in Nat : k <= N => BuildOnly(d, g[k].doc)}
  <1>2. \A s : BuildOnly(d, s.doc) => BuildOnly(d, BuildNext(s).doc)
    <2> TAKE s
    <2> HAVE BuildOnly(d, s.doc)
    <2>1. \A n, b : BuildOnly(d, BuildProcess(s.doc, n, b))
      BY BuildParts, BuildComposes DEF BuildOnly
    <2> QED
      BY <2>1 DEF BuildNext
  <1>3. 0 \in T
    BY <1>1, BuildComposes
  <1>4. ASSUME NEW k \in Nat, k \in T PROVE k + 1 \in T
    <2>1. k + 1 <= N => k <= N /\ k + 1 \in 1 .. N /\ (k + 1) - 1 = k
      BY ElementsFinite
    <2> QED
      BY <1>1, <1>2, <1>4, <2>1
  <1>5. N \in T
    <2>1. N \in Nat
      BY ElementsFinite
    <2> HIDE DEF T
    <2> QED
      BY <2>1, <1>3, <1>4, Induction
  <1> QED
    BY <1>1, <1>5

LEMMA DestroyParts ==
  ASSUME NEW d, IsDoc(d), NEW e
  PROVE  RenderOnly(d, Destroy(d, e))
  <1> DEFINE N == Cardinality(Elements)
  <1>1. PICK g : /\ g[0] = [doc |-> d, todo |-> <<e>>]
                 /\ \A k \in 1 .. N : g[k] = DestroyNext(g[k - 1])
                 /\ Destroy(d, e) = g[N].doc
    BY DestroyTrace
  <1> DEFINE T == {k \in Nat : k <= N => RenderOnly(d, g[k].doc)}
  <1>2. \A s : RenderOnly(d, s.doc) => RenderOnly(d, DestroyNext(s).doc)
    <2> TAKE s
    <2> HAVE RenderOnly(d, s.doc)
    <2>1. \A r : RenderOnly(d, RemoveChild(s.doc, r))
      BY RenderParts, RenderComposes DEF RenderOnly
    <2> QED
      BY <2>1 DEF DestroyNext
  <1>3. 0 \in T
    BY <1>1, RenderParts
  <1>4. ASSUME NEW k \in Nat, k \in T PROVE k + 1 \in T
    <2>1. k + 1 <= N => k <= N /\ k + 1 \in 1 .. N /\ (k + 1) - 1 = k
      BY ElementsFinite
    <2> QED
      BY <1>1, <1>2, <1>4, <2>1
  <1>5. N \in T
    <2>1. N \in Nat
      BY ElementsFinite
    <2> HIDE DEF T
    <2> QED
      BY <2>1, <1>3, <1>4, Induction
  <1> QED
    BY <1>1, <1>5

LEMMA ResolveChildParts ==
  ASSUME NEW d, IsDoc(d), NEW e
  PROVE  InPlace(d, ResolveChild(d, e))
  <1> DEFINE matched == [d EXCEPT !.invalid = @ \ {e}, !.style[e] = d.want[e]]
  <1>1. InPlace(d, matched)
    <2>1. IsDoc(matched) /\ d.flaws = matched.flaws
      <3>1. d = [n \in Fields |-> d[n]]
        BY DocIsRecord
      <3>2. matched = [n \in Fields |-> matched[n]] /\ d.flaws = matched.flaws
        BY <3>1 DEF Fields
      <3> HIDE DEF matched
      <3> QED
        BY <3>2, DocIsRecord
    <2>3. SameTree(d, matched)
      BY DEF IsDoc, SameTree
    <2>2. matched.want = d.want /\ matched.descend = d.descend /\ matched.invalid = d.invalid \ {e}
      BY DEF IsDoc
    <2> HIDE DEF matched
    <2> QED
      BY <2>1, <2>2, <2>3 DEF InPlace
  <1>2. InPlace(d, d)
    BY BuildComposes
  <1> HIDE DEF matched
  <1>3. \A b : InPlace(d, BuildProcess(matched, e, b))
    BY <1>1, BuildParts, BuildComposes DEF InPlace
  <1> QED
    BY <1>2, <1>3 DEF ResolveChild, matched

(* The resolver on its way: a document that came from d in place, and the  *)
(* stack of marked elements.                                               *)
Resolving(d, s) == InPlace(d, s.doc) /\ s.todo \in Seq(Elements)

LEMMA ResolveNextParts ==
  ASSUME NEW d, NEW s, Resolving(d, s), NEW e \in Elements
  PROVE  Resolving(d, ResolveNext(s, e))
  <1> DEFINE resolved == ResolveChild(s.doc, e)
             y == [resolved EXCEPT !.descend = @ \ {e}]
  <1>1. InPlace(d, resolved) /\ IsDoc(resolved)
    <2>1. InPlace(d, s.doc) /\ IsDoc(s.doc)
      BY DEF Resolving, InPlace
    <2>2. InPlace(s.doc, resolved)
      BY <2>1, ResolveChildParts
    <2> HIDE DEF resolved
    <2>3. InPlace(d, resolved)
      BY <2>1, <2>2, BuildComposes
    <2> QED
      BY <2>3 DEF InPlace
  <1> HIDE DEF resolved
  <1>2. InPlace(d, y)
    <2>1. IsDoc(y) /\ SameTree(resolved, y) /\ y.flaws = resolved.flaws
      BY <1>1 DEF IsDoc, SameTree
    <2>2. y.want = resolved.want /\ y.invalid = resolved.invalid /\ y.descend = resolved.descend \ {e}
      BY <1>1 DEF IsDoc
    <2> HIDE DEF y
    <2>3. InPlace(resolved, y)
      BY <2>1, <2>2 DEF InPlace
    <2> QED
      BY <1>1, <2>3, BuildComposes
  <1>3. s.todo \in Seq(Elements) /\ <<e>> \o s.todo \in Seq(Elements)
    BY DEF Resolving
  <1> HIDE DEF y
  <1> QED
    BY <1>1, <1>2, <1>3 DEF ResolveNext, Resolving, resolved, y

LEMMA ResolveChildrenParts ==
  ASSUME NEW d, Tree(d), NEW s, Resolving(d, s)
  PROVE  Resolving(d, ResolveChildren(s))
  <1>1. CASE s.todo = <<>>
    BY <1>1 DEF ResolveChildren
  <1>2. CASE s.todo # <<>>
    <2> DEFINE es == s.doc.children[Head(s.todo)]
    <2>1. Head(s.todo) \in Elements /\ Tail(s.todo) \in Seq(Elements)
      BY <1>2, TailWithin DEF Resolving
    <2>2. es \in Seq(Nodes) /\ Len(es) \in Nat
      BY <2>1 DEF Resolving, InPlace, SameTree, Tree
    <2>7. es = s.doc.children[Head(s.todo)]
      OBVIOUS
    <2> HIDE DEF es
    <2>8. \E g : ChildSteps(s, es, g)
      BY <1>2, <2>2, <2>7, ChildrenTrace
    <2>3. PICK g : /\ g[0] = [doc |-> s.doc, todo |-> Tail(s.todo)]
                   /\ \A k \in 1 .. Len(es) : g[k] = ResolveNext(g[k - 1], es[Len(es) + 1 - k])
                   /\ ResolveChildren(s) = g[Len(es)]
      BY <2>8 DEF ChildSteps
    <2> DEFINE T == {k \in Nat : k <= Len(es) => Resolving(d, g[k])}
    <2>4. 0 \in T
      <3>1. g[0].doc = s.doc /\ g[0].todo = Tail(s.todo)
        BY <2>3
      <3> QED
        BY <2>1, <3>1 DEF Resolving
    <2>5. ASSUME NEW k \in Nat, k \in T PROVE k + 1 \in T
      <3>1. k + 1 <= Len(es) =>
              k <= Len(es) /\ k + 1 \in 1 .. Len(es) /\ (k + 1) - 1 = k
              /\ Len(es) + 1 - (k + 1) \in 1 .. Len(es)
        BY <2>2
      <3>2. \A j \in 1 .. Len(es) : es[j] \in Elements
        BY <2>2 DEF Elements
      <3>3. k + 1 <= Len(es) => Resolving(d, g[k]) /\ es[Len(es) + 1 - (k + 1)] \in Elements
        BY <2>5, <3>1, <3>2
      <3>4. k + 1 <= Len(es) => g[k + 1] = ResolveNext(g[k], es[Len(es) + 1 - (k + 1)])
        BY <2>3, <3>1
      <3> QED
        BY <3>3, <3>4, ResolveNextParts
    <2>6. Len(es) \in T
      <3> HIDE DEF T
      <3> QED
        BY <2>2, <2>4, <2>5, Induction
    <2> QED
      BY <2>2, <2>3, <2>6
  <1> QED
    BY <1>1, <1>2

LEMMA ResolveParts ==
  ASSUME NEW d, Tree(d), d.descend \subseteq Elements, NEW e \in Elements
  PROVE  InPlace(d, resolver(d, e))
  <1> DEFINE N == 1 + Cardinality(d.descend)
  <1>1. Cardinality(d.descend) \in Nat
    BY ElementsFinite, FS_Subset, FS_CardinalityType
  <1>2. PICK g : /\ g[0] = [doc |-> d, todo |-> <<e>>]
                 /\ \A k \in 1 .. N : g[k] = ResolveChildren(g[k - 1])
                 /\ resolver(d, e) = g[N].doc
    BY <1>1, ResolveTrace
  <1> DEFINE T == {k \in Nat : k <= N => Resolving(d, g[k])}
  <1>3. 0 \in T
    <2>1. BuildOnly(d, d)
      BY BuildComposes DEF Tree
    <2>2. InPlace(d, d) /\ <<e>> \in Seq(Elements)
      BY <2>1, BuildComposes
    <2>3. g[0].doc = d /\ g[0].todo = <<e>>
      BY <1>2
    <2> QED
      BY <2>2, <2>3 DEF Resolving
  <1>4. ASSUME NEW k \in Nat, k \in T PROVE k + 1 \in T
    <2>1. k + 1 <= N => k <= N /\ k + 1 \in 1 .. N /\ (k + 1) - 1 = k
      BY <1>1
    <2> QED
      BY <1>2, <1>4, <2>1, ResolveChildrenParts
  <1>5. N \in T
    <2>1. N \in Nat
      BY <1>1
    <2> HIDE DEF T, N
    <2> QED
      BY <2>1, <1>3, <1>4, Induction
  <1>6. N <= N
    BY <1>1
  <1> QED
    BY <1>2, <1>5, <1>6 DEF Resolving

(* The tree with the marks on it, and with its sibling pointers.           *)
Rooted(d) == Tree(d) /\ d.invalid \subseteq d.registry /\ d.descend \subseteq d.registry
Sound(d) == Rooted(d) /\ \A q \in Elements : PointersAt(d, q)

LEMMA InPlaceKeeps ==
  ASSUME NEW d, NEW x, InPlace(d, x)
  PROVE  /\ Tree(d) => Tree(x)
         /\ Rooted(d) => Rooted(x)
         /\ Sound(d) => Sound(x)
         /\ \A q : PointersAt(d, q) => PointersAt(x, q)
  <1>1. IsDoc(x) /\ SameTree(d, x)
    BY DEF InPlace
  <1>2. Tree(d) => Tree(x)
    BY <1>1 DEF Tree, SameTree
  <1>3. \A q : PointersAt(d, q) => PointersAt(x, q)
    BY <1>1 DEF PointersAt, SameTree
  <1>4. Rooted(d) => Rooted(x)
    BY <1>1, <1>2 DEF Rooted, SameTree, InPlace
  <1> QED
    BY <1>2, <1>3, <1>4 DEF Sound

LEMMA RemovedTree ==
  ASSUME NEW d, Rooted(d), NEW e \in Nodes, NEW p
  PROVE  LET x == removeChild(d, p, e)
             t == detachTaroNodeReference(d, p, e)
         IN  /\ Rooted(x) /\ x.flaws = d.flaws
             /\ (\A q \in Elements : PointersAt(t, q)) => Sound(x)
  <1> DEFINE t == detachTaroNodeReference(d, p, e)
             y == Destroy(t, e)
             x == Bury(y, Subtree(t, e))
  <1>1. e \in Elements
    BY DEF Elements
  <1>2. Tree(t) /\ t.registry = d.registry /\ t.parent[e] = None /\ IsDoc(t)
    BY <1>1, DetachedTree DEF Rooted, Tree
  <1>3. SameStyles(d, t) /\ t.flaws = d.flaws
    BY <1>1, DetachFields DEF Rooted
  <1> HIDE DEF t
  <1>4. RenderOnly(t, y)
    BY <1>2, DestroyParts
  <1>5. InPlace(t, y) /\ y.parent = t.parent /\ y.children = t.children /\ y.flaws = t.flaws
    BY <1>4, BuildComposes DEF RenderOnly, SameTree
  <1> HIDE DEF y
  <1>6. Tree(y) /\ \A q \in Elements : PointersAt(t, q) => PointersAt(y, q)
    BY <1>2, <1>5, InPlaceKeeps
  <1>7. Subtree(t, e) = Subtree(y, e)
    BY <1>5, Zenon DEF Subtree
  <1>8. /\ IsDoc(x) /\ Buried(y, x, Subtree(y, e)) /\ x.flaws = y.flaws
        /\ x.invalid = y.invalid \ Subtree(y, e) /\ x.descend = y.descend \ Subtree(y, e)
    <2>1. IsDoc(y)
      BY <1>6 DEF Tree
    <2>2. x = Bury(y, Subtree(y, e))
      BY <1>7
    <2> HIDE DEF x
    <2>3. /\ IsDoc(Bury(y, Subtree(y, e))) /\ Buried(y, Bury(y, Subtree(y, e)), Subtree(y, e))
          /\ Emptied(y, Bury(y, Subtree(y, e)), Subtree(y, e))
      BY <2>1, BuryFields
    <2>4. IsDoc(x) /\ Buried(y, x, Subtree(y, e)) /\ Emptied(y, x, Subtree(y, e))
      BY <2>2, <2>3
    <2> QED
      BY <2>4 DEF Emptied
  <1> HIDE DEF x
  <1>9. /\ Tree(x) /\ \A q \in Elements : (q \notin Subtree(y, e) => PointersAt(y, q)) => PointersAt(x, q)
    BY <1>2, <1>5, <1>6, <1>8, BuriedTree
  <1>10. Rooted(x)
    <2>1. y.registry = d.registry /\ y.invalid = d.invalid /\ y.descend = d.descend
      BY <1>2, <1>3, <1>4 DEF RenderOnly, SameTree, SameStyles
    <2> QED
      BY <1>8, <1>9, <2>1 DEF Rooted, Buried
  <1>11. x = removeChild(d, p, e)
    BY DEF removeChild, x, y, t
  <1> QED
    BY <1>3, <1>5, <1>6, <1>8, <1>9, <1>10, <1>11 DEF Sound, t

LEMMA RemovedSound ==
  ASSUME NEW d, Sound(d), NEW e \in Nodes, NEW p
  PROVE  Sound(removeChild(d, p, e))
  <1>1. e \in Elements
    BY DEF Elements
  <1>2. \A q \in Elements : PointersAt(detachTaroNodeReference(d, p, e), q)
    BY <1>1, DetachedTree DEF Sound, Rooted
  <1> QED
    BY <1>2, RemovedTree DEF Sound

(* A detached element and a place for it beside the child ref, or last.    *)
LEMMA Detached ==
  ASSUME NEW d, Rooted(d), NEW e \in Nodes, e \in d.registry, NEW p \in d.registry
  PROVE  LET x == detachTaroNodeReference(d, p, e)
         IN  /\ Rooted(x) /\ (Sound(d) => Sound(x))
             /\ e \in x.registry /\ p \in x.registry /\ x.parent[e] = None
             /\ x.flaws = d.flaws
             /\ \A n \in Elements : n # e => x.parent[n] = d.parent[n]
  <1>1. e \in Elements
    BY DEF Elements
  <1> DEFINE x == detachTaroNodeReference(d, p, e)
  <1>2. SameStyles(d, x) /\ x.flaws = d.flaws
    BY <1>1, DetachFields DEF Rooted
  <1>3. /\ Tree(x) /\ x.registry = d.registry /\ x.parent[e] = None
        /\ \A n \in Elements : n # e => x.parent[n] = d.parent[n]
        /\ \A q \in Elements : PointersAt(d, q) => PointersAt(x, q)
    BY <1>1, DetachedTree DEF Rooted
  <1> HIDE DEF x
  <1> QED
    BY <1>2, <1>3 DEF Sound, Rooted, SameStyles, x

LEMMA LinkedRooted ==
  ASSUME NEW d, Rooted(d), NEW e \in Nodes, e \in d.registry, NEW p \in d.registry,
         d.parent[e] = None, NEW i \in 1 .. Len(d.children[p]) + 1, NEW prev, NEW next
  PROVE  Rooted(Link(d, p, e, i, prev, next))
  <1> DEFINE x == Link(d, p, e, i, prev, next)
  <1>1. IsDoc(d) /\ Tree(d)
    BY DEF Rooted, Tree
  <1>2. IsDoc(x) /\ Linked(d, x, p, i, e, prev, next) /\ SameStyles(d, x)
    BY <1>1, LinkFields
  <1> HIDE DEF x
  <1>3. Tree(x)
    BY <1>1, <1>2, LinkedTree
  <1> QED
    BY <1>2, <1>3 DEF Rooted, SameStyles, Linked, x

LEMMA LinkedSound ==
  ASSUME NEW d, Sound(d), NEW e \in Nodes, e \in d.registry, NEW p \in d.registry,
         d.parent[e] = None, NEW i \in 1 .. Len(d.children[p]) + 1, NEW prev, NEW next,
         Between(d, p, i, prev, next)
  PROVE  Sound(Link(d, p, e, i, prev, next))
  <1> DEFINE x == Link(d, p, e, i, prev, next)
  <1>1. IsDoc(d) /\ Tree(d) /\ p \in Elements
    BY DEF Sound, Rooted, Tree
  <1>2. IsDoc(x) /\ Linked(d, x, p, i, e, prev, next) /\ SameStyles(d, x)
    BY <1>1, LinkFields
  <1> HIDE DEF x
  <1>3. \A k \in 1 .. Len(d.children[p]) :
            d.children[p][k] \in Elements /\ d.parent[d.children[p][k]] = p
    BY <1>1 DEF Tree, Elements
  <1>4. d.children[p] \in Seq(Nodes) /\ Len(d.children[p]) \in Nat
    BY <1>1 DEF Tree
  <1>5. ChildOrNone(d, p, prev) /\ ChildOrNone(d, p, next)
    <2>1. i # 1 => i - 1 \in 1 .. Len(d.children[p])
      BY <1>4
    <2>2. i # Len(d.children[p]) + 1 => i \in 1 .. Len(d.children[p])
      BY <1>4
    <2> QED
      BY <1>3, <2>1, <2>2 DEF ChildOrNone, Between
  <1>6. /\ Tree(x)
        /\ \A q \in Elements : q # p /\ PointersAt(d, q) => PointersAt(x, q)
        /\ PointersAt(d, p) => PointersAt(x, p)
    BY <1>1, <1>2, <1>5, LinkedTree
  <1> QED
    BY <1>1, <1>2, <1>6 DEF Sound, Rooted, SameStyles, Linked, x

LEMMA AppendedSound ==
  ASSUME NEW d, Sound(d), NEW e \in Nodes, e \in d.registry, NEW p \in d.registry
  PROVE  Sound(appendChild(d, p, e)) /\ d.flaws \subseteq appendChild(d, p, e).flaws
  <1> DEFINE x == detachTaroNodeReference(d, p, e)
             s == x.children[p]
             prev == IF s = <<>> THEN None ELSE Last(s)
  <1>1. Sound(x) /\ e \in x.registry /\ p \in x.registry /\ x.parent[e] = None /\ x.flaws = d.flaws
    BY Detached DEF Sound
  <1> HIDE DEF x
  <1>2. s \in Seq(Nodes) /\ Len(s) \in Nat
    BY <1>1 DEF Sound, Rooted, Tree
  <1>3. Len(s) + 1 \in 1 .. Len(s) + 1 /\ Len(s) + 1 - 1 = Len(s) /\ (Len(s) + 1 = 1 <=> s = <<>>)
    BY <1>2
  <1>4. prev = IF Len(s) + 1 = 1 THEN None ELSE s[Len(s) + 1 - 1]
    BY <1>3 DEF Last
  <1> HIDE DEF prev
  <1>5. Sound(Link(x, p, e, Len(s) + 1, prev, None))
    <2>1. Between(x, p, Len(s) + 1, prev, None)
      BY <1>4 DEF Between
    <2> QED
      BY <1>1, <1>3, <2>1, LinkedSound
  <1>6. x.flaws \subseteq Link(x, p, e, Len(s) + 1, prev, None).flaws
    BY <1>1, LinkFields DEF Sound, Rooted, Tree
  <1>7. appendChild(d, p, e) = Link(x, p, e, Len(s) + 1, prev, None)
    BY DEF appendChild, x, prev
  <1> QED
    BY <1>1, <1>5, <1>6, <1>7

LEMMA InsertedSound ==
  ASSUME NEW d, Sound(d), NEW e \in Nodes, e \in d.registry, NEW p \in d.registry,
         NEW ref \in Nodes, ref # e, d.parent[ref] = p
  PROVE  Sound(insertBefore(d, p, e, ref)) /\ d.flaws \subseteq insertBefore(d, p, e, ref).flaws
  <1> DEFINE x == detachTaroNodeReference(d, p, e)
             s == x.children[p]
             i == IndexOf(s, ref)
  <1>1. /\ Sound(x) /\ e \in x.registry /\ p \in x.registry /\ x.parent[e] = None
        /\ x.flaws = d.flaws /\ x.parent[ref] = p
    BY Detached DEF Elements, Sound
  <1> HIDE DEF x
  <1>2. p \in Elements /\ p # None /\ s \in Seq(Nodes) /\ Len(s) \in Nat
    BY <1>1, TreesAssumption DEF Sound, Rooted, Tree, Elements, ConstantsBounded
  <1>3. i \in 1 .. Len(s) /\ s[i] = ref
    BY <1>1, <1>2, PlaceOfChild DEF Sound, Rooted, Elements
  <1>4. x.prev[ref] = IF i = 1 THEN None ELSE s[i - 1]
    <2>1. PointersAt(x, p)
      BY <1>1, <1>2 DEF Sound
    <2> QED
      BY <1>3, <2>1 DEF PointersAt
  <1>5. i \in 1 .. Len(s) + 1 /\ i # Len(s) + 1
    BY <1>2, <1>3
  <1> HIDE DEF i
  <1>6. Sound(Link(x, p, e, i, x.prev[ref], ref))
    BY <1>1, <1>3, <1>4, <1>5, LinkedSound DEF Between
  <1>7. x.flaws \subseteq Link(x, p, e, i, x.prev[ref], ref).flaws
    BY <1>1, LinkFields DEF Sound, Rooted, Tree
  <1>8. insertBefore(d, p, e, ref) = Link(x, p, e, i, x.prev[ref], ref)
    BY DEF insertBefore, x, i
  <1> QED
    BY <1>1, <1>6, <1>7, <1>8

(* The last child replaced: the new child stays with the pointers of old.  *)
LEMMA LastReplaced ==
  ASSUME NEW f, Tree(f), NEW p \in Elements, PointersAt(f, p), Len(f.children[p]) # 0,
         NEW e \in Nodes, f.parent[e] = None,
         NEW x, Tree(x),
         LET old == f.children[p][Len(f.children[p])]
         IN  Linked(f, x, p, Len(f.children[p]), e, f.prev[old], f.next[old]),
         NEW t, Unlinked(x, t, p, Len(f.children[p]) + 1)
  PROVE  PointersAt(t, p)
  <1> DEFINE s == f.children[p]
             n == Len(s)
             old == s[n]
             l == x.children[p]
             m == t.children[p]
  <1>1. s \in Seq(Nodes) /\ n \in Nat /\ n # 0 /\ n \in 1 .. n /\ n \in 1 .. n + 1 /\ e \in Elements
    BY RowMembers DEF Elements
  <1>2. /\ \A j, k \in 1 .. n : s[j] = s[k] => j = k
        /\ \A k \in 1 .. n : s[k] \in Nodes /\ s[k] \in Elements /\ f.parent[s[k]] = p /\ s[k] # e
    <2>1. p # None
      BY TreesAssumption DEF Elements, ConstantsBounded
    <2> QED
      BY <2>1, RowMembers
  <1>3. /\ f.prev[old] = IF n = 1 THEN None ELSE s[n - 1]
        /\ f.next[old] = None
    BY <1>1 DEF PointersAt
  <1>4. /\ x.children = [f.children EXCEPT ![p] = InsertAt(s, n, e)]
        /\ x.next = [k \in Elements |-> IF k = e THEN f.next[old] ELSE IF k = f.prev[old] THEN e ELSE f.next[k]]
        /\ x.prev = [k \in Elements |-> IF k = e THEN f.prev[old] ELSE IF k = f.next[old] THEN e ELSE f.prev[k]]
    BY DEF Linked
  <1>5. l = InsertAt(s, n, e)
    <2>1. DOMAIN f.children = Elements
      BY DEF Tree
    <2> HIDE DEF s, n
    <2> QED
      BY <1>4, <2>1
  <1>6. \A k \in 1 .. n : /\ f.prev[s[k]] = IF k = 1 THEN None ELSE s[k - 1]
                          /\ f.next[s[k]] = IF k = n THEN None ELSE s[k + 1]
    BY DEF PointersAt
  <1> HIDE DEF s, l
  <1>7. /\ l \in Seq(Nodes) /\ Len(l) = n + 1
        /\ \A k \in 1 .. n + 1 : l[k] = IF k < n THEN s[k] ELSE IF k = n THEN e ELSE s[k - 1]
    <2>1. n = Len(s) /\ n \in 1 .. Len(s) + 1
      BY <1>1
    <2> HIDE DEF n
    <2>2. /\ InsertAt(s, n, e) \in Seq(Nodes) /\ Len(InsertAt(s, n, e)) = Len(s) + 1
          /\ \A k \in 1 .. Len(s) + 1 : InsertAt(s, n, e)[k] =
                IF k < n THEN s[k] ELSE IF k = n THEN e ELSE s[k - 1]
      <3>1. s \in Seq(Nodes) /\ n \in 1 .. Len(s) + 1
        BY <1>1, <2>1
      <3>2. InsertAt(s, n, e) \in Seq(Nodes) /\ Wider(s, n, e, InsertAt(s, n, e))
        BY <3>1, WidenedRow
      <3> QED
        BY <3>2 DEF Wider
    <2> QED
      BY <1>5, <2>1, <2>2
  <1>8. n + 1 \in 1 .. Len(l) /\ n + 1 > 1 /\ ~(n + 1 < Len(l)) /\ (n + 1) - 1 = n
    BY <1>1, <1>7
  <1>9. l[n] = e /\ l[n + 1] = old
    <2> HIDE DEF n
    <2>1. ~(n < n) /\ n + 1 \in 1 .. n + 1 /\ ~(n + 1 < n) /\ n + 1 # n
      BY <1>1
    <2> QED
      BY <1>1, <1>7, <1>8, <2>1
  <1>10. /\ t.children = [x.children EXCEPT ![p] = RemoveAt(l, n + 1)]
         /\ \A k \in Elements :
                /\ t.next[k] = IF k = e THEN x.next[old] ELSE IF k = old THEN None ELSE x.next[k]
                /\ t.prev[k] = IF k = old THEN None ELSE x.prev[k]
    <2>1. t.children = [x.children EXCEPT ![p] = RemoveAt(l, n + 1)]
      BY DEF Unlinked, s, l
    <2> DEFINE j == n + 1
    <2>2. Unlinked(x, t, p, j)
      BY DEF s
    <2>3. j > 1 /\ ~(j < Len(l)) /\ l[j - 1] = e /\ l[j] = old
      BY <1>8, <1>9
    <2> HIDE DEF n, j, old
    <2>4. \A k \in Elements :
              /\ t.next[k] = IF j > 1 /\ k = x.children[p][j - 1] THEN x.next[x.children[p][j]]
                             ELSE IF k = x.children[p][j] THEN None ELSE x.next[k]
              /\ t.prev[k] = IF j < Len(x.children[p]) /\ k = x.children[p][j + 1]
                             THEN x.prev[x.children[p][j]]
                             ELSE IF k = x.children[p][j] THEN None ELSE x.prev[k]
      BY <2>2, UnlinkedPointers
    <2>5. x.children[p] = l
      BY DEF l
    <2> QED
      BY <2>1, <2>3, <2>4, <2>5
  <1>11. m = RemoveAt(l, n + 1)
    <2>1. DOMAIN x.children = Elements
      BY DEF Tree
    <2> HIDE DEF n, l
    <2> QED
      BY <1>10, <2>1
  <1> HIDE DEF m, n
  <1>12. Len(m) = n /\ \A k \in 1 .. n : m[k] = IF k < n THEN s[k] ELSE e
    <2>1. Len(RemoveAt(l, n + 1)) = Len(l) - 1
          /\ \A k \in 1 .. Len(l) - 1 : RemoveAt(l, n + 1)[k] = IF k < n + 1 THEN l[k] ELSE l[k + 1]
      BY <1>7, <1>8, RemovedAt
    <2>2. Len(l) - 1 = n /\ \A k \in 1 .. n : k < n + 1 /\ k \in 1 .. n + 1 /\ (~(k < n) => k = n)
      BY <1>1, <1>7
    <2> QED
      BY <1>7, <1>11, <2>1, <2>2
  <1> HIDE DEF old
  <1>13. old \in Elements /\ old # e /\ old # None /\ s[n] = old /\ e # None
    BY <1>1, <1>2, TreesAssumption DEF old, ConstantsBounded
  <1>14. x.next[old] = None
    <2>1. old # f.prev[old]
      <3>1. CASE n = 1
        BY <3>1, <1>3, <1>13
      <3>2. CASE n # 1
        <4>1. n - 1 \in 1 .. n /\ n - 1 # n
          BY <3>2, <1>1
        <4> QED
          BY <4>1, <3>2, <1>1, <1>2, <1>3, <1>13
      <3> QED
        BY <3>1, <3>2
    <2> QED
      BY <2>1, <1>3, <1>4, <1>13
  <1>15. ASSUME NEW k \in 1 .. n, k < n
         PROVE  /\ t.prev[s[k]] = IF k = 1 THEN None ELSE s[k - 1]
                /\ t.next[s[k]] = IF k = n - 1 THEN e ELSE s[k + 1]
    <2>1. s[k] \in Elements /\ s[k] # e /\ s[k] # old /\ s[k] # None
      BY <1>1, <1>2, <1>13, <1>15, TreesAssumption DEF ConstantsBounded
    <2>2. t.prev[s[k]] = f.prev[s[k]]
      BY <2>1, <1>3, <1>4, <1>10
    <2>3. t.next[s[k]] = IF s[k] = f.prev[old] THEN e ELSE f.next[s[k]]
      BY <2>1, <1>4, <1>10
    <2>4. s[k] = f.prev[old] <=> k = n - 1
      <3>1. CASE n = 1
        BY <3>1, <1>15
      <3>2. CASE n # 1
        <4>1. n - 1 \in 1 .. n
          BY <3>2, <1>1
        <4> QED
          BY <4>1, <3>2, <1>2, <1>3
      <3> QED
        BY <3>1, <3>2
    <2>5. k # n
      BY <1>15
    <2> QED
      BY <2>2, <2>3, <2>4, <2>5, <1>6
  <1>16. t.prev[e] = (IF n = 1 THEN None ELSE s[n - 1]) /\ t.next[e] = None
    BY <1>1, <1>3, <1>4, <1>10, <1>13, <1>14
  <1>17. ASSUME NEW k \in 1 .. n
         PROVE  /\ t.prev[m[k]] = IF k = 1 THEN None ELSE m[k - 1]
                /\ t.next[m[k]] = IF k = n THEN None ELSE m[k + 1]
    <2>1. k # 1 => k - 1 \in 1 .. n /\ k - 1 < n
      BY <1>1
    <2>2. k # 1 => m[k - 1] = s[k - 1]
      BY <2>1, <1>12
    <2>3. CASE k < n
      <3>1. k + 1 \in 1 .. n /\ k # n /\ (k = n - 1 <=> ~(k + 1 < n))
        BY <2>3, <1>1
      <3>2. m[k] = s[k] /\ m[k + 1] = IF k = n - 1 THEN e ELSE s[k + 1]
        BY <2>3, <3>1, <1>12
      <3> QED
        BY <2>2, <2>3, <3>1, <3>2, <1>15
    <2>4. CASE ~(k < n)
      <3>1. k = n /\ m[k] = e
        BY <2>4, <1>1, <1>12
      <3> QED
        BY <2>2, <3>1, <1>16
    <2> QED
      BY <2>3, <2>4
  <1> QED
    BY <1>12, <1>17 DEF PointersAt, m

LEMMA ReplacedSound ==
  ASSUME NEW d, Rooted(d), NEW e \in Nodes, e \in d.registry, NEW p \in d.registry,
         NEW old \in Nodes, old # e, d.parent[old] = p
  PROVE  LET x == replaceChild(d, p, e, old)
         IN  /\ Rooted(x) /\ d.flaws \subseteq x.flaws
             /\ Sound(d) /\ "replace" \notin x.flaws => Sound(x)
  <1> DEFINE f == detachTaroNodeReference(d, p, e)
             s == f.children[p]
             i == IndexOf(s, old)
             l == Link(f, p, e, i, f.prev[old], f.next[old])
             y == [l EXCEPT !.flaws = @ \cup IF Last(l.children[p]) # old THEN {"replace"} ELSE {}]
             t == detachTaroNodeReference(y, p, old)
             x == removeChild(y, p, old)
  <1>1. /\ Rooted(f) /\ (Sound(d) => Sound(f)) /\ e \in f.registry /\ p \in f.registry /\ f.parent[e] = None
        /\ f.flaws = d.flaws /\ f.parent[old] = p
    BY Detached DEF Elements
  <1> HIDE DEF f
  <1>2. /\ p \in Elements /\ p # None /\ s \in Seq(Nodes) /\ Len(s) \in Nat
        /\ Tree(f) /\ (Sound(d) => PointersAt(f, p)) /\ IsDoc(f)
    <2>1. Tree(f) /\ IsDoc(f) /\ p \in Elements
      BY <1>1 DEF Rooted, Tree
    <2>2. Sound(d) => PointersAt(f, p)
      BY <1>1, <2>1 DEF Sound
    <2>3. s \in Seq(Nodes)
      BY <2>1 DEF Tree
    <2>4. p # None
      BY <2>1, TreesAssumption DEF Elements, ConstantsBounded
    <2> QED
      BY <2>1, <2>2, <2>3, <2>4
  <1>3. i \in 1 .. Len(s) /\ s[i] = old
    BY <1>1, <1>2, PlaceOfChild DEF Elements
  <1>4. \A k \in 1 .. Len(s) : s[k] \in Elements /\ f.parent[s[k]] = p
    BY <1>2 DEF Tree, Elements
  <1> HIDE DEF i
  <1>5. Sound(d) => ChildOrNone(f, p, f.prev[old]) /\ ChildOrNone(f, p, f.next[old])
    <2> SUFFICES ASSUME Sound(d)
                 PROVE  ChildOrNone(f, p, f.prev[old]) /\ ChildOrNone(f, p, f.next[old])
      OBVIOUS
    <2>1. /\ f.prev[old] = IF i = 1 THEN None ELSE s[i - 1]
          /\ f.next[old] = IF i = Len(s) THEN None ELSE s[i + 1]
      BY <1>2, <1>3 DEF PointersAt
    <2>2. (i # 1 => i - 1 \in 1 .. Len(s)) /\ (i # Len(s) => i + 1 \in 1 .. Len(s))
      BY <1>2, <1>3
    <2> QED
      BY <2>1, <2>2, <1>4 DEF ChildOrNone
  <1>6. IsDoc(l) /\ Linked(f, l, p, i, e, f.prev[old], f.next[old]) /\ SameStyles(f, l) /\ f.flaws \subseteq l.flaws
    BY <1>2, LinkFields
  <1> HIDE DEF l
  <1>7. /\ Tree(l)
        /\ Sound(d) => \A q \in Elements : q # p /\ PointersAt(f, q) => PointersAt(l, q)
    <2>1. i \in 1 .. Len(s) + 1
      BY <1>2, <1>3
    <2> QED
      BY <1>1, <1>2, <1>5, <1>6, <2>1, LinkedTree
  <1>8. /\ InPlace(l, y) /\ y.registry = l.registry /\ y.invalid = l.invalid /\ y.descend = l.descend
        /\ y.flaws = l.flaws \cup IF Last(l.children[p]) # old THEN {"replace"} ELSE {}
    <2>1. IsDoc(y) /\ y.flaws = l.flaws \cup IF Last(l.children[p]) # old THEN {"replace"} ELSE {}
      BY <1>6 DEF IsDoc
    <2>2. SameTree(l, y) /\ SameStyles(l, y)
      BY <1>6 DEF IsDoc, SameTree, SameStyles
    <2> HIDE DEF y
    <2> QED
      BY <2>1, <2>2 DEF InPlace, SameTree, SameStyles
  <1> HIDE DEF y
  <1>9. Tree(y) /\ (Sound(d) => \A q \in Elements : q # p => PointersAt(y, q))
    BY <1>1, <1>7, <1>8, InPlaceKeeps DEF Sound
  <1>10. Rooted(y)
    BY <1>1, <1>6, <1>8, <1>9 DEF Rooted, SameStyles, Linked
  <1>11. /\ Rooted(x) /\ x.flaws = y.flaws
         /\ (\A q \in Elements : PointersAt(t, q)) => Sound(x)
    BY <1>10, RemovedTree
  <1>12. ASSUME Sound(d), Last(l.children[p]) = old
         PROVE  \A q \in Elements : PointersAt(t, q)
    <2>1. old \in Elements
      BY DEF Elements
    <2>2. \A q \in Elements : q # p => PointersAt(t, q)
      BY <1>9, <1>12, <2>1, DetachedTree
    <2>3. l.children[p] = InsertAt(s, i, e)
      BY <1>2, <1>6 DEF Linked, Tree
    <2>4. /\ Len(l.children[p]) = Len(s) + 1
          /\ \A k \in 1 .. Len(s) + 1 : l.children[p][k] = IF k < i THEN s[k] ELSE IF k = i THEN e ELSE s[k - 1]
      <3>1. i \in 1 .. Len(s) + 1
        BY <1>2, <1>3
      <3> HIDE DEF s
      <3> QED
        BY <1>2, <2>3, <3>1, WidenedRow DEF Wider
    <2>5. i + 1 \in 1 .. Len(s) + 1 /\ Len(s) + 1 \in 1 .. Len(s) + 1 /\ ~(i + 1 < i) /\ i + 1 # i /\ (i + 1) - 1 = i
      BY <1>2, <1>3
    <2>6. l.children[p][i + 1] = old
      BY <1>3, <2>4, <2>5
    <2>7. l.children[p][Len(s) + 1] = old
      BY <1>12, <2>4 DEF Last
    <2>8. i = Len(s)
      <3>1. i + 1 = Len(s) + 1
        BY <1>2, <1>7, <2>4, <2>5, <2>6, <2>7 DEF Tree
      <3> QED
        BY <3>1, <1>2, <1>3
    <2>9. /\ y.parent[old] = p /\ y.children[p] = l.children[p]
          /\ SameTree(l, y)
      <3>1. l.parent[old] = p
        BY <1>2, <1>7, <2>4, <2>5, <2>6 DEF Tree
      <3> QED
        BY <3>1, <1>8 DEF InPlace, SameTree
    <2>10. IndexOf(y.children[p], old) = Len(s) + 1
      <3>1. /\ IndexOf(y.children[p], old) \in 1 .. Len(y.children[p])
            /\ y.children[p][IndexOf(y.children[p], old)] = old
        BY <1>2, <1>9, <2>1, <2>9, PlaceOfChild
      <3>2. /\ Len(y.children[p]) = Len(s) + 1 /\ y.children[p][Len(s) + 1] = old
            /\ Len(s) + 1 \in 1 .. Len(y.children[p])
        BY <2>4, <2>5, <2>7, <2>9
      <3>3. \A j, k \in 1 .. Len(y.children[p]) : y.children[p][j] = y.children[p][k] => j = k
        BY <1>2, <1>9 DEF Tree
      <3> QED
        BY <3>1, <3>2, <3>3
    <2>11. Unlinked(y, t, p, Len(s) + 1)
      <3>1. Unlinked(y, t, p, IndexOf(y.children[p], old))
        BY <1>2, <1>9, <2>1, <2>9, DetachFields
      <3> QED
        BY <2>10, <3>1
    <2>12. Linked(f, y, p, i, e, f.prev[old], f.next[old])
      BY <1>6, <2>9 DEF Linked, SameTree
    <2>13. Linked(f, y, p, Len(s), e, f.prev[s[Len(s)]], f.next[s[Len(s)]])
      BY <1>3, <2>8, <2>12
    <2> HIDE DEF t
    <2>14. PointersAt(t, p)
      BY <1>1, <1>2, <1>3, <1>9, <1>12, <2>8, <2>11, <2>13, LastReplaced
    <2> QED
      BY <2>2, <2>14
  <1>13. x = replaceChild(d, p, e, old)
    BY DEF replaceChild, f, i, l, y
  <1>14. "replace" \notin y.flaws => Last(l.children[p]) = old
    BY <1>8
  <1> HIDE DEF x, t
  <1> QED
    BY <1>1, <1>6, <1>8, <1>11, <1>12, <1>13, <1>14

LEMMA ChildOf ==
  ASSUME NEW d, Tree(d), NEW p \in Elements, NEW c \in ToSet(d.children[p])
  PROVE  c \in Nodes /\ c \in Elements /\ d.parent[c] = p
  <1>1. DOMAIN d.children[p] = 1 .. Len(d.children[p]) /\ d.children[p] \in Seq(Nodes)
    BY DEF Tree
  <1>2. PICK i \in 1 .. Len(d.children[p]) : d.children[p][i] = c
    BY <1>1 DEF ToSet
  <1> QED
    BY <1>1, <1>2 DEF Tree, Elements

LEMMA BuiltSound ==
  ASSUME NEW d, Sound(d), NEW p, NEW e
  PROVE  Sound(BuildIfInit(d, p, e)) /\ d.flaws \subseteq BuildIfInit(d, p, e).flaws
  <1>1. IsDoc(d)
    BY DEF Sound, Rooted, Tree
  <1>2. BuildOnly(d, BuildElement(d, e))
    BY <1>1, BuildElementParts
  <1>3. Sound(BuildElement(d, e)) /\ d.flaws \subseteq BuildElement(d, e).flaws
    BY <1>2, BuildComposes, InPlaceKeeps DEF BuildOnly
  <1> QED
    BY <1>3 DEF BuildIfInit

(* Marks go up from parent to parent, and no further than they have to.    *)
MarksAbove(d, e, M) ==
    /\ M \subseteq Elements /\ d.descend \subseteq M
    /\ \A n \in {e} \cup (M \ d.descend) : d.parent[n] \in M \cup {None}

LEMMA MarkedFields ==
  ASSUME NEW d, Tree(d), d.descend \subseteq Elements, NEW e \in Elements
  PROVE  LET x == markAncestorsForInvalidatedStyle(d, e)
         IN  /\ IsDoc(x) /\ SameTree(d, x) /\ SameBuilds(d, x)
             /\ x.want = d.want /\ x.invalid = d.invalid /\ x.dirty = d.dirty
             /\ x.kids = d.kids /\ x.calls = d.calls /\ x.flaws = d.flaws
             /\ MarksAbove(d, e, x.descend)
             /\ \A M : MarksAbove(d, e, M) => x.descend \subseteq M
  <1> DEFINE x == markAncestorsForInvalidatedStyle(d, e)
             Marked == {M \in SUBSET Elements :
                            /\ d.descend \subseteq M
                            /\ \A n \in {e} \cup (M \ d.descend) : d.parent[n] \in M \cup {None}}
             L == {n \in Elements : \A M \in Marked : n \in M}
  <1>1. IsDoc(d) /\ None \notin Elements /\ \A n \in Elements : d.parent[n] \in Elements \cup {None}
    BY TreesAssumption DEF Tree, ConstantsBounded, Elements
  <1>2. x = [d EXCEPT !.descend = L]
    BY DEF markAncestorsForInvalidatedStyle
  <1>3. \A M : M \in Marked <=> MarksAbove(d, e, M)
    BY DEF MarksAbove
  <1>4. \A M : MarksAbove(d, e, M) => L \subseteq M
    BY <1>3
  <1>5. MarksAbove(d, e, L)
    <2> HIDE DEF Marked
    <2>1. d.descend \subseteq L
      BY <1>3 DEF MarksAbove
    <2>2. ASSUME NEW n \in {e} \cup (L \ d.descend)
          PROVE  d.parent[n] \in L \cup {None}
      <3>1. ASSUME NEW M \in Marked, d.parent[n] # None PROVE d.parent[n] \in M
        <4>1. MarksAbove(d, e, M) /\ n \in {e} \cup (M \ d.descend)
          BY <1>3
        <4> QED
          BY <3>1, <4>1 DEF MarksAbove
      <3>2. d.parent[n] \in Elements \cup {None}
        BY <1>1
      <3> QED
        BY <3>1, <3>2
    <2> HIDE DEF L
    <2>3. L \subseteq Elements
      BY DEF L
    <2> QED
      BY <2>1, <2>2, <2>3 DEF MarksAbove
  <1> HIDE DEF L
  <1>6. /\ IsDoc(x) /\ SameTree(d, x) /\ SameBuilds(d, x)
        /\ x.want = d.want /\ x.invalid = d.invalid /\ x.dirty = d.dirty
        /\ x.kids = d.kids /\ x.calls = d.calls /\ x.flaws = d.flaws /\ x.descend = L
    BY <1>1, <1>2 DEF IsDoc, SameTree, SameBuilds
  <1> QED
    BY <1>4, <1>5, <1>6

LEMMA InvalidatedFields ==
  ASSUME NEW d, Tree(d), d.descend \subseteq Elements, NEW e \in Elements
  PROVE  LET x == invalidateStyle(d, e)
         IN  /\ IsDoc(x) /\ SameTree(d, x) /\ SameBuilds(d, x)
             /\ x.want = d.want /\ x.invalid = d.invalid \cup {e}
             /\ x.dirty = (d.dirty \/ Built(d, e))
             /\ x.kids = d.kids /\ x.calls = d.calls /\ x.flaws = d.flaws
             /\ MarksAbove(d, e, x.descend)
             /\ \A M : MarksAbove(d, e, M) => x.descend \subseteq M
  <1> DEFINE y == [d EXCEPT !.invalid = @ \cup {e}]
             m == markAncestorsForInvalidatedStyle(y, e)
             x == [m EXCEPT !.dirty = @ \/ Built(d, e)]
  <1>1. IsDoc(y) /\ SameTree(d, y) /\ SameBuilds(d, y)
    <2>1. IsDoc(d)
      BY DEF Tree
    <2>2. IsDoc(y)
      BY <2>1 DEF IsDoc
    <2>3. SameTree(d, y)
      BY <2>1 DEF IsDoc, SameTree
    <2> QED
      BY <2>1, <2>2, <2>3 DEF IsDoc, SameBuilds
  <1>2. /\ y.want = d.want /\ y.invalid = d.invalid \cup {e} /\ y.dirty = d.dirty
        /\ y.descend = d.descend /\ y.kids = d.kids /\ y.calls = d.calls /\ y.flaws = d.flaws
    BY DEF Tree, IsDoc
  <1> HIDE DEF y
  <1>3. Tree(y)
    BY <1>1 DEF Tree, SameTree
  <1>4. /\ IsDoc(m) /\ SameTree(y, m) /\ SameBuilds(y, m)
        /\ m.want = y.want /\ m.invalid = y.invalid /\ m.dirty = y.dirty
        /\ m.kids = y.kids /\ m.calls = y.calls /\ m.flaws = y.flaws
        /\ MarksAbove(y, e, m.descend)
        /\ \A M : MarksAbove(y, e, M) => m.descend \subseteq M
    BY <1>2, <1>3, MarkedFields
  <1>5. \A M : MarksAbove(y, e, M) <=> MarksAbove(d, e, M)
    BY <1>1, <1>2 DEF MarksAbove, SameTree
  <1> HIDE DEF m
  <1>6. /\ IsDoc(x) /\ SameTree(m, x) /\ SameBuilds(m, x)
    BY <1>4 DEF IsDoc, SameTree, SameBuilds
  <1>7. /\ x.want = m.want /\ x.invalid = m.invalid /\ x.dirty = (m.dirty \/ Built(d, e))
        /\ x.descend = m.descend /\ x.kids = m.kids /\ x.calls = m.calls /\ x.flaws = m.flaws
    BY <1>4 DEF IsDoc
  <1>8. x = invalidateStyle(d, e)
    BY DEF invalidateStyle, m, y
  <1> HIDE DEF x
  <1> QED
    BY <1>1, <1>2, <1>4, <1>5, <1>6, <1>7, <1>8 DEF SameTree, SameBuilds

LEMMA InvalidatedSound ==
  ASSUME NEW d, Sound(d), NEW e \in d.registry
  PROVE  Sound(invalidateStyle(d, e))
  <1> DEFINE x == invalidateStyle(d, e)
  <1>1. Tree(d) /\ d.descend \subseteq Elements /\ e \in Elements /\ d.registry \subseteq Elements
    BY DEF Sound, Rooted, Tree
  <1>2. /\ IsDoc(x) /\ SameTree(d, x) /\ x.invalid = d.invalid \cup {e}
        /\ \A M : MarksAbove(d, e, M) => x.descend \subseteq M
    BY <1>1, InvalidatedFields
  <1>3. MarksAbove(d, e, d.registry)
    BY <1>1 DEF MarksAbove, Sound, Rooted, Tree
  <1> HIDE DEF x
  <1>4. Tree(x) /\ x.registry = d.registry
    BY <1>1, <1>2 DEF Tree, SameTree
  <1> QED
    BY <1>2, <1>3, <1>4 DEF Sound, Rooted, PointersAt, SameTree, x

LEMMA BecomeSound ==
  ASSUME NEW d, Sound(d), NEW n, Become(d, n)
  PROVE  Sound(doc')
  <1>1. PICK k : doc' = [d EXCEPT !.kids = k]
    BY DEF Become
  <1>2. IsDoc(d)
    BY DEF Sound, Rooted, Tree
  <1>3. InPlace(d, doc')
    BY <1>1, <1>2, BuildFields, BuildComposes
  <1> QED
    BY <1>3, InPlaceKeeps

LEMMA InitSound == Init => Sound(doc)
  <1> SUFFICES ASSUME Init PROVE Sound(doc)
    OBVIOUS
  <1>1. IsDoc(doc)
    BY DEF Init, IsDoc
  <1>2. /\ doc.registry = {Page} /\ doc.children = [e \in Elements |-> <<>>]
        /\ doc.parent = [e \in Elements |-> None] /\ doc.invalid = {} /\ doc.descend = {}
    BY DEF Init
  <1>3. Page \in Elements
    BY DEF Elements
  <1>4. Tree(doc)
    BY <1>1, <1>2, <1>3 DEF Tree
  <1> QED
    BY <1>2, <1>4 DEF Sound, Rooted, PointersAt

LEMMA SoundStep ==
  ASSUME "replace" \in Avoided, Sound(doc), [Next]_vars
  PROVE  Sound(doc')
  <1>1. ASSUME NEW d, Leave(d), "replace" \notin d.flaws => Sound(d)
        PROVE  Sound(doc')
    BY <1>1, BecomeSound DEF Leave
  <1>2. Tree(doc) /\ IsDoc(doc) /\ doc.registry \subseteq Elements
    BY DEF Sound, Rooted, Tree
  <1>3. ASSUME NEW e \in Nodes, CreateTaroNode(e)
        PROVE  Sound(doc')
    <2> DEFINE d == [doc EXCEPT !.registry = @ \cup {e}, !.born = @ \cup {e}]
    <2>1. IsDoc(d)
      <3>1. doc = [n \in Fields |-> doc[n]]
        BY <1>2, DocIsRecord
      <3>2. d = [n \in Fields |-> d[n]]
        BY <3>1
      <3> HIDE DEF d
      <3> QED
        BY <3>2, DocIsRecord
    <2>2. /\ d.registry = doc.registry \cup {e} /\ d.children = doc.children /\ d.parent = doc.parent
          /\ d.prev = doc.prev /\ d.next = doc.next
          /\ d.invalid = doc.invalid /\ d.descend = doc.descend
      BY <1>2 DEF IsDoc
    <2> HIDE DEF d
    <2>3. Tree(d)
      BY <1>2, <2>1, <2>2 DEF Tree, Elements
    <2>4. Sound(d)
      BY <2>2, <2>3 DEF Sound, Rooted, PointersAt
    <2> QED
      BY <1>1, <1>3, <2>4 DEF CreateTaroNode, d
  <1>4. ASSUME AppendPage
        PROVE  Sound(doc')
    <2>1. Sound(BuildElement(doc, Page))
      BY <1>2, BuildElementParts, BuildComposes, InPlaceKeeps
    <2> QED
      BY <1>1, <1>4, <2>1 DEF AppendPage
  <1>5. ASSUME NEW e \in doc.registry \ {Page}, NEW p \in Places(e)
        PROVE  e \in Nodes /\ e \in doc.registry /\ p \in doc.registry /\ p \in Elements
    BY <1>2 DEF Places, Elements
  <1>6. ASSUME NEW e \in doc.registry \ {Page}, NEW p \in Places(e), AppendTaroNode(p, e)
        PROVE  Sound(doc')
    <2>1. e \in Nodes /\ e \in doc.registry /\ p \in doc.registry
      BY <1>5
    <2>2. Sound(BuildIfInit(appendChild(doc, p, e), p, e))
      BY <2>1, AppendedSound, BuiltSound
    <2> QED
      BY <1>1, <1>6, <2>2 DEF AppendTaroNode
  <1>7. ASSUME NEW e \in doc.registry \ {Page}, NEW p \in Places(e),
               NEW c \in ToSet(doc.children[p]) \ {e}, InsertBeforeTaroNode(p, e, c)
        PROVE  Sound(doc')
    <2>1. e \in Nodes /\ e \in doc.registry /\ p \in doc.registry /\ c \in Nodes /\ doc.parent[c] = p
      BY <1>2, <1>5, ChildOf
    <2>2. Sound(BuildIfInit(insertBefore(doc, p, e, c), p, e))
      BY <2>1, InsertedSound, BuiltSound
    <2> QED
      BY <1>1, <1>7, <2>2 DEF InsertBeforeTaroNode
  <1>8. ASSUME NEW e \in doc.registry \ {Page}, NEW p \in Places(e),
               NEW c \in ToSet(doc.children[p]) \ {e}, ReplaceTaroNode(p, e, c)
        PROVE  Sound(doc')
    <2>1. e \in Nodes /\ e \in doc.registry /\ p \in doc.registry /\ c \in Nodes /\ doc.parent[c] = p
      BY <1>2, <1>5, ChildOf
    <2> DEFINE x == replaceChild(doc, p, e, c)
    <2>2. Rooted(x) /\ ("replace" \notin x.flaws => Sound(x))
      BY <2>1, ReplacedSound DEF Sound
    <2>3. x.flaws \subseteq BuildIfInit(x, p, e).flaws
      <3>1. IsDoc(x)
        BY <2>2 DEF Rooted, Tree
      <3> HIDE DEF x
      <3>2. BuildOnly(x, BuildElement(x, e))
        BY <3>1, BuildElementParts
      <3> QED
        BY <3>2 DEF BuildOnly, BuildIfInit
    <2>4. "replace" \notin BuildIfInit(x, p, e).flaws => Sound(BuildIfInit(x, p, e))
      BY <2>2, <2>3, BuiltSound
    <2> QED
      BY <1>1, <1>8, <2>4 DEF ReplaceTaroNode
  <1>9. ASSUME NEW p \in doc.registry, NEW c \in ToSet(doc.children[p]), RemoveTaroNode(p, c)
        PROVE  Sound(doc')
    <2>1. c \in Nodes
      BY <1>2, ChildOf
    <2> QED
      BY <1>1, <1>9, <2>1, RemovedSound DEF RemoveTaroNode
  <1>10. ASSUME NEW e \in Nodes, NEW v \in Positions, SetStyleAttribute(e, v)
         PROVE  Sound(doc')
    <2> DEFINE w == [doc EXCEPT !.want[e] = v]
    <2>1. IsDoc(w) /\ SameTree(doc, w) /\ w.invalid = doc.invalid /\ w.descend = doc.descend
      BY <1>2 DEF IsDoc, SameTree
    <2>2. w.init = doc.init
      BY <1>2 DEF IsDoc
    <2> HIDE DEF w
    <2>3. Tree(w) /\ w.registry = doc.registry
      BY <1>2, <2>1 DEF Tree, SameTree
    <2>4. Sound(w)
      BY <2>1, <2>3 DEF Sound, Rooted, PointersAt, SameTree
    <2>5. e \in w.registry
      BY <1>10, <2>3 DEF SetStyleAttribute
    <2>6. Sound(IF doc.init[e] THEN invalidateStyle(w, e) ELSE w)
      BY <2>4, <2>5, InvalidatedSound
    <2> QED
      BY <1>1, <1>10, <2>6 DEF SetStyleAttribute, w
  <1>11. ASSUME Flush
         PROVE  Sound(doc')
    <2> DEFINE s == FlushStyle(doc)
               f == [s EXCEPT !.calls = <<>>, !.flaws = @ \cup Miscounts(s)]
    <2>1. InPlace(doc, s)
      <3>1. doc.descend \subseteq Elements /\ Page \in Elements
        BY <1>2 DEF Sound, Rooted, Elements
      <3>2. InPlace(doc, resolver(doc, Page)) /\ IsDoc(resolver(doc, Page))
        BY <1>2, <3>1, ResolveParts DEF InPlace
      <3>3. \A x : IsDoc(x) => InPlace(x, [x EXCEPT !.dirty = FALSE])
        <4> TAKE x
        <4> HAVE IsDoc(x)
        <4>1. IsDoc([x EXCEPT !.dirty = FALSE])
          <5>1. x = [n \in Fields |-> x[n]]
            BY DocIsRecord
          <5>2. [x EXCEPT !.dirty = FALSE] = [n \in Fields |-> [x EXCEPT !.dirty = FALSE][n]]
            BY <5>1
          <5> QED
            BY <5>2, DocIsRecord
        <4>2. SameTree(x, [x EXCEPT !.dirty = FALSE])
          BY DEF IsDoc, SameTree
        <4> QED
          BY <4>1, <4>2 DEF InPlace, IsDoc
      <3>4. InPlace(doc, doc)
        BY <1>2, BuildComposes
      <3> QED
        BY <3>2, <3>3, <3>4, BuildComposes DEF FlushStyle
    <2>2. IsDoc(s)
      BY <2>1 DEF InPlace
    <2> HIDE DEF s
    <2>4. IsDoc(f) /\ SameTree(s, f) /\ f.want = s.want /\ f.invalid = s.invalid /\ f.descend = s.descend
      <3>1. IsDoc(f)
        <4>1. s = [n \in Fields |-> s[n]]
          BY <2>2, DocIsRecord
        <4>2. f = [n \in Fields |-> f[n]]
          BY <4>1
        <4> HIDE DEF f
        <4> QED
          BY <4>2, DocIsRecord
      <3>2. SameTree(s, f)
        BY <2>2 DEF IsDoc, SameTree
      <3> QED
        BY <2>2, <3>1, <3>2 DEF IsDoc
    <2>5. f.flaws = s.flaws \cup Miscounts(s)
      BY <2>2 DEF IsDoc
    <2> HIDE DEF f
    <2>6. InPlace(s, f)
      BY <2>4, <2>5 DEF InPlace
    <2>7. InPlace(doc, f)
      BY <2>1, <2>6, BuildComposes
    <2>3. Sound(f)
      BY <2>7, InPlaceKeeps
    <2> QED
      BY <1>11, <2>3, BecomeSound DEF Flush, s, f
  <1>12. CASE UNCHANGED vars
    BY <1>12 DEF vars
  <1> QED
    BY <1>3, <1>4, <1>6, <1>7, <1>8, <1>9, <1>10, <1>11, <1>12 DEF Next

THEOREM SiblingPointersAlways == ("replace" \in Avoided /\ Spec) => []SiblingPointers
  <1> SUFFICES ASSUME "replace" \in Avoided
               PROVE  Spec => []SiblingPointers
    OBVIOUS
  <1>1. Init => Sound(doc)
    BY InitSound
  <1>2. Sound(doc) /\ [Next]_vars => Sound(doc)'
    BY SoundStep
  <1>3. Sound(doc) => SiblingPointers
    <2> SUFFICES ASSUME Sound(doc) PROVE SiblingPointers
      OBVIOUS
    <2>1. \A p \in Elements : DOMAIN doc.children[p] = 1 .. Len(doc.children[p])
      BY DEF Sound, Rooted, Tree
    <2> QED
      BY <2>1 DEF Sound, PointersAt, SiblingPointers
  <1> QED
    BY <1>1, <1>2, <1>3, PTL DEF Spec

-----------------------------------------------------------------------------
(* Styles.  The resolver has work at an element that shows another style   *)
(* than JS wants or has a mark; the marks lead there from the page.        *)
Outdated(d, x) == d.init[x] /\ d.style[x] # d.want[x]
Followed(d, x) == Outdated(d, x) \/ x \in d.descend
StylesKept(d) ==
    /\ d.init \in [Elements -> BOOLEAN] /\ d.ignore \in [Elements -> BOOLEAN]
    /\ d.build \in [Elements -> Nat]
    /\ DOMAIN d.style = Elements /\ DOMAIN d.want = Elements
    /\ \A x \in Elements : d.init[x] \/ d.ignore[x] => Built(d, x)
    /\ \A x \in Nodes : d.parent[x] = None => ~d.init[x]
    /\ \A x \in Elements : Outdated(d, x) => x \in d.invalid
    /\ d.style[Page] = d.want[Page]
MarksLead(d) ==
    \A x \in Elements : Followed(d, x) /\ d.parent[x] # None =>
        IF d.parent[x] = Page THEN d.dirty ELSE d.parent[x] \in d.descend

(* What BuildProcess writes beside the render tree.                        *)
Processed(d, x, e) ==
    /\ x.init = [d.init EXCEPT ![e] = TRUE]
    /\ x.ignore = [d.ignore EXCEPT ![e] = FALSE]
    /\ x.style = IF d.init[e] THEN d.style ELSE [d.style EXCEPT ![e] = d.want[e]]
    /\ x.build = IF d.init[e] \/ d.ignore[e] THEN d.build ELSE [d.build EXCEPT ![e] = @ + 1]

LEMMA ProcessFields ==
  ASSUME NEW d, IsDoc(d), NEW e, NEW before
  PROVE  /\ BuildOnly(d, BuildProcess(d, e, before))
         /\ Processed(d, BuildProcess(d, e, before), e)
  <1> DEFINE m == PreBuild(d, e)
             b == Build(m, e)
  <1>1. /\ IsDoc(m) /\ m.init = d.init /\ m.ignore = d.ignore /\ m.build = d.build /\ m.want = d.want
        /\ m.style = IF d.init[e] THEN d.style ELSE [d.style EXCEPT ![e] = d.want[e]]
    BY DEF PreBuild, IsDoc
  <1> HIDE DEF m
  <1>2. /\ IsDoc(b) /\ b.init = d.init /\ b.ignore = d.ignore /\ b.style = m.style
        /\ b.build = IF d.init[e] \/ d.ignore[e] THEN d.build ELSE [d.build EXCEPT ![e] = @ + 1]
    BY <1>1 DEF Build, NewRenderNode, IsDoc
  <1> HIDE DEF b
  <1>3. ASSUME NEW f, NEW old
        PROVE  Processed(d, PostBuild([b EXCEPT !.ignore[e] = FALSE, !.flaws = @ \cup f], e, old), e)
    <2> DEFINE c == [b EXCEPT !.ignore[e] = FALSE, !.flaws = @ \cup f]
    <2>1. /\ IsDoc(c) /\ c.init = d.init /\ c.ignore = [d.ignore EXCEPT ![e] = FALSE]
          /\ c.style = b.style /\ c.build = b.build
      <3>1. b = [n \in Fields |-> b[n]]
        BY <1>2, DocIsRecord
      <3>2. c = [n \in Fields |-> c[n]]
        BY <3>1
      <3>3. /\ c.init = d.init /\ c.ignore = [d.ignore EXCEPT ![e] = FALSE]
            /\ c.style = b.style /\ c.build = b.build
        BY <1>2 DEF IsDoc
      <3> HIDE DEF c
      <3> QED
        BY <3>2, <3>3, DocIsRecord
    <2> HIDE DEF c
    <2> DEFINE a == IF ~c.init[e] /\ c.style[e] = "static" /\ c.parent[e] # None /\ c.init[c.parent[e]]
                    THEN AppendOrInsertIntoParent(c, e) ELSE c
               i == [a EXCEPT !.init[e] = TRUE]
    <2>2. RenderOnly(c, a)
      BY <2>1, MountRender, RenderParts
    <2> HIDE DEF a
    <2>3. IsDoc(a) /\ SameBuilds(c, a)
      BY <2>2 DEF RenderOnly
    <2>4. /\ IsDoc(i) /\ i.init = [a.init EXCEPT ![e] = TRUE]
          /\ i.ignore = a.ignore /\ i.style = a.style /\ i.build = a.build
      <3>1. IsDoc(i)
        BY <2>3, BuildFields DEF BuildOnly
      <3>2. i.init = [a.init EXCEPT ![e] = TRUE]
        BY <2>3 DEF IsDoc
      <3>3. i.ignore = a.ignore /\ i.style = a.style /\ i.build = a.build
        BY <2>3 DEF IsDoc
      <3> QED
        BY <3>1, <3>2, <3>3
    <2> HIDE DEF i
    <2>5. SameBuilds(i, MountFixedRenderNode(i, e, old))
      BY <2>4, MountRender DEF RenderOnly
    <2>6. PostBuild(c, e, old) = MountFixedRenderNode(i, e, old)
      BY DEF PostBuild, MountsAtBuild, a, i
    <2>7. Processed(d, MountFixedRenderNode(i, e, old), e)
      BY <1>1, <1>2, <2>1, <2>3, <2>4, <2>5 DEF Processed, SameBuilds
    <2> QED
      BY <2>6, <2>7 DEF c
  <1>4. Processed(d, BuildProcess(d, e, before), e)
    BY <1>3, Zenon DEF BuildProcess, b, m
  <1> QED
    BY <1>4, BuildParts

(* The fields that StylesKept and MarksLead are about.                     *)
SameLook(d, x) == SameStyles(d, x) /\ SameBuilds(d, x) /\ x.parent = d.parent

LEMMA SameLooks ==
  ASSUME NEW d, NEW x, SameLook(d, x)
  PROVE  (StylesKept(d) => StylesKept(x)) /\ (MarksLead(d) => MarksLead(x))
  BY DEF SameLook, SameStyles, SameBuilds, StylesKept, MarksLead, Followed, Outdated, Built

(* Building an element never makes one outdated.                           *)
LEMMA ProcessStyles ==
  ASSUME NEW d, StylesKept(d), NEW x, NEW e \in Elements,
         x.parent = d.parent, x.want = d.want, x.invalid = d.invalid, Processed(d, x, e),
         e \in Nodes => d.parent[e] # None
  PROVE  /\ StylesKept(x)
         /\ \A n \in Elements : Outdated(x, n) => Outdated(d, n) /\ (n = e => d.init[e])
  <1>1. /\ x.init \in [Elements -> BOOLEAN] /\ x.ignore \in [Elements -> BOOLEAN]
        /\ x.build \in [Elements -> Nat] /\ DOMAIN x.style = Elements /\ DOMAIN x.want = Elements
    BY DEF StylesKept, Processed
  <1>2. /\ x.init[e] /\ ~x.ignore[e] /\ \A n \in Elements \ {e} :
                x.init[n] = d.init[n] /\ x.ignore[n] = d.ignore[n] /\ x.style[n] = d.style[n]
                /\ x.build[n] = d.build[n]
    BY DEF StylesKept, Processed
  <1>3. IF d.init[e] THEN x.style[e] = d.style[e] ELSE x.style[e] = d.want[e]
    BY DEF StylesKept, Processed
  <1>4. x.build[e] > 0
    BY DEF StylesKept, Processed, Built
  <1>5. \A n \in Elements : Outdated(x, n) => Outdated(d, n) /\ (n = e => d.init[e])
    BY <1>2, <1>3 DEF Outdated
  <1>6. x.style[Page] = x.want[Page]
    BY <1>2, <1>3, Zenon DEF StylesKept, Elements
  <1>7. \A n \in Nodes : x.parent[n] = None => ~x.init[n]
    BY <1>2 DEF StylesKept, Elements
  <1>8. \A n \in Elements : x.init[n] \/ x.ignore[n] => Built(x, n)
    BY <1>2, <1>4 DEF StylesKept, Built
  <1>9. \A n \in Elements : Outdated(x, n) => n \in x.invalid
    BY <1>5 DEF StylesKept
  <1> QED
    BY <1>1, <1>5, <1>6, <1>7, <1>8, <1>9 DEF StylesKept

(* The walk of BuildElement: what is on the stack has a parent.            *)
BuildWalk(d, s) ==
    /\ BuildOnly(d, s.doc) /\ s.todo \in Seq(Elements)
    /\ \A i \in 1 .. Len(s.todo) : s.todo[i] \in Nodes => d.parent[s.todo[i]] # None
    /\ StylesKept(s.doc)
    /\ \A n \in Elements : Outdated(s.doc, n) => Outdated(d, n)

LEMMA BuildWalkStep ==
  ASSUME NEW d, Tree(d), NEW s, BuildWalk(d, s)
  PROVE  BuildWalk(d, BuildNext(s))
  <1>1. CASE s.todo = <<>>
    BY <1>1 DEF BuildNext
  <1>2. CASE s.todo # <<>>
    <2> DEFINE e == Head(s.todo)
               x == BuildProcess(s.doc, e, s.doc.style[e])
               es == s.doc.children[e]
               todo == es \o Tail(s.todo)
    <2>1. e \in Elements /\ Tail(s.todo) \in Seq(Elements) /\ (e \in Nodes => d.parent[e] # None)
      BY <1>2, TailWithin DEF BuildWalk
    <2>2. IsDoc(s.doc) /\ SameTree(d, s.doc) /\ SameStyles(d, s.doc)
      BY DEF BuildWalk, BuildOnly
    <2>3. es \in Seq(Nodes) /\ \A i \in 1 .. Len(es) : d.parent[es[i]] = e /\ es[i] \in Nodes
      <3>1. es = d.children[e]
        BY <2>2 DEF SameTree
      <3> HIDE DEF es, e
      <3> QED
        BY <2>1, <3>1, RowMembers
    <2> HIDE DEF e, es
    <2>4. BuildOnly(s.doc, x) /\ Processed(s.doc, x, e)
      BY <2>2, ProcessFields
    <2> HIDE DEF x
    <2>5. BuildOnly(d, x)
      BY <2>4, BuildComposes DEF BuildWalk
    <2>6. StylesKept(x) /\ \A n \in Elements : Outdated(x, n) => Outdated(s.doc, n)
      <3>1. x.parent = s.doc.parent /\ x.want = s.doc.want /\ x.invalid = s.doc.invalid
        BY <2>4 DEF BuildOnly, SameTree, SameStyles
      <3>2. e \in Nodes => s.doc.parent[e] # None
        BY <2>1, <2>2 DEF SameTree
      <3> QED
        BY <2>1, <2>4, <3>1, <3>2, ProcessStyles DEF BuildWalk
    <2>7. todo \in Seq(Elements)
      BY <2>1, <2>3 DEF Elements
    <2>8. ASSUME NEW i \in 1 .. Len(todo), todo[i] \in Nodes
          PROVE  d.parent[todo[i]] # None
      <3>1. e # None
        BY <2>1, TreesAssumption DEF ConstantsBounded, Elements
      <3>2. CASE i <= Len(es)
        <4>1. todo[i] = es[i] /\ i \in 1 .. Len(es)
          BY <2>1, <2>3, <3>2
        <4> QED
          BY <2>3, <3>1, <4>1
      <3>3. CASE i > Len(es)
        <4>1. i - Len(es) \in 1 .. Len(Tail(s.todo)) /\ todo[i] = Tail(s.todo)[i - Len(es)]
          BY <2>1, <2>3, <3>3
        <4>2. /\ i - Len(es) + 1 \in 1 .. Len(s.todo)
              /\ Tail(s.todo)[i - Len(es)] = s.todo[i - Len(es) + 1]
          BY <1>2, <2>3, <4>1 DEF BuildWalk
        <4> QED
          BY <2>8, <4>1, <4>2 DEF BuildWalk
      <3> QED
        BY <2>1, <2>3, <3>2, <3>3
    <2>9. BuildNext(s) = [doc |-> x, todo |-> todo]
      BY <1>2 DEF BuildNext, x, e, es
    <2> HIDE DEF todo
    <2>10. BuildNext(s).doc = x /\ BuildNext(s).todo = todo
      BY <2>9
    <2> HIDE <2>9
    <2> QED
      BY <2>5, <2>6, <2>7, <2>8, <2>10 DEF BuildWalk
  <1> QED
    BY <1>1, <1>2

LEMMA BuiltStyles ==
  ASSUME NEW d, Tree(d), StylesKept(d), NEW e \in Elements, e \in Nodes => d.parent[e] # None
  PROVE  LET x == BuildElement(d, e)
         IN  StylesKept(x) /\ (MarksLead(d) => MarksLead(x))
  <1> DEFINE N == Cardinality(Elements)
  <1>1. PICK g : /\ g[0] = [doc |-> d, todo |-> <<e>>]
                 /\ \A k \in 1 .. N : g[k] = BuildNext(g[k - 1])
                 /\ BuildElement(d, e) = g[N].doc
    BY BuildTrace
  <1> DEFINE T == {k \in Nat : k <= N => BuildWalk(d, g[k])}
  <1>2. 0 \in T
    <2>1. BuildOnly(d, d)
      BY BuildComposes DEF Tree
    <2>2. <<e>> \in Seq(Elements) /\ \A i \in 1 .. Len(<<e>>) : <<e>>[i] = e
      OBVIOUS
    <2>3. g[0].doc = d /\ g[0].todo = <<e>>
      BY <1>1
    <2> QED
      BY <2>1, <2>2, <2>3 DEF BuildWalk
  <1>3. ASSUME NEW k \in Nat, k \in T PROVE k + 1 \in T
    <2>1. k + 1 <= N => k <= N /\ k + 1 \in 1 .. N /\ (k + 1) - 1 = k
      BY ElementsFinite
    <2> QED
      BY <1>1, <1>3, <2>1, BuildWalkStep
  <1>4. N \in T /\ N <= N
    <2>1. N \in Nat /\ N <= N
      BY ElementsFinite
    <2> HIDE DEF T
    <2> QED
      BY <2>1, <1>2, <1>3, Induction
  <1> DEFINE x == BuildElement(d, e)
  <1>5. BuildWalk(d, g[N])
    BY <1>4
  <1>6. /\ BuildOnly(d, x) /\ StylesKept(x)
        /\ \A n \in Elements : Outdated(x, n) => Outdated(d, n)
    BY <1>1, <1>5 DEF BuildWalk
  <1> HIDE DEF x
  <1>7. MarksLead(d) => MarksLead(x)
    BY <1>6 DEF BuildOnly, SameTree, SameStyles, MarksLead, Followed
  <1> QED
    BY <1>6, <1>7 DEF x

LEMMA DetachedStyles ==
  ASSUME NEW d, Tree(d), StylesKept(d), NEW e \in Nodes, NEW new
  PROVE  LET x == detachTaroNodeReference(d, new, e)
         IN  /\ StylesKept(x) /\ ~x.init[e]
             /\ MarksLead(d) => MarksLead(x)
  <1> DEFINE x == detachTaroNodeReference(d, new, e)
             p == d.parent[e]
  <1>1. e \in Elements
    BY DEF Elements
  <1>2. CASE p = None
    <2>1. x = d
      BY <1>1, <1>2, DetachFields
    <2> QED
      BY <1>2, <2>1 DEF StylesKept
  <1>3. CASE p # None
    <2>11. SameStyles(d, x) /\ x.build = d.build /\ x.style = d.style
      BY <1>1, <1>3, DetachFields, ZenonT(60)
    <2>12. x.init = IF d.init[e] THEN [d.init EXCEPT ![e] = FALSE] ELSE d.init
      BY <1>1, <1>3, DetachFields, ZenonT(60)
    <2>13. x.ignore = IF d.init[e]
                      THEN [d.ignore EXCEPT ![e] = @ \/ (Built(d, e) /\ Built(d, new))]
                      ELSE d.ignore
      BY <1>1, <1>3, DetachFields, ZenonT(60)
    <2>1. /\ SameStyles(d, x) /\ x.build = d.build /\ x.style = d.style
          /\ x.init = IF d.init[e] THEN [d.init EXCEPT ![e] = FALSE] ELSE d.init
          /\ x.ignore = IF d.init[e]
                        THEN [d.ignore EXCEPT ![e] = @ \/ (Built(d, e) /\ Built(d, new))]
                        ELSE d.ignore
      <3> HIDE DEF x, p
      <3> QED
        BY <2>11, <2>12, <2>13
    <2>2. x.parent[e] = None /\ \A n \in Elements : n # e => x.parent[n] = d.parent[n]
      BY <1>1, DetachedTree
    <2> HIDE DEF x, p
    <2>3. /\ x.init \in [Elements -> BOOLEAN] /\ x.ignore \in [Elements -> BOOLEAN]
          /\ ~x.init[e] /\ \A n \in Elements : n # e => x.init[n] = d.init[n]
      BY <1>1, <2>1 DEF StylesKept
    <2>4. \A n \in Elements : x.init[n] \/ x.ignore[n] => Built(x, n)
      <3> TAKE n \in Elements
      <3>1. CASE n = e
        <4>1. x.ignore[e] => d.ignore[e] \/ Built(d, e)
          BY <1>1, <2>1 DEF StylesKept
        <4> QED
          BY <1>1, <2>1, <2>3, <3>1, <4>1 DEF StylesKept, Built
      <3>2. CASE n # e
        BY <1>1, <2>1, <2>3, <3>2 DEF StylesKept, Built
      <3> QED
        BY <3>1, <3>2
    <2>5. \A n \in Elements : Outdated(x, n) => Outdated(d, n)
      BY <2>1, <2>3 DEF Outdated, SameStyles
    <2>6. \A n \in Nodes : x.parent[n] = None => ~x.init[n]
      BY <2>2, <2>3 DEF StylesKept, Elements
    <2>7. StylesKept(x)
      BY <2>1, <2>3, <2>4, <2>5, <2>6 DEF StylesKept, SameStyles
    <2>8. MarksLead(d) => MarksLead(x)
      BY <2>1, <2>2, <2>5 DEF MarksLead, Followed, SameStyles
    <2> QED
      BY <2>3, <2>7, <2>8 DEF x
  <1> QED
    BY <1>2, <1>3

LEMMA LinkedStyles ==
  ASSUME NEW d, Tree(d), StylesKept(d), NEW e \in Nodes, NEW p \in Elements, ~d.init[e],
         NEW i, NEW prev, NEW next
  PROVE  LET x == Link(d, p, e, i, prev, next)
         IN  /\ StylesKept(x)
             /\ MarksLead(d) /\ "movemarked" \notin x.flaws => MarksLead(x)
  <1> DEFINE x == Link(d, p, e, i, prev, next)
  <1>1. /\ Linked(d, x, p, i, e, prev, next) /\ SameStyles(d, x) /\ SameBuilds(d, x)
        /\ x.flaws = d.flaws \cup
                IF e \in d.descend /\ (~d.dirty \/ (p # Page /\ p \notin d.descend))
                THEN {"movemarked"} ELSE {}
    BY LinkFields DEF Tree
  <1> HIDE DEF x
  <1>2. e \in Elements /\ x.parent[e] = p /\ \A n \in Elements : n # e => x.parent[n] = d.parent[n]
    BY <1>1 DEF Linked, Tree, Elements
  <1>3. \A n \in Elements : (Outdated(x, n) <=> Outdated(d, n)) /\ (Built(x, n) <=> Built(d, n))
    BY <1>1 DEF Outdated, Built, SameStyles, SameBuilds
  <1>4. StylesKept(x)
    <2>1. p # None
      BY TreesAssumption DEF ConstantsBounded, Elements
    <2>2. \A n \in Nodes : x.parent[n] = None => ~x.init[n]
      BY <1>1, <1>2, <2>1 DEF StylesKept, SameBuilds, Elements
    <2> QED
      BY <1>1, <1>3, <2>2 DEF StylesKept, SameStyles, SameBuilds
  <1>5. ASSUME MarksLead(d), "movemarked" \notin x.flaws
        PROVE  MarksLead(x)
    <2>1. ~Outdated(d, e)
      BY DEF Outdated
    <2>2. e \in d.descend => d.dirty /\ (p = Page \/ p \in d.descend)
      BY <1>1, <1>5
    <2> QED
      BY <1>1, <1>2, <1>3, <1>5, <2>1, <2>2 DEF MarksLead, Followed, SameStyles
  <1> QED
    BY <1>4, <1>5 DEF x

LEMMA BuriedStyles ==
  ASSUME NEW d, Tree(d), StylesKept(d), NEW e \in Nodes, NEW x,
         Buried(d, x, Subtree(d, e)), Emptied(d, x, Subtree(d, e))
  PROVE  StylesKept(x) /\ (MarksLead(d) => MarksLead(x))
  <1> DEFINE gone == Subtree(d, e)
  <1>1. e \in Elements
    BY DEF Elements
  <1>2. \A n \in Elements : d.parent[n] \in gone => n \in gone
    BY <1>1, SubtreeParents
  <1>3. /\ Buried(d, x, gone) /\ Emptied(d, x, gone)
    OBVIOUS
  <1> HIDE DEF gone
  <1>4. ASSUME NEW n \in Elements
        PROVE  /\ n \in gone => /\ ~x.init[n] /\ ~x.ignore[n] /\ x.style[n] = x.want[n]
                                /\ x.parent[n] = None
               /\ n \notin gone => /\ x.init[n] = d.init[n] /\ x.ignore[n] = d.ignore[n]
                                   /\ x.style[n] = d.style[n] /\ x.want[n] = d.want[n]
                                   /\ x.build[n] = d.build[n] /\ x.parent[n] = d.parent[n]
                                   /\ d.parent[n] \notin gone
    <2>1. n \in gone => ~x.init[n] /\ ~x.ignore[n]
      BY <1>3 DEF Emptied
    <2>2. n \in gone => x.style[n] = x.want[n]
      BY <1>3 DEF Emptied
    <2>3. n \notin gone => x.init[n] = d.init[n] /\ x.ignore[n] = d.ignore[n]
      BY <1>3 DEF Emptied
    <2>4. n \notin gone => x.style[n] = d.style[n] /\ x.want[n] = d.want[n]
      BY <1>3 DEF Emptied
    <2>5. n \notin gone => x.build[n] = d.build[n]
      BY <1>3 DEF Emptied
    <2>6. n \notin gone => d.parent[n] \notin gone
      BY <1>2
    <2>7. x.parent[n] = IF n \in gone \/ d.parent[n] \in gone THEN None ELSE d.parent[n]
      BY <1>3 DEF Buried
    <2> QED
      BY <2>1, <2>2, <2>3, <2>4, <2>5, <2>6, <2>7
  <1>5. /\ x.init \in [Elements -> BOOLEAN] /\ x.ignore \in [Elements -> BOOLEAN]
        /\ x.build \in [Elements -> Nat] /\ DOMAIN x.style = Elements /\ DOMAIN x.want = Elements
    <2>1. /\ d.init \in [Elements -> BOOLEAN] /\ d.ignore \in [Elements -> BOOLEAN]
          /\ d.build \in [Elements -> Nat]
      BY DEF StylesKept
    <2>2. x.init \in [Elements -> BOOLEAN]
      <3>1. x.init = [m \in Elements |-> IF m \in gone THEN FALSE ELSE d.init[m]]
        BY <1>3 DEF Emptied
      <3>2. \A m \in Elements : (IF m \in gone THEN FALSE ELSE d.init[m]) \in BOOLEAN
        BY <2>1
      <3> QED
        BY <3>1, <3>2
    <2>3. x.ignore \in [Elements -> BOOLEAN]
      <3>1. x.ignore = [m \in Elements |-> IF m \in gone THEN FALSE ELSE d.ignore[m]]
        BY <1>3 DEF Emptied
      <3>2. \A m \in Elements : (IF m \in gone THEN FALSE ELSE d.ignore[m]) \in BOOLEAN
        BY <2>1
      <3> QED
        BY <3>1, <3>2
    <2>4. x.build \in [Elements -> Nat]
      BY <1>3, <2>1 DEF Emptied
    <2>5. DOMAIN x.style = Elements /\ DOMAIN x.want = Elements
      BY <1>3 DEF Emptied
    <2> QED
      BY <2>2, <2>3, <2>4, <2>5
  <1>6. x.invalid = d.invalid \ gone /\ x.descend = d.descend \ gone /\ x.dirty = d.dirty
    BY <1>3 DEF Emptied
  <1>7. \A n \in Elements : Outdated(x, n) => n \notin gone /\ Outdated(d, n)
    BY <1>4 DEF Outdated
  <1>8. StylesKept(x)
    <2>1. \A n \in Elements : x.init[n] \/ x.ignore[n] => Built(x, n)
      BY <1>4 DEF StylesKept, Built
    <2>2. \A n \in Nodes : x.parent[n] = None => ~x.init[n]
      BY <1>4 DEF StylesKept, Elements
    <2>3. \A n \in Elements : Outdated(x, n) => n \in x.invalid
      BY <1>6, <1>7 DEF StylesKept
    <2>4. x.style[Page] = x.want[Page]
      BY <1>4 DEF StylesKept, Elements
    <2> QED
      BY <1>5, <2>1, <2>2, <2>3, <2>4 DEF StylesKept
  <1>9. MarksLead(d) => MarksLead(x)
    BY <1>4, <1>6, <1>7 DEF MarksLead, Followed
  <1> QED
    BY <1>8, <1>9

LEMMA RemovedStyles ==
  ASSUME NEW d, Rooted(d), StylesKept(d), NEW e \in Nodes, NEW p
  PROVE  LET x == removeChild(d, p, e)
         IN  StylesKept(x) /\ (MarksLead(d) => MarksLead(x))
  <1> DEFINE t == detachTaroNodeReference(d, p, e)
             y == Destroy(t, e)
             x == Bury(y, Subtree(t, e))
  <1>1. e \in Elements /\ Tree(d)
    BY DEF Elements, Rooted
  <1>2. Tree(t) /\ IsDoc(t)
    BY <1>1, DetachedTree DEF Tree
  <1>3. StylesKept(t) /\ (MarksLead(d) => MarksLead(t))
    BY <1>1, DetachedStyles
  <1> HIDE DEF t
  <1>4. RenderOnly(t, y)
    BY <1>2, DestroyParts
  <1> HIDE DEF y
  <1>5. IsDoc(y) /\ SameTree(t, y) /\ SameLook(t, y)
    BY <1>4 DEF RenderOnly, SameLook, SameTree
  <1>6. Tree(y)
    BY <1>2, <1>5 DEF Tree, SameTree
  <1>7. StylesKept(y) /\ (MarksLead(d) => MarksLead(y))
    BY <1>3, <1>5, SameLooks
  <1>8. Subtree(t, e) = Subtree(y, e)
    <2>1. y.children = t.children
      BY <1>5 DEF SameTree
    <2> QED
      BY <2>1, Zenon DEF Subtree
  <1>9. x = Bury(y, Subtree(y, e))
    BY <1>8
  <1> HIDE DEF x
  <1>10. Buried(y, x, Subtree(y, e)) /\ Emptied(y, x, Subtree(y, e))
    BY <1>5, <1>9, BuryFields
  <1>11. StylesKept(x) /\ (MarksLead(d) => MarksLead(x))
    BY <1>6, <1>7, <1>10, BuriedStyles
  <1> QED
    BY <1>11 DEF removeChild, x, y, t

(* The styles of a document, and the marks unless an element was moved     *)
(* while something below it was marked.                                    *)
Styled(d) ==
    /\ Rooted(d) /\ StylesKept(d)
    /\ "movemarked" \notin d.flaws => MarksLead(d)

LEMMA StyledBuild ==
  ASSUME NEW d, Styled(d), NEW p, NEW e \in Elements, e \in Nodes => d.parent[e] # None
  PROVE  Styled(BuildElement(d, e)) /\ Styled(BuildIfInit(d, p, e))
  <1> DEFINE x == BuildElement(d, e)
  <1>1. Tree(d) /\ IsDoc(d)
    BY DEF Styled, Rooted, Tree
  <1>2. StylesKept(x) /\ (MarksLead(d) => MarksLead(x))
    BY <1>1, BuiltStyles DEF Styled
  <1>3. BuildOnly(d, x)
    BY <1>1, BuildElementParts
  <1> HIDE DEF x
  <1>4. Rooted(x) /\ d.flaws \subseteq x.flaws
    BY <1>3, BuildComposes, InPlaceKeeps DEF Styled, BuildOnly
  <1>5. Styled(x)
    BY <1>2, <1>4 DEF Styled
  <1> QED
    BY <1>5 DEF BuildIfInit, x

LEMMA StyledLink ==
  ASSUME NEW d, Styled(d), NEW e \in Nodes, e \in d.registry, NEW p \in d.registry,
         d.parent[e] = None, NEW i \in 1 .. Len(d.children[p]) + 1, NEW prev, NEW next
  PROVE  LET x == Link(d, p, e, i, prev, next)
         IN  Styled(x) /\ x.parent[e] = p /\ p # None
  <1> DEFINE x == Link(d, p, e, i, prev, next)
  <1>1. Tree(d) /\ IsDoc(d) /\ p \in Elements /\ ~d.init[e] /\ e \in Elements
    BY DEF Styled, Rooted, Tree, StylesKept, Elements
  <1>2. Rooted(x)
    BY LinkedRooted DEF Styled
  <1>3. StylesKept(x) /\ (MarksLead(d) /\ "movemarked" \notin x.flaws => MarksLead(x))
    BY <1>1, LinkedStyles DEF Styled
  <1>4. d.flaws \subseteq x.flaws /\ Linked(d, x, p, i, e, prev, next)
    BY <1>1, LinkFields
  <1>5. p # None
    BY <1>1, TreesAssumption DEF ConstantsBounded, Elements
  <1> HIDE DEF x
  <1>6. x.parent[e] = p
    BY <1>1, <1>4 DEF Linked, Tree
  <1> QED
    BY <1>2, <1>3, <1>4, <1>5, <1>6 DEF Styled, x

LEMMA StyledDetach ==
  ASSUME NEW d, Styled(d), NEW e \in Nodes, e \in d.registry, NEW p \in d.registry
  PROVE  LET x == detachTaroNodeReference(d, p, e)
         IN  /\ Styled(x) /\ e \in x.registry /\ p \in x.registry /\ x.parent[e] = None
             /\ \A n \in Elements : n # e => x.parent[n] = d.parent[n]
  <1>1. Rooted(d) /\ Tree(d) /\ StylesKept(d)
    BY DEF Styled, Rooted
  <1> DEFINE x == detachTaroNodeReference(d, p, e)
  <1>2. /\ Rooted(x) /\ e \in x.registry /\ p \in x.registry /\ x.parent[e] = None
        /\ x.flaws = d.flaws /\ \A n \in Elements : n # e => x.parent[n] = d.parent[n]
    BY <1>1, Detached
  <1>3. StylesKept(x) /\ (MarksLead(d) => MarksLead(x))
    BY <1>1, DetachedStyles
  <1> HIDE DEF x
  <1> QED
    BY <1>2, <1>3 DEF Styled, x

LEMMA StyledRemove ==
  ASSUME NEW d, Styled(d), NEW e \in Nodes, NEW p
  PROVE  Styled(removeChild(d, p, e))
  <1> DEFINE x == removeChild(d, p, e)
  <1>1. Rooted(x) /\ x.flaws = d.flaws
    BY RemovedTree DEF Styled
  <1>2. StylesKept(x) /\ (MarksLead(d) => MarksLead(x))
    BY RemovedStyles DEF Styled
  <1> HIDE DEF x
  <1> QED
    BY <1>1, <1>2 DEF Styled, x

(* e has a parent after the call, for the building that follows.           *)
StyledChild(x, e) == Styled(x) /\ e \in Elements /\ x.parent[e] # None

LEMMA StyledAppend ==
  ASSUME NEW d, Styled(d), NEW e \in Nodes, e \in d.registry, NEW p \in d.registry
  PROVE  StyledChild(appendChild(d, p, e), e)
  <1> DEFINE x == detachTaroNodeReference(d, p, e)
             s == x.children[p]
             prev == IF s = <<>> THEN None ELSE Last(s)
  <1>1. Styled(x) /\ e \in x.registry /\ p \in x.registry /\ x.parent[e] = None
    BY StyledDetach
  <1> HIDE DEF x
  <1>2. Len(s) \in Nat
    BY <1>1 DEF Styled, Rooted, Tree
  <1>3. Len(s) + 1 \in 1 .. Len(s) + 1
    BY <1>2
  <1>4. StyledChild(Link(x, p, e, Len(s) + 1, prev, None), e)
    BY <1>1, <1>3, StyledLink DEF StyledChild, Elements
  <1> QED
    BY <1>4 DEF appendChild, x

LEMMA StyledInsert ==
  ASSUME NEW d, Styled(d), NEW e \in Nodes, e \in d.registry, NEW p \in d.registry,
         NEW ref \in Nodes, ref # e, d.parent[ref] = p
  PROVE  StyledChild(insertBefore(d, p, e, ref), e)
  <1> DEFINE x == detachTaroNodeReference(d, p, e)
             s == x.children[p]
             i == IndexOf(s, ref)
  <1>1. /\ Styled(x) /\ e \in x.registry /\ p \in x.registry /\ x.parent[e] = None
        /\ x.parent[ref] = p
    BY StyledDetach DEF Elements
  <1> HIDE DEF x
  <1>2. Tree(x) /\ p # None /\ ref \in Elements /\ Len(s) \in Nat
    BY <1>1, TreesAssumption DEF Styled, Rooted, Tree, Elements, ConstantsBounded
  <1>3. i \in 1 .. Len(s)
    BY <1>1, <1>2, PlaceOfChild
  <1>4. i \in 1 .. Len(s) + 1
    BY <1>2, <1>3
  <1> HIDE DEF i
  <1>5. StyledChild(Link(x, p, e, i, x.prev[ref], ref), e)
    BY <1>1, <1>4, StyledLink DEF StyledChild, Elements
  <1> QED
    BY <1>5 DEF insertBefore, x, i

(* A child of an element that stays built stays its child.                 *)
LEMMA RemoveKeepsChild ==
  ASSUME NEW d, Rooted(d), NEW e \in Nodes, NEW p, NEW n \in Elements, n # e,
         d.parent[n] # None, removeChild(d, p, e).init[d.parent[n]]
  PROVE  removeChild(d, p, e).parent[n] = d.parent[n]
  <1> DEFINE t == detachTaroNodeReference(d, p, e)
             y == Destroy(t, e)
             x == Bury(y, Subtree(t, e))
             q == d.parent[n]
  <1>1. e \in Elements /\ Tree(d) /\ q \in Elements
    BY DEF Elements, Rooted, Tree
  <1>2. Tree(t) /\ IsDoc(t) /\ t.parent[n] = q
    <2>1. Tree(t) /\ \A m \in Elements : m # e => t.parent[m] = d.parent[m]
      BY <1>1, DetachedTree
    <2> HIDE DEF t
    <2> QED
      BY <2>1 DEF Tree
  <1>3. x.init[q] /\ x = removeChild(d, p, e)
    BY DEF removeChild
  <1> HIDE DEF t
  <1>4. RenderOnly(t, y)
    BY <1>2, DestroyParts
  <1> HIDE DEF y
  <1>5. IsDoc(y) /\ y.parent = t.parent
    BY <1>4 DEF RenderOnly, SameTree
  <1> DEFINE gone == Subtree(t, e)
  <1>6. n \in gone => q \in gone
    BY <1>1, <1>2, SubtreeParents
  <1> HIDE DEF gone
  <1>7. x = Bury(y, gone)
    BY DEF gone
  <1> HIDE DEF x, q
  <1>8. Buried(y, x, gone) /\ Emptied(y, x, gone)
    BY <1>5, <1>7, BuryFields
  <1>9. q \notin gone
    BY <1>1, <1>3, <1>8 DEF Emptied
  <1>10. x.parent[n] = q
    BY <1>2, <1>5, <1>6, <1>8, <1>9 DEF Buried
  <1> QED
    BY <1>3, <1>10 DEF q

(* The new child is linked before the old one is removed with its subtree. *)
LEMMA StyledReplace ==
  ASSUME NEW d, Styled(d), NEW e \in Nodes, e \in d.registry, NEW p \in d.registry,
         NEW old \in Nodes, old # e, d.parent[old] = p
  PROVE  LET x == replaceChild(d, p, e, old)
         IN  Styled(x) /\ (x.init[p] => StyledChild(x, e))
  <1> DEFINE f == detachTaroNodeReference(d, p, e)
             s == f.children[p]
             i == IndexOf(s, old)
             l == Link(f, p, e, i, f.prev[old], f.next[old])
             y == [l EXCEPT !.flaws = @ \cup IF Last(l.children[p]) # old THEN {"replace"} ELSE {}]
             x == removeChild(y, p, old)
  <1>1. /\ Styled(f) /\ e \in f.registry /\ p \in f.registry /\ f.parent[e] = None
        /\ f.parent[old] = p
    BY StyledDetach DEF Elements
  <1> HIDE DEF f
  <1>2. Tree(f) /\ p # None /\ old \in Elements /\ Len(s) \in Nat
    BY <1>1, TreesAssumption DEF Styled, Rooted, Tree, Elements, ConstantsBounded
  <1>3. i \in 1 .. Len(s) + 1
    <2>1. i \in 1 .. Len(s)
      BY <1>1, <1>2, PlaceOfChild
    <2> QED
      BY <1>2, <2>1
  <1> HIDE DEF i
  <1>4. Styled(l) /\ l.parent[e] = p
    BY <1>1, <1>3, StyledLink
  <1> HIDE DEF l
  <1>5. SameLook(l, y) /\ InPlace(l, y) /\ l.flaws \subseteq y.flaws
    <2>1. IsDoc(l)
      BY <1>4 DEF Styled, Rooted, Tree
    <2>2. BuildOnly(l, y)
      BY <2>1, BuildFields
    <2>3. SameLook(l, y)
      BY <2>1 DEF SameLook, SameStyles, SameBuilds, IsDoc
    <2> HIDE DEF y
    <2> QED
      BY <2>2, <2>3, BuildComposes DEF BuildOnly
  <1> HIDE DEF y
  <1>6. Styled(y)
    BY <1>4, <1>5, SameLooks, InPlaceKeeps DEF Styled
  <1>7. Styled(x)
    BY <1>6, StyledRemove
  <1>8. x.init[p] => x.parent[e] = p
    <2>1. Rooted(y) /\ y.parent[e] = p /\ e \in Elements
      BY <1>4, <1>5, <1>6 DEF Styled, SameLook, Elements
    <2> HIDE DEF x
    <2>2. x.init[p] => x.parent[e] = p
      BY <1>2, <2>1, RemoveKeepsChild DEF x
    <2> QED
      BY <2>2
  <1>9. x = replaceChild(d, p, e, old)
    BY DEF replaceChild, f, i, l, y
  <1> HIDE DEF x
  <1> QED
    BY <1>2, <1>7, <1>8, <1>9 DEF StyledChild, Elements

LEMMA StyledRestyle ==
  ASSUME NEW d, Styled(d), NEW e \in Nodes, e \in d.registry, NEW v
  PROVE  LET w == [d EXCEPT !.want[e] = v]
         IN  Styled(IF d.init[e] THEN invalidateStyle(w, e) ELSE w)
  <1> DEFINE w == [d EXCEPT !.want[e] = v]
             x == invalidateStyle(w, e)
  <1>1. Tree(d) /\ IsDoc(d) /\ e \in Elements /\ d.registry \subseteq Elements /\ e # Page
    BY TreesAssumption, SMTT(30) DEF Styled, Rooted, Tree, Elements, ConstantsBounded
  <1>2. /\ IsDoc(w) /\ SameTree(d, w) /\ w.want = [d.want EXCEPT ![e] = v]
        /\ SameBuilds(d, w) /\ w.flaws = d.flaws
    <2>1. IsDoc(w) /\ SameTree(d, w)
      BY <1>1 DEF IsDoc, SameTree
    <2>2. SameBuilds(d, w) /\ w.flaws = d.flaws /\ w.want = [d.want EXCEPT ![e] = v]
      BY <1>1 DEF IsDoc, SameBuilds
    <2> QED
      BY <2>1, <2>2
  <1>3. w.invalid = d.invalid /\ w.descend = d.descend /\ w.dirty = d.dirty
    BY <1>1 DEF IsDoc
  <1> HIDE DEF w
  <1>4. Tree(w) /\ Rooted(w) /\ w.descend \subseteq Elements
    BY <1>1, <1>2, <1>3 DEF Styled, Rooted, Tree, SameTree
  <1>5. DOMAIN w.want = Elements /\ \A n \in Elements : n # e => w.want[n] = d.want[n]
    BY <1>1, <1>2 DEF Styled, StylesKept
  <1>6. ASSUME ~d.init[e] PROVE Styled(w)
    <2>1. \A n \in Elements : Outdated(w, n) => Outdated(d, n)
      BY <1>2, <1>5, <1>6 DEF Outdated, SameBuilds
    <2>2. StylesKept(w)
      <3>1. w.style[Page] = w.want[Page]
        BY <1>1, <1>2, <1>5 DEF Styled, StylesKept, SameBuilds, Elements
      <3> QED
        BY <1>2, <1>3, <1>5, <2>1, <3>1 DEF Styled, StylesKept, SameBuilds, SameTree, Built
    <2>3. MarksLead(d) => MarksLead(w)
      BY <1>2, <1>3, <2>1 DEF MarksLead, Followed, SameTree
    <2> QED
      BY <1>2, <1>4, <2>2, <2>3 DEF Styled
  <1>7. ASSUME d.init[e] PROVE Styled(x)
    <2>1. /\ IsDoc(x) /\ SameTree(w, x) /\ SameBuilds(w, x)
          /\ x.want = w.want /\ x.invalid = w.invalid \cup {e}
          /\ x.dirty = (w.dirty \/ Built(w, e)) /\ x.flaws = w.flaws
          /\ MarksAbove(w, e, x.descend)
          /\ \A M : MarksAbove(w, e, M) => x.descend \subseteq M
      BY <1>1, <1>4, InvalidatedFields
    <2> HIDE DEF x
    <2>2. x.dirty
      BY <1>1, <1>2, <1>7, <2>1 DEF Styled, StylesKept, SameBuilds, Built
    <2>3. \A n \in Elements : Outdated(x, n) => n = e \/ Outdated(d, n)
      BY <1>2, <1>5, <2>1 DEF Outdated, SameBuilds
    <2>4. Rooted(x)
      <3>1. MarksAbove(w, e, w.registry)
        BY <1>1, <1>2, <1>4 DEF MarksAbove, Rooted, Tree, SameTree
      <3>2. Tree(x)
        BY <1>4, <2>1 DEF Tree, SameTree
      <3> QED
        BY <1>1, <1>2, <1>4, <2>1, <3>1, <3>2 DEF Rooted, SameTree
    <2>5. StylesKept(x)
      <3>1. x.style[Page] = x.want[Page]
        BY <1>1, <1>2, <1>5, <2>1 DEF Styled, StylesKept, SameBuilds, Elements
      <3>2. \A n \in Elements : Outdated(x, n) => n \in x.invalid
        BY <1>3, <2>1, <2>3 DEF Styled, StylesKept
      <3>3. DOMAIN x.want = Elements
        BY <1>5, <2>1
      <3>4. SameBuilds(d, x) /\ x.parent = d.parent
        BY <1>2, <2>1 DEF SameBuilds, SameTree
      <3> QED
        BY <3>1, <3>2, <3>3, <3>4 DEF Styled, StylesKept, SameBuilds, Built
    <2>6. ASSUME MarksLead(d), NEW n \in Elements, Followed(x, n), x.parent[n] # None, x.parent[n] # Page
          PROVE  x.parent[n] \in x.descend
      <3>1. x.parent = d.parent /\ w.parent = d.parent /\ d.descend \subseteq x.descend
        BY <1>2, <1>3, <2>1 DEF SameTree, MarksAbove
      <3>2. CASE n \in {e} \cup (x.descend \ d.descend)
        BY <1>3, <2>1, <2>6, <3>1, <3>2 DEF MarksAbove
      <3>3. CASE Followed(d, n)
        BY <2>6, <3>1, <3>3 DEF MarksLead
      <3> QED
        BY <2>3, <2>6, <3>2, <3>3 DEF Followed
    <2>7. MarksLead(d) => MarksLead(x)
      BY <2>2, <2>6 DEF MarksLead
    <2>8. x.flaws = d.flaws
      BY <1>2, <2>1
    <2> QED
      BY <2>4, <2>5, <2>7, <2>8 DEF Styled
  <1> HIDE DEF x
  <1>8. Styled(IF d.init[e] THEN x ELSE w)
    BY <1>6, <1>7
  <1> QED
    BY <1>8 DEF x, w

-----------------------------------------------------------------------------
(* The resolver.  Where it still has work, the way there starts at the     *)
(* stack: from parent to parent over marks.                                *)
WayFrom(s, n) ==
    \/ s.doc.parent[n] \in ToSet(s.todo)
    \/ s.doc.parent[n] # Page /\ s.doc.parent[n] \in s.doc.descend
OnItsWay(d, s) ==
    /\ Resolving(d, s) /\ StylesKept(s.doc)
    /\ \A n \in Elements : Followed(s.doc, n) /\ d.parent[n] # None => WayFrom(s, n)
(* In the middle of the children es of p, the last k seen.                 *)
AmongChildren(d, s, es, p, k) ==
    /\ Resolving(d, s) /\ StylesKept(s.doc)
    /\ \A n \in Elements : Followed(s.doc, n) /\ d.parent[n] # None =>
            \/ WayFrom(s, n)
            \/ d.parent[n] = p /\ \E j \in 1 .. Len(es) : j + k <= Len(es) /\ es[j] = n
(* What is left to pop: the stack, and the marks that may still be pushed. *)
Work(s) == Len(s.todo) + Cardinality(s.doc.descend)

(* Looking at one child.                                                   *)
LEMMA ResolveChildStyles ==
  ASSUME NEW d, IsDoc(d), StylesKept(d), NEW e \in Nodes, d.parent[e] # None
  PROVE  LET x == ResolveChild(d, e)
         IN  /\ StylesKept(x) /\ x.descend = d.descend /\ x.parent = d.parent
             /\ \A n \in Elements : Outdated(x, n) => n # e /\ Outdated(d, n)
  <1> DEFINE m == [d EXCEPT !.invalid = @ \ {e}, !.style[e] = d.want[e]]
             x == BuildProcess(m, e, d.style[e])
  <1>0. e \in Elements
    BY DEF Elements
  <1>1. CASE e \notin d.invalid
    BY <1>0, <1>1 DEF ResolveChild, StylesKept
  <1>2. CASE e \in d.invalid
    <2>1. /\ IsDoc(m) /\ m.parent = d.parent /\ m.want = d.want /\ m.descend = d.descend
          /\ m.invalid = d.invalid \ {e} /\ m.style = [d.style EXCEPT ![e] = d.want[e]]
          /\ m.init = d.init /\ m.ignore = d.ignore /\ m.build = d.build
      <3>1. d = [n \in Fields |-> d[n]]
        BY DocIsRecord
      <3>2. m = [n \in Fields |-> m[n]]
        BY <3>1
      <3>3. /\ m.parent = d.parent /\ m.want = d.want /\ m.descend = d.descend
            /\ m.init = d.init /\ m.ignore = d.ignore /\ m.build = d.build
        BY DEF IsDoc
      <3>4. m.invalid = d.invalid \ {e} /\ m.style = [d.style EXCEPT ![e] = d.want[e]]
        BY DEF IsDoc
      <3> HIDE DEF m
      <3> QED
        BY <3>2, <3>3, <3>4, DocIsRecord
    <2> HIDE DEF m
    <2>2. /\ m.style[e] = m.want[e] /\ DOMAIN m.style = Elements
          /\ \A n \in Elements : n # e => m.style[n] = d.style[n]
      BY <1>0, <2>1 DEF StylesKept
    <2>3. \A n \in Elements : Outdated(m, n) => n # e /\ Outdated(d, n)
      BY <2>1, <2>2 DEF Outdated
    <2>4. StylesKept(m)
      <3>1. m.style[Page] = m.want[Page]
        BY <2>1, <2>2 DEF StylesKept, Elements
      <3> QED
        BY <2>1, <2>2, <2>3, <3>1 DEF StylesKept, Built
    <2>5. BuildOnly(m, x) /\ Processed(m, x, e)
      BY <2>1, ProcessFields
    <2> HIDE DEF x
    <2>6. x.parent = m.parent /\ x.want = m.want /\ x.invalid = m.invalid /\ x.descend = m.descend
      BY <2>5 DEF BuildOnly, SameTree, SameStyles
    <2>7. StylesKept(x) /\ \A n \in Elements : Outdated(x, n) => Outdated(m, n)
      BY <1>0, <2>1, <2>4, <2>5, <2>6, ProcessStyles
    <2>8. ResolveChild(d, e) = x
      BY <1>2 DEF ResolveChild, x, m
    <2> QED
      BY <2>1, <2>3, <2>6, <2>7, <2>8
  <1> QED
    BY <1>1, <1>2

LEMMA ResolveNextStyles ==
  ASSUME NEW d, Tree(d), d.descend \subseteq Elements, NEW p \in Elements, NEW es, es = d.children[p],
         NEW k \in Nat, k + 1 <= Len(es), NEW s, AmongChildren(d, s, es, p, k),
         NEW e, e = es[Len(es) - k]
  PROVE  AmongChildren(d, ResolveNext(s, e), es, p, k + 1) /\ Work(ResolveNext(s, e)) = Work(s)
  <1> DEFINE x == ResolveNext(s, e)
             r == ResolveChild(s.doc, e)
             y == [r EXCEPT !.descend = @ \ {e}]
  <1>1. /\ Len(es) \in Nat /\ Len(es) - k \in 1 .. Len(es)
        /\ e \in Nodes /\ e \in Elements /\ d.parent[e] = p
    <2>1. Len(es) \in Nat /\ \A j \in 1 .. Len(es) :
                es[j] \in Nodes /\ es[j] \in Elements /\ d.parent[es[j]] = p
      BY RowMembers
    <2>2. Len(es) - k \in 1 .. Len(es)
      BY <2>1
    <2> QED
      BY <2>1, <2>2
  <1>2. /\ Resolving(d, s) /\ InPlace(d, s.doc) /\ s.todo \in Seq(Elements) /\ StylesKept(s.doc)
        /\ IsDoc(s.doc) /\ s.doc.parent = d.parent /\ s.doc.descend \subseteq d.descend
    BY DEF AmongChildren, Resolving, InPlace, SameTree
  <1>3. p # None
    BY TreesAssumption DEF ConstantsBounded, Elements
  <1>4. /\ StylesKept(r) /\ r.descend = s.doc.descend /\ r.parent = s.doc.parent
        /\ \A n \in Elements : Outdated(r, n) => n # e /\ Outdated(s.doc, n)
    BY <1>1, <1>2, <1>3, ResolveChildStyles
  <1>5. IsDoc(r)
    BY <1>2, ResolveChildParts DEF InPlace
  <1>6. x = IF e \in s.doc.descend THEN [doc |-> y, todo |-> <<e>> \o s.todo]
            ELSE [doc |-> r, todo |-> s.todo]
    BY DEF ResolveNext
  <1>7. Resolving(d, x)
    BY <1>1, <1>2, ResolveNextParts
  <1> HIDE DEF r, x
  <1>8. StylesKept(y) /\ y.descend = r.descend \ {e} /\ y.parent = r.parent
        /\ \A n \in Elements : Outdated(y, n) => Outdated(r, n)
    <2>1. SameBuilds(r, y)
      BY <1>5 DEF SameBuilds, IsDoc
    <2>2. y.descend = r.descend \ {e} /\ y.parent = r.parent
      BY <1>5 DEF IsDoc
    <2>3. y.want = r.want /\ y.invalid = r.invalid
      BY <1>5 DEF IsDoc
    <2> HIDE DEF y
    <2>4. \A n \in Elements : Outdated(y, n) <=> Outdated(r, n)
      BY <2>1, <2>3 DEF Outdated, SameBuilds
    <2>5. StylesKept(y)
      BY <1>4, <2>1, <2>2, <2>3, <2>4 DEF StylesKept, SameBuilds, Built
    <2> QED
      BY <2>2, <2>4, <2>5
  <1> HIDE DEF y
  <1>9. /\ StylesKept(x.doc) /\ x.doc.descend = s.doc.descend \ {e} /\ x.doc.parent = d.parent
        /\ \A n \in Elements : Followed(x.doc, n) => n # e /\ Followed(s.doc, n)
    <2>1. CASE e \in s.doc.descend
      <3>1. x.doc = y
        BY <1>6, <2>1
      <3> QED
        BY <1>2, <1>4, <1>8, <3>1 DEF Followed
    <2>2. CASE e \notin s.doc.descend
      <3>1. x.doc = r
        BY <1>6, <2>2
      <3> QED
        BY <1>2, <1>4, <2>2, <3>1 DEF Followed
    <2> QED
      BY <2>1, <2>2
  <1>10. /\ e \in s.doc.descend => /\ ToSet(x.todo) = {e} \cup ToSet(s.todo)
                                   /\ Len(x.todo) = Len(s.todo) + 1
         /\ e \notin s.doc.descend => x.todo = s.todo
    BY <1>1, <1>2, <1>6, PushedOnTop
  <1>11. ASSUME NEW n \in Elements, WayFrom(s, n)
         PROVE  WayFrom(x, n)
    BY <1>2, <1>9, <1>10, <1>11 DEF WayFrom
  <1>12. ASSUME NEW n \in Elements, n # e, NEW j \in 1 .. Len(es), j + k <= Len(es), es[j] = n
         PROVE  j + (k + 1) <= Len(es)
    <2>1. j # Len(es) - k
      BY <1>12
    <2> QED
      BY <1>1, <1>12, <2>1
  <1>13. AmongChildren(d, x, es, p, k + 1)
    <2>1. ASSUME NEW n \in Elements, Followed(x.doc, n), d.parent[n] # None
          PROVE  \/ WayFrom(x, n)
                 \/ d.parent[n] = p /\ \E j \in 1 .. Len(es) : j + (k + 1) <= Len(es) /\ es[j] = n
      <3>1. n # e /\ Followed(s.doc, n)
        BY <1>9, <2>1
      <3>2. \/ WayFrom(s, n)
            \/ d.parent[n] = p /\ \E j \in 1 .. Len(es) : j + k <= Len(es) /\ es[j] = n
        BY <2>1, <3>1 DEF AmongChildren
      <3> QED
        BY <3>1, <3>2, <1>11, <1>12
    <2> QED
      BY <1>7, <1>9, <2>1 DEF AmongChildren
  <1>14. Work(x) = Work(s)
    <2>1. IsFiniteSet(s.doc.descend) /\ Cardinality(s.doc.descend) \in Nat /\ Len(s.todo) \in Nat
      BY <1>2, ElementsFinite, FS_Subset, FS_CardinalityType
    <2>2. Cardinality(x.doc.descend) = IF e \in s.doc.descend THEN Cardinality(s.doc.descend) - 1
                                       ELSE Cardinality(s.doc.descend)
      <3> DEFINE D == s.doc.descend
      <3>1. x.doc.descend = D \ {e} /\ IsFiniteSet(D)
        BY <1>9, <2>1
      <3> HIDE DEF D
      <3>2. Cardinality(D \ {e}) = IF e \in D THEN Cardinality(D) - 1 ELSE Cardinality(D)
        BY <3>1, FS_RemoveElement
      <3> QED
        BY <3>1, <3>2 DEF D
    <2> QED
      BY <1>10, <2>1, <2>2 DEF Work
  <1> QED
    BY <1>13, <1>14 DEF x

LEMMA ResolveChildrenStyles ==
  ASSUME NEW d, Tree(d), d.descend \subseteq Elements, NEW s, OnItsWay(d, s)
  PROVE  LET x == ResolveChildren(s)
         IN  /\ OnItsWay(d, x)
             /\ IF s.todo = <<>> THEN x = s ELSE Work(x) = Work(s) - 1
  <1>1. CASE s.todo = <<>>
    BY <1>1 DEF ResolveChildren
  <1>2. CASE s.todo # <<>>
    <2> DEFINE p == Head(s.todo)
               es == d.children[p]
               top == [doc |-> s.doc, todo |-> Tail(s.todo)]
    <2>1. /\ Resolving(d, s) /\ s.todo \in Seq(Elements) /\ s.doc.children = d.children
          /\ StylesKept(s.doc) /\ s.doc.descend \subseteq d.descend /\ s.doc.parent = d.parent
      BY DEF OnItsWay, Resolving, InPlace, SameTree
    <2>2. /\ p \in Elements /\ Tail(s.todo) \in Seq(Elements)
          /\ ToSet(s.todo) = {p} \cup ToSet(Tail(s.todo)) /\ Len(Tail(s.todo)) = Len(s.todo) - 1
          /\ Len(s.todo) \in Nat
      BY <1>2, <2>1, TailWithin, HeadAndTail
    <2>3. es = s.doc.children[Head(s.todo)]
      BY <2>1
    <2>11. es = d.children[p]
      OBVIOUS
    <2> HIDE DEF es
    <2>4. Len(es) \in Nat /\ \A j \in 1 .. Len(es) : es[j] \in Elements /\ d.parent[es[j]] = p
      BY <2>2, RowMembers DEF es
    <2>5. PICK g : ChildSteps(s, es, g)
      BY <1>2, <2>3, <2>4, ChildrenTrace
    <2>6. top.doc = s.doc /\ top.todo = Tail(s.todo)
      OBVIOUS
    <2>7. g[0] = top
      BY <2>5 DEF ChildSteps
    <2> HIDE DEF top
    <2> DEFINE T == {k \in Nat : k <= Len(es) => AmongChildren(d, g[k], es, p, k) /\ Work(g[k]) = Work(s) - 1}
    <2>8. 0 \in T
      <3>1. Resolving(d, top)
        BY <2>1, <2>2, <2>6 DEF Resolving
      <3>2. ASSUME NEW n \in Elements, Followed(top.doc, n), d.parent[n] # None
            PROVE  \/ WayFrom(top, n)
                   \/ d.parent[n] = p /\ \E j \in 1 .. Len(es) : j + 0 <= Len(es) /\ es[j] = n
        <4>1. WayFrom(s, n)
          BY <2>6, <3>2 DEF OnItsWay
        <4>2. CASE d.parent[n] = p
          <5>1. \E j \in 1 .. Len(es) : es[j] = n
            BY <2>11, <3>2, <4>2 DEF Tree
          <5> QED
            BY <4>2, <5>1, <2>4
        <4>3. CASE d.parent[n] # p
          BY <4>1, <4>3, <2>1, <2>2, <2>6 DEF WayFrom
        <4> QED
          BY <4>2, <4>3
      <3>3. Work(top) = Work(s) - 1
        <4>1. Cardinality(s.doc.descend) \in Nat
          BY <2>1, ElementsFinite, FS_Subset, FS_CardinalityType
        <4> QED
          BY <2>2, <2>6, <4>1 DEF Work
      <3>4. AmongChildren(d, top, es, p, 0)
        BY <2>1, <2>6, <3>1, <3>2 DEF AmongChildren
      <3> QED
        BY <2>7, <3>3, <3>4
    <2>9. ASSUME NEW k \in Nat, k \in T PROVE k + 1 \in T
      <3> SUFFICES ASSUME k + 1 <= Len(es)
                   PROVE  AmongChildren(d, g[k + 1], es, p, k + 1) /\ Work(g[k + 1]) = Work(s) - 1
        OBVIOUS
      <3>1. k <= Len(es) /\ k + 1 \in 1 .. Len(es) /\ (k + 1) - 1 = k /\ Len(es) + 1 - (k + 1) = Len(es) - k
        BY <2>4
      <3>2. g[k + 1] = ResolveNext(g[k], es[Len(es) - k])
        <4>1. g[k + 1] = ResolveNext(g[(k + 1) - 1], es[Len(es) + 1 - (k + 1)])
          BY <2>5, <3>1 DEF ChildSteps
        <4> QED
          BY <3>1, <4>1
      <3>3. AmongChildren(d, g[k], es, p, k) /\ Work(g[k]) = Work(s) - 1
        BY <2>9, <3>1
      <3> HIDE DEF T
      <3>4. /\ AmongChildren(d, ResolveNext(g[k], es[Len(es) - k]), es, p, k + 1)
            /\ Work(ResolveNext(g[k], es[Len(es) - k])) = Work(g[k])
        <4> DEFINE c == g[k]
        <4>1. p \in Elements /\ es = d.children[p] /\ AmongChildren(d, c, es, p, k)
          BY <2>2, <2>11, <3>3
        <4> HIDE DEF c, p
        <4> DEFINE e == es[Len(es) - k]
        <4>2. e = es[Len(es) - k]
          OBVIOUS
        <4> HIDE DEF e
        <4>3. AmongChildren(d, ResolveNext(c, e), es, p, k + 1) /\ Work(ResolveNext(c, e)) = Work(c)
          BY <4>1, <4>2, ResolveNextStyles
        <4> QED
          BY <4>3 DEF c, e
      <3> QED
        BY <3>2, <3>3, <3>4
    <2>10. Len(es) \in T /\ Len(es) <= Len(es)
      <3> HIDE DEF T
      <3> QED
        BY <2>4, <2>8, <2>9, Induction
    <2>12. AmongChildren(d, g[Len(es)], es, p, Len(es)) /\ Work(g[Len(es)]) = Work(s) - 1
      BY <2>10
    <2>13. g[Len(es)] = ResolveChildren(s)
      BY <2>5 DEF ChildSteps
    <2>14. \A j \in 1 .. Len(es) : ~(j + Len(es) <= Len(es))
      BY <2>4
    <2> HIDE DEF T
    <2>15. OnItsWay(d, g[Len(es)])
      BY <2>12, <2>14 DEF AmongChildren, OnItsWay
    <2> QED
      BY <1>2, <2>12, <2>13, <2>15
  <1> QED
    BY <1>1, <1>2

(* Every mark on the way is taken: there are as many steps as marks, and   *)
(* one for the page.                                                       *)
LEMMA ResolvedStyles ==
  ASSUME NEW d, Styled(d), MarksLead(d)
  PROVE  LET x == resolver(d, Page)
         IN  /\ StylesKept(x)
             /\ \A n \in Elements : Followed(x, n) /\ d.parent[n] # None =>
                    d.parent[n] # Page /\ d.parent[n] \in x.descend
  <1> DEFINE C == Cardinality(d.descend)
             N == 1 + C
  <1>1. Tree(d) /\ d.descend \subseteq Elements /\ StylesKept(d) /\ IsDoc(d) /\ Page \in Elements
    BY DEF Styled, Rooted, Tree, Elements
  <1>2. C \in Nat /\ N \in Nat /\ N <= N
    BY <1>1, ElementsFinite, FS_Subset, FS_CardinalityType
  <1>3. PICK g : /\ g[0] = [doc |-> d, todo |-> <<Page>>]
                 /\ \A k \in 1 .. N : g[k] = ResolveChildren(g[k - 1])
                 /\ resolver(d, Page) = g[N].doc
    BY <1>2, ResolveTrace
  <1> DEFINE T == {k \in Nat : k <= N => OnItsWay(d, g[k]) /\ (g[k].todo = <<>> \/ Work(g[k]) <= N - k)}
  <1>4. 0 \in T
    <2>1. g[0].doc = d /\ g[0].todo = <<Page>>
      BY <1>3
    <2>2. InPlace(d, d)
      BY <1>1, BuildComposes
    <2>3. <<Page>> \in Seq(Elements) /\ ToSet(<<Page>>) = {Page} /\ Len(<<Page>>) = 1
      BY <1>1 DEF ToSet
    <2>4. Work(g[0]) = 1 + C
      BY <2>1, <2>3 DEF Work
    <2>5. OnItsWay(d, g[0])
      BY <1>1, <2>1, <2>2, <2>3 DEF OnItsWay, Resolving, WayFrom, MarksLead
    <2> QED
      BY <1>2, <2>4, <2>5
  <1>5. ASSUME NEW k \in Nat, k \in T PROVE k + 1 \in T
    <2> SUFFICES ASSUME k + 1 <= N
                 PROVE  OnItsWay(d, g[k + 1]) /\ (g[k + 1].todo = <<>> \/ Work(g[k + 1]) <= N - (k + 1))
      OBVIOUS
    <2>1. k <= N /\ k + 1 \in 1 .. N /\ (k + 1) - 1 = k
      BY <1>2
    <2>2. OnItsWay(d, g[k]) /\ (g[k].todo = <<>> \/ Work(g[k]) <= N - k)
      BY <1>5, <2>1
    <2>3. g[k + 1] = ResolveChildren(g[k])
      BY <1>3, <2>1
    <2> HIDE DEF T, N
    <2>4. /\ OnItsWay(d, ResolveChildren(g[k]))
          /\ IF g[k].todo = <<>> THEN ResolveChildren(g[k]) = g[k] ELSE Work(ResolveChildren(g[k])) = Work(g[k]) - 1
      BY <1>1, <2>2, ResolveChildrenStyles
    <2>5. Work(g[k]) \in Int
      <3>1. g[k].todo \in Seq(Elements) /\ g[k].doc.descend \subseteq d.descend
        BY <2>2 DEF OnItsWay, Resolving, InPlace
      <3>2. Cardinality(g[k].doc.descend) \in Nat
        BY <1>1, <3>1, ElementsFinite, FS_Subset, FS_CardinalityType
      <3> QED
        BY <3>1, <3>2 DEF Work
    <2> QED
      BY <1>2, <2>2, <2>3, <2>4, <2>5
  <1>6. N \in T
    <2> HIDE DEF T, N
    <2> QED
      BY <1>2, <1>4, <1>5, Induction
  <1>7. OnItsWay(d, g[N]) /\ (g[N].todo = <<>> \/ Work(g[N]) <= N - N)
    BY <1>2, <1>6
  <1> HIDE DEF T, N
  <1>8. g[N].todo = <<>>
    <2>1. g[N].todo \in Seq(Elements) /\ g[N].doc.descend \subseteq d.descend
      BY <1>7 DEF OnItsWay, Resolving, InPlace
    <2>2. Cardinality(g[N].doc.descend) \in Nat
      BY <1>1, <2>1, ElementsFinite, FS_Subset, FS_CardinalityType
    <2> QED
      BY <1>2, <1>7, <2>1, <2>2 DEF Work
  <1>9. ToSet(<<>>) = {}
    BY DEF ToSet
  <1>10. g[N].doc.parent = d.parent
    BY <1>7 DEF OnItsWay, Resolving, InPlace, SameTree
  <1> QED
    BY <1>3, <1>7, <1>8, <1>9, <1>10 DEF OnItsWay, WayFrom

LEMMA FlushedStyles ==
  ASSUME NEW d, Styled(d), MarksLead(d)
  PROVE  LET x == FlushStyle(d)
         IN  Styled(x) /\ MarksLead(x) /\ IsDoc(x)
  <1> DEFINE r == resolver(d, Page)
             x == [r EXCEPT !.dirty = FALSE]
  <1>1. Tree(d) /\ d.descend \subseteq Elements /\ IsDoc(d) /\ Page \in Elements
    BY DEF Styled, Rooted, Tree, Elements
  <1>2. InPlace(d, r)
    BY <1>1, ResolveParts
  <1>3. /\ StylesKept(r)
        /\ \A n \in Elements : Followed(r, n) /\ d.parent[n] # None =>
                d.parent[n] # Page /\ d.parent[n] \in r.descend
    BY ResolvedStyles
  <1> HIDE DEF r
  <1>4. IsDoc(r) /\ r.parent = d.parent /\ Rooted(r)
    BY <1>2, InPlaceKeeps DEF InPlace, SameTree, Styled
  <1>5. IsDoc(x)
    <2>1. r = [n \in Fields |-> r[n]]
      BY <1>4, DocIsRecord
    <2>2. x = [n \in Fields |-> x[n]]
      BY <2>1
    <2> HIDE DEF x
    <2> QED
      BY <2>2, DocIsRecord
  <1>6. SameTree(r, x) /\ SameBuilds(r, x) /\ x.want = r.want /\ x.invalid = r.invalid /\ x.descend = r.descend
    <2>1. SameTree(r, x)
      BY <1>4 DEF IsDoc, SameTree
    <2>2. SameBuilds(r, x)
      BY <1>4 DEF IsDoc, SameBuilds
    <2>3. x.want = r.want /\ x.invalid = r.invalid /\ x.descend = r.descend
      BY <1>4 DEF IsDoc
    <2> QED
      BY <2>1, <2>2, <2>3
  <1> HIDE DEF x
  <1>7. Rooted(x)
    BY <1>4, <1>5, <1>6 DEF Rooted, Tree, SameTree
  <1>8. \A n \in Elements : Outdated(x, n) <=> Outdated(r, n)
    BY <1>6 DEF Outdated, SameBuilds
  <1>9. StylesKept(x)
    BY <1>3, <1>6, <1>8 DEF StylesKept, SameBuilds, SameTree, Built
  <1>10. MarksLead(x)
    BY <1>3, <1>4, <1>6, <1>8 DEF MarksLead, Followed, SameTree
  <1>11. Styled(x) /\ MarksLead(x) /\ IsDoc(x)
    BY <1>5, <1>7, <1>9, <1>10 DEF Styled
  <1> QED
    BY <1>1, <1>11 DEF FlushStyle, x, r

LEMMA InitStyled == Init => Styled(doc) /\ MarksLead(doc)
  <1> SUFFICES ASSUME Init PROVE Styled(doc) /\ MarksLead(doc)
    OBVIOUS
  <1>1. Rooted(doc)
    BY InitSound DEF Sound
  <1>2. /\ doc.init = [e \in Elements |-> FALSE] /\ doc.ignore = [e \in Elements |-> FALSE]
        /\ doc.build = [e \in Elements |-> 0] /\ doc.style = [e \in Elements |-> "static"]
        /\ doc.want = [e \in Elements |-> "static"] /\ doc.descend = {}
    BY DEF Init
  <1>3. StylesKept(doc)
    BY <1>2 DEF StylesKept, Outdated, Elements
  <1>4. MarksLead(doc)
    BY <1>2 DEF MarksLead, Followed, Outdated
  <1> QED
    BY <1>1, <1>3, <1>4 DEF Styled

LEMMA BecomeStyled ==
  ASSUME NEW d, Styled(d), MarksLead(d), NEW n, Become(d, n)
  PROVE  Styled(doc') /\ MarksLead(doc')
  <1>1. PICK k : doc' = [d EXCEPT !.kids = k]
    BY DEF Become
  <1>2. IsDoc(d)
    BY DEF Styled, Rooted, Tree
  <1> DEFINE x == [d EXCEPT !.kids = k]
  <1>3. BuildOnly(d, x) /\ x.flaws = d.flaws
    BY <1>2, BuildFields DEF IsDoc
  <1>4. SameLook(d, x)
    <2>1. SameBuilds(d, x)
      BY <1>2 DEF IsDoc, SameBuilds
    <2> HIDE DEF x
    <2> QED
      BY <1>3, <2>1 DEF BuildOnly, SameTree, SameLook
  <1> HIDE DEF x
  <1>5. Rooted(x)
    BY <1>3, BuildComposes, InPlaceKeeps DEF Styled
  <1>6. StylesKept(x) /\ MarksLead(x)
    BY <1>4, SameLooks DEF Styled
  <1>7. doc' = x
    BY <1>1 DEF x
  <1>8. Styled(x)
    BY <1>5, <1>6 DEF Styled
  <1> QED
    BY <1>6, <1>7, <1>8

LEMMA StyledStep ==
  ASSUME "movemarked" \in Avoided, Styled(doc), MarksLead(doc), [Next]_vars
  PROVE  Styled(doc') /\ MarksLead(doc')
  <1>1. ASSUME NEW d, Leave(d), Styled(d)
        PROVE  Styled(doc') /\ MarksLead(doc')
    <2>1. "movemarked" \notin d.flaws
      BY <1>1 DEF Leave
    <2>2. MarksLead(d)
      BY <1>1, <2>1 DEF Styled
    <2> QED
      BY <1>1, <2>2, BecomeStyled DEF Leave
  <1>2. Tree(doc) /\ IsDoc(doc) /\ doc.registry \subseteq Elements
    BY DEF Styled, Rooted, Tree
  <1>3. ASSUME NEW e \in Nodes, CreateTaroNode(e)
        PROVE  Styled(doc') /\ MarksLead(doc')
    <2> DEFINE d == [doc EXCEPT !.registry = @ \cup {e}, !.born = @ \cup {e}]
    <2>1. IsDoc(d)
      <3>1. doc = [n \in Fields |-> doc[n]]
        BY <1>2, DocIsRecord
      <3>2. d = [n \in Fields |-> d[n]]
        BY <3>1
      <3> HIDE DEF d
      <3> QED
        BY <3>2, DocIsRecord
    <2>2. d.registry = doc.registry \cup {e} /\ d.children = doc.children /\ d.flaws = doc.flaws
      BY <1>2 DEF IsDoc
    <2>3. SameLook(doc, d)
      <3>1. SameStyles(doc, d) /\ d.parent = doc.parent
        BY <1>2 DEF IsDoc, SameStyles
      <3>2. SameBuilds(doc, d)
        BY <1>2 DEF IsDoc, SameBuilds
      <3> QED
        BY <3>1, <3>2 DEF SameLook
    <2> HIDE DEF d
    <2>4. Tree(d)
      BY <1>2, <2>1, <2>2, <2>3 DEF Tree, SameLook, Elements
    <2>5. Rooted(d)
      BY <2>2, <2>3, <2>4 DEF Styled, Rooted, SameLook, SameStyles
    <2>6. Styled(d)
      BY <2>2, <2>3, <2>5, SameLooks DEF Styled
    <2> QED
      BY <1>1, <1>3, <2>6 DEF CreateTaroNode, d
  <1>4. ASSUME AppendPage
        PROVE  Styled(doc') /\ MarksLead(doc')
    <2>1. Page \in Elements /\ Page \notin Nodes
      BY TreesAssumption DEF ConstantsBounded, Elements
    <2>2. Styled(BuildElement(doc, Page))
      BY <2>1, StyledBuild
    <2> QED
      BY <1>1, <1>4, <2>2 DEF AppendPage
  <1>5. ASSUME NEW e \in doc.registry \ {Page}, NEW p \in Places(e)
        PROVE  e \in Nodes /\ e \in doc.registry /\ p \in doc.registry
    BY <1>2 DEF Places, Elements
  <1>6. ASSUME NEW e \in doc.registry \ {Page}, NEW p \in Places(e), AppendTaroNode(p, e)
        PROVE  Styled(doc') /\ MarksLead(doc')
    <2>1. StyledChild(appendChild(doc, p, e), e)
      BY <1>5, StyledAppend
    <2>2. Styled(BuildIfInit(appendChild(doc, p, e), p, e))
      BY <2>1, StyledBuild DEF StyledChild
    <2> QED
      BY <1>1, <1>6, <2>2 DEF AppendTaroNode
  <1>7. ASSUME NEW e \in doc.registry \ {Page}, NEW p \in Places(e),
               NEW c \in ToSet(doc.children[p]) \ {e}
        PROVE  /\ InsertBeforeTaroNode(p, e, c) => Styled(doc') /\ MarksLead(doc')
               /\ ReplaceTaroNode(p, e, c) => Styled(doc') /\ MarksLead(doc')
    <2>1. e \in Nodes /\ e \in doc.registry /\ p \in doc.registry /\ c \in Nodes /\ doc.parent[c] = p
      BY <1>2, <1>5, ChildOf
    <2>2. StyledChild(insertBefore(doc, p, e, c), e)
      BY <2>1, StyledInsert
    <2>3. Styled(BuildIfInit(insertBefore(doc, p, e, c), p, e))
      BY <2>2, StyledBuild DEF StyledChild
    <2> DEFINE x == replaceChild(doc, p, e, c)
    <2>4. Styled(x) /\ (x.init[p] => StyledChild(x, e))
      BY <2>1, StyledReplace
    <2> HIDE DEF x
    <2>5. Styled(BuildIfInit(x, p, e))
      <3>1. CASE x.init[p]
        BY <2>4, <3>1, StyledBuild DEF StyledChild
      <3>2. CASE ~x.init[p]
        BY <2>4, <3>2 DEF BuildIfInit
      <3> QED
        BY <3>1, <3>2
    <2>6. InsertBeforeTaroNode(p, e, c) => Styled(doc') /\ MarksLead(doc')
      BY <1>1, <2>3 DEF InsertBeforeTaroNode
    <2>7. ReplaceTaroNode(p, e, c) => Styled(doc') /\ MarksLead(doc')
      BY <1>1, <2>5 DEF ReplaceTaroNode, x
    <2> QED
      BY <2>6, <2>7
  <1>8. ASSUME NEW p \in doc.registry, NEW c \in ToSet(doc.children[p]), RemoveTaroNode(p, c)
        PROVE  Styled(doc') /\ MarksLead(doc')
    <2>1. c \in Nodes
      BY <1>2, ChildOf
    <2> QED
      BY <1>1, <1>8, <2>1, StyledRemove DEF RemoveTaroNode
  <1>9. ASSUME NEW e \in Nodes, NEW v \in Positions, SetStyleAttribute(e, v)
        PROVE  Styled(doc') /\ MarksLead(doc')
    <2> DEFINE w == [doc EXCEPT !.want[e] = v]
               x == IF doc.init[e] THEN invalidateStyle(w, e) ELSE w
    <2>1. Styled(x)
      BY <1>9, StyledRestyle DEF SetStyleAttribute
    <2>2. Leave(x)
      BY <1>9 DEF SetStyleAttribute
    <2> HIDE DEF x
    <2> QED
      BY <1>1, <2>1, <2>2
  <1>10. ASSUME Flush
         PROVE  Styled(doc') /\ MarksLead(doc')
    <2> DEFINE s == FlushStyle(doc)
               f == [s EXCEPT !.calls = <<>>, !.flaws = @ \cup Miscounts(s)]
    <2>1. Styled(s) /\ MarksLead(s) /\ IsDoc(s)
      BY FlushedStyles
    <2>2. Become(f, Replay(s, native, s.calls))
      BY <1>10, Zenon DEF Flush
    <2> HIDE DEF s
    <2>3. IsDoc(f)
      <3>1. s = [n \in Fields |-> s[n]]
        BY <2>1, DocIsRecord
      <3>2. f = [n \in Fields |-> f[n]]
        BY <3>1
      <3> HIDE DEF f
      <3> QED
        BY <3>2, DocIsRecord
    <2>4. SameTree(s, f)
      BY <2>1 DEF IsDoc, SameTree
    <2>5. SameStyles(s, f)
      BY <2>1 DEF IsDoc, SameStyles
    <2>6. SameBuilds(s, f)
      BY <2>1 DEF IsDoc, SameBuilds
    <2> HIDE DEF f
    <2>7. Rooted(f)
      BY <2>1, <2>3, <2>4, <2>5 DEF Styled, Rooted, Tree, SameTree, SameStyles
    <2>8. StylesKept(f) /\ MarksLead(f)
      BY <2>1, <2>4, <2>5, <2>6, SameLooks DEF Styled, SameLook, SameTree
    <2>9. Styled(f)
      BY <2>7, <2>8 DEF Styled
    <2> QED
      BY <2>2, <2>8, <2>9, BecomeStyled
  <1>11. CASE UNCHANGED vars
    BY <1>11 DEF vars
  <1> QED
    BY <1>3, <1>4, <1>6, <1>7, <1>8, <1>9, <1>10, <1>11 DEF Next

(* No way from the page to an element the resolver has work at begins when *)
(* no resolution is queued.                                                *)
LEMMA NothingBelow ==
  ASSUME NEW d, Styled(d), MarksLead(d), ~d.dirty, NEW e \in Elements, Outdated(d, e)
  PROVE  e \notin Subtree(d, Page)
  <1> DEFINE S == {n \in Subtree(d, Page) : n = Page \/ ~Followed(d, n)}
  <1>1. Page \in Elements /\ Tree(d)
    BY DEF Elements, Styled, Rooted
  <1>2. /\ Subtree(d, Page) \subseteq Elements /\ Page \in Subtree(d, Page)
        /\ \A p \in Subtree(d, Page) : ToSet(d.children[p]) \subseteq Elements
                => ToSet(d.children[p]) \subseteq Subtree(d, Page)
        /\ \A R \in SUBSET Elements :
                Page \in R /\ (\A p \in R : ToSet(d.children[p]) \subseteq R) => Subtree(d, Page) \subseteq R
    BY <1>1, SubtreeClosed
  <1>3. ASSUME NEW p \in S, NEW c \in ToSet(d.children[p])
        PROVE  c \in S
    <2>1. p \in Subtree(d, Page) /\ p \in Elements /\ (p = Page \/ ~Followed(d, p))
      BY <1>2
    <2>2. \A n \in ToSet(d.children[p]) : n \in Elements /\ d.parent[n] = p
      BY <1>1, <2>1, ChildOf
    <2>3. c \in Subtree(d, Page)
      BY <1>2, <2>1, <2>2
    <2>4. p # None
      BY <2>1, TreesAssumption DEF ConstantsBounded, Elements
    <2>5. ~Followed(d, c)
      <3> SUFFICES ASSUME Followed(d, c) PROVE FALSE
        OBVIOUS
      <3>1. IF p = Page THEN d.dirty ELSE p \in d.descend
        BY <2>2, <2>4 DEF MarksLead
      <3> QED
        BY <2>1, <3>1 DEF Followed
    <2> QED
      BY <2>3, <2>5
  <1>4. S \in SUBSET Elements /\ Page \in S
    BY <1>2
  <1> HIDE DEF S
  <1>5. Subtree(d, Page) \subseteq S
    BY <1>2, <1>3, <1>4
  <1>6. e # Page
    BY DEF Styled, StylesKept, Outdated
  <1> QED
    BY <1>5, <1>6 DEF S, Followed

THEOREM StyleFreshAlways == ("movemarked" \in Avoided /\ Spec) => []StyleFresh
  <1> SUFFICES ASSUME "movemarked" \in Avoided
               PROVE  Spec => []StyleFresh
    OBVIOUS
  <1>1. Init => Styled(doc) /\ MarksLead(doc)
    BY InitStyled
  <1>2. Styled(doc) /\ MarksLead(doc) /\ [Next]_vars => (Styled(doc) /\ MarksLead(doc))'
    BY StyledStep
  <1>3. Styled(doc) /\ MarksLead(doc) => StyleFresh
    BY NothingBelow DEF StyleFresh, Outdated
  <1> QED
    BY <1>1, <1>2, <1>3, PTL DEF Spec

-----------------------------------------------------------------------------
(* Render nodes.  The rows of children, for every render node there may    *)
(* ever be: those that are not there have none.                            *)
AllRenders == Elements \X Nat
Rows(f) == [r \in AllRenders |-> IF r \in DOMAIN f THEN f[r] ELSE <<>>]
Hangs(f, x) == \E q \in AllRenders : Listed(f[q], x)

(* Every render node hangs once at most.                                   *)
OnePlace(f) == \A q, p \in AllRenders : \A x : Listed(f[q], x) /\ Listed(f[p], x) => q = p
Wood(f) ==
    /\ f \in [AllRenders -> Seq(AllRenders)]
    /\ \A q \in AllRenders : Distinct(f[q])
    /\ OnePlace(f)

(* ErasedRow: a child taken from a row that may have it.                   *)
LEMMA ErasedRow ==
  ASSUME NEW C, NEW s \in Seq(C), Distinct(s), NEW x
  PROVE  Erased(s, x) \in Seq(C) /\ RemovedFrom(s, Erased(s, x), x)
  <1>1. CASE Listed(s, x)
    <2> DEFINE i == IndexOf(s, x)
    <2>1. i \in 1 .. Len(s) /\ s[i] = x
      BY <1>1 DEF IndexOf, Listed
    <2>2. Erased(s, x) = RemoveAt(s, i)
      BY <1>1 DEF Erased, Contains, Listed
    <2> HIDE DEF i
    <2>3. RemoveAt(s, i) \in Seq(C) /\ RemovedFrom(s, RemoveAt(s, i), s[i])
      BY <2>1, RemovedRow
    <2> QED
      BY <2>1, <2>2, <2>3
  <1>2. CASE ~Listed(s, x)
    <2>1. Erased(s, x) = s
      BY <1>2 DEF Erased, Contains, Listed
    <2>2. \A a, b : Ahead(s, a, b) => a # x /\ b # x
      BY <1>2 DEF Ahead, Listed
    <2> QED
      BY <1>2, <2>1, <2>2 DEF RemovedFrom
  <1> QED
    BY <1>1, <1>2

-----------------------------------------------------------------------------
(* The delayed calls.  What a call does to the rows it was noted for: its  *)
(* child is nowhere before an insertion, and on the parent before it is    *)
(* removed; an index is one of that time.                                  *)
Calls == [op : {"add", "insert", "remove"}, parent : AllRenders, child : AllRenders, index : Nat]
PutIn(f, c, h) ==
    /\ ~Hangs(f, c.child) /\ c.index \in 1 .. Len(f[c.parent]) + 1
    /\ c.op = "add" => c.index = Len(f[c.parent]) + 1
    /\ h = [f EXCEPT ![c.parent] = InsertAt(@, c.index, c.child)]
TakenOut(f, c, h) ==
    /\ Listed(f[c.parent], c.child)
    /\ h = [f EXCEPT ![c.parent] = Erased(@, c.child)]
Made(f, c, h) == IF c.op = "remove" THEN TakenOut(f, c, h) ELSE PutIn(f, c, h)

(* Which children the rows have then.                                      *)
RowsAfter(f, c, h) ==
    \A q \in AllRenders : \A x :
        Listed(h[q], x) <=> IF c.op = "remove" THEN Listed(f[q], x) /\ x # c.child
                            ELSE Listed(f[q], x) \/ (q = c.parent /\ x = c.child)

LEMMA MadeWood ==
  ASSUME NEW f, Wood(f), NEW c \in Calls, NEW h, Made(f, c, h)
  PROVE  Wood(h) /\ RowsAfter(f, c, h)
  <1> DEFINE p == c.parent
             e == c.child
  <1>1. p \in AllRenders /\ e \in AllRenders /\ c.op \in {"add", "insert", "remove"}
    BY DEF Calls
  <1>2. f[p] \in Seq(AllRenders) /\ Distinct(f[p]) /\ f \in [AllRenders -> Seq(AllRenders)]
    BY <1>1 DEF Wood
  <1>3. ASSUME c.op = "remove" PROVE Wood(h) /\ RowsAfter(f, c, h)
    <2>1. Listed(f[p], e) /\ h = [f EXCEPT ![p] = Erased(f[p], e)]
      BY <1>3 DEF Made, TakenOut
    <2>2. Erased(f[p], e) \in Seq(AllRenders) /\ RemovedFrom(f[p], Erased(f[p], e), e)
      BY <1>2, ErasedRow
    <2>3. h \in [AllRenders -> Seq(AllRenders)] /\ h[p] = Erased(f[p], e)
          /\ \A q \in AllRenders : q # p => h[q] = f[q]
      BY <1>1, <1>2, <2>1, <2>2
    <2>4. ASSUME NEW q \in AllRenders, NEW x
          PROVE  Listed(h[q], x) <=> Listed(f[q], x) /\ x # e
      <3>1. CASE q = p
        BY <2>2, <2>3, <3>1 DEF RemovedFrom
      <3>2. CASE q # p
        BY <1>1, <2>1, <2>3, <3>2 DEF Wood, OnePlace
      <3> QED
        BY <3>1, <3>2
    <2>5. \A q \in AllRenders : Distinct(h[q])
      BY <2>2, <2>3 DEF RemovedFrom, Wood
    <2>6. OnePlace(h)
      BY <2>4 DEF Wood, OnePlace
    <2> QED
      BY <1>3, <2>3, <2>4, <2>5, <2>6 DEF Wood, RowsAfter
  <1>4. ASSUME c.op # "remove" PROVE Wood(h) /\ RowsAfter(f, c, h)
    <2>1. ~Hangs(f, e) /\ c.index \in 1 .. Len(f[p]) + 1
          /\ h = [f EXCEPT ![p] = InsertAt(f[p], c.index, e)]
      BY <1>4 DEF Made, PutIn
    <2>2. InsertAt(f[p], c.index, e) \in Seq(AllRenders)
          /\ InsertedIn(f[p], InsertAt(f[p], c.index, e), e)
      BY <1>1, <1>2, <2>1, InsertedRow DEF Hangs
    <2>3. h \in [AllRenders -> Seq(AllRenders)] /\ h[p] = InsertAt(f[p], c.index, e)
          /\ \A q \in AllRenders : q # p => h[q] = f[q]
      BY <1>1, <1>2, <2>1, <2>2
    <2>4. ASSUME NEW q \in AllRenders, NEW x
          PROVE  Listed(h[q], x) <=> Listed(f[q], x) \/ (q = p /\ x = e)
      BY <2>2, <2>3 DEF InsertedIn
    <2>5. \A q \in AllRenders : Distinct(h[q])
      BY <2>2, <2>3 DEF InsertedIn, Wood
    <2>6. OnePlace(h)
      BY <2>1, <2>4 DEF Wood, OnePlace, Hangs
    <2> QED
      BY <1>4, <2>3, <2>4, <2>5, <2>6 DEF Wood, RowsAfter
  <1> QED
    BY <1>3, <1>4

(* The rows between two frames: one call after the other leads from ArkUI's *)
(* to those of the render tree.                                            *)
History(calls, a, b, g) ==
    /\ g[0] = a /\ g[Len(calls)] = b
    /\ \A m \in 0 .. Len(calls) : Wood(g[m])
    /\ \A m \in 1 .. Len(calls) : Made(g[m - 1], calls[m], g[m])
Tracked(calls, a, b) == calls \in Seq(Calls) /\ \E g : History(calls, a, b, g)

LEMMA TrackedMore ==
  ASSUME NEW calls, NEW a, NEW b, Tracked(calls, a, b), NEW c \in Calls, NEW h, Made(b, c, h)
  PROVE  Tracked(Append(calls, c), a, h) /\ Wood(h) /\ RowsAfter(b, c, h)
  <1> DEFINE n == Len(calls)
             more == Append(calls, c)
  <1>1. PICK g : History(calls, a, b, g)
    BY DEF Tracked
  <1>2. calls \in Seq(Calls) /\ n \in Nat
    BY DEF Tracked
  <1>3. more \in Seq(Calls) /\ Len(more) = n + 1 /\ more[n + 1] = c
        /\ \A m \in 1 .. n : more[m] = calls[m]
    BY <1>2
  <1> HIDE DEF more
  <1>4. Wood(b) /\ g[0] = a /\ g[n] = b
    BY <1>1, <1>2 DEF History
  <1>5. Wood(h) /\ RowsAfter(b, c, h)
    BY <1>4, MadeWood
  <1>6. (\A m \in 0 .. n : Wood(g[m])) /\ \A m \in 1 .. n : Made(g[m - 1], calls[m], g[m])
    BY <1>1 DEF History
  <1> DEFINE k == [m \in 0 .. n + 1 |-> IF m = n + 1 THEN h ELSE g[m]]
  <1>7. k[n + 1] = h /\ \A m \in 0 .. n : k[m] = g[m]
    BY <1>2
  <1> HIDE DEF k, n
  <1>8. \A m \in 0 .. n + 1 : Wood(k[m])
    <2> TAKE m \in 0 .. n + 1
    <2>1. m \in 0 .. n \/ m = n + 1
      BY <1>2
    <2> QED
      BY <1>5, <1>6, <1>7, <2>1
  <1>9. \A m \in 1 .. n + 1 : Made(k[m - 1], more[m], k[m])
    <2> TAKE m \in 1 .. n + 1
    <2>1. CASE m = n + 1
      <3>1. m - 1 = n /\ n \in 0 .. n
        BY <1>2, <2>1
      <3> QED
        BY <1>3, <1>4, <1>7, <2>1, <3>1
    <2>2. CASE m # n + 1
      <3>1. m \in 1 .. n /\ m \in 0 .. n /\ m - 1 \in 0 .. n
        BY <1>2, <2>2
      <3> QED
        BY <1>3, <1>6, <1>7, <3>1
    <2> QED
      BY <2>1, <2>2
  <1>10. k[0] = a
    BY <1>2, <1>4, <1>7
  <1>11. History(more, a, h, k)
    BY <1>3, <1>7, <1>8, <1>9, <1>10 DEF History
  <1> QED
    BY <1>3, <1>5, <1>11 DEF Tracked, more

-----------------------------------------------------------------------------
(* Render nodes are numbered as they are built: none is there, or hangs    *)
(* anywhere, before its time, and the current one of an element is there.  *)
Planted(d) ==
    /\ DOMAIN d.kids \subseteq AllRenders /\ FixedRoot \in DOMAIN d.kids
    /\ d.registry \subseteq d.born /\ d.registry \subseteq Elements
    /\ d.build \in [Elements -> Nat]
    /\ \A x \in Elements, k \in Nat :
          Hangs(Rows(d.kids), <<x, k>>) \/ (<<x, k>> \in DOMAIN d.kids /\ <<x, k>> # FixedRoot)
             => x \in d.born /\ k >= 1 /\ (x \in d.registry => k <= d.build[x])
    /\ \A x \in Elements : Built(d, x) => x \in d.registry /\ RenderOf(d, x) \in DOMAIN d.kids
    /\ \A i \in 1 .. Len(d.calls) : d.calls[i].parent \in DOMAIN d.kids
(* The render tree and the calls that lead to it from the rows a.          *)
Grown(d, a) == IsDoc(d) /\ Planted(d) /\ Tracked(d.calls, a, Rows(d.kids))
SameRenders(d, x) ==
    /\ x.registry = d.registry /\ x.born = d.born /\ x.build = d.build
    /\ x.kids = d.kids /\ x.calls = d.calls

LEMMA SameGrown ==
  ASSUME NEW d, NEW a, Grown(d, a), NEW x, IsDoc(x), SameRenders(d, x)
  PROVE  Grown(x, a)
  <1>1. Planted(x)
    BY DEF Grown, SameRenders, Planted, Built, RenderOf
  <1> QED
    BY <1>1 DEF Grown, SameRenders

LEMMA GrownWood ==
  ASSUME NEW d, NEW a, Grown(d, a)
  PROVE  /\ Wood(Rows(d.kids)) /\ d.calls \in Seq(Calls) /\ Len(d.calls) \in Nat
         /\ \A q \in DOMAIN d.kids : /\ q \in AllRenders /\ Rows(d.kids)[q] = d.kids[q]
                                     /\ d.kids[q] \in Seq(AllRenders)
  <1>1. d.calls \in Seq(Calls) /\ Len(d.calls) \in Nat
    BY DEF Grown, Tracked
  <1>2. Wood(Rows(d.kids))
    BY <1>1 DEF Grown, Tracked, History
  <1>3. \A q \in DOMAIN d.kids : q \in AllRenders /\ Rows(d.kids)[q] = d.kids[q]
    BY DEF Grown, Planted, Rows
  <1> QED
    BY <1>1, <1>2, <1>3 DEF Wood

(* What hangs in another document, and what is there.                      *)
Below(d, x, r) ==
    /\ DOMAIN x.kids = DOMAIN d.kids
    /\ \A s : Hangs(Rows(x.kids), s) => Hangs(Rows(d.kids), s) \/ s = r

(* One more call, noted with the change it stands for.                     *)
OneMore(d, x, c) ==
    /\ RenderOnly(d, x) /\ x.calls = Append(d.calls, c)
    /\ x.kids = [d.kids EXCEPT ![c.parent] =
                    IF c.op = "remove" THEN Erased(@, c.child) ELSE InsertAt(@, c.index, c.child)]
LEMMA OneMoreGrown ==
  ASSUME NEW d, NEW a, Grown(d, a), NEW c \in Calls, c.parent \in DOMAIN d.kids,
         IF c.op = "remove" THEN Listed(d.kids[c.parent], c.child)
         ELSE /\ ~Hangs(Rows(d.kids), c.child) /\ c.index \in 1 .. Len(d.kids[c.parent]) + 1
              /\ c.op = "add" => c.index = Len(d.kids[c.parent]) + 1
              /\ \E x \in d.registry : Built(d, x) /\ c.child = RenderOf(d, x),
         NEW x, OneMore(d, x, c)
  PROVE  /\ Grown(x, a) /\ DOMAIN x.kids = DOMAIN d.kids
         /\ \A s : Hangs(Rows(x.kids), s) <=>
                IF c.op = "remove" THEN Hangs(Rows(d.kids), s) /\ s # c.child
                ELSE Hangs(Rows(d.kids), s) \/ s = c.child
  <1> DEFINE b == Rows(d.kids)
             h == Rows(x.kids)
             p == c.parent
             row == IF c.op = "remove" THEN Erased(d.kids[p], c.child)
                    ELSE InsertAt(d.kids[p], c.index, c.child)
  <1>1. /\ Wood(b) /\ d.calls \in Seq(Calls) /\ Len(d.calls) \in Nat
        /\ p \in AllRenders /\ b[p] = d.kids[p] /\ p \in DOMAIN d.kids
    BY GrownWood
  <1>2. DOMAIN x.kids = DOMAIN d.kids /\ x.kids[p] = row
        /\ \A q \in DOMAIN d.kids : q # p => x.kids[q] = d.kids[q]
    BY <1>1 DEF OneMore
  <1>3. h = [b EXCEPT ![p] = row]
    <2>1. \A q \in AllRenders : h[q] = IF q = p THEN row ELSE b[q]
      BY <1>1, <1>2 DEF Rows
    <2> QED
      BY <2>1 DEF Rows
  <1>4. Made(b, c, h)
    BY <1>1, <1>3 DEF Made, PutIn, TakenOut
  <1>5. Tracked(x.calls, a, h) /\ Wood(h) /\ RowsAfter(b, c, h)
    <2>1. Tracked(d.calls, a, b) /\ x.calls = Append(d.calls, c)
      BY DEF Grown, OneMore
    <2> HIDE DEF b, h
    <2> QED
      BY <1>4, <2>1, TrackedMore
  <1> HIDE DEF b, h, row
  <1>6. \A s : Hangs(h, s) <=> IF c.op = "remove" THEN Hangs(b, s) /\ s # c.child
                               ELSE Hangs(b, s) \/ s = c.child
    BY <1>1, <1>5 DEF Hangs, RowsAfter
  <1>7. IsDoc(x) /\ x.registry = d.registry /\ x.born = d.born /\ x.build = d.build
    BY DEF OneMore, RenderOnly, SameTree, SameBuilds
  <1>8. Planted(x)
    <2>1. Planted(d)
      BY DEF Grown
    <2>2. \A y \in Elements, k \in Nat :
            Hangs(h, <<y, k>>) => Hangs(b, <<y, k>>) \/ (\E z \in d.registry :
                                        Built(d, z) /\ <<y, k>> = <<z, d.build[z]>>)
      BY <1>6 DEF RenderOf
    <2>3. \A y \in Elements, k \in Nat :
            Hangs(h, <<y, k>>) \/ (<<y, k>> \in DOMAIN x.kids /\ <<y, k>> # FixedRoot)
                => y \in x.born /\ k >= 1 /\ (y \in x.registry => k <= x.build[y])
      <3> TAKE y \in Elements, k \in Nat
      <3>1. CASE Hangs(b, <<y, k>>) \/ (<<y, k>> \in DOMAIN d.kids /\ <<y, k>> # FixedRoot)
        BY <1>7, <2>1, <3>1 DEF Planted, b
      <3>2. ASSUME NEW z \in d.registry, Built(d, z), <<y, k>> = <<z, d.build[z]>>
            PROVE  y \in x.born /\ k >= 1 /\ (y \in x.registry => k <= x.build[y])
        BY <1>7, <2>1, <3>2 DEF Planted, Built
      <3> QED
        BY <1>2, <2>2, <3>1, <3>2
    <2>4. \A i \in 1 .. Len(x.calls) : x.calls[i].parent \in DOMAIN x.kids
      <3>1. x.calls = Append(d.calls, c)
        BY DEF OneMore
      <3>2. /\ Len(x.calls) = Len(d.calls) + 1 /\ x.calls[Len(d.calls) + 1] = c
            /\ \A i \in 1 .. Len(d.calls) : x.calls[i] = d.calls[i]
        BY <1>1, <3>1
      <3> TAKE i \in 1 .. Len(x.calls)
      <3>3. i \in 1 .. Len(d.calls) \/ i = Len(d.calls) + 1
        BY <1>1, <3>2
      <3> QED
        BY <1>1, <1>2, <2>1, <3>2, <3>3 DEF Planted
    <2> QED
      BY <1>2, <1>7, <2>1, <2>3, <2>4 DEF Planted, h, Built, RenderOf
  <1> QED
    BY <1>2, <1>5, <1>6, <1>7, <1>8 DEF Grown, h, b

(* The render node of a registered element put into a row.                 *)
LEMMA InsertFields ==
  ASSUME NEW d, IsDoc(d), NEW op, op # "remove", NEW q, NEW r, NEW i
  PROVE  OneMore(d, InsertRender(d, op, q, r, i),
                 [op |-> op, parent |-> q, child |-> r, index |-> i])
  <1> DEFINE y == [d EXCEPT !.kids[q] = InsertAt(@, i, r)]
             c == [op |-> op, parent |-> q, child |-> r, index |-> i]
             x == addDelayedCall(y, op, q, r, i)
  <1>1. IsDoc(y) /\ y.kids = [d.kids EXCEPT ![q] = InsertAt(@, i, r)] /\ y.calls = d.calls
    BY DEF IsDoc
  <1> HIDE DEF y
  <1>2. x.kids = y.kids /\ x.calls = Append(y.calls, c)
    BY <1>1 DEF addDelayedCall, IsDoc
  <1>3. x = InsertRender(d, op, q, r, i)
    BY DEF InsertRender, y
  <1>4. RenderOnly(d, x)
    BY <1>3, RenderParts
  <1> HIDE DEF x
  <1>5. c.op = op /\ c.parent = q /\ c.child = r /\ c.index = i
    OBVIOUS
  <1> HIDE DEF c
  <1>6. x.kids = [d.kids EXCEPT ![c.parent] =
                    IF c.op = "remove" THEN Erased(@, c.child) ELSE InsertAt(@, c.index, c.child)]
    BY <1>1, <1>2, <1>5
  <1>7. OneMore(d, x, c)
    BY <1>1, <1>2, <1>4, <1>6 DEF OneMore
  <1> QED
    BY <1>3, <1>7 DEF c
(* An element's own render node, that hangs nowhere.                       *)
Loose(d, e) == e \in d.registry /\ Built(d, e) /\ ~Hangs(Rows(d.kids), RenderOf(d, e))
LEMMA InsertGrown ==
  ASSUME NEW d, NEW a, Grown(d, a), NEW e, Loose(d, e), NEW q \in DOMAIN d.kids,
         NEW op \in {"add", "insert"}, NEW i \in 1 .. Len(d.kids[q]) + 1,
         op = "add" => i = Len(d.kids[q]) + 1
  PROVE  LET x == InsertRender(d, op, q, RenderOf(d, e), i)
         IN  Grown(x, a) /\ RenderOnly(d, x) /\ Below(d, x, RenderOf(d, e))
  <1> DEFINE r == RenderOf(d, e)
             c == [op |-> op, parent |-> q, child |-> r, index |-> i]
             x == InsertRender(d, op, q, r, i)
  <1>1. IsDoc(d) /\ OneMore(d, x, c)
    BY InsertFields DEF Grown
  <1>2. q \in AllRenders /\ Len(d.kids[q]) \in Nat
    BY GrownWood
  <1>3. r \in AllRenders
    BY DEF Grown, Planted, RenderOf, AllRenders, Loose
  <1>4. c \in Calls /\ c.op = op /\ c.parent = q /\ c.child = r /\ c.index = i
    BY <1>2, <1>3 DEF Calls
  <1> HIDE DEF c, x
  <1>5. /\ Grown(x, a) /\ DOMAIN x.kids = DOMAIN d.kids
        /\ \A s : Hangs(Rows(x.kids), s) <=>
                IF c.op = "remove" THEN Hangs(Rows(d.kids), s) /\ s # c.child
                ELSE Hangs(Rows(d.kids), s) \/ s = c.child
    <2>1. IF c.op = "remove" THEN Listed(d.kids[c.parent], c.child)
          ELSE /\ ~Hangs(Rows(d.kids), c.child) /\ c.index \in 1 .. Len(d.kids[c.parent]) + 1
               /\ c.op = "add" => c.index = Len(d.kids[c.parent]) + 1
               /\ \E y \in d.registry : Built(d, y) /\ c.child = RenderOf(d, y)
      BY <1>4 DEF Loose
    <2>2. c \in Calls /\ c.parent \in DOMAIN d.kids /\ OneMore(d, x, c)
      BY <1>1, <1>4
    <2> HIDE DEF r
    <2> QED
      BY <2>1, <2>2, OneMoreGrown, Zenon
  <1> QED
    BY <1>1, <1>4, <1>5 DEF Below, OneMore, x

LEMMA RemoveGrown ==
  ASSUME NEW d, NEW a, Grown(d, a), NEW r \in AllRenders
  PROVE  LET x == RemoveChild(d, r)
         IN  /\ Grown(x, a) /\ RenderOnly(d, x) /\ DOMAIN x.kids = DOMAIN d.kids
             /\ \A s : Hangs(Rows(x.kids), s) <=> Hangs(Rows(d.kids), s) /\ s # r
  <1> DEFINE x == RemoveChild(d, r)
             q == ParentRef(d, r)
             c == [op |-> "remove", parent |-> q, child |-> r, index |-> 0]
  <1>1. IsDoc(d) /\ RenderOnly(d, x)
    BY RenderParts DEF Grown
  <1>2. CASE \E p \in DOMAIN d.kids : Contains(d.kids[p], r)
    <2>1. q \in DOMAIN d.kids /\ Contains(d.kids[q], r)
      BY <1>2 DEF ParentRef
    <2>2. q \in AllRenders /\ Listed(d.kids[q], r)
      BY <2>1, GrownWood DEF Contains, Listed
    <2>3. q # None
      BY <2>2, TreesAssumption DEF AllRenders, Elements, ConstantsBounded
    <2>4. /\ x.kids = [d.kids EXCEPT ![q] = Erased(@, r)]
          /\ x.calls = Append(d.calls, c)
      BY <1>1, <2>3, RemoveFields
    <2>5. c \in Calls /\ c.op = "remove" /\ c.parent = q /\ c.child = r
      BY <2>2 DEF Calls
    <2> HIDE DEF c, x, q
    <2>6. OneMore(d, x, c)
      BY <1>1, <2>4, <2>5 DEF OneMore
    <2>7. /\ Grown(x, a) /\ DOMAIN x.kids = DOMAIN d.kids
          /\ \A s : Hangs(Rows(x.kids), s) <=>
                IF c.op = "remove" THEN Hangs(Rows(d.kids), s) /\ s # c.child
                ELSE Hangs(Rows(d.kids), s) \/ s = c.child
      BY <2>1, <2>2, <2>5, <2>6, OneMoreGrown
    <2> QED
      BY <1>1, <2>5, <2>7 DEF x
  <1>3. CASE ~\E p \in DOMAIN d.kids : Contains(d.kids[p], r)
    <2>1. x = d
      BY <1>3 DEF ParentRef, RemoveChild
    <2>2. ~Hangs(Rows(d.kids), r)
      <3>1. \A p \in AllRenders : p \notin DOMAIN d.kids => Rows(d.kids)[p] = <<>>
        BY DEF Rows
      <3>2. ~Listed(<<>>, r)
        BY DEF Listed
      <3> QED
        BY <1>3, <3>1, <3>2, GrownWood DEF Hangs, Contains, Listed
    <2> QED
      BY <1>1, <2>1, <2>2
  <1> QED
    BY <1>2, <1>3

-----------------------------------------------------------------------------
(* x is d with the render node r mounted, or left where it was.            *)
Mounted(d, x, a, r) == Grown(x, a) /\ RenderOnly(d, x) /\ Below(d, x, r)

LEMMA NotMounted ==
  ASSUME NEW d, NEW a, Grown(d, a), NEW r
  PROVE  Mounted(d, d, a, r)
  <1>1. RenderOnly(d, d)
    BY RenderParts DEF Grown
  <1> QED
    BY <1>1 DEF Mounted, Below

LEMMA AppendGrown ==
  ASSUME NEW d, NEW a, Grown(d, a), NEW e, Loose(d, e), NEW q \in DOMAIN d.kids
  PROVE  Mounted(d, AppendChild(d, q, RenderOf(d, e)), a, RenderOf(d, e))
  <1> DEFINE i == Len(d.kids[q]) + 1
  <1>1. Len(d.kids[q]) \in Nat
    BY GrownWood
  <1>2. i \in 1 .. Len(d.kids[q]) + 1
    BY <1>1
  <1>3. Mounted(d, InsertRender(d, "add", q, RenderOf(d, e), i), a, RenderOf(d, e))
    BY <1>2, InsertGrown DEF Mounted
  <1> QED
    BY <1>3 DEF AppendChild

LEMMA BesideGrown ==
  ASSUME NEW d, NEW a, Grown(d, a), NEW e, Loose(d, e), NEW q \in DOMAIN d.kids,
         NEW sibling, NEW offset \in {0, 1}
  PROVE  Mounted(d, InsertBeside(d, q, RenderOf(d, e), sibling, offset), a, RenderOf(d, e))
  <1>1. CASE Contains(d.kids[q], sibling)
    <2> DEFINE k == IndexOf(d.kids[q], sibling)
               i == k + offset
    <2>1. k \in 1 .. Len(d.kids[q])
      BY <1>1 DEF Contains, IndexOf
    <2>2. Len(d.kids[q]) \in Nat
      BY GrownWood
    <2>3. i \in 1 .. Len(d.kids[q]) + 1
      <3> HIDE DEF k
      <3> QED
        BY <2>1, <2>2
    <2>4. InsertBeside(d, q, RenderOf(d, e), sibling, offset)
            = InsertRender(d, "insert", q, RenderOf(d, e), i)
      BY <1>1 DEF InsertBeside
    <2> HIDE DEF i
    <2>5. Mounted(d, InsertRender(d, "insert", q, RenderOf(d, e), i), a, RenderOf(d, e))
      BY <2>3, InsertGrown DEF Mounted
    <2> QED
      BY <2>4, <2>5
  <1>2. CASE ~Contains(d.kids[q], sibling)
    BY <1>2, NotMounted DEF InsertBeside
  <1> QED
    BY <1>1, <1>2

LEMMA AppendOrInsertGrown ==
  ASSUME NEW d, NEW a, Grown(d, a), NEW e, Loose(d, e), d.parent[e] \in Elements
  PROVE  Mounted(d, AppendOrInsertIntoParent(d, e), a, RenderOf(d, e))
  <1> DEFINE q == RenderOf(d, d.parent[e])
  <1>1. CASE ~Built(d, d.parent[e])
    BY <1>1, NotMounted DEF AppendOrInsertIntoParent
  <1>2. CASE Built(d, d.parent[e])
    <2>1. q \in DOMAIN d.kids
      BY <1>2 DEF Grown, Planted
    <2> HIDE DEF q
    <2>2. \A s : Mounted(d, InsertBeside(d, q, RenderOf(d, e), s, 1), a, RenderOf(d, e))
      BY <2>1, BesideGrown
    <2>3. \A s : Mounted(d, InsertBeside(d, q, RenderOf(d, e), s, 0), a, RenderOf(d, e))
      BY <2>1, BesideGrown
    <2>4. Mounted(d, AppendChild(d, q, RenderOf(d, e)), a, RenderOf(d, e))
      BY <2>1, AppendGrown
    <2> QED
      BY <1>2, <2>2, <2>3, <2>4 DEF AppendOrInsertIntoParent, q
  <1> QED
    BY <1>1, <1>2

(* Unmounted first, and mounted again.                                     *)
LEMMA AfterRemove ==
  ASSUME NEW d, NEW a, Grown(d, a), NEW e \in d.registry, Built(d, e)
  PROVE  LET y == RemoveChild(d, RenderOf(d, e))
         IN  /\ Grown(y, a) /\ RenderOnly(d, y) /\ Loose(y, e) /\ RenderOf(y, e) = RenderOf(d, e)
             /\ DOMAIN y.kids = DOMAIN d.kids
             /\ \A x : Mounted(y, x, a, RenderOf(d, e)) => Mounted(d, x, a, RenderOf(d, e))
  <1> DEFINE r == RenderOf(d, e)
             y == RemoveChild(d, r)
  <1>1. r \in AllRenders
    BY DEF Grown, Planted, RenderOf, AllRenders
  <1>2. /\ Grown(y, a) /\ RenderOnly(d, y) /\ DOMAIN y.kids = DOMAIN d.kids
        /\ \A s : Hangs(Rows(y.kids), s) <=> Hangs(Rows(d.kids), s) /\ s # r
    BY <1>1, RemoveGrown
  <1> HIDE DEF y
  <1>3. Loose(y, e) /\ RenderOf(y, e) = r
    BY <1>2 DEF Loose, RenderOnly, SameTree, SameBuilds, Built, RenderOf
  <1>4. ASSUME NEW x, Mounted(y, x, a, r) PROVE Mounted(d, x, a, r)
    <2>1. RenderOnly(d, x)
      BY <1>2, <1>4, RenderComposes DEF Mounted
    <2> QED
      BY <1>2, <1>4, <2>1 DEF Mounted, Below
  <1> QED
    BY <1>2, <1>3, <1>4 DEF y

LEMMA MountFixedGrown ==
  ASSUME NEW d, NEW a, Grown(d, a), NEW e \in d.registry, Built(d, e), NEW old,
         d.style[e] = "fixed" /\ old = None => Loose(d, e),
         d.style[e] = "static" /\ old = "fixed" => d.parent[e] \in Elements
  PROVE  Mounted(d, MountFixedRenderNode(d, e, old), a, RenderOf(d, e))
  <1> DEFINE r == RenderOf(d, e)
             y == RemoveChild(d, r)
             x == MountFixedRenderNode(d, e, old)
  <1>1. /\ Grown(y, a) /\ RenderOnly(d, y) /\ Loose(y, e) /\ RenderOf(y, e) = r
        /\ DOMAIN y.kids = DOMAIN d.kids
        /\ \A z : Mounted(y, z, a, r) => Mounted(d, z, a, r)
    BY AfterRemove
  <1>2. FixedRoot \in DOMAIN d.kids /\ None # "static"
    BY TreesAssumption DEF Grown, Planted, ConstantsBounded
  <1> HIDE DEF y
  <1>3. ASSUME d.style[e] = "fixed", old = None PROVE Mounted(d, x, a, r)
    <2>1. Mounted(d, AppendChild(d, FixedRoot, r), a, r)
      BY <1>2, <1>3, AppendGrown
    <2> QED
      BY <1>2, <1>3, <2>1 DEF MountFixedRenderNode
  <1>4. ASSUME d.style[e] = "fixed", old = "static" PROVE Mounted(d, x, a, r)
    <2>1. Mounted(y, AppendChild(y, FixedRoot, r), a, r)
      BY <1>1, <1>2, AppendGrown
    <2>2. x = AppendChild(y, FixedRoot, r)
      BY <1>2, <1>4 DEF MountFixedRenderNode, y
    <2> QED
      BY <1>1, <2>1, <2>2
  <1>5. ASSUME d.style[e] = "static", old = "fixed" PROVE Mounted(d, x, a, r)
    <2>1. y.parent[e] \in Elements
      BY <1>1, <1>5 DEF RenderOnly, SameTree
    <2>2. Mounted(y, AppendOrInsertIntoParent(y, e), a, r)
      BY <1>1, <2>1, AppendOrInsertGrown
    <2>3. x = AppendOrInsertIntoParent(y, e)
      BY <1>2, <1>5 DEF MountFixedRenderNode, y
    <2> QED
      BY <1>1, <2>2, <2>3
  <1>6. ASSUME ~(d.style[e] = "fixed" /\ old = None), ~(d.style[e] = "fixed" /\ old = "static"),
               ~(d.style[e] = "static" /\ old = "fixed")
        PROVE  Mounted(d, x, a, r)
    BY <1>6, NotMounted DEF MountFixedRenderNode
  <1> QED
    BY <1>3, <1>4, <1>5, <1>6

-----------------------------------------------------------------------------
(* The render node that Build makes.                                       *)
Renewed(d, x, e) ==
    /\ x.registry = d.registry /\ x.born = d.born /\ x.calls = d.calls /\ x.parent = d.parent
    /\ IF d.init[e] \/ d.ignore[e] THEN x.build = d.build /\ x.kids = d.kids
       ELSE /\ x.build = [d.build EXCEPT ![e] = @ + 1]
            /\ x.kids = [q \in DOMAIN d.kids \cup {<<e, d.build[e] + 1>>} |->
                            IF q = <<e, d.build[e] + 1>> THEN <<>> ELSE d.kids[q]]

LEMMA RenewedGrown ==
  ASSUME NEW d, NEW a, Grown(d, a), NEW e \in d.registry, NEW x, IsDoc(x), Renewed(d, x, e)
  PROVE  /\ Grown(x, a) /\ Rows(x.kids) = Rows(d.kids) /\ DOMAIN d.kids \subseteq DOMAIN x.kids
         /\ d.init[e] => DOMAIN x.kids = DOMAIN d.kids
         /\ ~d.init[e] /\ ~d.ignore[e] => Loose(x, e)
  <1>1. CASE d.init[e] \/ d.ignore[e]
    <2>1. SameRenders(d, x)
      BY <1>1 DEF Renewed, SameRenders
    <2> QED
      BY <1>1, <2>1, SameGrown DEF SameRenders
  <1>2. CASE ~(d.init[e] \/ d.ignore[e])
    <2> DEFINE n == <<e, d.build[e] + 1>>
    <2>1. Planted(d) /\ e \in Elements /\ d.build[e] \in Nat
      BY DEF Grown, Planted
    <2>2. n \in AllRenders /\ n \notin DOMAIN d.kids /\ n # FixedRoot /\ ~Hangs(Rows(d.kids), n)
      <3>1. d.build[e] + 1 \in Nat /\ ~(d.build[e] + 1 <= d.build[e]) /\ d.build[e] + 1 # 0
        BY <2>1
      <3> QED
        BY <2>1, <3>1 DEF Planted, AllRenders, FixedRoot
    <2>3. x.build = [d.build EXCEPT ![e] = @ + 1] /\ x.kids = [q \in DOMAIN d.kids \cup {n} |-> IF q = n THEN <<>> ELSE d.kids[q]]
      BY <1>2 DEF Renewed
    <2> HIDE DEF n
    <2>4. /\ DOMAIN x.kids = DOMAIN d.kids \cup {n} /\ x.kids[n] = <<>>
          /\ \A q \in DOMAIN d.kids : x.kids[q] = d.kids[q]
      BY <2>2, <2>3
    <2>5. Rows(x.kids) = Rows(d.kids)
      <3>1. \A q \in AllRenders : Rows(x.kids)[q] = Rows(d.kids)[q]
        BY <2>2, <2>4 DEF Rows
      <3> QED
        BY <3>1 DEF Rows
    <2>6. /\ x.registry = d.registry /\ x.born = d.born /\ x.calls = d.calls
          /\ x.build \in [Elements -> Nat] /\ x.build[e] = d.build[e] + 1
          /\ \A y \in Elements : y # e => x.build[y] = d.build[y]
      BY <2>1, <2>3 DEF Renewed, Planted
    <2>7. RenderOf(x, e) = n /\ Built(x, e)
      BY <2>1, <2>6 DEF RenderOf, Built, n
    <2>8. Planted(x)
      <3>1. \A y \in Elements, k \in Nat :
              Hangs(Rows(d.kids), <<y, k>>) \/ (<<y, k>> \in DOMAIN x.kids /\ <<y, k>> # FixedRoot)
                => y \in d.born /\ k >= 1 /\ (y \in d.registry => k <= x.build[y])
        <4> TAKE y \in Elements, k \in Nat
        <4>1. CASE Hangs(Rows(d.kids), <<y, k>>) \/ (<<y, k>> \in DOMAIN d.kids /\ <<y, k>> # FixedRoot)
          <5>1. y \in d.born /\ k >= 1 /\ (y \in d.registry => k <= d.build[y])
            BY <2>1, <4>1 DEF Planted
          <5>2. y \in d.registry => k <= x.build[y]
            BY <2>1, <2>6, <5>1
          <5> QED
            BY <5>1, <5>2
        <4>2. CASE <<y, k>> = n
          <5>1. y = e /\ k = d.build[e] + 1
            BY <4>2 DEF n
          <5> QED
            BY <2>1, <2>6, <5>1 DEF Planted
        <4> QED
          BY <2>4, <4>1, <4>2
      <3>2. \A y \in Elements : Built(x, y) => y \in x.registry /\ RenderOf(x, y) \in DOMAIN x.kids
        <4> TAKE y \in Elements
        <4>1. CASE y = e
          BY <2>4, <2>6, <2>7, <4>1
        <4>2. CASE y # e
          BY <2>1, <2>4, <2>6, <4>2 DEF Planted, Built, RenderOf
        <4> QED
          BY <4>1, <4>2
      <3> QED
        BY <2>1, <2>2, <2>4, <2>5, <2>6, <3>1, <3>2 DEF Planted
    <2>9. Grown(x, a)
      BY <2>5, <2>6, <2>8 DEF Grown
    <2>10. Loose(x, e)
      BY <2>2, <2>5, <2>6, <2>7 DEF Loose
    <2> QED
      BY <1>2, <2>4, <2>5, <2>9, <2>10
  <1> QED
    BY <1>1, <1>2

(* A new element's place, then the fixed root or back.                     *)
LEMMA PostBuildGrown ==
  ASSUME NEW d, NEW a, Grown(d, a), NEW e \in d.registry, Built(d, e), NEW old,
         ~d.init[e] => Loose(d, e),
         d.style[e] = "fixed" /\ old = None => Loose(d, e),
         d.style[e] = "static" /\ old = "fixed" => d.parent[e] \in Elements,
         d.parent[e] # None => d.parent[e] \in Elements
  PROVE  Grown(PostBuild(d, e, old), a) /\ Below(d, PostBuild(d, e, old), RenderOf(d, e))
  <1> DEFINE r == RenderOf(d, e)
             m == IF ~d.init[e] /\ d.style[e] = "static" /\ d.parent[e] # None /\ d.init[d.parent[e]]
                  THEN AppendOrInsertIntoParent(d, e) ELSE d
             i == [m EXCEPT !.init[e] = TRUE]
             x == MountFixedRenderNode(i, e, old)
  <1>1. Mounted(d, m, a, r) /\ (d.style[e] = "fixed" => m = d)
    <2>1. Mounted(d, d, a, r)
      BY NotMounted
    <2>2. ASSUME ~d.init[e], d.parent[e] # None
          PROVE Mounted(d, AppendOrInsertIntoParent(d, e), a, r)
      BY <2>2, AppendOrInsertGrown
    <2> QED
      BY <2>1, <2>2
  <1> HIDE DEF m
  <1>2. IsDoc(m) /\ SameTree(d, m) /\ SameBuilds(d, m) /\ Grown(m, a)
    BY <1>1 DEF Mounted, RenderOnly
  <1>3. IsDoc(i) /\ SameRenders(m, i) /\ i.style = m.style /\ i.parent = m.parent
    <2>1. IsDoc(i)
      BY <1>2, BuildFields DEF BuildOnly
    <2>2. SameRenders(m, i)
      BY <1>2 DEF IsDoc, SameRenders
    <2>3. i.style = m.style /\ i.parent = m.parent
      BY <1>2 DEF IsDoc
    <2> QED
      BY <2>1, <2>2, <2>3
  <1> HIDE DEF i
  <1>4. Grown(i, a)
    BY <1>2, <1>3, SameGrown
  <1>5. /\ i.style = d.style /\ i.parent = d.parent /\ i.build = d.build /\ i.registry = d.registry
        /\ i.kids = m.kids
    BY <1>2, <1>3 DEF SameTree, SameBuilds, SameRenders
  <1>6. RenderOf(i, e) = r /\ Built(i, e) /\ e \in i.registry
    BY <1>5 DEF RenderOf, Built
  <1>7. i.style[e] = "fixed" /\ old = None => Loose(i, e)
    BY <1>1, <1>5, <1>6 DEF Loose
  <1>8. Mounted(i, x, a, r)
    BY <1>4, <1>5, <1>6, <1>7, MountFixedGrown
  <1>9. PostBuild(d, e, old) = x
    BY DEF PostBuild, MountsAtBuild, m, i, x
  <1> HIDE DEF x
  <1>10. Below(d, x, r)
    BY <1>1, <1>5, <1>8 DEF Mounted, Below
  <1> QED
    BY <1>8, <1>9, <1>10 DEF Mounted

-----------------------------------------------------------------------------
(* What holds between the parts of a handler: an element that is not       *)
(* built has its render node, if it is to be used again, hanging nowhere;  *)
(* one that is built has a parent with a render node.                      *)
Typed(d) ==
    /\ d.init \in [Elements -> BOOLEAN] /\ d.ignore \in [Elements -> BOOLEAN]
    /\ d.build \in [Elements -> Nat]
    /\ d.style \in [Elements -> Positions] /\ d.want \in [Elements -> Positions]
    /\ \A x \in Elements : d.init[x] \/ d.ignore[x] => Built(d, x)
Unhung(d) == \A x \in d.registry : ~d.init[x] => ~Hangs(Rows(d.kids), RenderOf(d, x))
Standing(d) ==
    /\ \A x \in Nodes : d.init[x] => d.parent[x] \in Elements /\ Built(d, d.parent[x])
    /\ \A x \in Elements : d.init[x] => d.init[Page]
    /\ d.dirty => d.init[Page]
    /\ d.style[Page] = "static" /\ d.want[Page] = "static"
Firm(d, a) == Typed(d) /\ Grown(d, a) /\ Unhung(d) /\ Standing(d)

(* An element that may be built.                                           *)
Buildable(d, e) ==
    /\ e \in d.registry /\ (e = Page \/ d.init[Page])
    /\ e \in Nodes => d.parent[e] \in Elements /\ Built(d, d.parent[e])

(* BuildProcess up to PostBuild.                                           *)
LEMMA RenewedFields ==
  ASSUME NEW d, IsDoc(d), NEW e, NEW f
  PROVE  LET c == [Build(PreBuild(d, e), e) EXCEPT !.ignore[e] = FALSE, !.flaws = @ \cup f]
         IN  /\ IsDoc(c) /\ Renewed(d, c, e) /\ c.init = d.init
             /\ c.style = IF d.init[e] THEN d.style ELSE [d.style EXCEPT ![e] = d.want[e]]
  <1> DEFINE m == PreBuild(d, e)
             b == Build(m, e)
             c == [b EXCEPT !.ignore[e] = FALSE, !.flaws = @ \cup f]
  <1>1. /\ IsDoc(m) /\ SameTree(d, m) /\ m.init = d.init /\ m.ignore = d.ignore /\ m.build = d.build
        /\ m.kids = d.kids /\ m.calls = d.calls
        /\ m.style = IF d.init[e] THEN d.style ELSE [d.style EXCEPT ![e] = d.want[e]]
    BY DEF PreBuild, IsDoc, SameTree
  <1> HIDE DEF m
  <1>2. IsDoc(b) /\ Renewed(m, b, e) /\ b.init = m.init /\ b.style = m.style
    <2>1. CASE m.init[e] \/ m.ignore[e]
      <3>1. b = m
        BY <2>1 DEF Build
      <3> QED
        BY <1>1, <2>1, <3>1 DEF Renewed
    <2>2. CASE ~(m.init[e] \/ m.ignore[e])
      <3> DEFINE r == <<e, m.build[e] + 1>>
                 k == [q \in DOMAIN m.kids \cup {r} |-> IF q = r THEN <<>> ELSE m.kids[q]]
                 n == [m EXCEPT !.build[e] = @ + 1, !.kids = k]
      <3>1. b = n
        BY <2>2 DEF Build, NewRenderNode
      <3> HIDE DEF k, b
      <3>2. n = [m EXCEPT !.build = [m.build EXCEPT ![e] = @ + 1], !.kids = k]
        BY <1>1 DEF IsDoc
      <3>3. IsDoc(n)
        <4>1. m = [z \in Fields |-> m[z]]
          BY <1>1, DocIsRecord
        <4>2. n = [z \in Fields |-> n[z]]
          BY <4>1
        <4> HIDE DEF n
        <4> QED
          BY <4>2, DocIsRecord
      <3>4. n.build = [m.build EXCEPT ![e] = @ + 1] /\ n.kids = k
        BY <1>1, <3>2 DEF IsDoc
      <3>5. /\ n.registry = m.registry /\ n.born = m.born /\ n.calls = m.calls
            /\ n.parent = m.parent /\ n.init = m.init /\ n.style = m.style
        BY <1>1, <3>2 DEF IsDoc
      <3> HIDE DEF n
      <3> QED
        BY <2>2, <3>1, <3>3, <3>4, <3>5 DEF Renewed, k
    <2> QED
      BY <2>1, <2>2
  <1>3. Renewed(d, b, e)
    BY <1>1, <1>2 DEF Renewed, SameTree
  <1> HIDE DEF b
  <1>4. IsDoc(c) /\ c.init = b.init /\ c.style = b.style
    <2>1. b = [n \in Fields |-> b[n]]
      BY <1>2, DocIsRecord
    <2>2. c = [n \in Fields |-> c[n]]
      BY <2>1
    <2>3. c.init = b.init /\ c.style = b.style
      BY <1>2 DEF IsDoc
    <2> HIDE DEF c
    <2> QED
      BY <2>2, <2>3, DocIsRecord
  <1>5. SameRenders(b, c) /\ c.parent = b.parent
    BY <1>2 DEF IsDoc, SameRenders
  <1> HIDE DEF c
  <1>6. Renewed(d, c, e)
    BY <1>3, <1>5 DEF Renewed, SameRenders
  <1> QED
    BY <1>1, <1>2, <1>4, <1>6 DEF c, b, m

LEMMA ProcessFirm ==
  ASSUME NEW d, Tree(d), NEW a, Firm(d, a), NEW e, Buildable(d, e),
         NEW before \in Positions, e = Page => before = "static"
  PROVE  LET x == BuildProcess(d, e, before)
         IN  /\ Firm(x, a) /\ DOMAIN d.kids \subseteq DOMAIN x.kids
             /\ d.init[e] => DOMAIN x.kids = DOMAIN d.kids
  <1> DEFINE renewed == ~d.init[e] /\ ~d.ignore[e]
             old == IF renewed \/ ~Built(d, e) THEN None ELSE before
             x == BuildProcess(d, e, before)
  <1>1. /\ e \in d.registry /\ e \in Elements /\ IsDoc(d) /\ None \notin Positions
        /\ (e = Page \/ e \in Nodes) /\ Page \notin Nodes /\ "static" # "fixed"
    BY TreesAssumption DEF Firm, Grown, Planted, Buildable, ConstantsBounded, Positions, Elements
  <1>2. PICK f : x = PostBuild([Build(PreBuild(d, e), e) EXCEPT !.ignore[e] = FALSE,
                                                               !.flaws = @ \cup f], e, old)
    BY Zenon DEF BuildProcess
  <1> DEFINE c == [Build(PreBuild(d, e), e) EXCEPT !.ignore[e] = FALSE, !.flaws = @ \cup f]
  <1>3. /\ IsDoc(c) /\ Renewed(d, c, e) /\ c.init = d.init
        /\ c.style = IF d.init[e] THEN d.style ELSE [d.style EXCEPT ![e] = d.want[e]]
    BY <1>1, RenewedFields
  <1> HIDE DEF c
  <1>4. BuildOnly(d, x) /\ Processed(d, x, e)
    BY <1>1, ProcessFields
  <1>5. x = PostBuild(c, e, old)
    BY <1>2 DEF c
  <1> HIDE DEF x
  <1>6. /\ Grown(c, a) /\ Rows(c.kids) = Rows(d.kids) /\ DOMAIN d.kids \subseteq DOMAIN c.kids
        /\ d.init[e] => DOMAIN c.kids = DOMAIN d.kids
        /\ ~d.init[e] /\ ~d.ignore[e] => Loose(c, e)
    BY <1>1, <1>3, RenewedGrown DEF Firm
  <1>7. c.registry = d.registry /\ c.parent = d.parent
    BY <1>3 DEF Renewed
  <1>8. /\ c.build \in [Elements -> Nat]
        /\ c.build = IF d.init[e] \/ d.ignore[e] THEN d.build ELSE [d.build EXCEPT ![e] = @ + 1]
        /\ \A y \in Elements : c.build[y] >= d.build[y] /\ (y # e => c.build[y] = d.build[y])
    <2>1. d.build \in [Elements -> Nat] /\ c.build \in [Elements -> Nat]
      BY <1>6 DEF Firm, Typed, Grown, Planted
    <2>2. c.build = IF d.init[e] \/ d.ignore[e] THEN d.build ELSE [d.build EXCEPT ![e] = @ + 1]
      BY <1>3 DEF Renewed
    <2> QED
      BY <1>1, <2>1, <2>2
  <1>9. ~c.init[e] => Loose(c, e)
    <2> SUFFICES ASSUME ~d.init[e], d.ignore[e] PROVE Loose(c, e)
      BY <1>3, <1>6
    <2>1. c.build = d.build
      BY <1>8
    <2>2. Built(d, e) /\ ~Hangs(Rows(d.kids), RenderOf(d, e))
      BY <1>1 DEF Firm, Typed, Unhung
    <2> QED
      BY <1>1, <1>6, <1>7, <2>1, <2>2 DEF Loose, Built, RenderOf
  <1>10. Built(c, e)
    <2>1. CASE ~d.init[e]
      BY <1>3, <1>9, <2>1 DEF Loose
    <2>2. CASE d.init[e]
      BY <1>1, <1>8, <2>2 DEF Firm, Typed, Built
    <2> QED
      BY <2>1, <2>2
  <1>11. c.style[e] = "fixed" /\ old = None => Loose(c, e)
    <2>1. old = None => ~d.init[e]
      BY <1>1 DEF Firm, Typed
    <2> QED
      BY <1>3, <1>9, <2>1
  <1>12. c.style[e] = "static" /\ old = "fixed" => c.parent[e] \in Elements
    <2>1. old = "fixed" => before = "fixed" \/ None = "fixed"
      OBVIOUS
    <2>2. e = Page => old # "fixed"
      BY <1>1, <2>1 DEF Positions
    <2> QED
      BY <1>1, <1>7, <2>2 DEF Buildable
  <1>13. c.parent[e] # None => c.parent[e] \in Elements
    BY <1>1, <1>7 DEF Tree
  <1>14. Grown(x, a) /\ Below(c, x, RenderOf(c, e))
    BY <1>1, <1>5, <1>6, <1>7, <1>9, <1>10, <1>11, <1>12, <1>13, PostBuildGrown
  <1>15. /\ x.registry = d.registry /\ x.parent = d.parent /\ x.want = d.want /\ x.dirty = d.dirty
         /\ x.build = c.build
    BY <1>4, <1>8 DEF BuildOnly, SameTree, SameStyles, Processed
  <1>16. Typed(x)
    <2>1. /\ d.init \in [Elements -> BOOLEAN] /\ d.ignore \in [Elements -> BOOLEAN]
          /\ d.style \in [Elements -> Positions] /\ d.want \in [Elements -> Positions]
          /\ \A y \in Elements : d.init[y] \/ d.ignore[y] => Built(d, y)
      BY DEF Firm, Typed
    <2>2. x.init \in [Elements -> BOOLEAN] /\ x.ignore \in [Elements -> BOOLEAN]
      BY <1>1, <1>4, <2>1 DEF Processed
    <2>3. x.style \in [Elements -> Positions]
      BY <1>1, <1>4, <2>1 DEF Processed
    <2>4. \A y \in Elements : x.init[y] \/ x.ignore[y] => Built(x, y)
      <3> SUFFICES ASSUME NEW y \in Elements, x.init[y] \/ x.ignore[y] PROVE Built(x, y)
        OBVIOUS
      <3>1. CASE y = e
        BY <1>10, <1>15, <3>1 DEF Built
      <3>2. CASE y # e
        <4>1. d.init[y] \/ d.ignore[y]
          BY <1>4, <2>1, <3>2 DEF Processed
        <4> QED
          BY <1>8, <1>15, <2>1, <3>2, <4>1 DEF Built
      <3> QED
        BY <3>1, <3>2
    <2> QED
      BY <1>8, <1>15, <2>1, <2>2, <2>3, <2>4 DEF Typed
  <1>17. Unhung(x)
    <2> SUFFICES ASSUME NEW y \in d.registry, ~x.init[y] PROVE ~Hangs(Rows(x.kids), RenderOf(x, y))
      BY <1>15 DEF Unhung
    <2>1. y \in Elements /\ y # e /\ ~d.init[y]
      BY <1>1, <1>4 DEF Processed, Firm, Grown, Planted, Typed
    <2>2. ~Hangs(Rows(d.kids), RenderOf(d, y))
      BY <2>1 DEF Firm, Unhung
    <2>3. RenderOf(x, y) = RenderOf(d, y) /\ RenderOf(x, y) # RenderOf(c, e)
      BY <1>8, <1>15, <2>1 DEF RenderOf
    <2> QED
      BY <1>6, <1>14, <2>2, <2>3 DEF Below
  <1>18. Standing(x)
    <2>1. \A y \in Elements : x.init[y] <=> (d.init[y] \/ y = e)
      BY <1>1, <1>4 DEF Processed, Firm, Typed
    <2>2. \A y \in Elements : Built(d, y) => Built(x, y)
      BY <1>8, <1>15 DEF Built, Firm, Typed
    <2>3. x.style[Page] = "static" /\ x.want[Page] = "static"
      BY <1>1, <1>4, <1>15 DEF Firm, Typed, Standing, Processed
    <2>4. \A y \in Nodes : x.init[y] => x.parent[y] \in Elements /\ Built(x, x.parent[y])
      BY <1>15, <2>1, <2>2 DEF Firm, Standing, Buildable, Elements
    <2>5. \A y \in Elements : x.init[y] => x.init[Page]
      BY <1>1, <2>1 DEF Firm, Standing, Buildable, Elements
    <2>6. x.dirty => x.init[Page]
      BY <1>15, <2>1 DEF Firm, Standing, Elements
    <2> QED
      BY <2>3, <2>4, <2>5, <2>6 DEF Standing
  <1>19. DOMAIN d.kids \subseteq DOMAIN x.kids /\ (d.init[e] => DOMAIN x.kids = DOMAIN d.kids)
    BY <1>6, <1>14 DEF Below
  <1> QED
    BY <1>14, <1>16, <1>17, <1>18, <1>19 DEF Firm, x

-----------------------------------------------------------------------------
(* The walk of BuildElement meets every element below e, and none twice.   *)
LEMMA ConcatDistinct ==
  ASSUME NEW C, NEW s \in Seq(C), NEW t \in Seq(C), Distinct(s), Distinct(t),
         ToSet(s) \cap ToSet(t) = {}
  PROVE  s \o t \in Seq(C) /\ Distinct(s \o t) /\ ToSet(s \o t) = ToSet(s) \cup ToSet(t)
  <1>1. /\ s \o t \in Seq(C) /\ Len(s \o t) = Len(s) + Len(t) /\ Len(s) \in Nat /\ Len(t) \in Nat
        /\ \A i \in 1 .. Len(s) + Len(t) : (s \o t)[i] = IF i <= Len(s) THEN s[i] ELSE t[i - Len(s)]
    OBVIOUS
  <1> DEFINE u == s \o t
  <1> HIDE DEF u
  <1>2. \A i \in 1 .. Len(s), j \in 1 .. Len(t) : s[i] # t[j]
    BY DEF ToSet
  <1>3. Distinct(u)
    <2> SUFFICES ASSUME NEW i \in 1 .. Len(u), NEW j \in 1 .. Len(u), u[i] = u[j] PROVE i = j
      BY DEF Distinct
    <2>1. /\ i \in 1 .. Len(s) + Len(t) /\ j \in 1 .. Len(s) + Len(t)
          /\ u[i] = IF i <= Len(s) THEN s[i] ELSE t[i - Len(s)]
          /\ u[j] = IF j <= Len(s) THEN s[j] ELSE t[j - Len(s)]
      BY <1>1 DEF u
    <2>2. CASE i <= Len(s) /\ j <= Len(s)
      <3>1. i \in 1 .. Len(s) /\ j \in 1 .. Len(s)
        BY <1>1, <2>1, <2>2
      <3>2. s[i] = s[j]
        BY <2>1, <2>2
      <3> QED
        BY <3>1, <3>2 DEF Distinct
    <2>3. CASE ~(i <= Len(s)) /\ ~(j <= Len(s))
      <3> DEFINE m == i - Len(s)
                 n == j - Len(s)
      <3>1. m \in 1 .. Len(t) /\ n \in 1 .. Len(t)
        BY <1>1, <2>1, <2>3
      <3>2. t[m] = t[n]
        BY <2>1, <2>3
      <3> HIDE DEF m, n
      <3>3. m = n
        BY <3>1, <3>2 DEF Distinct
      <3> QED
        BY <1>1, <2>1, <3>3 DEF m, n
    <2>4. CASE i <= Len(s) /\ ~(j <= Len(s))
      <3>1. i \in 1 .. Len(s) /\ j - Len(s) \in 1 .. Len(t)
        BY <1>1, <2>1, <2>4
      <3> QED
        BY <1>2, <2>1, <2>4, <3>1
    <2>5. CASE ~(i <= Len(s)) /\ j <= Len(s)
      <3>1. j \in 1 .. Len(s) /\ i - Len(s) \in 1 .. Len(t)
        BY <1>1, <2>1, <2>5
      <3> QED
        BY <1>2, <2>1, <2>5, <3>1
    <2> QED
      BY <2>2, <2>3, <2>4, <2>5
  <1>4. ToSet(u) = ToSet(s) \cup ToSet(t)
    <2>1. ASSUME NEW i \in 1 .. Len(s) PROVE s[i] \in ToSet(u)
      <3>1. i \in 1 .. Len(s) + Len(t) /\ u[i] = s[i]
        BY <1>1 DEF u
      <3> QED
        BY <1>1, <3>1 DEF ToSet, u
    <2>2. ASSUME NEW i \in 1 .. Len(t) PROVE t[i] \in ToSet(u)
      <3>1. /\ i + Len(s) \in 1 .. Len(s) + Len(t) /\ ~(i + Len(s) <= Len(s))
            /\ (i + Len(s)) - Len(s) = i
        BY <1>1
      <3>2. u[i + Len(s)] = t[i]
        BY <1>1, <3>1 DEF u
      <3> QED
        BY <1>1, <3>1, <3>2 DEF ToSet, u
    <2>3. ASSUME NEW i \in 1 .. Len(u) PROVE u[i] \in ToSet(s) \cup ToSet(t)
      <3>1. i \in 1 .. Len(s) + Len(t) /\ u[i] = IF i <= Len(s) THEN s[i] ELSE t[i - Len(s)]
        BY <1>1 DEF u
      <3>2. i <= Len(s) => i \in 1 .. Len(s)
        BY <1>1, <3>1
      <3>3. ~(i <= Len(s)) => i - Len(s) \in 1 .. Len(t)
        BY <1>1, <3>1
      <3> QED
        BY <3>1, <3>2, <3>3 DEF ToSet
    <2>4. ToSet(s) \subseteq ToSet(u) /\ ToSet(t) \subseteq ToSet(u)
      BY <2>1, <2>2 DEF ToSet
    <2>5. ToSet(u) \subseteq ToSet(s) \cup ToSet(t)
      <3>1. u \in Seq(C)
        BY <1>1 DEF u
      <3>2. DOMAIN u = 1 .. Len(u)
        BY <3>1
      <3>3. \A x \in ToSet(u) : \E i \in 1 .. Len(u) : x = u[i]
        BY <3>2 DEF ToSet
      <3> QED
        BY <2>3, <3>3
    <2> QED
      BY <2>4, <2>5
  <1> QED
    BY <1>1, <1>3, <1>4 DEF u

LEMMA TailDistinct ==
  ASSUME NEW C, NEW s \in Seq(C), Distinct(s), s # <<>>
  PROVE  Distinct(Tail(s)) /\ Head(s) \notin ToSet(Tail(s))
  <1>1. /\ Tail(s) \in Seq(C) /\ Len(Tail(s)) = Len(s) - 1 /\ Len(s) \in Nat /\ Len(s) >= 1
        /\ \A i \in 1 .. Len(s) - 1 : Tail(s)[i] = s[i + 1]
        /\ Head(s) = s[1]
    OBVIOUS
  <1>2. \A i \in 1 .. Len(s) - 1 : i + 1 \in 1 .. Len(s) /\ i + 1 # 1
    BY <1>1
  <1>3. 1 \in 1 .. Len(s)
    BY <1>1
  <1>4. \A i \in 1 .. Len(s) - 1 : Tail(s)[i] # Head(s)
    BY <1>1, <1>2, <1>3 DEF Distinct
  <1>5. Distinct(Tail(s))
    <2> SUFFICES ASSUME NEW i \in 1 .. Len(Tail(s)), NEW j \in 1 .. Len(Tail(s)), Tail(s)[i] = Tail(s)[j]
                 PROVE  i = j
      BY DEF Distinct
    <2>1. i \in 1 .. Len(s) - 1 /\ j \in 1 .. Len(s) - 1
      BY <1>1
    <2>2. i + 1 = j + 1
      BY <1>1, <1>2, <2>1 DEF Distinct
    <2> QED
      BY <2>1, <2>2
  <1>6. DOMAIN Tail(s) = 1 .. Len(s) - 1
    BY <1>1
  <1> QED
    BY <1>4, <1>5, <1>6 DEF ToSet

(* An element, all that is below it, and not its parent.                   *)
Island(d, e, S) ==
    /\ S \subseteq Elements /\ e \in S /\ d.parent[e] \notin S
    /\ \A n \in Elements : d.parent[n] \in S => n \in S
(* Where the walk is: the elements met, and the stack.                     *)
Met(d, e, S, V, todo) ==
    /\ V \subseteq S /\ ToSet(todo) \subseteq S /\ V \cap ToSet(todo) = {}
    /\ e \in V \cup ToSet(todo)
    /\ todo \in Seq(Elements) /\ Distinct(todo)
    /\ \A n \in V \cup ToSet(todo) : n # e => d.parent[n] \in V
    /\ \A n \in Elements : d.parent[n] \in V => n \in V \cup ToSet(todo)
LEMMA MetMore ==
  ASSUME NEW d, Tree(d), NEW e \in Elements, NEW S, Island(d, e, S),
         NEW V, NEW todo, Met(d, e, S, V, todo), todo # <<>>
  PROVE  Met(d, e, S, V \cup {Head(todo)}, d.children[Head(todo)] \o Tail(todo))
  <1> DEFINE h == Head(todo)
             t == Tail(todo)
             es == d.children[h]
  <1>1. /\ ToSet(todo) = {h} \cup ToSet(t) /\ t \in Seq(Elements) /\ h \in Elements
        /\ Distinct(t) /\ h \notin ToSet(t)
    BY HeadAndTail, TailWithin, TailDistinct DEF Met
  <1> HIDE DEF h, t
  <1>2. h \notin V /\ h \in S
    BY <1>1 DEF Met
  <1>3. /\ es \in Seq(Elements) /\ Distinct(es)
        /\ \A c \in ToSet(es) : c \in Elements /\ d.parent[c] = h
    <2>1. es \in Seq(Nodes) /\ \A k \in 1 .. Len(es) : es[k] \in Elements /\ d.parent[es[k]] = h
      BY <1>1, RowMembers
    <2>2. Distinct(es)
      BY <1>1, RowMembers DEF Distinct
    <2> HIDE DEF es
    <2> QED
      BY <2>1, <2>2 DEF ToSet, Elements
  <1>4. \A n \in Elements : d.parent[n] = h => n \in ToSet(es)
    <2> SUFFICES ASSUME NEW n \in Elements, d.parent[n] = h PROVE n \in ToSet(es)
      OBVIOUS
    <2>1. d.parent[n] # None
      BY <1>1, TreesAssumption DEF ConstantsBounded, Elements
    <2>2. IndexOf(es, n) \in 1 .. Len(es) /\ es[IndexOf(es, n)] = n
      BY <2>1, PlaceOfChild
    <2>3. es \in Seq(Elements)
      BY <1>3
    <2> HIDE DEF es
    <2> QED
      BY <2>2, <2>3 DEF ToSet
  <1>5. ToSet(es) \subseteq S
    BY <1>2, <1>3 DEF Island
  <1>6. \A c \in ToSet(es) : c \notin V \cup ToSet(todo)
    <2> SUFFICES ASSUME NEW c \in ToSet(es), c \in V \cup ToSet(todo) PROVE FALSE
      OBVIOUS
    <2>1. d.parent[c] = h
      BY <1>3
    <2>2. CASE c = e
      BY <1>2, <2>1, <2>2 DEF Island
    <2>3. CASE c # e
      BY <1>2, <2>1, <2>3 DEF Met
    <2> QED
      BY <2>2, <2>3
  <1>7. h \notin ToSet(es)
    BY <1>1, <1>6
  <1> HIDE DEF es
  <1>8. /\ es \o t \in Seq(Elements) /\ Distinct(es \o t)
        /\ ToSet(es \o t) = ToSet(es) \cup ToSet(t)
    BY <1>1, <1>3, <1>6, ConcatDistinct
  <1> DEFINE u == es \o t
             W == V \cup {h}
  <1>9. W \cup ToSet(u) = V \cup ToSet(todo) \cup ToSet(es)
    BY <1>1, <1>8
  <1>10. W \subseteq S /\ ToSet(u) \subseteq S /\ W \cap ToSet(u) = {}
    BY <1>1, <1>2, <1>5, <1>6, <1>7, <1>8 DEF Met
  <1> HIDE DEF u
  <1>11. \A n \in W \cup ToSet(u) : n # e => d.parent[n] \in W
    BY <1>3, <1>9 DEF Met
  <1>12. \A n \in Elements : d.parent[n] \in W => n \in W \cup ToSet(u)
    BY <1>4, <1>9 DEF Met
  <1>13. e \in W \cup ToSet(u)
    BY <1>9 DEF Met
  <1>14. u \in Seq(Elements) /\ Distinct(u)
    BY <1>8 DEF u
  <1>15. Met(d, e, S, W, u)
    BY <1>10, <1>11, <1>12, <1>13, <1>14 DEF Met
  <1> QED
    BY <1>15 DEF u, es, h, t

-----------------------------------------------------------------------------
(* Every child of a built element is built, but for one under way.         *)
DownwardBut(d, e) ==
    \A x \in Nodes : x # e /\ d.parent[x] # None /\ d.init[d.parent[x]] => d.init[x]
FirmWalk(d, a, e, S, V, s) ==
    /\ BuildOnly(d, s.doc) /\ Firm(s.doc, a) /\ Buildable(s.doc, e)
    /\ Met(d, e, S, V, s.todo)
    /\ \A n \in Elements : s.doc.init[n] <=> d.init[n] \/ n \in V
FirmWalking(d, a, e, S, k, s) ==
    \E V : FirmWalk(d, a, e, S, V, s) /\ (s.todo = <<>> \/ Cardinality(V) = k)
LEMMA FirmWalkStep ==
  ASSUME NEW d, Tree(d), NEW a, NEW e \in Elements, NEW S, Island(d, e, S),
         NEW k \in Nat, NEW s, FirmWalking(d, a, e, S, k, s)
  PROVE  FirmWalking(d, a, e, S, k + 1, BuildNext(s))
  <1>1. PICK V : FirmWalk(d, a, e, S, V, s) /\ (s.todo = <<>> \/ Cardinality(V) = k)
    BY DEF FirmWalking
  <1>2. CASE s.todo = <<>>
    BY <1>1, <1>2 DEF FirmWalking, BuildNext
  <1>3. CASE s.todo # <<>>
    <2> DEFINE h == Head(s.todo)
               before == s.doc.style[h]
               x == BuildProcess(s.doc, h, before)
               W == V \cup {h}
               todo == d.children[h] \o Tail(s.todo)
               n == BuildNext(s)
    <2>1. /\ BuildOnly(d, s.doc) /\ Firm(s.doc, a) /\ Buildable(s.doc, e) /\ Met(d, e, S, V, s.todo)
          /\ \A y \in Elements : s.doc.init[y] <=> d.init[y] \/ y \in V
      BY <1>1 DEF FirmWalk
    <2>2. SameTree(d, s.doc) /\ Tree(s.doc) /\ IsDoc(s.doc)
      BY <2>1, BuildComposes, InPlaceKeeps DEF BuildOnly
    <2>3. n = [doc |-> x, todo |-> todo]
      BY <1>3, <2>2 DEF BuildNext, SameTree
    <2>4. h \in Elements /\ h \in ToSet(s.todo) /\ h \notin V /\ V \subseteq Elements
      BY <1>3, <2>1, HeadAndTail, TailWithin DEF Met, Island
    <2>5. Met(d, e, S, W, todo)
      BY <1>3, <2>1, MetMore
    <2> HIDE DEF todo, n, h
    <2>6. Buildable(s.doc, h)
      <3>1. CASE h = e
        BY <2>1, <3>1
      <3>2. CASE h # e
        <4> DEFINE p == s.doc.parent[h]
        <4>1. p \in V /\ p \in Elements
          BY <2>1, <2>2, <2>4, <3>2 DEF Met, SameTree
        <4>2. p # None
          BY <4>1, TreesAssumption DEF ConstantsBounded, Elements
        <4>3. s.doc.init[p]
          BY <2>1, <4>1
        <4>4. Built(s.doc, p) /\ s.doc.init[Page]
          BY <2>1, <4>1, <4>3 DEF Firm, Typed, Standing
        <4>5. h \in s.doc.registry
          BY <2>2, <2>4, <4>2 DEF Tree
        <4> QED
          BY <4>1, <4>4, <4>5 DEF Buildable
      <3> QED
        BY <3>1, <3>2
    <2>7. before \in Positions /\ (h = Page => before = "static")
      BY <2>1, <2>4 DEF Firm, Typed, Standing
    <2> HIDE DEF before
    <2>8. Firm(x, a)
      BY <2>1, <2>2, <2>6, <2>7, ProcessFirm
    <2>9. BuildOnly(s.doc, x) /\ Processed(s.doc, x, h)
      BY <2>2, ProcessFields
    <2> HIDE DEF x
    <2>10. BuildOnly(d, x)
      BY <2>1, <2>9, BuildComposes
    <2>11. /\ \A y \in Elements : x.init[y] <=> s.doc.init[y] \/ y = h
           /\ \A y \in Elements : Built(s.doc, y) => Built(x, y)
      <3>1. s.doc.init \in [Elements -> BOOLEAN] /\ s.doc.build \in [Elements -> Nat]
        BY <2>1 DEF Firm, Typed
      <3>2. x.init = [s.doc.init EXCEPT ![h] = TRUE]
        BY <2>9 DEF Processed
      <3>3. x.build = s.doc.build \/ x.build = [s.doc.build EXCEPT ![h] = @ + 1]
        BY <2>9 DEF Processed
      <3>4. \A y \in Elements : x.build[y] >= s.doc.build[y] /\ x.build[y] \in Nat
        BY <2>4, <3>1, <3>3
      <3> QED
        BY <2>4, <3>1, <3>2, <3>4 DEF Built
    <2>12. Buildable(x, e)
      <3>1. x.registry = s.doc.registry /\ x.parent = s.doc.parent
        BY <2>9 DEF BuildOnly, SameTree
      <3> QED
        BY <2>1, <2>11, <3>1 DEF Buildable, Elements
    <2>13. FirmWalk(d, a, e, S, W, n)
      <3>1. n.doc = x /\ n.todo = todo
        BY <2>3
      <3>2. \A y \in Elements : x.init[y] <=> d.init[y] \/ y \in W
        BY <2>1, <2>11
      <3> QED
        BY <2>5, <2>8, <2>10, <2>12, <3>1, <3>2 DEF FirmWalk
    <2>14. Cardinality(W) = k + 1
      <3>1. IsFiniteSet(V)
        BY <2>4, ElementsFinite, FS_Subset
      <3> QED
        BY <1>1, <1>3, <2>4, <3>1, FS_AddElement
    <2> QED
      BY <2>13, <2>14 DEF FirmWalking, n
  <1> QED
    BY <1>2, <1>3

(* BuildElement builds the element and everything below it.                *)
LEMMA BuiltFirm ==
  ASSUME NEW d, Tree(d), NEW a, Firm(d, a), NEW e \in Elements, Buildable(d, e),
         NEW S, Island(d, e, S), DownwardBut(d, e)
  PROVE  LET x == BuildElement(d, e)
         IN  Firm(x, a) /\ BuildOnly(d, x) /\ DownwardBut(x, None)
  <1> DEFINE N == Cardinality(Elements)
  <1>1. PICK g : /\ g[0] = [doc |-> d, todo |-> <<e>>]
                 /\ \A k \in 1 .. N : g[k] = BuildNext(g[k - 1])
                 /\ BuildElement(d, e) = g[N].doc
    BY BuildTrace
  <1> DEFINE T == {k \in Nat : k <= N => FirmWalking(d, a, e, S, k, g[k])}
  <1>2. 0 \in T
    <2>1. BuildOnly(d, d)
      BY BuildComposes DEF Tree
    <2>2. <<e>> \in Seq(Elements) /\ ToSet(<<e>>) = {e} /\ Distinct(<<e>>)
      BY DEF ToSet, Distinct
    <2>3. g[0].doc = d /\ g[0].todo = <<e>>
      BY <1>1
    <2>4. Met(d, e, S, {}, <<e>>)
      BY <2>2 DEF Met, Island
    <2>5. FirmWalk(d, a, e, S, {}, g[0])
      BY <2>1, <2>3, <2>4 DEF FirmWalk
    <2> QED
      BY <2>5, FS_EmptySet DEF FirmWalking
  <1>3. ASSUME NEW k \in Nat, k \in T PROVE k + 1 \in T
    <2>1. k + 1 <= N => k <= N /\ k + 1 \in 1 .. N /\ (k + 1) - 1 = k
      BY ElementsFinite
    <2> QED
      BY <1>1, <1>3, <2>1, FirmWalkStep
  <1>4. N \in T /\ N <= N
    <2>1. N \in Nat /\ N <= N
      BY ElementsFinite
    <2> HIDE DEF T
    <2> QED
      BY <2>1, <1>2, <1>3, Induction
  <1> DEFINE x == BuildElement(d, e)
  <1>5. PICK V : FirmWalk(d, a, e, S, V, g[N]) /\ (g[N].todo = <<>> \/ Cardinality(V) = N)
    BY <1>4 DEF FirmWalking
  <1>6. Met(d, e, S, V, g[N].todo) /\ V \subseteq Elements
    BY <1>5 DEF FirmWalk, Met, Island
  <1>7. g[N].todo = <<>>
    <2> SUFFICES ASSUME g[N].todo # <<>> PROVE FALSE
      OBVIOUS
    <2>1. V = Elements
      BY <1>5, <1>6, ElementsFinite, FS_Subset
    <2>2. Head(g[N].todo) \in Elements /\ Head(g[N].todo) \in ToSet(g[N].todo)
      BY <1>6, HeadAndTail, TailWithin DEF Met
    <2> QED
      BY <1>6, <2>1, <2>2 DEF Met
  <1>8. e \in V /\ \A n \in Elements : d.parent[n] \in V => n \in V
    <2>1. ToSet(<<>>) = {}
      BY DEF ToSet
    <2> QED
      BY <1>6, <1>7, <2>1 DEF Met
  <1>9. /\ Firm(x, a) /\ BuildOnly(d, x)
        /\ \A n \in Elements : x.init[n] <=> d.init[n] \/ n \in V
    BY <1>1, <1>5 DEF FirmWalk
  <1> HIDE DEF x
  <1>10. DownwardBut(x, None)
    <2> SUFFICES ASSUME NEW n \in Nodes, d.parent[n] # None, x.init[d.parent[n]] PROVE x.init[n]
      BY <1>9 DEF DownwardBut, BuildOnly, SameTree
    <2>1. n \in Elements /\ d.parent[n] \in Elements
      BY DEF Elements, Tree
    <2>2. d.init[d.parent[n]] \/ d.parent[n] \in V
      BY <1>9, <2>1
    <2>3. n \in V \/ (n # e /\ d.init[d.parent[n]])
      BY <1>8, <2>1, <2>2
    <2> QED
      BY <1>9, <2>1, <2>3 DEF DownwardBut
  <1> QED
    BY <1>9, <1>10 DEF x

-----------------------------------------------------------------------------
(* An element detached: its render node leaves the row it hangs in.        *)
DetachedTo(d, x, a, e) ==
    /\ Firm(x, a) /\ DOMAIN x.kids = DOMAIN d.kids /\ ~x.init[e]
    /\ \A c : DownwardBut(d, c) => DownwardBut(x, c)
LEMMA DetachedFirm ==
  ASSUME NEW d, Tree(d), NEW a, Firm(d, a), NEW e \in Nodes, NEW new
  PROVE  DetachedTo(d, detachTaroNodeReference(d, new, e), a, e)
  <1> DEFINE p == d.parent[e]
             x == detachTaroNodeReference(d, new, e)
             r == RenderOf(d, e)
             y == IF d.init[e] /\ Built(d, p) THEN RemoveChild(d, r) ELSE d
  <1>1. /\ e \in Elements /\ e # Page /\ None \notin Elements
        /\ Nodes \subseteq Elements /\ Page \in Elements
    BY TreesAssumption DEF Elements, ConstantsBounded
  <1>2. /\ Typed(d) /\ Grown(d, a) /\ Unhung(d) /\ Standing(d)
        /\ IsDoc(d) /\ d.registry \subseteq Elements
    BY DEF Firm, Tree
  <1>3. CASE p = None
    <2>1. x = d
      BY <1>3 DEF detachTaroNodeReference
    <2>2. ~d.init[e]
      BY <1>1, <1>2, <1>3 DEF Standing
    <2> HIDE DEF x
    <2> QED
      BY <2>1, <2>2 DEF DetachedTo, x
  <1>4. CASE p # None
    <2>1. /\ IsDoc(x) /\ SameStyles(d, x) /\ x.build = d.build /\ x.style = d.style
          /\ Unlinked(d, x, p, IndexOf(d.children[p], e))
      BY <1>1, <1>4, DetachFields, ZenonT(60)
    <2>2. x.init = IF d.init[e] THEN [d.init EXCEPT ![e] = FALSE] ELSE d.init
      BY <1>1, <1>4, DetachFields, ZenonT(60)
    <2>3. x.ignore = IF d.init[e] THEN [d.ignore EXCEPT ![e] = @ \/ (Built(d, e) /\ Built(d, new))]
                     ELSE d.ignore
      BY <1>1, <1>4, DetachFields, ZenonT(60)
    <2>4. x.kids = y.kids /\ x.calls = y.calls
      BY <1>1, <1>4, DetachFields, ZenonT(60)
    <2>5. \A n \in Elements : n # e => x.parent[n] = d.parent[n]
      BY <1>1, DetachedTree
    <2>6. d.init[e] => Built(d, p)
      BY <1>2 DEF Standing
    <2>7. r \in AllRenders
      BY <1>1, <1>2 DEF RenderOf, AllRenders, Typed
    <2> HIDE DEF x, r
    <2>8. /\ Grown(y, a) /\ RenderOnly(d, y) /\ DOMAIN y.kids = DOMAIN d.kids
          /\ \A s : Hangs(Rows(y.kids), s) => Hangs(Rows(d.kids), s) /\ (d.init[e] => s # r)
      <3>1. CASE d.init[e]
        <4>1. y = RemoveChild(d, r)
          BY <2>6, <3>1
        <4> HIDE DEF y
        <4> QED
          BY <1>2, <2>7, <4>1, RemoveGrown
      <3>2. CASE ~d.init[e]
        <4>1. y = d
          BY <3>2
        <4> HIDE DEF y
        <4> QED
          BY <1>2, <3>2, <4>1, RenderParts
      <3> QED
        BY <3>1, <3>2
    <2> HIDE DEF y
    <2>9. Grown(x, a)
      <3>1. x.registry = d.registry /\ x.born = d.born
        BY <2>1 DEF Unlinked
      <3>2. SameRenders(y, x)
        BY <2>1, <2>4, <2>8, <3>1 DEF SameRenders, RenderOnly, SameTree, SameBuilds
      <3> QED
        BY <2>1, <2>8, <3>2, SameGrown
    <2>10. /\ \A n \in Elements : x.init[n] <=> d.init[n] /\ n # e
           /\ x.init \in [Elements -> BOOLEAN]
      BY <1>1, <1>2, <2>2 DEF Typed
    <2>11. Typed(x)
      <3>1. x.want = d.want
        BY <2>1 DEF SameStyles
      <3>2. /\ x.ignore \in [Elements -> BOOLEAN]
            /\ \A n \in Elements : x.ignore[n] => d.ignore[n] \/ (n = e /\ Built(d, e))
        <4>1. CASE d.init[e]
          <5> DEFINE v == d.ignore[e] \/ (Built(d, e) /\ Built(d, new))
          <5>1. x.ignore = [d.ignore EXCEPT ![e] = v]
            BY <2>3, <4>1
          <5>2. v \in BOOLEAN /\ (v => d.ignore[e] \/ Built(d, e))
            BY <1>1, <1>2 DEF Typed
          <5> HIDE DEF v
          <5> QED
            BY <1>1, <1>2, <5>1, <5>2 DEF Typed
        <4>2. CASE ~d.init[e]
          BY <1>2, <2>3, <4>2 DEF Typed
        <4> QED
          BY <4>1, <4>2
      <3>3. \A n \in Elements : x.init[n] \/ x.ignore[n] => Built(x, n)
        BY <1>2, <2>1, <2>10, <3>2 DEF Typed, Built
      <3> QED
        BY <1>2, <2>1, <2>10, <3>1, <3>2, <3>3 DEF Typed
    <2>12. Unhung(x)
      <3> SUFFICES ASSUME NEW n \in d.registry, ~x.init[n] PROVE ~Hangs(Rows(x.kids), RenderOf(x, n))
        BY <2>1 DEF Unhung, Unlinked
      <3>1. n \in Elements /\ RenderOf(x, n) = RenderOf(d, n)
        BY <1>2, <2>1 DEF RenderOf
      <3>2. CASE n = e /\ d.init[e]
        BY <2>4, <2>8, <3>1, <3>2 DEF r
      <3>3. CASE ~(n = e /\ d.init[e])
        <4>1. ~d.init[n]
          BY <2>10, <3>1, <3>3
        <4> QED
          BY <1>2, <2>4, <2>8, <3>1, <4>1 DEF Unhung
      <3> QED
        BY <3>2, <3>3
    <2>13. Standing(x)
      <3>1. x.want = d.want /\ x.dirty = d.dirty
        BY <2>1 DEF SameStyles
      <3>2. \A n \in Nodes : x.init[n] => x.parent[n] \in Elements /\ Built(x, x.parent[n])
        BY <1>1, <1>2, <2>1, <2>5, <2>10 DEF Standing, Built
      <3>3. x.init[Page] <=> d.init[Page]
        BY <1>1, <2>10
      <3> QED
        BY <1>2, <2>1, <2>10, <3>1, <3>2, <3>3 DEF Standing
    <2>14. ASSUME NEW c, DownwardBut(d, c) PROVE DownwardBut(x, c)
      <3> SUFFICES ASSUME NEW n \in Nodes, n # c, x.parent[n] # None, x.init[x.parent[n]]
                   PROVE  x.init[n]
        BY DEF DownwardBut
      <3>1. n # e
        BY <1>1, DetachedTree DEF x
      <3>2. n \in Elements /\ d.parent[n] = x.parent[n] /\ d.parent[n] \in Elements
        BY <1>1, <2>5, <3>1 DEF Tree
      <3>3. d.init[n]
        BY <2>10, <2>14, <3>2 DEF DownwardBut
      <3> QED
        BY <2>10, <3>1, <3>2, <3>3
    <2>15. ~x.init[e]
      BY <1>1, <2>10
    <2>16. DOMAIN x.kids = DOMAIN d.kids
      BY <2>4, <2>8
    <2> QED
      BY <2>9, <2>11, <2>12, <2>13, <2>14, <2>15, <2>16 DEF DetachedTo, Firm, x
  <1> QED
    BY <1>3, <1>4

-----------------------------------------------------------------------------
(* Linked, and removed with what is below.                                 *)
SamePlaces(d, x) == DOMAIN x.kids = DOMAIN d.kids
LEMMA LinkedFirm ==
  ASSUME NEW d, Tree(d), NEW a, Firm(d, a), NEW e \in Nodes, NEW p \in d.registry, ~d.init[e],
         NEW i, NEW prev, NEW next
  PROVE  LET x == Link(d, p, e, i, prev, next)
         IN  /\ Firm(x, a) /\ SamePlaces(d, x) /\ x.init = d.init
             /\ DownwardBut(d, None) => DownwardBut(x, e)
  <1> DEFINE x == Link(d, p, e, i, prev, next)
  <1>1. /\ IsDoc(x) /\ Linked(d, x, p, i, e, prev, next) /\ SameStyles(d, x) /\ SameBuilds(d, x)
        /\ x.kids = d.kids /\ x.calls = d.calls
    BY LinkFields DEF Tree
  <1> HIDE DEF x
  <1>2. /\ x.registry = d.registry /\ x.born = d.born /\ x.parent = [d.parent EXCEPT ![e] = p]
        /\ x.init = d.init /\ x.ignore = d.ignore /\ x.build = d.build /\ x.style = d.style
        /\ x.want = d.want /\ x.dirty = d.dirty
    BY <1>1 DEF Linked, SameStyles, SameBuilds
  <1>3. Typed(x)
    BY <1>2 DEF Firm, Typed, Built
  <1>4. Grown(x, a)
    BY <1>1, <1>2, SameGrown DEF Firm, SameRenders
  <1>5. Unhung(x)
    BY <1>1, <1>2 DEF Firm, Unhung, RenderOf
  <1>6. /\ \A n \in Elements : n # e => x.parent[n] = d.parent[n]
        /\ Nodes \subseteq Elements
    BY <1>2 DEF Tree, Elements
  <1>7. Standing(x)
    BY <1>2, <1>6 DEF Firm, Standing, Built
  <1>8. DownwardBut(d, None) => DownwardBut(x, e)
    BY <1>2, <1>6, TreesAssumption DEF DownwardBut, ConstantsBounded
  <1> QED
    BY <1>1, <1>2, <1>3, <1>4, <1>5, <1>7, <1>8 DEF Firm, SamePlaces, x

(* The destructors take fixed render nodes off the page.                   *)
Unmounted(d, x, a) ==
    /\ Grown(x, a) /\ RenderOnly(d, x) /\ SamePlaces(d, x)
    /\ \A s : Hangs(Rows(x.kids), s) => Hangs(Rows(d.kids), s)
Unmounting(d, s, a) == Unmounted(d, s.doc, a) /\ s.todo \in Seq(Elements)
LEMMA DestroyStep ==
  ASSUME NEW d, Tree(d), NEW a, Typed(d), NEW s, Unmounting(d, s, a)
  PROVE  Unmounting(d, DestroyNext(s), a)
  <1> USE DEF Unmounting
  <1>1. CASE s.todo = <<>>
    BY <1>1 DEF DestroyNext
  <1>2. CASE s.todo # <<>>
    <2> DEFINE h == Head(s.todo)
               r == RenderOf(s.doc, h)
               y == RemoveChild(s.doc, r)
               x == IF Built(s.doc, h) /\ s.doc.style[h] = "fixed" THEN y ELSE s.doc
               todo == s.doc.children[h] \o Tail(s.todo)
    <2>1. DestroyNext(s) = [doc |-> x, todo |-> todo]
      BY <1>2 DEF DestroyNext
    <2>2. h \in Elements /\ Tail(s.todo) \in Seq(Elements)
      BY <1>2, TailWithin
    <2> HIDE DEF h
    <2>3. s.doc.children[h] \in Seq(Elements)
      <3>1. d.children[h] \in Seq(Nodes)
        BY <2>2, RowMembers
      <3> QED
        BY <3>1 DEF Unmounted, RenderOnly, SameTree, Elements
    <2>4. todo \in Seq(Elements)
      BY <2>2, <2>3
    <2>5. r \in AllRenders
      BY <2>2 DEF RenderOf, AllRenders, Typed, Unmounted, RenderOnly, SameBuilds
    <2> HIDE DEF r, todo
    <2>6. Unmounted(d, y, a)
      <3>1. Grown(s.doc, a)
        BY DEF Unmounted
      <3>2. /\ Grown(y, a) /\ RenderOnly(s.doc, y) /\ DOMAIN y.kids = DOMAIN s.doc.kids
            /\ \A z : Hangs(Rows(y.kids), z) => Hangs(Rows(s.doc.kids), z)
        BY <2>5, <3>1, RemoveGrown
      <3>3. RenderOnly(d, y)
        BY <3>2, RenderComposes DEF Unmounted
      <3> HIDE DEF y
      <3> QED
        BY <3>2, <3>3 DEF Unmounted, SamePlaces
    <2>7. Unmounted(d, x, a)
      BY <2>6
    <2> HIDE DEF x
    <2> QED
      BY <2>1, <2>4, <2>7
  <1> QED
    BY <1>1, <1>2

LEMMA DestroyGrown ==
  ASSUME NEW d, Tree(d), NEW a, Typed(d), Grown(d, a), NEW e \in Elements
  PROVE  Unmounted(d, Destroy(d, e), a)
  <1> DEFINE N == Cardinality(Elements)
  <1>1. PICK g : /\ g[0] = [doc |-> d, todo |-> <<e>>]
                 /\ \A k \in 1 .. N : g[k] = DestroyNext(g[k - 1])
                 /\ Destroy(d, e) = g[N].doc
    BY DestroyTrace
  <1> DEFINE T == {k \in Nat : k <= N => Unmounting(d, g[k], a)}
  <1>2. 0 \in T
    <2>1. g[0].doc = d /\ g[0].todo \in Seq(Elements)
      BY <1>1
    <2>2. RenderOnly(d, d)
      BY RenderParts DEF Tree
    <2>3. Unmounted(d, d, a)
      BY <2>2 DEF Unmounted, SamePlaces
    <2> QED
      BY <2>1, <2>3 DEF Unmounting
  <1>3. ASSUME NEW k \in Nat, k \in T PROVE k + 1 \in T
    <2>1. k + 1 <= N => k <= N /\ k + 1 \in 1 .. N /\ (k + 1) - 1 = k
      BY ElementsFinite
    <2> QED
      BY <1>1, <1>3, <2>1, DestroyStep
  <1>4. N \in T /\ N <= N
    <2>1. N \in Nat /\ N <= N
      BY ElementsFinite
    <2> HIDE DEF T
    <2> QED
      BY <2>1, <1>2, <1>3, Induction
  <1> QED
    BY <1>1, <1>4 DEF Unmounting

LEMMA PageStays ==
  ASSUME NEW d, Tree(d), NEW e \in Nodes
  PROVE  Page \notin Subtree(d, e) /\ d.parent[Page] = None
  <1>1. e \in Elements /\ Page \in Elements /\ Page \notin Nodes /\ None \notin Elements /\ e # Page
    BY TreesAssumption DEF Elements, ConstantsBounded
  <1>2. d.parent[Page] = None
    BY <1>1, PlaceOfChild
  <1>3. Subtree(d, e) \subseteq Elements
    BY <1>1, SubtreeClosed
  <1> QED
    BY <1>1, <1>2, <1>3, SubtreeParents

LEMMA BuriedFirm ==
  ASSUME NEW d, Tree(d), NEW a, Firm(d, a), NEW e \in Nodes
  PROVE  LET x == Bury(d, Subtree(d, e))
         IN  /\ Firm(x, a) /\ SamePlaces(d, x)
             /\ \A c : DownwardBut(d, c) => DownwardBut(x, c)
  <1> DEFINE gone == Subtree(d, e)
             x == Bury(d, gone)
  <1>1. IsDoc(x) /\ Buried(d, x, gone) /\ Emptied(d, x, gone)
    BY BuryFields DEF Tree
  <1>2. /\ \A n \in Elements : d.parent[n] \in gone => n \in gone
        /\ Page \notin gone /\ e \in Elements /\ Nodes \subseteq Elements /\ Page \in Elements
        /\ d.registry \subseteq Elements
    <2>1. e \in Elements
      BY DEF Elements
    <2> QED
      BY <2>1, SubtreeParents, PageStays DEF Elements, Tree
  <1> HIDE DEF x, gone
  <1>3. /\ x.registry = d.registry \ gone /\ x.born = d.born
        /\ x.parent \in [Elements -> Elements \cup {None}]
        /\ \A n \in Elements : /\ n \notin gone => x.parent[n] = d.parent[n]
                               /\ n \in gone => x.parent[n] = None
    BY <1>1, <1>2 DEF Buried, Tree
  <1>4. /\ \A n \in Elements \ gone :
              /\ x.init[n] = d.init[n] /\ x.ignore[n] = d.ignore[n] /\ x.build[n] = d.build[n]
              /\ x.style[n] = d.style[n] /\ x.want[n] = d.want[n]
        /\ \A n \in Elements : n \in gone =>
              /\ x.init[n] = FALSE /\ x.ignore[n] = FALSE /\ x.build[n] = 0
              /\ x.style[n] = "static" /\ x.want[n] = "static"
    BY <1>1, Zenon DEF Emptied
  <1>5. x.kids = d.kids /\ x.calls = d.calls /\ x.dirty = d.dirty
    BY <1>1 DEF Emptied
  <1>6. Typed(x)
    <2>1. Typed(d)
      BY DEF Firm
    <2>2. x.init \in [Elements -> BOOLEAN] /\ x.ignore \in [Elements -> BOOLEAN]
      <3>1. x.init = [n \in Elements |-> IF n \in gone THEN FALSE ELSE d.init[n]]
        BY <1>1 DEF Emptied
      <3>2. x.ignore = [n \in Elements |-> IF n \in gone THEN FALSE ELSE d.ignore[n]]
        BY <1>1 DEF Emptied
      <3>3. d.init \in [Elements -> BOOLEAN] /\ d.ignore \in [Elements -> BOOLEAN]
        BY <2>1 DEF Typed
      <3>4. \A n \in Elements : (IF n \in gone THEN FALSE ELSE d.init[n]) \in BOOLEAN
        BY <3>3
      <3>5. \A n \in Elements : (IF n \in gone THEN FALSE ELSE d.ignore[n]) \in BOOLEAN
        BY <3>3
      <3>6. x.init \in [Elements -> BOOLEAN]
        BY <3>1, <3>4, Zenon
      <3>7. x.ignore \in [Elements -> BOOLEAN]
        BY <3>2, <3>5, Zenon
      <3> QED
        BY <3>6, <3>7
    <2>3. x.build \in [Elements -> Nat]
      BY <1>1, <2>1 DEF Typed, Emptied
    <2>4. x.style \in [Elements -> Positions] /\ x.want \in [Elements -> Positions]
      <3>1. "static" \in Positions /\ d.style \in [Elements -> Positions] /\ d.want \in [Elements -> Positions]
        BY <2>1 DEF Positions, Typed
      <3> QED
        BY <1>1, <3>1 DEF Emptied
    <2>5. \A n \in Elements : x.init[n] \/ x.ignore[n] => Built(x, n)
      BY <1>4, <2>1 DEF Typed, Built
    <2> QED
      BY <2>2, <2>3, <2>4, <2>5 DEF Typed
  <1>7. Grown(x, a)
    <2>1. Planted(d) /\ Tracked(d.calls, a, Rows(d.kids))
      BY DEF Firm, Grown
    <2>2. \A n \in Elements, k \in Nat :
            Hangs(Rows(x.kids), <<n, k>>) \/ (<<n, k>> \in DOMAIN x.kids /\ <<n, k>> # FixedRoot)
                => n \in x.born /\ k >= 1 /\ (n \in x.registry => k <= x.build[n])
      BY <1>3, <1>4, <1>5, <2>1 DEF Planted
    <2>3. \A n \in Elements : Built(x, n) => n \in x.registry /\ RenderOf(x, n) \in DOMAIN x.kids
      BY <1>3, <1>4, <1>5, <2>1 DEF Planted, Built, RenderOf
    <2>4. Planted(x)
      <3>1. x.build \in [Elements -> Nat]
        BY <1>6 DEF Typed
      <3>2. x.registry \subseteq x.born /\ x.registry \subseteq Elements
        BY <1>2, <1>3, <2>1 DEF Planted
      <3> QED
        BY <1>5, <2>1, <2>2, <2>3, <3>1, <3>2 DEF Planted
    <2> QED
      BY <1>1, <1>5, <2>1, <2>4 DEF Grown
  <1>8. Unhung(x)
    BY <1>2, <1>3, <1>4, <1>5 DEF Firm, Unhung, RenderOf
  <1>9. Standing(x)
    <2>1. Standing(d)
      BY DEF Firm
    <2>2. \A n \in Nodes : x.init[n] => x.parent[n] \in Elements /\ Built(x, x.parent[n])
      BY <1>2, <1>3, <1>4, <2>1 DEF Standing, Built
    <2>3. \A n \in Elements : x.init[n] => x.init[Page]
      BY <1>2, <1>4, <2>1 DEF Standing
    <2>4. x.dirty => x.init[Page]
      BY <1>2, <1>4, <1>5, <2>1 DEF Standing
    <2>5. x.style[Page] = "static" /\ x.want[Page] = "static"
      BY <1>2, <1>4, <2>1 DEF Standing
    <2> QED
      BY <2>2, <2>3, <2>4, <2>5 DEF Standing
  <1>10. ASSUME NEW c, DownwardBut(d, c) PROVE DownwardBut(x, c)
    <2> SUFFICES ASSUME NEW n \in Nodes, n # c, x.parent[n] # None, x.init[x.parent[n]]
                 PROVE  x.init[n]
      BY DEF DownwardBut
    <2>1. n \in Elements /\ x.parent[n] \in Elements
      BY <1>2, <1>3
    <2>2. n \notin gone /\ x.parent[n] = d.parent[n]
      BY <1>3, <2>1
    <2>3. d.init[d.parent[n]]
      BY <1>4, <2>1, <2>2
    <2> QED
      BY <1>4, <1>10, <2>1, <2>2, <2>3 DEF DownwardBut
  <1> QED
    BY <1>5, <1>6, <1>7, <1>8, <1>9, <1>10 DEF Firm, SamePlaces, x, gone

-----------------------------------------------------------------------------
(* An element put below p, not yet built; p may be gone by then.           *)
NewPlace(d, x, e, p) ==
    /\ x.parent[e] \in {p, None} /\ (x.init[p] => x.parent[e] = p)
    /\ \A n \in Elements : n # e => x.parent[n] \in {d.parent[n], None}
Placed(d, x, a, e, p) ==
    Rooted(x) /\ Firm(x, a) /\ SamePlaces(d, x) /\ DownwardBut(x, e) /\ NewPlace(d, x, e, p)
Settling(d, a) == Rooted(d) /\ Firm(d, a) /\ DownwardBut(d, None)
LEMMA FirmDetach ==
  ASSUME NEW d, NEW a, Settling(d, a), NEW e \in Nodes, e \in d.registry, NEW p \in d.registry
  PROVE  LET x == detachTaroNodeReference(d, p, e)
         IN  /\ Settling(x, a) /\ SamePlaces(d, x) /\ ~x.init[e] /\ x.parent[e] = None
             /\ e \in x.registry /\ p \in x.registry
             /\ \A n \in Elements : n # e => x.parent[n] = d.parent[n]
  <1> DEFINE x == detachTaroNodeReference(d, p, e)
  <1>1. Tree(d) /\ Firm(d, a) /\ Rooted(d) /\ DownwardBut(d, None)
    BY DEF Settling, Rooted
  <1>2. DetachedTo(d, x, a, e)
    BY <1>1, DetachedFirm
  <1>3. /\ Rooted(x) /\ e \in x.registry /\ p \in x.registry /\ x.parent[e] = None
        /\ \A n \in Elements : n # e => x.parent[n] = d.parent[n]
    BY <1>1, Detached
  <1> HIDE DEF x
  <1> QED
    BY <1>1, <1>2, <1>3 DEF DetachedTo, Settling, SamePlaces, x

LEMMA FirmLink ==
  ASSUME NEW d, NEW a, Settling(d, a), NEW e \in Nodes, e \in d.registry, NEW p \in d.registry,
         ~d.init[e], d.parent[e] = None, NEW i \in 1 .. Len(d.children[p]) + 1, NEW prev, NEW next
  PROVE  Placed(d, Link(d, p, e, i, prev, next), a, e, p)
  <1> DEFINE x == Link(d, p, e, i, prev, next)
  <1>1. Tree(d) /\ Firm(d, a) /\ Rooted(d) /\ DownwardBut(d, None) /\ e \in Elements
    BY DEF Settling, Rooted, Elements
  <1>2. Rooted(x)
    BY <1>1, LinkedRooted
  <1>3. Firm(x, a) /\ SamePlaces(d, x) /\ DownwardBut(x, e)
    BY <1>1, LinkedFirm
  <1>4. x.parent = [d.parent EXCEPT ![e] = p]
    <2>1. IsDoc(d)
      BY <1>1 DEF Tree
    <2>2. Linked(d, x, p, i, e, prev, next)
      BY <2>1, LinkFields
    <2> HIDE DEF x
    <2> QED
      BY <2>2 DEF Linked
  <1> HIDE DEF x
  <1>5. NewPlace(d, x, e, p)
    BY <1>1, <1>4 DEF NewPlace, Tree
  <1> QED
    BY <1>2, <1>3, <1>5 DEF Placed, x

LEMMA FirmAppend ==
  ASSUME NEW d, NEW a, Settling(d, a), NEW e \in Nodes, e \in d.registry, NEW p \in d.registry
  PROVE  Placed(d, appendChild(d, p, e), a, e, p)
  <1> DEFINE x == detachTaroNodeReference(d, p, e)
             s == x.children[p]
             prev == IF s = <<>> THEN None ELSE Last(s)
             l == Link(x, p, e, Len(s) + 1, prev, None)
  <1>1. /\ Settling(x, a) /\ SamePlaces(d, x) /\ ~x.init[e] /\ x.parent[e] = None
        /\ e \in x.registry /\ p \in x.registry
        /\ \A n \in Elements : n # e => x.parent[n] = d.parent[n]
    BY FirmDetach
  <1>2. appendChild(d, p, e) = l
    BY DEF appendChild
  <1> HIDE DEF x
  <1>3. Len(s) \in Nat
    BY <1>1 DEF Settling, Rooted, Tree
  <1>4. Len(s) + 1 \in 1 .. Len(s) + 1
    BY <1>3
  <1>5. Placed(x, l, a, e, p)
    BY <1>1, <1>4, FirmLink
  <1> HIDE DEF l
  <1>6. Placed(d, l, a, e, p)
    BY <1>1, <1>5 DEF Placed, SamePlaces, NewPlace
  <1> QED
    BY <1>2, <1>6

LEMMA FirmInsert ==
  ASSUME NEW d, NEW a, Settling(d, a), NEW e \in Nodes, e \in d.registry, NEW p \in d.registry,
         NEW ref \in Nodes, ref # e, d.parent[ref] = p
  PROVE  Placed(d, insertBefore(d, p, e, ref), a, e, p)
  <1> DEFINE x == detachTaroNodeReference(d, p, e)
             s == x.children[p]
             i == IndexOf(s, ref)
             l == Link(x, p, e, i, x.prev[ref], ref)
  <1>1. /\ Settling(x, a) /\ SamePlaces(d, x) /\ ~x.init[e] /\ x.parent[e] = None
        /\ e \in x.registry /\ p \in x.registry
        /\ \A n \in Elements : n # e => x.parent[n] = d.parent[n]
    BY FirmDetach
  <1>2. insertBefore(d, p, e, ref) = l
    BY DEF insertBefore
  <1> HIDE DEF x
  <1>3. Tree(x) /\ p # None /\ ref \in Elements /\ Len(s) \in Nat
    BY <1>1, TreesAssumption DEF Settling, Rooted, Tree, Elements, ConstantsBounded
  <1>4. i \in 1 .. Len(s)
    BY <1>1, <1>3, PlaceOfChild
  <1>5. i \in 1 .. Len(s) + 1
    BY <1>3, <1>4
  <1> HIDE DEF i
  <1>6. Placed(x, l, a, e, p)
    BY <1>1, <1>5, FirmLink
  <1> HIDE DEF l
  <1>7. Placed(d, l, a, e, p)
    BY <1>1, <1>6 DEF Placed, SamePlaces, NewPlace
  <1> QED
    BY <1>2, <1>7

(* Removed with what is below: the others stay, or their parents are gone. *)
LEMMA FirmRemove ==
  ASSUME NEW d, NEW a, Rooted(d), Firm(d, a), NEW e \in Nodes, NEW p
  PROVE  LET x == removeChild(d, p, e)
         IN  /\ Rooted(x) /\ Firm(x, a) /\ SamePlaces(d, x)
             /\ \A c : DownwardBut(d, c) => DownwardBut(x, c)
             /\ \A n \in Elements : x.parent[n] \in {d.parent[n], None}
  <1> DEFINE t == detachTaroNodeReference(d, p, e)
             y == Destroy(t, e)
             x == Bury(y, Subtree(y, e))
  <1>1. Tree(d) /\ e \in Elements
    BY DEF Rooted, Elements
  <1>2. DetachedTo(d, t, a, e)
    BY <1>1, DetachedFirm
  <1>3. /\ Tree(t) /\ t.parent[e] = None
        /\ \A n \in Elements : n # e => t.parent[n] = d.parent[n]
    BY <1>1, DetachedTree
  <1> HIDE DEF t
  <1>4. RenderOnly(t, y)
    BY <1>3, DestroyParts DEF Tree
  <1>5. Unmounted(t, y, a)
    BY <1>1, <1>2, <1>3, DestroyGrown DEF DetachedTo, Firm
  <1> HIDE DEF y
  <1>6. Tree(y) /\ y.parent = t.parent /\ y.init = t.init
    <2>1. InPlace(t, y)
      BY <1>4, BuildComposes
    <2> QED
      BY <1>3, <1>4, <2>1, InPlaceKeeps DEF RenderOnly, SameTree, SameBuilds
  <1>7. Firm(y, a)
    <2>1. SameBuilds(t, y) /\ SameStyles(t, y) /\ SameTree(t, y) /\ Grown(y, a)
      BY <1>4, <1>5 DEF RenderOnly, Unmounted
    <2>2. Firm(t, a)
      BY <1>2 DEF DetachedTo
    <2>3. Typed(y)
      BY <2>1, <2>2 DEF Firm, Typed, SameBuilds, SameStyles, Built
    <2>4. Unhung(y)
      BY <1>5, <2>1, <2>2 DEF Firm, Unhung, SameBuilds, SameTree, RenderOf, Unmounted
    <2>5. Standing(y)
      BY <2>1, <2>2 DEF Firm, Standing, SameBuilds, SameStyles, SameTree, Built
    <2> QED
      BY <2>1, <2>3, <2>4, <2>5 DEF Firm
  <1>8. Subtree(t, e) = Subtree(y, e)
    BY <1>4 DEF Subtree, RenderOnly, SameTree
  <1>9. removeChild(d, p, e) = x
    BY <1>8 DEF removeChild, t, y
  <1>10. /\ Firm(x, a) /\ SamePlaces(y, x)
         /\ \A c : DownwardBut(y, c) => DownwardBut(x, c)
    BY <1>6, <1>7, BuriedFirm
  <1>11. \A n \in Elements : x.parent[n] \in {y.parent[n], None}
    <2>1. x.parent = [n \in Elements |-> IF n \in Subtree(y, e) \/ y.parent[n] \in Subtree(y, e)
                                         THEN None ELSE y.parent[n]]
      <3>1. IsDoc(y)
        BY <1>6 DEF Tree
      <3>2. Buried(y, x, Subtree(y, e))
        BY <3>1, BuryFields
      <3> HIDE DEF x
      <3> QED
        BY <3>2 DEF Buried
    <2> HIDE DEF x
    <2> QED
      BY <2>1
  <1>12. Rooted(removeChild(d, p, e))
    BY RemovedTree
  <1> HIDE DEF x
  <1>13. Rooted(x)
    BY <1>9, <1>12
  <1>14. \A c : DownwardBut(d, c) => DownwardBut(x, c)
    <2>1. \A c : DownwardBut(t, c) => DownwardBut(y, c)
      BY <1>6 DEF DownwardBut
    <2> QED
      BY <1>2, <1>10, <2>1 DEF DetachedTo
  <1>15. \A n \in Elements : x.parent[n] \in {d.parent[n], None}
    BY <1>3, <1>6, <1>11
  <1>16. SamePlaces(d, x)
    BY <1>2, <1>5, <1>10 DEF DetachedTo, Unmounted, SamePlaces
  <1> QED
    BY <1>9, <1>10, <1>13, <1>14, <1>15, <1>16

-----------------------------------------------------------------------------
LEMMA SameFirm ==
  ASSUME NEW d, NEW a, Firm(d, a), NEW x, IsDoc(x), SameRenders(d, x), SameBuilds(d, x),
         x.parent = d.parent, x.dirty = d.dirty, x.want = d.want
  PROVE  Firm(x, a) /\ \A c : DownwardBut(d, c) => DownwardBut(x, c)
  <1>1. Grown(x, a)
    BY SameGrown DEF Firm
  <1>2. Typed(x)
    BY DEF Firm, Typed, SameBuilds, Built
  <1>3. Unhung(x)
    BY DEF Firm, Unhung, SameRenders, SameBuilds, RenderOf
  <1>4. Standing(x)
    BY DEF Firm, Standing, SameBuilds, Built
  <1> QED
    BY <1>1, <1>2, <1>3, <1>4 DEF Firm, DownwardBut, SameBuilds

LEMMA FirmReplace ==
  ASSUME NEW d, NEW a, Settling(d, a), NEW e \in Nodes, e \in d.registry, NEW p \in d.registry,
         NEW old \in Nodes, old # e, d.parent[old] = p
  PROVE  LET x == replaceChild(d, p, e, old)
         IN  /\ Rooted(x) /\ Firm(x, a) /\ DownwardBut(x, e) /\ NewPlace(d, x, e, p)
  <1> DEFINE f == detachTaroNodeReference(d, p, e)
             s == f.children[p]
             i == IndexOf(s, old)
             l == Link(f, p, e, i, f.prev[old], f.next[old])
             y == [l EXCEPT !.flaws = @ \cup IF Last(l.children[p]) # old THEN {"replace"} ELSE {}]
             x == removeChild(y, p, old)
  <1>1. /\ Settling(f, a) /\ ~f.init[e] /\ f.parent[e] = None
        /\ e \in f.registry /\ p \in f.registry
        /\ \A n \in Elements : n # e => f.parent[n] = d.parent[n]
    BY FirmDetach
  <1>2. f.parent[old] = p
    BY <1>1 DEF Elements
  <1>3. replaceChild(d, p, e, old) = x
    BY DEF replaceChild
  <1> HIDE DEF f
  <1>4. Tree(f) /\ p # None /\ old \in Elements /\ e \in Elements /\ Len(s) \in Nat
    <2>1. Rooted(f)
      BY <1>1 DEF Settling
    <2>2. Tree(f) /\ f.registry \subseteq Elements
      BY <2>1 DEF Rooted, Tree
    <2>3. p \in Elements /\ old \in Elements /\ e \in Elements
      BY <1>1, <2>2 DEF Elements
    <2>4. p # None
      BY <2>3, TreesAssumption DEF Elements, ConstantsBounded
    <2>5. Len(s) \in Nat
      BY <2>2, <2>3 DEF Tree
    <2> QED
      BY <2>2, <2>3, <2>4, <2>5
  <1>5. i \in 1 .. Len(s) + 1
    <2>1. i \in 1 .. Len(s)
      BY <1>2, <1>4, PlaceOfChild
    <2> QED
      BY <1>4, <2>1
  <1> HIDE DEF i
  <1>6. Placed(f, l, a, e, p)
    BY <1>1, <1>5, FirmLink
  <1>7. l.parent[e] = p
    <2>1. IsDoc(f) /\ f.parent \in [Elements -> Elements \cup {None}]
      BY <1>4 DEF Tree
    <2>2. Linked(f, l, p, i, e, f.prev[old], f.next[old])
      BY <2>1, LinkFields
    <2> HIDE DEF l
    <2> QED
      BY <1>4, <2>1, <2>2 DEF Linked
  <1> HIDE DEF l
  <1>8. /\ InPlace(l, y) /\ IsDoc(y) /\ SameTree(l, y) /\ SameBuilds(l, y) /\ SameStyles(l, y)
        /\ y.kids = l.kids /\ y.calls = l.calls
    <2>1. IsDoc(l)
      BY <1>6 DEF Placed, Rooted, Tree
    <2>2. BuildOnly(l, y)
      BY <2>1, BuildFields
    <2>3. SameBuilds(l, y) /\ y.kids = l.kids /\ y.calls = l.calls
      BY <2>1 DEF SameBuilds, IsDoc
    <2> HIDE DEF y
    <2> QED
      BY <2>2, <2>3, BuildComposes DEF BuildOnly
  <1> HIDE DEF y
  <1>9. Rooted(y) /\ y.parent = l.parent
    BY <1>6, <1>8, InPlaceKeeps DEF Placed, SameTree
  <1>10. Firm(y, a) /\ DownwardBut(y, e)
    <2>1. SameRenders(l, y) /\ y.parent = l.parent /\ y.dirty = l.dirty /\ y.want = l.want
      BY <1>8 DEF SameRenders, SameTree, SameBuilds, SameStyles
    <2>2. Firm(l, a) /\ DownwardBut(l, e)
      BY <1>6 DEF Placed
    <2> QED
      BY <1>8, <2>1, <2>2, SameFirm
  <1>11. /\ Rooted(x) /\ Firm(x, a) /\ DownwardBut(x, e)
         /\ \A n \in Elements : x.parent[n] \in {y.parent[n], None}
    BY <1>9, <1>10, FirmRemove
  <1>12. x.init[p] => x.parent[e] = p
    <2>1. y.parent[e] = p
      BY <1>7, <1>9
    <2> HIDE DEF x
    <2>2. x.init[p] => x.parent[e] = p
      BY <1>4, <1>9, <2>1, RemoveKeepsChild DEF x
    <2> QED
      BY <2>2
  <1> HIDE DEF x
  <1>13. NewPlace(d, x, e, p)
    <2>1. \A n \in Elements : n # e => y.parent[n] \in {d.parent[n], None}
      BY <1>1, <1>6, <1>9 DEF Placed, NewPlace
    <2> QED
      BY <1>4, <1>7, <1>9, <1>11, <1>12, <2>1 DEF NewPlace
  <1> QED
    BY <1>3, <1>11, <1>13

(* Below a built element, what was put there is built with all below it.   *)
LEMMA FirmBuildIfInit ==
  ASSUME NEW d, Tree(d), NEW e \in Nodes, NEW p \in d.registry, p \notin Subtree(d, e),
         NEW x, NEW a, Rooted(x), Firm(x, a), DownwardBut(x, e), NewPlace(d, x, e, p)
  PROVE  Settling(BuildIfInit(x, p, e), a)
  <1>1. /\ e \in Elements /\ p \in Elements /\ p # None /\ e # Page /\ Tree(x)
        /\ None \notin Elements
    BY TreesAssumption DEF Elements, Tree, Rooted, ConstantsBounded
  <1>2. CASE ~x.init[p]
    <2>1. DownwardBut(x, None)
      BY <1>1, <1>2 DEF DownwardBut, NewPlace
    <2> QED
      BY <1>2, <2>1 DEF BuildIfInit, Settling
  <1>3. CASE x.init[p]
    <2>1. x.parent[e] = p
      BY <1>3 DEF NewPlace
    <2>2. Buildable(x, e)
      <3>1. e \in x.registry
        BY <1>1, <2>1 DEF Tree
      <3>2. x.init[Page] /\ Built(x, p)
        BY <1>1, <1>3 DEF Firm, Standing, Typed
      <3> QED
        BY <1>1, <2>1, <3>1, <3>2 DEF Buildable
    <2> DEFINE S == Subtree(d, e)
    <2>3. Island(x, e, S)
      <3>1. /\ S \subseteq Elements /\ e \in S
            /\ \A n \in Elements : d.parent[n] \in S => n \in S
        BY <1>1, SubtreeClosed, SubtreeParents
      <3>2. p \notin S
        OBVIOUS
      <3> HIDE DEF S
      <3>3. \A n \in Elements : x.parent[n] \in S => n \in S
        BY <1>1, <3>1 DEF NewPlace
      <3> QED
        BY <2>1, <3>1, <3>2, <3>3 DEF Island
    <2> HIDE DEF S
    <2> DEFINE y == BuildElement(x, e)
    <2>4. Firm(y, a) /\ BuildOnly(x, y) /\ DownwardBut(y, None)
      BY <1>1, <2>2, <2>3, BuiltFirm
    <2> HIDE DEF y
    <2>5. Rooted(y)
      BY <2>4, BuildComposes, InPlaceKeeps
    <2>6. BuildIfInit(x, p, e) = y
      BY <1>3 DEF BuildIfInit, y
    <2> QED
      BY <2>4, <2>5, <2>6 DEF Settling
  <1> QED
    BY <1>2, <1>3

-----------------------------------------------------------------------------
(* The other calls of JS.                                                  *)
LEMMA FirmCreate ==
  ASSUME NEW d, NEW a, Settling(d, a), NEW e \in Nodes, e \notin d.born
  PROVE  Settling([d EXCEPT !.registry = @ \cup {e}, !.born = @ \cup {e}], a)
  <1> DEFINE x == [d EXCEPT !.registry = @ \cup {e}, !.born = @ \cup {e}]
  <1>1. Tree(d) /\ IsDoc(d) /\ Firm(d, a) /\ Rooted(d) /\ DownwardBut(d, None) /\ e \in Elements
    BY DEF Settling, Rooted, Tree, Elements
  <1>2. IsDoc(x)
    <2>1. d = [n \in Fields |-> d[n]]
      BY <1>1, DocIsRecord
    <2>2. x = [n \in Fields |-> x[n]]
      BY <2>1
    <2> HIDE DEF x
    <2> QED
      BY <2>2, DocIsRecord
  <1>3. /\ x.registry = d.registry \cup {e} /\ x.born = d.born \cup {e}
        /\ x.children = d.children /\ x.kids = d.kids /\ x.calls = d.calls
    BY <1>1 DEF IsDoc
  <1>4. SameLook(d, x)
    <2>1. SameStyles(d, x) /\ x.parent = d.parent
      BY <1>1 DEF IsDoc, SameStyles
    <2>2. SameBuilds(d, x)
      BY <1>1 DEF IsDoc, SameBuilds
    <2> QED
      BY <2>1, <2>2 DEF SameLook
  <1> HIDE DEF x
  <1>5. x.parent = d.parent /\ SameBuilds(d, x) /\ SameStyles(d, x)
    BY <1>4 DEF SameLook
  <1>6. Rooted(x)
    <2>1. x.registry \subseteq Elements /\ Page \in x.registry /\ d.registry \subseteq x.registry
      BY <1>1, <1>3 DEF Tree
    <2>2. Tree(x)
      <3>1. /\ x.children \in [Elements -> Seq(Nodes)]
            /\ x.parent \in [Elements -> Elements \cup {None}]
        BY <1>1, <1>3, <1>5 DEF Tree
      <3>2. \A n \in Elements : x.parent[n] # None =>
               n \in x.registry /\ x.parent[n] \in x.registry
        BY <1>1, <1>5, <2>1 DEF Tree
      <3> QED
        BY <1>1, <1>2, <1>3, <1>5, <2>1, <3>1, <3>2 DEF Tree
    <2> QED
      BY <1>1, <1>3, <1>5, <2>2 DEF Rooted, SameStyles
  <1>7. Planted(d) /\ Tracked(d.calls, a, Rows(d.kids))
    BY <1>1 DEF Firm, Grown
  <1>8. \A k \in Nat : ~Hangs(Rows(d.kids), <<e, k>>)
    BY <1>1, <1>7 DEF Planted
  <1>9. Planted(x)
    <2>1. x.build = d.build
      BY <1>5 DEF SameBuilds
    <2>2. \A n \in Elements, k \in Nat :
            Hangs(Rows(x.kids), <<n, k>>) \/ (<<n, k>> \in DOMAIN x.kids /\ <<n, k>> # FixedRoot)
                => n \in x.born /\ k >= 1 /\ (n \in x.registry => k <= x.build[n])
      BY <1>3, <1>7, <2>1 DEF Planted
    <2>3. \A n \in Elements : Built(x, n) => n \in x.registry /\ RenderOf(x, n) \in DOMAIN x.kids
      BY <1>3, <1>7, <2>1 DEF Planted, Built, RenderOf
    <2>4. x.registry \subseteq x.born /\ x.registry \subseteq Elements
      BY <1>1, <1>3, <1>7 DEF Planted
    <2> QED
      BY <1>3, <1>7, <2>1, <2>2, <2>3, <2>4 DEF Planted
  <1>10. Grown(x, a)
    BY <1>2, <1>3, <1>7, <1>9 DEF Grown
  <1>11. Typed(x)
    BY <1>1, <1>5 DEF Firm, Typed, SameBuilds, SameStyles, Built
  <1>12. Unhung(x)
    <2> SUFFICES ASSUME NEW n \in x.registry, ~x.init[n] PROVE ~Hangs(Rows(x.kids), RenderOf(x, n))
      BY DEF Unhung
    <2>1. RenderOf(x, n) = RenderOf(d, n) /\ d.init[n] = x.init[n]
      BY <1>5 DEF RenderOf, SameBuilds
    <2>2. CASE n = e
      <3>1. d.build[e] \in Nat
        BY <1>1, <1>7 DEF Planted
      <3> QED
        BY <1>3, <1>8, <2>1, <2>2, <3>1 DEF RenderOf
    <2>3. CASE n # e
      BY <1>1, <1>3, <2>1, <2>3 DEF Firm, Unhung
    <2> QED
      BY <2>2, <2>3
  <1>13. Standing(x)
    BY <1>1, <1>5 DEF Firm, Standing, SameBuilds, SameStyles, Built
  <1>14. DownwardBut(x, None)
    BY <1>1, <1>5 DEF DownwardBut, SameBuilds
  <1> QED
    BY <1>6, <1>10, <1>11, <1>12, <1>13, <1>14 DEF Settling, Firm, x

LEMMA FirmPage ==
  ASSUME NEW d, NEW a, Settling(d, a)
  PROVE  Settling(BuildElement(d, Page), a)
  <1> DEFINE x == BuildElement(d, Page)
             S == Subtree(d, Page)
  <1>1. Tree(d) /\ Firm(d, a) /\ Rooted(d) /\ DownwardBut(d, None) /\ Page \in d.registry
    BY DEF Settling, Rooted, Tree
  <1>2. Page \in Elements /\ Page \notin Nodes /\ None \notin Elements
    BY TreesAssumption DEF Elements, ConstantsBounded
  <1>3. Buildable(d, Page)
    BY <1>1, <1>2 DEF Buildable
  <1>4. Island(d, Page, S)
    <2>1. /\ S \subseteq Elements /\ Page \in S
          /\ \A n \in Elements : d.parent[n] \in S => n \in S
      BY <1>1, <1>2, SubtreeClosed, SubtreeParents
    <2>2. d.parent[Page] = None
      BY <1>1, <1>2, PlaceOfChild
    <2> HIDE DEF S
    <2> QED
      BY <1>2, <2>1, <2>2 DEF Island
  <1>5. DownwardBut(d, Page)
    BY <1>1, <1>2 DEF DownwardBut, Elements
  <1> HIDE DEF S
  <1>6. Firm(x, a) /\ BuildOnly(d, x) /\ DownwardBut(x, None)
    BY <1>1, <1>2, <1>3, <1>4, <1>5, BuiltFirm
  <1> HIDE DEF x
  <1>7. Rooted(x)
    BY <1>1, <1>6, BuildComposes, InPlaceKeeps
  <1> QED
    BY <1>6, <1>7 DEF Settling, x

LEMMA FirmRestyle ==
  ASSUME NEW d, NEW a, Settling(d, a), NEW e \in Nodes, e \in d.registry, NEW v \in Positions
  PROVE  LET w == [d EXCEPT !.want[e] = v]
         IN  Settling(IF d.init[e] THEN invalidateStyle(w, e) ELSE w, a)
  <1> DEFINE w == [d EXCEPT !.want[e] = v]
             x == invalidateStyle(w, e)
  <1>1. /\ Tree(d) /\ IsDoc(d) /\ e \in Elements /\ d.registry \subseteq Elements /\ e # Page
        /\ Rooted(d) /\ Firm(d, a) /\ DownwardBut(d, None)
    <2>1. Rooted(d) /\ Tree(d) /\ Firm(d, a) /\ DownwardBut(d, None)
      BY DEF Settling, Rooted
    <2>2. IsDoc(d) /\ d.registry \subseteq Elements
      BY <2>1 DEF Tree
    <2>3. e \in Elements /\ e # Page
      BY TreesAssumption DEF Elements, ConstantsBounded
    <2> QED
      BY <2>1, <2>2, <2>3
  <1>2. /\ IsDoc(w) /\ SameTree(d, w) /\ w.want = [d.want EXCEPT ![e] = v]
        /\ SameBuilds(d, w)
    <2>1. IsDoc(w) /\ SameTree(d, w)
      BY <1>1 DEF IsDoc, SameTree
    <2>2. SameBuilds(d, w) /\ w.want = [d.want EXCEPT ![e] = v]
      BY <1>1 DEF IsDoc, SameBuilds
    <2> QED
      BY <2>1, <2>2
  <1>3. /\ w.invalid = d.invalid /\ w.descend = d.descend /\ w.dirty = d.dirty
        /\ w.kids = d.kids /\ w.calls = d.calls
    BY <1>1 DEF IsDoc
  <1> HIDE DEF w
  <1>4. Tree(w) /\ Rooted(w) /\ w.descend \subseteq Elements
    BY <1>1, <1>2, <1>3 DEF Rooted, Tree, SameTree
  <1>5. Typed(w) /\ Standing(w) /\ Unhung(w) /\ DownwardBut(w, None)
    <2>1. Typed(w)
      BY <1>1, <1>2 DEF Firm, Typed, SameBuilds, Built
    <2>2. Standing(w)
      <3>1. w.want[Page] = "static"
        BY <1>1, <1>2 DEF Firm, Standing, Typed, Elements
      <3> QED
        BY <1>1, <1>2, <1>3, <3>1 DEF Firm, Standing, SameBuilds, SameTree, Built
    <2>3. Unhung(w)
      BY <1>1, <1>2, <1>3 DEF Firm, Unhung, SameBuilds, SameTree, RenderOf
    <2>4. DownwardBut(w, None)
      BY <1>1, <1>2 DEF DownwardBut, SameBuilds, SameTree
    <2> QED
      BY <2>1, <2>2, <2>3, <2>4
  <1>6. Firm(w, a)
    <2>1. SameRenders(d, w)
      BY <1>2, <1>3 DEF SameRenders, SameTree, SameBuilds
    <2>2. Grown(w, a)
      BY <1>1, <1>2, <2>1, SameGrown DEF Firm
    <2> QED
      BY <1>5, <2>2 DEF Firm
  <1>7. ASSUME d.init[e] PROVE Settling(x, a)
    <2>1. /\ IsDoc(x) /\ SameTree(w, x) /\ SameBuilds(w, x)
          /\ x.want = w.want /\ x.invalid = w.invalid \cup {e}
          /\ x.dirty = (w.dirty \/ Built(w, e))
          /\ x.kids = w.kids /\ x.calls = w.calls
          /\ \A M : MarksAbove(w, e, M) => x.descend \subseteq M
      BY <1>1, <1>4, InvalidatedFields
    <2> HIDE DEF x
    <2>2. Rooted(x)
      <3>1. MarksAbove(w, e, w.registry)
        BY <1>1, <1>2, <1>4 DEF MarksAbove, Rooted, Tree, SameTree
      <3>2. Tree(x)
        BY <1>4, <2>1 DEF Tree, SameTree
      <3> QED
        BY <1>1, <1>2, <1>4, <2>1, <3>1, <3>2 DEF Rooted, SameTree
    <2>3. Grown(x, a)
      <3>1. SameRenders(w, x)
        BY <2>1 DEF SameRenders, SameTree, SameBuilds
      <3> QED
        BY <1>6, <2>1, <3>1, SameGrown DEF Firm
    <2>4. Typed(x)
      BY <1>5, <2>1 DEF Typed, SameBuilds, Built
    <2>5. Unhung(x)
      BY <1>5, <2>1 DEF Unhung, SameBuilds, SameTree, RenderOf
    <2>6. Standing(x)
      <3>1. x.init[Page]
        BY <1>1, <1>2, <1>5, <1>7, <2>1 DEF Standing, SameBuilds
      <3> QED
        BY <1>5, <2>1, <3>1 DEF Standing, SameBuilds, SameTree, Built
    <2>7. DownwardBut(x, None)
      BY <1>5, <2>1 DEF DownwardBut, SameBuilds, SameTree
    <2> QED
      BY <2>2, <2>3, <2>4, <2>5, <2>6, <2>7 DEF Settling, Firm
  <1>8. Settling(w, a)
    BY <1>4, <1>5, <1>6 DEF Settling
  <1> HIDE DEF x
  <1>9. Settling(IF d.init[e] THEN x ELSE w, a)
    BY <1>7, <1>8
  <1> QED
    BY <1>9 DEF x, w

-----------------------------------------------------------------------------
(* The resolver builds again what is built, and so leaves the render nodes *)
(* there are.                                                              *)
Rebuilt(d, x, a) == InPlace(d, x) /\ Firm(x, a) /\ SamePlaces(d, x) /\ x.init = d.init
LEMMA ResolveChildFirm ==
  ASSUME NEW d, Tree(d), NEW a, Firm(d, a), NEW e \in Nodes, d.init[e]
  PROVE  Rebuilt(d, ResolveChild(d, e), a)
  <1> DEFINE m == [d EXCEPT !.invalid = @ \ {e}, !.style[e] = d.want[e]]
             x == BuildProcess(m, e, d.style[e])
  <1>1. /\ e \in Elements /\ IsDoc(d) /\ e # Page /\ Page \in Elements /\ None \notin Elements
        /\ InPlace(d, ResolveChild(d, e))
    BY TreesAssumption, ResolveChildParts DEF Elements, Tree, ConstantsBounded
  <1>2. CASE e \notin d.invalid
    BY <1>1, <1>2 DEF ResolveChild, Rebuilt, SamePlaces
  <1>3. CASE e \in d.invalid
    <2>1. /\ IsDoc(m) /\ m.want = d.want /\ m.style = [d.style EXCEPT ![e] = d.want[e]]
          /\ m.dirty = d.dirty /\ m.init = d.init /\ m.ignore = d.ignore /\ m.build = d.build
          /\ SameTree(d, m) /\ m.kids = d.kids /\ m.calls = d.calls
      <3>1. d = [n \in Fields |-> d[n]]
        BY <1>1, DocIsRecord
      <3>2. m = [n \in Fields |-> m[n]]
        BY <3>1
      <3>3. /\ m.want = d.want /\ m.init = d.init /\ m.ignore = d.ignore /\ m.build = d.build
            /\ m.dirty = d.dirty /\ m.kids = d.kids /\ m.calls = d.calls
        BY <1>1 DEF IsDoc
      <3>4. m.style = [d.style EXCEPT ![e] = d.want[e]]
        BY <1>1 DEF IsDoc
      <3>5. SameTree(d, m)
        BY <1>1 DEF IsDoc, SameTree
      <3> HIDE DEF m
      <3> QED
        BY <3>2, <3>3, <3>4, <3>5, DocIsRecord
    <2> HIDE DEF m
    <2>2. Tree(m) /\ m.registry = d.registry /\ m.parent = d.parent
      BY <2>1 DEF Tree, SameTree
    <2>3. Firm(m, a)
      <3>1. SameRenders(d, m)
        BY <2>1 DEF SameRenders, SameTree
      <3>2. Grown(m, a)
        BY <2>1, <3>1, SameGrown DEF Firm
      <3>3. Typed(m)
        BY <1>1, <2>1 DEF Firm, Typed, Built
      <3>4. Unhung(m)
        BY <2>1, <2>2 DEF Firm, Unhung, RenderOf
      <3>5. Standing(m)
        <4>1. m.style[Page] = d.style[Page]
          BY <1>1, <2>1 DEF Firm, Typed
        <4> QED
          BY <2>1, <2>2, <4>1 DEF Firm, Standing, Built
      <3> QED
        BY <3>2, <3>3, <3>4, <3>5 DEF Firm
    <2>4. m.init[e] /\ d.style[e] \in Positions
      BY <1>1, <2>1 DEF Firm, Typed
    <2>5. Buildable(m, e)
      <3>1. m.parent[e] \in Elements /\ Built(m, m.parent[e]) /\ m.init[Page]
        BY <1>1, <2>3, <2>4 DEF Firm, Standing
      <3>2. e \in m.registry
        BY <1>1, <2>2, <3>1 DEF Tree
      <3> QED
        BY <3>1, <3>2 DEF Buildable
    <2>6. Firm(x, a) /\ SamePlaces(m, x)
      BY <1>1, <2>2, <2>3, <2>4, <2>5, ProcessFirm DEF SamePlaces
    <2>7. x.init = d.init
      <3>1. Processed(m, x, e)
        BY <2>1, ProcessFields
      <3> HIDE DEF x
      <3>2. d.init \in [Elements -> BOOLEAN]
        BY DEF Firm, Typed
      <3> QED
        BY <1>1, <2>1, <3>1, <3>2 DEF Processed
    <2>8. ResolveChild(d, e) = x
      BY <1>3 DEF ResolveChild, m
    <2> HIDE DEF x
    <2> QED
      BY <1>1, <2>1, <2>6, <2>7, <2>8 DEF Rebuilt, SamePlaces
  <1> QED
    BY <1>2, <1>3

ResolvingFirm(d, a, s) ==
    /\ Rebuilt(d, s.doc, a) /\ s.todo \in Seq(Elements)
    /\ \A t \in ToSet(s.todo) : d.init[t]
LEMMA ResolveNextFirm ==
  ASSUME NEW d, Tree(d), NEW a, NEW s, ResolvingFirm(d, a, s), NEW e \in Nodes, d.init[e]
  PROVE  ResolvingFirm(d, a, ResolveNext(s, e))
  <1> DEFINE r == ResolveChild(s.doc, e)
             y == [r EXCEPT !.descend = @ \ {e}]
             x == ResolveNext(s, e)
  <1>1. /\ InPlace(d, s.doc) /\ Firm(s.doc, a) /\ SamePlaces(d, s.doc) /\ s.doc.init = d.init
        /\ s.todo \in Seq(Elements) /\ e \in Elements
    BY DEF ResolvingFirm, Rebuilt, Elements
  <1>2. Rebuilt(s.doc, r, a)
    <2>1. Tree(s.doc)
      BY <1>1, InPlaceKeeps
    <2> QED
      BY <1>1, <2>1, ResolveChildFirm
  <1>3. x = IF e \in s.doc.descend THEN [doc |-> y, todo |-> <<e>> \o s.todo]
            ELSE [doc |-> r, todo |-> s.todo]
    BY DEF ResolveNext
  <1> HIDE DEF r
  <1>4. Rebuilt(d, r, a)
    BY <1>1, <1>2, BuildComposes DEF Rebuilt, SamePlaces
  <1>5. Rebuilt(d, y, a)
    <2>1. IsDoc(r)
      BY <1>4 DEF Rebuilt, InPlace
    <2>2. /\ IsDoc(y) /\ SameTree(r, y) /\ y.flaws = r.flaws
          /\ y.want = r.want /\ y.invalid = r.invalid /\ y.descend = r.descend \ {e}
          /\ y.dirty = r.dirty
      BY <2>1 DEF IsDoc, SameTree
    <2>3. SameBuilds(r, y) /\ y.kids = r.kids /\ y.calls = r.calls
      BY <2>1 DEF IsDoc, SameBuilds
    <2> HIDE DEF y
    <2>4. InPlace(d, y)
      <3>1. InPlace(r, y)
        BY <2>2 DEF InPlace
      <3> QED
        BY <1>4, <3>1, BuildComposes DEF Rebuilt
    <2>5. Firm(y, a)
      <3>1. SameRenders(r, y) /\ y.parent = r.parent
        BY <2>2, <2>3 DEF SameRenders, SameTree, SameBuilds
      <3>2. Firm(r, a)
        BY <1>4 DEF Rebuilt
      <3> QED
        BY <2>2, <2>3, <3>1, <3>2, SameFirm
    <2> QED
      BY <1>4, <2>3, <2>4, <2>5 DEF Rebuilt, SamePlaces, SameBuilds
  <1> HIDE DEF y
  <1>6. /\ <<e>> \o s.todo \in Seq(Elements)
        /\ \A t \in ToSet(<<e>> \o s.todo) : d.init[t]
    BY <1>1, PushedOnTop DEF ResolvingFirm
  <1>7. CASE e \in s.doc.descend
    <2>1. x.doc = y /\ x.todo = <<e>> \o s.todo
      BY <1>3, <1>7
    <2> HIDE DEF x
    <2> QED
      BY <1>5, <1>6, <2>1 DEF ResolvingFirm, x
  <1>8. CASE e \notin s.doc.descend
    <2>1. x.doc = r /\ x.todo = s.todo
      BY <1>3, <1>8
    <2> HIDE DEF x
    <2> QED
      BY <1>4, <2>1 DEF ResolvingFirm, x
  <1> QED
    BY <1>7, <1>8

LEMMA ResolveChildrenFirm ==
  ASSUME NEW d, Tree(d), NEW a, DownwardBut(d, None), NEW s, ResolvingFirm(d, a, s)
  PROVE  ResolvingFirm(d, a, ResolveChildren(s))
  <1>1. CASE s.todo = <<>>
    BY <1>1 DEF ResolveChildren
  <1>2. CASE s.todo # <<>>
    <2> DEFINE h == Head(s.todo)
               es == s.doc.children[h]
    <2>1. /\ h \in Elements /\ Tail(s.todo) \in Seq(Elements)
          /\ ToSet(s.todo) = {h} \cup ToSet(Tail(s.todo)) /\ d.init[h]
      BY <1>2, TailWithin, HeadAndTail DEF ResolvingFirm
    <2>2. es = s.doc.children[Head(s.todo)]
      OBVIOUS
    <2>3. es = d.children[h]
      BY DEF ResolvingFirm, Rebuilt, InPlace, SameTree
    <2> HIDE DEF h, es
    <2>4. /\ es \in Seq(Nodes) /\ Len(es) \in Nat
          /\ \A j \in 1 .. Len(es) : es[j] \in Nodes /\ d.init[es[j]]
      <3>1. /\ es \in Seq(Nodes) /\ Len(es) \in Nat
            /\ \A j \in 1 .. Len(es) : es[j] \in Nodes /\ d.parent[es[j]] = h
        BY <2>1, <2>3, RowMembers
      <3>2. None \notin Elements /\ None \notin Nodes
        BY TreesAssumption DEF ConstantsBounded, Elements
      <3>3. \A n \in Nodes : d.parent[n] = h => d.init[n]
        BY <2>1, <3>2 DEF DownwardBut
      <3> QED
        BY <3>1, <3>3
    <2>5. \E g : ChildSteps(s, es, g)
      BY <1>2, <2>2, <2>4, ChildrenTrace
    <2>6. PICK g : /\ g[0] = [doc |-> s.doc, todo |-> Tail(s.todo)]
                   /\ \A k \in 1 .. Len(es) : g[k] = ResolveNext(g[k - 1], es[Len(es) + 1 - k])
                   /\ ResolveChildren(s) = g[Len(es)]
      BY <2>5 DEF ChildSteps
    <2> DEFINE T == {k \in Nat : k <= Len(es) => ResolvingFirm(d, a, g[k])}
    <2>7. 0 \in T
      <3>1. g[0].doc = s.doc /\ g[0].todo = Tail(s.todo)
        BY <2>6
      <3> QED
        BY <2>1, <3>1 DEF ResolvingFirm
    <2>8. ASSUME NEW k \in Nat, k \in T PROVE k + 1 \in T
      <3>1. k + 1 <= Len(es) =>
              k <= Len(es) /\ k + 1 \in 1 .. Len(es) /\ (k + 1) - 1 = k
              /\ Len(es) + 1 - (k + 1) \in 1 .. Len(es)
        BY <2>4
      <3> DEFINE c == es[Len(es) + 1 - (k + 1)]
      <3>2. k + 1 <= Len(es) => ResolvingFirm(d, a, g[k]) /\ c \in Nodes /\ d.init[c]
        BY <2>4, <2>8, <3>1
      <3>3. k + 1 <= Len(es) => g[k + 1] = ResolveNext(g[k], c)
        BY <2>6, <3>1
      <3> HIDE DEF c
      <3> QED
        BY <3>2, <3>3, ResolveNextFirm
    <2>9. Len(es) \in T
      <3> HIDE DEF T
      <3> QED
        BY <2>4, <2>7, <2>8, Induction
    <2> QED
      BY <2>4, <2>6, <2>9
  <1> QED
    BY <1>1, <1>2

LEMMA FlushStyleFirm ==
  ASSUME NEW d, NEW a, Settling(d, a)
  PROVE  Settling(FlushStyle(d), a) /\ SamePlaces(d, FlushStyle(d))
  <1> DEFINE N == 1 + Cardinality(d.descend)
             r == resolver(d, Page)
             x == [r EXCEPT !.dirty = FALSE]
  <1>1. /\ Tree(d) /\ IsDoc(d) /\ Firm(d, a) /\ Rooted(d) /\ DownwardBut(d, None)
        /\ d.descend \subseteq Elements /\ Page \in Elements
    BY DEF Settling, Rooted, Tree, Elements
  <1>2. CASE ~d.dirty
    BY <1>2 DEF FlushStyle, SamePlaces
  <1>3. CASE d.dirty
    <2>1. Cardinality(d.descend) \in Nat
      BY <1>1, ElementsFinite, FS_Subset, FS_CardinalityType
    <2>2. PICK g : /\ g[0] = [doc |-> d, todo |-> <<Page>>]
                   /\ \A k \in 1 .. N : g[k] = ResolveChildren(g[k - 1])
                   /\ r = g[N].doc
      BY <2>1, ResolveTrace
    <2> DEFINE T == {k \in Nat : k <= N => ResolvingFirm(d, a, g[k])}
    <2>3. 0 \in T
      <3>1. InPlace(d, d)
        BY <1>1, BuildComposes
      <3>2. g[0].doc = d /\ g[0].todo = <<Page>>
        BY <2>2
      <3>3. ToSet(<<Page>>) = {Page} /\ <<Page>> \in Seq(Elements)
        BY <1>1 DEF ToSet
      <3>4. d.init[Page]
        BY <1>1, <1>3 DEF Firm, Standing
      <3> QED
        BY <1>1, <3>1, <3>2, <3>3, <3>4 DEF ResolvingFirm, Rebuilt, SamePlaces
    <2>4. ASSUME NEW k \in Nat, k \in T PROVE k + 1 \in T
      <3>1. k + 1 <= N => k <= N /\ k + 1 \in 1 .. N /\ (k + 1) - 1 = k
        BY <2>1
      <3> QED
        BY <1>1, <2>2, <2>4, <3>1, ResolveChildrenFirm
    <2>5. N \in T /\ N <= N
      <3>1. N \in Nat /\ N <= N
        BY <2>1
      <3> HIDE DEF T, N
      <3> QED
        BY <2>3, <2>4, <3>1, Induction
    <2>6. Rebuilt(d, r, a)
      BY <2>2, <2>5 DEF ResolvingFirm
    <2>7. FlushStyle(d) = x
      BY <1>3 DEF FlushStyle
    <2> HIDE DEF r
    <2>8. IsDoc(r) /\ Rooted(r) /\ Firm(r, a) /\ DownwardBut(r, None)
      <3>1. InPlace(d, r) /\ r.init = d.init
        BY <2>6 DEF Rebuilt
      <3>2. r.parent = d.parent /\ IsDoc(r)
        BY <3>1 DEF InPlace, SameTree
      <3> QED
        BY <1>1, <2>6, <3>1, <3>2, InPlaceKeeps DEF Rebuilt, DownwardBut
    <2>9. IsDoc(x)
      <3>1. r = [n \in Fields |-> r[n]]
        BY <2>8, DocIsRecord
      <3>2. x = [n \in Fields |-> x[n]]
        BY <3>1
      <3> HIDE DEF x
      <3> QED
        BY <3>2, DocIsRecord
    <2>10. /\ SameTree(r, x) /\ SameBuilds(r, x) /\ x.want = r.want /\ x.invalid = r.invalid
           /\ x.descend = r.descend /\ x.kids = r.kids /\ x.calls = r.calls /\ x.dirty = FALSE
      <3>1. SameTree(r, x)
        BY <2>8 DEF IsDoc, SameTree
      <3>2. SameBuilds(r, x)
        BY <2>8 DEF IsDoc, SameBuilds
      <3>3. x.want = r.want /\ x.invalid = r.invalid /\ x.descend = r.descend
        BY <2>8 DEF IsDoc
      <3>4. x.kids = r.kids /\ x.calls = r.calls /\ x.dirty = FALSE
        BY <2>8 DEF IsDoc
      <3> QED
        BY <3>1, <3>2, <3>3, <3>4
    <2> HIDE DEF x
    <2>11. Rooted(x)
      BY <2>8, <2>9, <2>10 DEF Rooted, Tree, SameTree
    <2>12. Firm(x, a)
      <3>1. SameRenders(r, x)
        BY <2>10 DEF SameRenders, SameTree, SameBuilds
      <3>2. Grown(x, a)
        BY <2>8, <2>9, <3>1, SameGrown DEF Firm
      <3>3. Typed(x)
        BY <2>8, <2>10 DEF Firm, Typed, SameBuilds, Built
      <3>4. Unhung(x)
        BY <2>8, <2>10 DEF Firm, Unhung, SameBuilds, SameTree, RenderOf
      <3>5. Standing(x)
        BY <2>8, <2>10 DEF Firm, Standing, SameBuilds, SameTree, Built
      <3> QED
        BY <3>2, <3>3, <3>4, <3>5 DEF Firm
    <2>13. DownwardBut(x, None)
      BY <2>8, <2>10 DEF DownwardBut, SameBuilds, SameTree
    <2>14. SamePlaces(d, x)
      BY <2>6, <2>10 DEF SamePlaces, Rebuilt
    <2> QED
      BY <2>7, <2>11, <2>12, <2>13, <2>14 DEF Settling
  <1> QED
    BY <1>2, <1>3

-----------------------------------------------------------------------------
(* The replay.  A call that is skipped leaves a row without its child until *)
(* the child is removed: t is s without the elements of X, in its order.   *)
Thinned(s, t, X) ==
    /\ Distinct(t) /\ \A x : Listed(t, x) <=> Listed(s, x) /\ x \notin X
    /\ \A u, v : Ahead(t, u, v) <=> Ahead(s, u, v) /\ u \notin X /\ v \notin X
LEMMA AheadListed ==
  ASSUME NEW C, NEW s \in Seq(C), NEW u, NEW v, Ahead(s, u, v)
  PROVE  Listed(s, u) /\ Listed(s, v)
  BY DEF Ahead, Listed

(* Insertion keeps the order of the others.                                *)
LEMMA InsertedOrder ==
  ASSUME NEW C, NEW s \in Seq(C), Distinct(s), NEW e \in C, ~Listed(s, e), NEW i \in 1 .. Len(s) + 1
  PROVE  \A u, v : Ahead(s, u, v) <=> Ahead(InsertAt(s, i, e), u, v) /\ u # e /\ v # e
  <1> DEFINE t == InsertAt(s, i, e)
  <1>1. Len(s) \in Nat
    OBVIOUS
  <1>2. t \in Seq(C) /\ Wider(s, i, e, t)
    BY WidenedRow
  <1>3. Distinct(t)
    BY InsertedRow DEF InsertedIn
  <1> HIDE DEF t
  <1>4. /\ Len(t) = Len(s) + 1
        /\ \A k \in 1 .. Len(s) + 1 :
              t[k] = IF k < i THEN s[k] ELSE IF k = i THEN e ELSE s[k - 1]
    BY <1>2 DEF Wider
  <1>5. i \in 1 .. Len(t) /\ t[i] = e
    BY <1>1, <1>4
  <1>6. /\ RemoveAt(t, i) \in Seq(C) /\ RemovedFrom(t, RemoveAt(t, i), t[i])
        /\ Len(RemoveAt(t, i)) = Len(t) - 1
        /\ \A k \in 1 .. Len(t) - 1 : RemoveAt(t, i)[k] = IF k < i THEN t[k] ELSE t[k + 1]
    BY <1>2, <1>3, <1>5, RemovedRow, RemovedAt
  <1> DEFINE r == RemoveAt(t, i)
  <1> HIDE DEF r
  <1>7. r = s
    <2>1. r \in Seq(C) /\ Len(r) = Len(s)
      BY <1>1, <1>4, <1>6 DEF r
    <2>2. \A k \in 1 .. Len(s) : r[k] = s[k]
      <3> TAKE k \in 1 .. Len(s)
      <3>1. k \in 1 .. Len(t) - 1 /\ k \in 1 .. Len(s) + 1 /\ k + 1 \in 1 .. Len(s) + 1 /\ (k + 1) - 1 = k
        BY <1>1, <1>4
      <3>2. r[k] = IF k < i THEN t[k] ELSE t[k + 1]
        BY <1>6, <3>1 DEF r
      <3>3. CASE k < i
        BY <1>4, <3>1, <3>2, <3>3
      <3>4. CASE ~(k < i)
        <4>1. ~(k + 1 < i) /\ k + 1 # i
          BY <3>1, <3>4
        <4>2. t[k + 1] = s[k]
          BY <1>4, <3>1, <4>1
        <4> QED
          BY <3>2, <3>4, <4>2
      <3> QED
        BY <3>3, <3>4
    <2> QED
      BY <2>1, <2>2
  <1>8. RemovedFrom(t, s, e)
    BY <1>5, <1>6, <1>7 DEF r
  <1> QED
    BY <1>8 DEF RemovedFrom, t

LEMMA ThinAppend ==
  ASSUME NEW C, NEW s \in Seq(C), NEW t \in Seq(C), NEW X, Distinct(s), Thinned(s, t, X),
         NEW e \in C, ~Listed(s, e), e \notin X
  PROVE  Thinned(InsertAt(s, Len(s) + 1, e), Append(t, e), X) /\ Append(t, e) \in Seq(C)
  <1> DEFINE ss == InsertAt(s, Len(s) + 1, e)
             tt == Append(t, e)
  <1>1. ~Listed(t, e) /\ Distinct(t)
    BY DEF Thinned
  <1>2. Len(s) + 1 \in 1 .. Len(s) + 1 /\ Len(t) + 1 \in 1 .. Len(t) + 1
    OBVIOUS
  <1>3. ss = Append(s, e) /\ \A u, v : Ahead(ss, u, v) <=> Ahead(s, u, v) \/ (Listed(s, u) /\ v = e)
    <2>1. /\ ss = Append(s, e)
          /\ \A u, v : Ahead(Append(s, e), u, v) <=> Ahead(s, u, v) \/ (Listed(s, u) /\ v = e)
      BY AppendedRow, Zenon
    <2> HIDE DEF ss
    <2> QED
      BY <2>1, Zenon
  <1>4. /\ InsertAt(t, Len(t) + 1, e) = tt
        /\ \A u, v : Ahead(tt, u, v) <=> Ahead(t, u, v) \/ (Listed(t, u) /\ v = e)
    BY AppendedRow, Zenon
  <1>5. InsertedIn(s, ss, e)
    BY <1>2, InsertedRow
  <1>6. InsertedIn(t, tt, e)
    BY <1>1, <1>2, <1>4, InsertedRow
  <1>7. tt \in Seq(C)
    OBVIOUS
  <1> HIDE DEF ss, tt
  <1>8. \A u, v : Ahead(tt, u, v) <=> Ahead(ss, u, v) /\ u \notin X /\ v \notin X
    BY <1>3, <1>4 DEF Thinned
  <1>9. Distinct(tt) /\ \A x : Listed(tt, x) <=> Listed(ss, x) /\ x \notin X
    BY <1>5, <1>6 DEF Thinned, InsertedIn
  <1>10. Thinned(ss, tt, X)
    BY <1>8, <1>9 DEF Thinned
  <1> QED
    BY <1>7, <1>10 DEF ss, tt

LEMMA ThinLost ==
  ASSUME NEW C, NEW s \in Seq(C), NEW t \in Seq(C), NEW X, Distinct(s), Thinned(s, t, X),
         NEW e \in C, ~Listed(s, e), NEW i \in 1 .. Len(s) + 1
  PROVE  Thinned(InsertAt(s, i, e), t, X \cup {e})
  <1> DEFINE ss == InsertAt(s, i, e)
  <1>1. \A u, v : Ahead(s, u, v) <=> Ahead(ss, u, v) /\ u # e /\ v # e
    BY InsertedOrder
  <1>2. InsertedIn(s, ss, e)
    BY InsertedRow
  <1> HIDE DEF ss
  <1>3. Thinned(ss, t, X \cup {e})
    BY <1>1, <1>2 DEF Thinned, InsertedIn
  <1> QED
    BY <1>3 DEF ss

LEMMA ThinSame ==
  ASSUME NEW C, NEW s \in Seq(C), NEW X, Distinct(s), \A x \in X : ~Listed(s, x)
  PROVE  Thinned(s, s, X) /\ \A t \in Seq(C) : Thinned(s, t, X) => t = s
  <1>1. \A u, v : Ahead(s, u, v) => u \notin X /\ v \notin X
    BY AheadListed
  <1>2. Thinned(s, s, X)
    BY <1>1 DEF Thinned
  <1>3. ASSUME NEW t \in Seq(C), Thinned(s, t, X) PROVE t = s
    <2>1. Distinct(t) /\ \A x : Listed(t, x) <=> Listed(s, x)
      BY <1>3 DEF Thinned
    <2>2. \A u, v : Ahead(t, u, v) <=> Ahead(s, u, v)
      BY <1>1, <1>3 DEF Thinned
    <2> QED
      BY <2>1, <2>2, SameOrder
  <1> QED
    BY <1>2, <1>3

LEMMA ThinErase ==
  ASSUME NEW C, NEW s \in Seq(C), NEW t \in Seq(C), NEW X, Distinct(s), Thinned(s, t, X), NEW e
  PROVE  Thinned(Erased(s, e), Erased(t, e), X \ {e}) /\ Erased(t, e) \in Seq(C)
  <1>1. Distinct(t)
    BY DEF Thinned
  <1>2. RemovedFrom(s, Erased(s, e), e)
    BY ErasedRow
  <1>3. Erased(t, e) \in Seq(C) /\ RemovedFrom(t, Erased(t, e), e)
    BY <1>1, ErasedRow
  <1>4. Thinned(Erased(s, e), Erased(t, e), X \ {e})
    BY <1>2, <1>3 DEF Thinned, RemovedFrom
  <1> QED
    BY <1>3, <1>4

LEMMA ThinAside ==
  ASSUME NEW C, NEW s \in Seq(C), NEW t, NEW X, Thinned(s, t, X), NEW e, ~Listed(s, e)
  PROVE  Thinned(s, t, X \ {e}) /\ Thinned(s, t, X \cup {e})
  <1>1. \A u, v : Ahead(s, u, v) => u # e /\ v # e
    BY AheadListed
  <1> QED
    BY <1>1 DEF Thinned

-----------------------------------------------------------------------------
(* A call that is skipped, and the child it leaves out: pending from there *)
(* until it is removed.  b: the rows at the end.                           *)
Lost(b, c) == c.op # "remove" /\ ~Hangs(b, c.child)
Removes(c, x) == c.op = "remove" /\ c.child = x
PendingFrom(calls, b, f, m, x, i) ==
    /\ Lost(b, calls[i]) /\ calls[i].child = x /\ Listed(f[calls[i].parent], x)
    /\ \A k \in i .. m : ~Removes(calls[k], x)
Pending(calls, b, f, m, x) == \E i \in 1 .. m : PendingFrom(calls, b, f, m, x, i)
(* No index counts a child that is pending.                                *)
Counted(calls, b) ==
    \A i, j \in 1 .. Len(calls) :
        i < j /\ Lost(b, calls[i]) /\ calls[j].op = "insert" /\ calls[j].parent = calls[i].parent
            => \E k \in i .. j : Removes(calls[k], calls[i].child)
Replayed(calls, b, D, f, n, m) ==
    /\ n = [r \in D |-> n[r]] /\ \A q \in D : n[q] \in Seq(AllRenders)
    /\ \E X : /\ \A q \in D : Thinned(f[q], n[q], X)
              /\ \A x \in X : Pending(calls, b, f, m, x)

LEMMA PendingKept ==
  ASSUME NEW calls \in Seq(Calls), NEW b, NEW f, NEW h, NEW m \in Nat, m + 1 \in 1 .. Len(calls),
         RowsAfter(f, calls[m + 1], h), NEW x, Pending(calls, b, f, m, x),
         ~Removes(calls[m + 1], x)
  PROVE  Pending(calls, b, h, m + 1, x)
  <1>1. PICK i \in 1 .. m : PendingFrom(calls, b, f, m, x, i)
    BY DEF Pending
  <1>2. i \in 1 .. m + 1 /\ i \in 1 .. Len(calls)
    OBVIOUS
  <1>3. calls[i].parent \in AllRenders
    <2>1. calls[i] \in Calls
      BY <1>2
    <2> QED
      BY <2>1 DEF Calls
  <1>4. Listed(h[calls[i].parent], x)
    BY <1>1, <1>3 DEF PendingFrom, RowsAfter, Removes
  <1>5. \A k \in i .. m + 1 : k \in i .. m \/ k = m + 1
    BY <1>2
  <1>6. \A k \in i .. m + 1 : ~Removes(calls[k], x)
    BY <1>1, <1>5 DEF PendingFrom
  <1>7. PendingFrom(calls, b, h, m + 1, x, i)
    BY <1>1, <1>4, <1>6 DEF PendingFrom
  <1> QED
    BY <1>2, <1>7 DEF Pending

LEMMA PendingNew ==
  ASSUME NEW calls \in Seq(Calls), NEW b, NEW h, NEW m \in Nat, m + 1 \in 1 .. Len(calls),
         NEW c, c = calls[m + 1], Lost(b, c), Listed(h[c.parent], c.child)
  PROVE  Pending(calls, b, h, m + 1, c.child)
  <1>1. \A k \in m + 1 .. m + 1 : k = m + 1
    OBVIOUS
  <1>2. PendingFrom(calls, b, h, m + 1, c.child, m + 1)
    BY <1>1 DEF PendingFrom, Lost, Removes
  <1>3. m + 1 \in 1 .. m + 1
    OBVIOUS
  <1> QED
    BY <1>2, <1>3 DEF Pending

(* A row with a pending child is not inserted into.                        *)
LEMMA NonePending ==
  ASSUME NEW calls \in Seq(Calls), NEW b, Counted(calls, b), NEW f, OnePlace(f),
         NEW m \in Nat, m + 1 \in 1 .. Len(calls), NEW c, c = calls[m + 1], c.op = "insert",
         NEW x, Pending(calls, b, f, m, x)
  PROVE  ~Listed(f[c.parent], x)
  <1> SUFFICES ASSUME Listed(f[c.parent], x) PROVE FALSE
    OBVIOUS
  <1>1. PICK i \in 1 .. m : PendingFrom(calls, b, f, m, x, i)
    BY DEF Pending
  <1>2. i \in 1 .. Len(calls) /\ i < m + 1
    OBVIOUS
  <1>3. calls[i].parent \in AllRenders /\ c.parent \in AllRenders
    <2>1. calls[i] \in Calls /\ c \in Calls
      BY <1>2
    <2> QED
      BY <2>1 DEF Calls
  <1>4. calls[i].parent = c.parent
    BY <1>1, <1>3 DEF PendingFrom, OnePlace
  <1>5. PICK k \in i .. m + 1 : Removes(calls[k], calls[i].child)
    BY <1>1, <1>2, <1>4 DEF Counted, PendingFrom
  <1>6. k \in i .. m \/ k = m + 1
    BY <1>2
  <1> QED
    BY <1>1, <1>5, <1>6 DEF PendingFrom, Removes

(* One row written.                                                        *)
LEMMA RowWritten ==
  ASSUME NEW D, NEW n, n = [r \in D |-> n[r]], \A q \in D : n[q] \in Seq(AllRenders),
         NEW p \in D, NEW v \in Seq(AllRenders), NEW x, x = [n EXCEPT ![p] = v]
  PROVE  /\ x = [r \in D |-> x[r]] /\ \A q \in D : x[q] \in Seq(AllRenders)
         /\ x[p] = v /\ \A q \in D : q # p => x[q] = n[q]
  <1>1. DOMAIN n = D
    OBVIOUS
  <1>2. x[p] = v /\ \A q \in D : q # p => x[q] = n[q]
    BY <1>1
  <1>3. x = [r \in D |-> x[r]]
    <2>1. x = [r \in D |-> IF r = p THEN v ELSE n[r]]
      BY <1>1
    <2> QED
      BY <1>2, <2>1
  <1> QED
    BY <1>2, <1>3

-----------------------------------------------------------------------------
(* One call of the replay, on the row of its parent.                       *)
LEMMA MakeCallRow ==
  ASSUME NEW d, NEW n, NEW c \in Calls, ~Skipped(d, c)
  PROVE  /\ c.op = "add" => MakeCall(d, n, c) = [n EXCEPT ![c.parent] = Append(n[c.parent], c.child)]
         /\ c.op = "insert" => MakeCall(d, n, c) =
                [n EXCEPT ![c.parent] = insertChildAt(n[c.parent], c.child, c.index)]
         /\ c.op = "remove" => MakeCall(d, n, c) = [n EXCEPT ![c.parent] = Erased(n[c.parent], c.child)]
  BY DEF MakeCall, addChild

LEMMA NotPending ==
  ASSUME NEW calls, NEW b, NEW f, NEW m, NEW x, Pending(calls, b, f, m, x)
  PROVE  ~Hangs(b, x)
  BY DEF Pending, PendingFrom, Lost

LEMMA ReplayLost ==
  ASSUME NEW calls \in Seq(Calls), NEW b, NEW D, D \subseteq AllRenders,
         NEW m \in Nat, m + 1 \in 1 .. Len(calls), NEW c, c = calls[m + 1],
         NEW f, NEW h, Wood(f), Made(f, c, h), NEW n, Replayed(calls, b, D, f, n, m),
         c.parent \in D, Lost(b, c)
  PROVE  Replayed(calls, b, D, h, n, m + 1)
  <1> DEFINE p == c.parent
             e == c.child
  <1>1. c \in Calls /\ p \in AllRenders /\ e \in AllRenders /\ c.op # "remove"
    <2>1. c \in Calls
      OBVIOUS
    <2> QED
      BY <2>1 DEF Calls, Lost
  <1>2. Wood(h) /\ RowsAfter(f, c, h)
    BY <1>1, MadeWood
  <1>3. PICK X : (\A q \in D : Thinned(f[q], n[q], X)) /\ (\A x \in X : Pending(calls, b, f, m, x))
    BY DEF Replayed
  <1>4. ~Hangs(f, e) /\ c.index \in 1 .. Len(f[p]) + 1 /\ h = [f EXCEPT ![p] = InsertAt(@, c.index, e)]
    BY <1>1 DEF Made, PutIn
  <1>5. f \in [AllRenders -> Seq(AllRenders)] /\ \A q \in AllRenders : Distinct(f[q])
    BY DEF Wood
  <1>6. \A q \in D : n[q] \in Seq(AllRenders) /\ f[q] \in Seq(AllRenders)
    BY <1>5 DEF Replayed
  <1>7. \A q \in AllRenders : ~Listed(f[q], e)
    BY <1>4 DEF Hangs
  <1>8. \A q \in D : Thinned(h[q], n[q], X \cup {e})
    <2> TAKE q \in D
    <2>1. CASE q = p
      <3>1. h[q] = InsertAt(f[q], c.index, e) /\ c.index \in 1 .. Len(f[q]) + 1
        BY <1>1, <1>4, <1>5, <2>1
      <3>2. ~Listed(f[q], e) /\ Distinct(f[q]) /\ Thinned(f[q], n[q], X) /\ e \in AllRenders
        BY <1>1, <1>3, <1>5, <1>7
      <3> HIDE DEF e
      <3>3. Thinned(InsertAt(f[q], c.index, e), n[q], X \cup {e})
        BY <1>6, <3>1, <3>2, ThinLost
      <3> QED
        BY <3>1, <3>3
    <2>2. CASE q # p
      <3>1. h[q] = f[q]
        BY <1>4, <1>5, <2>2
      <3>2. ~Listed(f[q], e) /\ Thinned(f[q], n[q], X) /\ f[q] \in Seq(AllRenders)
        BY <1>3, <1>6, <1>7
      <3> HIDE DEF e
      <3> QED
        BY <3>1, <3>2, ThinAside
    <2> QED
      BY <2>1, <2>2
  <1>9. \A x \in X \cup {e} : Pending(calls, b, h, m + 1, x)
    <2>1. ASSUME NEW x \in X PROVE Pending(calls, b, h, m + 1, x)
      <3>1. ~Removes(calls[m + 1], x) /\ RowsAfter(f, calls[m + 1], h)
        BY <1>1, <1>2 DEF Removes
      <3> QED
        BY <1>3, <3>1, PendingKept
    <2>2. Listed(h[p], e)
      BY <1>1, <1>2 DEF RowsAfter
    <2>3. Pending(calls, b, h, m + 1, e)
      BY <2>2, PendingNew
    <2> QED
      BY <2>1, <2>3
  <1> QED
    BY <1>8, <1>9 DEF Replayed

LEMMA ReplayPut ==
  ASSUME NEW calls \in Seq(Calls), NEW b, Counted(calls, b), NEW D, D \subseteq AllRenders,
         NEW m \in Nat, m + 1 \in 1 .. Len(calls), NEW c, c = calls[m + 1],
         NEW f, NEW h, Wood(f), Made(f, c, h), NEW n, Replayed(calls, b, D, f, n, m),
         c.parent \in D, c.op # "remove", ~Lost(b, c), NEW d, ~Skipped(d, c)
  PROVE  Replayed(calls, b, D, h, MakeCall(d, n, c), m + 1)
  <1> DEFINE p == c.parent
             e == c.child
             s == f[p]
             t == n[p]
  <1>1. c \in Calls /\ p \in AllRenders /\ e \in AllRenders /\ c.op \in {"add", "insert"}
    <2>1. c \in Calls
      OBVIOUS
    <2> QED
      BY <2>1 DEF Calls
  <1>2. Wood(h) /\ RowsAfter(f, c, h)
    BY <1>1, MadeWood
  <1>3. PICK X : (\A q \in D : Thinned(f[q], n[q], X)) /\ (\A x \in X : Pending(calls, b, f, m, x))
    BY DEF Replayed
  <1>4. /\ ~Hangs(f, e) /\ c.index \in 1 .. Len(s) + 1 /\ h = [f EXCEPT ![p] = InsertAt(@, c.index, e)]
        /\ c.op = "add" => c.index = Len(s) + 1
    BY DEF Made, PutIn
  <1>5. f \in [AllRenders -> Seq(AllRenders)] /\ \A q \in AllRenders : Distinct(f[q])
    BY DEF Wood
  <1>6. t \in Seq(AllRenders) /\ s \in Seq(AllRenders) /\ Distinct(s) /\ ~Listed(s, e) /\ Thinned(s, t, X)
    BY <1>1, <1>3, <1>4, <1>5 DEF Replayed, Hangs
  <1>7. e \notin X
    BY <1>3, NotPending DEF Lost
  <1>8. h[p] = InsertAt(s, c.index, e) /\ \A q \in D : q # p => h[q] = f[q]
    BY <1>1, <1>4, <1>5
  <1>9. \E v \in Seq(AllRenders) : MakeCall(d, n, c) = [n EXCEPT ![p] = v] /\ Thinned(h[p], v, X)
    <2>1. CASE c.op = "add"
      <3>1. MakeCall(d, n, c) = [n EXCEPT ![p] = Append(t, e)] /\ h[p] = InsertAt(s, Len(s) + 1, e)
        <4>1. MakeCall(d, n, c) = [n EXCEPT ![p] = Append(t, e)]
          <5>1. c \in Calls /\ ~Skipped(d, c)
            BY <1>1
          <5>2. MakeCall(d, n, c) = [n EXCEPT ![c.parent] = Append(n[c.parent], c.child)]
            BY <5>1, <2>1 DEF MakeCall, addChild
          <5> QED
            BY <5>2, Zenon
        <4>2. h[p] = InsertAt(s, Len(s) + 1, e)
          BY <1>4, <1>8, <2>1, Zenon
        <4> QED
          BY <4>1, <4>2
      <3> HIDE DEF p, e, s, t
      <3>2. Thinned(InsertAt(s, Len(s) + 1, e), Append(t, e), X) /\ Append(t, e) \in Seq(AllRenders)
        BY <1>1, <1>6, <1>7, ThinAppend
      <3> QED
        BY <3>1, <3>2
    <2>2. CASE c.op = "insert"
      <3>1. \A x \in X : ~Listed(s, x)
        BY <1>3, <2>2, NonePending DEF Wood
      <3>2. t = s
        <4> HIDE DEF s, t
        <4> QED
          BY <1>6, <3>1, ThinSame
      <3>3. MakeCall(d, n, c) = [n EXCEPT ![p] = insertChildAt(t, e, c.index)]
        BY <1>1, <2>2, MakeCallRow
      <3>4. insertChildAt(t, e, c.index) = h[p]
        <4>1. Len(s) \in Nat
          BY <1>6
        <4>2. (IF c.index > Len(s) THEN Len(s) + 1 ELSE c.index) = c.index
          BY <1>4, <4>1
        <4> HIDE DEF s, t
        <4> QED
          BY <1>8, <3>2, <4>2 DEF insertChildAt
      <3>5. h[p] \in Seq(AllRenders) /\ Distinct(h[p])
        BY <1>1, <1>2 DEF Wood
      <3>6. \A x \in X : ~Listed(h[p], x)
        BY <1>1, <1>2, <1>7, <3>1 DEF RowsAfter
      <3> HIDE DEF p, e, s, t
      <3>7. Thinned(h[p], h[p], X)
        BY <3>5, <3>6, ThinSame
      <3> QED
        BY <3>3, <3>4, <3>5, <3>7
    <2> QED
      BY <1>1, <2>1, <2>2
  <1>10. PICK v \in Seq(AllRenders) : MakeCall(d, n, c) = [n EXCEPT ![p] = v] /\ Thinned(h[p], v, X)
    BY <1>9
  <1> DEFINE x == MakeCall(d, n, c)
  <1>11. n = [r \in D |-> n[r]] /\ \A q \in D : n[q] \in Seq(AllRenders)
    BY DEF Replayed
  <1> HIDE DEF x, p
  <1>12. /\ x = [r \in D |-> x[r]] /\ \A q \in D : x[q] \in Seq(AllRenders)
         /\ x[p] = v /\ \A q \in D : q # p => x[q] = n[q]
    <2>1. p \in D /\ x = [n EXCEPT ![p] = v]
      BY <1>10 DEF x, p
    <2> QED
      BY <1>11, <2>1, RowWritten
  <1>13. \A q \in D : Thinned(h[q], x[q], X)
    BY <1>3, <1>8, <1>10, <1>12
  <1>14. \A y \in X : Pending(calls, b, h, m + 1, y)
    <2> TAKE y \in X
    <2>1. ~Removes(calls[m + 1], y) /\ RowsAfter(f, calls[m + 1], h)
      BY <1>1, <1>2 DEF Removes
    <2> QED
      BY <1>3, <2>1, PendingKept
  <1> QED
    BY <1>12, <1>13, <1>14 DEF Replayed, x

LEMMA ReplayTaken ==
  ASSUME NEW calls \in Seq(Calls), NEW b, NEW D, D \subseteq AllRenders,
         NEW m \in Nat, m + 1 \in 1 .. Len(calls), NEW c, c = calls[m + 1],
         NEW f, NEW h, Wood(f), Made(f, c, h), NEW n, Replayed(calls, b, D, f, n, m),
         c.parent \in D, c.op = "remove", NEW d
  PROVE  Replayed(calls, b, D, h, MakeCall(d, n, c), m + 1)
  <1> DEFINE p == c.parent
             e == c.child
             s == f[p]
             t == n[p]
             v == Erased(t, e)
             x == MakeCall(d, n, c)
  <1>1. c \in Calls /\ p \in AllRenders /\ e \in AllRenders
    <2>1. c \in Calls
      OBVIOUS
    <2> QED
      BY <2>1 DEF Calls
  <1>2. Wood(h) /\ RowsAfter(f, c, h)
    BY <1>1, MadeWood
  <1>3. PICK X : (\A q \in D : Thinned(f[q], n[q], X)) /\ (\A y \in X : Pending(calls, b, f, m, y))
    BY DEF Replayed
  <1>4. Listed(s, e) /\ h = [f EXCEPT ![p] = Erased(@, e)]
    BY DEF Made, TakenOut
  <1>5. f \in [AllRenders -> Seq(AllRenders)] /\ (\A q \in AllRenders : Distinct(f[q])) /\ OnePlace(f)
    BY DEF Wood
  <1>6. t \in Seq(AllRenders) /\ s \in Seq(AllRenders) /\ Distinct(s) /\ Thinned(s, t, X)
    BY <1>1, <1>3, <1>5 DEF Replayed
  <1>7. h[p] = Erased(s, e) /\ \A q \in D : q # p => h[q] = f[q]
    BY <1>1, <1>4, <1>5
  <1>8. \A q \in D : q # p => ~Listed(f[q], e)
    BY <1>1, <1>4, <1>5 DEF OnePlace
  <1>9. Thinned(Erased(s, e), v, X \ {e}) /\ v \in Seq(AllRenders)
    <2> HIDE DEF s, t, e
    <2> QED
      BY <1>6, ThinErase DEF v
  <1>10. x = [n EXCEPT ![p] = v]
    BY <1>1, MakeCallRow DEF Skipped
  <1>11. n = [r \in D |-> n[r]] /\ \A q \in D : n[q] \in Seq(AllRenders)
    BY DEF Replayed
  <1>12. /\ x = [r \in D |-> x[r]] /\ \A q \in D : x[q] \in Seq(AllRenders)
         /\ x[p] = v /\ \A q \in D : q # p => x[q] = n[q]
    <2>1. p \in D
      OBVIOUS
    <2> HIDE DEF x, v, p
    <2> QED
      BY <1>9, <1>10, <1>11, <2>1, RowWritten
  <1>13. \A q \in D : Thinned(h[q], x[q], X \ {e})
    <2> TAKE q \in D
    <2>1. CASE q = p
      <3> HIDE DEF x, v, s, t, e, p
      <3> QED
        BY <1>7, <1>9, <1>12, <2>1
    <2>2. CASE q # p
      <3>1. h[q] = f[q] /\ x[q] = n[q] /\ ~Listed(f[q], e) /\ f[q] \in Seq(AllRenders)
        <4> HIDE DEF x, v, e, p
        <4> QED
          BY <1>5, <1>7, <1>8, <1>12, <2>2
      <3>2. Thinned(f[q], n[q], X)
        BY <1>3
      <3> HIDE DEF x, e, p
      <3> QED
        BY <3>1, <3>2, ThinAside
    <2> QED
      BY <2>1, <2>2
  <1>14. \A y \in X \ {e} : Pending(calls, b, h, m + 1, y)
    <2> TAKE y \in X \ {e}
    <2>1. ~Removes(calls[m + 1], y) /\ RowsAfter(f, calls[m + 1], h)
      BY <1>1, <1>2 DEF Removes
    <2> QED
      BY <1>3, <2>1, PendingKept
  <1> HIDE DEF x, e
  <1>15. Replayed(calls, b, D, h, x, m + 1)
    BY <1>12, <1>13, <1>14 DEF Replayed
  <1> QED
    BY <1>15 DEF x

LEMMA ReplayStep ==
  ASSUME NEW calls \in Seq(Calls), NEW b, Counted(calls, b), NEW D, D \subseteq AllRenders,
         NEW m \in Nat, m + 1 \in 1 .. Len(calls), NEW c, c = calls[m + 1],
         NEW f, NEW h, Wood(f), Made(f, c, h), NEW n, Replayed(calls, b, D, f, n, m),
         c.parent \in D, NEW d, Skipped(d, c) <=> Lost(b, c)
  PROVE  Replayed(calls, b, D, h, MakeCall(d, n, c), m + 1)
  <1>1. CASE Lost(b, c)
    <2>1. MakeCall(d, n, c) = n
      BY <1>1 DEF MakeCall
    <2> QED
      BY <1>1, <2>1, ReplayLost
  <1>2. CASE ~Lost(b, c) /\ c.op # "remove"
    BY <1>2, ReplayPut
  <1>3. CASE c.op = "remove"
    BY <1>3, ReplayTaken
  <1> QED
    BY <1>1, <1>2, <1>3

-----------------------------------------------------------------------------
(* What the flush makes of the calls: the rows of the render tree.         *)
LEMMA SkippedLost ==
  ASSUME NEW d, NEW a, Grown(d, a), NEW c
  PROVE  Skipped(d, c) <=> Lost(Rows(d.kids), c)
  <1>1. None \notin DOMAIN d.kids
    BY TreesAssumption DEF ConstantsBounded, Grown, Planted, AllRenders, Elements
  <1>2. \A q \in DOMAIN d.kids : Contains(d.kids[q], c.child) <=> Listed(Rows(d.kids)[q], c.child)
    BY GrownWood DEF Contains, Listed
  <1>3. \A q \in AllRenders : q \notin DOMAIN d.kids => ~Listed(Rows(d.kids)[q], c.child)
    BY DEF Rows, Listed
  <1>4. Hangs(Rows(d.kids), c.child) <=> \E q \in DOMAIN d.kids : Contains(d.kids[q], c.child)
    BY <1>2, <1>3, GrownWood DEF Hangs
  <1>5. ParentRef(d, c.child) = None <=> ~\E q \in DOMAIN d.kids : Contains(d.kids[q], c.child)
    BY <1>1 DEF ParentRef
  <1> QED
    BY <1>4, <1>5 DEF Skipped, Lost

LEMMA NoMiscount ==
  ASSUME NEW d, NEW a, Grown(d, a), Miscounts(d) = {}
  PROVE  Counted(d.calls, Rows(d.kids))
  <1> DEFINE c == d.calls
  <1>1. DOMAIN c = 1 .. Len(c) /\ \A i \in 1 .. Len(c) : c[i] \in Calls
    BY GrownWood
  <1>2. ~\E i, j \in DOMAIN c :
            /\ i < j /\ Skipped(d, c[i])
            /\ c[j].op = "insert" /\ c[j]["parent"] = c[i].parent
            /\ ~\E k \in i .. j : c[k].op = "remove" /\ c[k]["child"] = c[i].child
    BY DEF Miscounts
  <1>3. \A i \in 1 .. Len(c) : Skipped(d, c[i]) <=> Lost(Rows(d.kids), c[i])
    BY SkippedLost
  <1> QED
    BY <1>1, <1>2, <1>3 DEF Counted, Removes

LEMMA ReplayedStart ==
  ASSUME NEW calls, NEW b, NEW D, D \subseteq AllRenders, NEW n, n = [r \in D |-> n[r]],
         DOMAIN n = D, Wood(Rows(n))
  PROVE  Replayed(calls, b, D, Rows(n), n, 0)
  <1>1. \A q \in D : q \in AllRenders /\ Rows(n)[q] = n[q]
    BY DEF Rows
  <1>2. \A q \in D : n[q] \in Seq(AllRenders) /\ Distinct(n[q])
    BY <1>1 DEF Wood
  <1>3. \A q \in D : Thinned(Rows(n)[q], n[q], {})
    BY <1>1, <1>2, ThinSame
  <1>4. \A x \in {} : Pending(calls, b, Rows(n), 0, x)
    OBVIOUS
  <1>5. \E X : /\ \A q \in D : Thinned(Rows(n)[q], n[q], X)
               /\ \A x \in X : Pending(calls, b, Rows(n), 0, x)
    <2> DEFINE X == {}
    <2>1. (\A q \in D : Thinned(Rows(n)[q], n[q], X)) /\ (\A x \in X : Pending(calls, b, Rows(n), 0, x))
      BY <1>3, <1>4
    <2> HIDE DEF X
    <2> QED
      BY <2>1
  <1>6. n = [r \in D |-> n[r]] /\ \A q \in D : n[q] \in Seq(AllRenders)
    BY <1>2
  <1> QED
    BY <1>5, <1>6, Zenon DEF Replayed

OnlyOn(D, n) == n = [r \in D |-> n[r]]
LEMMA ReplayedEnd ==
  ASSUME NEW calls, NEW b, Wood(b), NEW D, D \subseteq AllRenders, NEW n, NEW m,
         Replayed(calls, b, D, b, n, m)
  PROVE  OnlyOn(D, n) /\ \A q \in D : n[q] = b[q]
  <1>1. PICK X : (\A q \in D : Thinned(b[q], n[q], X)) /\ (\A x \in X : Pending(calls, b, b, m, x))
    BY DEF Replayed
  <1>2. \A x \in X : ~Hangs(b, x)
    BY <1>1, NotPending
  <1>3. \A q \in D : \A x \in X : ~Listed(b[q], x)
    BY <1>2 DEF Hangs
  <1>4. \A q \in D : b[q] \in Seq(AllRenders) /\ Distinct(b[q]) /\ n[q] \in Seq(AllRenders)
    BY DEF Wood, Replayed
  <1>5. \A q \in D : n[q] = b[q]
    BY <1>1, <1>3, <1>4, ThinSame
  <1> QED
    BY <1>5 DEF Replayed, OnlyOn

LEMMA ReplayRows ==
  ASSUME NEW d, NEW n, Grown(d, Rows(n)), Miscounts(d) = {},
         DOMAIN n = DOMAIN d.kids, n = [r \in DOMAIN n |-> n[r]]
  PROVE  LET x == Replay(d, n, d.calls)
         IN  /\ DOMAIN x = DOMAIN d.kids /\ x = [r \in DOMAIN d.kids |-> x[r]]
             /\ \A q \in DOMAIN d.kids : x[q] = d.kids[q]
  <1> DEFINE D == DOMAIN d.kids
             b == Rows(d.kids)
             calls == d.calls
             N == Len(calls)
             x == Replay(d, n, calls)
  <1>1. /\ calls \in Seq(Calls) /\ N \in Nat /\ Wood(b) /\ D \subseteq AllRenders
        /\ \A q \in D : b[q] = d.kids[q]
    BY GrownWood
  <1>2. PICK g : History(calls, Rows(n), b, g)
    BY DEF Grown, Tracked
  <1>3. PICK t : /\ t[0] = n
                 /\ \A k \in 1 .. N : t[k] = MakeCall(d, t[k - 1], calls[k])
                 /\ x = t[N]
    <2>1. Len(calls) \in Nat
      BY <1>1
    <2> HIDE DEF calls
    <2>2. \E t : CallSteps(d, n, calls, t)
      BY <2>1, ReplayTrace
    <2> QED
      BY <2>2 DEF CallSteps
  <1>4. Counted(calls, b)
    BY NoMiscount
  <1>5. \A k \in 1 .. N : calls[k].parent \in D
    BY DEF Grown, Planted
  <1> DEFINE T == {m \in Nat : m <= N => Replayed(calls, b, D, g[m], t[m], m)}
  <1>6. 0 \in T
    <2>1. g[0] = Rows(n) /\ Wood(Rows(n))
      BY <1>1, <1>2 DEF History
    <2>2. Replayed(calls, b, D, Rows(n), n, 0)
      <3> HIDE DEF calls, b
      <3> QED
        BY <1>1, <2>1, ReplayedStart
    <2> QED
      BY <1>3, <2>1, <2>2
  <1>7. ASSUME NEW m \in Nat, m \in T PROVE m + 1 \in T
    <2> SUFFICES ASSUME m + 1 <= N PROVE Replayed(calls, b, D, g[m + 1], t[m + 1], m + 1)
      OBVIOUS
    <2>1. m + 1 \in 1 .. N /\ m \in 0 .. N /\ (m + 1) - 1 = m /\ m <= N
      BY <1>1
    <2>2. Wood(g[m]) /\ Made(g[m], calls[m + 1], g[m + 1])
      BY <1>2, <2>1 DEF History
    <2>3. t[m + 1] = MakeCall(d, t[m], calls[m + 1]) /\ calls[m + 1].parent \in D
      BY <1>3, <1>5, <2>1
    <2>4. Replayed(calls, b, D, g[m], t[m], m)
      BY <1>7, <2>1
    <2>5. Skipped(d, calls[m + 1]) <=> Lost(b, calls[m + 1])
      BY SkippedLost
    <2>6. calls \in Seq(Calls) /\ D \subseteq AllRenders /\ m + 1 \in 1 .. Len(calls)
      BY <1>1, <2>1
    <2> HIDE DEF T, x, b, calls, D, N
    <2>7. Replayed(calls, b, D, g[m + 1], MakeCall(d, t[m], calls[m + 1]), m + 1)
      BY <1>4, <2>2, <2>3, <2>4, <2>5, <2>6, ReplayStep
    <2> QED
      BY <2>3, <2>7
  <1>8. N \in T
    <2> HIDE DEF T
    <2> QED
      BY <1>1, <1>6, <1>7, Induction
  <1>9. Replayed(calls, b, D, b, x, N)
    BY <1>1, <1>2, <1>3, <1>8 DEF History
  <1> HIDE DEF x
  <1>10. OnlyOn(D, x) /\ \A q \in D : x[q] = b[q]
    <2> HIDE DEF b, D, calls, N, T
    <2> QED
      <3>1. Wood(b) /\ D \subseteq AllRenders /\ Replayed(calls, b, D, b, x, N)
        BY <1>1, <1>9
      <3>2. OnlyOn(D, x)
        BY <3>1, ReplayedEnd
      <3>3. \A q \in D : x[q] = b[q]
        BY <3>1, ReplayedEnd
      <3> QED
        BY <3>2, <3>3
  <1>11. DOMAIN x = D
    BY <1>10, Zenon DEF OnlyOn
  <1> QED
    BY <1>1, <1>10, <1>11 DEF x, OnlyOn

-----------------------------------------------------------------------------
(* Render nodes nothing holds go, with their rows.                         *)
Cut(f, H) == [q \in AllRenders |-> IF q \in H THEN f[q] ELSE <<>>]
LEMMA CutWood ==
  ASSUME NEW f, Wood(f), NEW H
  PROVE  Wood(Cut(f, H)) /\ \A x : Hangs(Cut(f, H), x) => Hangs(f, x)
  <1> DEFINE h == Cut(f, H)
  <1>1. \A q \in AllRenders : h[q] = f[q] \/ h[q] = <<>>
    BY DEF Cut
  <1>2. <<>> \in Seq(AllRenders) /\ Distinct(<<>>) /\ \A x : ~Listed(<<>>, x)
    BY DEF Distinct, Listed
  <1>3. f \in [AllRenders -> Seq(AllRenders)] /\ (\A q \in AllRenders : Distinct(f[q])) /\ OnePlace(f)
    BY DEF Wood
  <1>4. \A q \in AllRenders : \A x : Listed(h[q], x) => Listed(f[q], x)
    BY <1>1, <1>2
  <1>5. h \in [AllRenders -> Seq(AllRenders)]
    <2>1. \A q \in AllRenders : (IF q \in H THEN f[q] ELSE <<>>) \in Seq(AllRenders)
      BY <1>2, <1>3
    <2> QED
      BY <2>1, Zenon DEF Cut
  <1> HIDE DEF h
  <1>6. \A q \in AllRenders : Distinct(h[q])
    BY <1>1, <1>2, <1>3
  <1>7. OnePlace(h)
    BY <1>3, <1>4 DEF OnePlace
  <1>8. \A x : Hangs(h, x) => Hangs(f, x)
    BY <1>4 DEF Hangs
  <1>9. Wood(h)
    BY <1>5, <1>6, <1>7 DEF Wood
  <1> QED
    BY <1>8, <1>9 DEF h

LEMMA CutMade ==
  ASSUME NEW f, Wood(f), NEW c \in Calls, NEW h, Made(f, c, h), NEW H, c.parent \in H
  PROVE  Made(Cut(f, H), c, Cut(h, H))
  <1> DEFINE p == c.parent
             ff == Cut(f, H)
             hh == Cut(h, H)
  <1>1. p \in AllRenders /\ f \in [AllRenders -> Seq(AllRenders)]
    BY DEF Calls, Wood
  <1>2. ff[p] = f[p] /\ DOMAIN ff = AllRenders /\ ff = [q \in AllRenders |-> ff[q]]
    BY <1>1 DEF Cut
  <1>3. \A x : Hangs(ff, x) => Hangs(f, x)
    BY CutWood
  <1>4. ASSUME NEW v, h = [f EXCEPT ![p] = v]
        PROVE  hh = [ff EXCEPT ![p] = v]
    <2>1. h[p] = v /\ \A q \in AllRenders : q # p => h[q] = f[q]
      BY <1>1, <1>4
    <2>2. \A q \in AllRenders : (IF q \in H THEN h[q] ELSE <<>>) = IF q = p THEN v ELSE ff[q]
      BY <1>1, <2>1 DEF Cut
    <2>3. hh = [q \in AllRenders |-> IF q = p THEN v ELSE ff[q]]
      BY <2>2, Zenon DEF Cut
    <2> HIDE DEF ff, hh
    <2> QED
      BY <1>1, <1>2, <2>3
  <1> HIDE DEF ff, hh
  <1>5. CASE c.op = "remove"
    <2>1. TakenOut(f, c, h)
      BY <1>5 DEF Made
    <2>2. hh = [ff EXCEPT ![p] = Erased(f[p], c.child)]
      BY <1>4, <2>1 DEF TakenOut
    <2>3. TakenOut(ff, c, hh)
      BY <1>2, <2>1, <2>2 DEF TakenOut
    <2> QED
      BY <1>5, <2>3 DEF Made, ff, hh
  <1>6. CASE c.op # "remove"
    <2>1. PutIn(f, c, h)
      BY <1>6 DEF Made
    <2>2. hh = [ff EXCEPT ![p] = InsertAt(f[p], c.index, c.child)]
      BY <1>4, <2>1 DEF PutIn
    <2>3. PutIn(ff, c, hh)
      BY <1>2, <1>3, <2>1, <2>2 DEF PutIn
    <2> QED
      BY <1>6, <2>3 DEF Made, ff, hh
  <1> QED
    BY <1>5, <1>6

LEMMA CutTracked ==
  ASSUME NEW calls, NEW a, NEW b, Tracked(calls, a, b), NEW H,
         \A i \in 1 .. Len(calls) : calls[i].parent \in H
  PROVE  Tracked(calls, Cut(a, H), Cut(b, H))
  <1>1. calls \in Seq(Calls) /\ Len(calls) \in Nat
    BY DEF Tracked
  <1>2. PICK g : History(calls, a, b, g)
    BY DEF Tracked
  <1> DEFINE h == [m \in 0 .. Len(calls) |-> Cut(g[m], H)]
  <1>3. \A m \in 0 .. Len(calls) : h[m] = Cut(g[m], H) /\ Wood(g[m])
    BY <1>2 DEF History
  <1>4. 0 \in 0 .. Len(calls) /\ Len(calls) \in 0 .. Len(calls)
    BY <1>1
  <1>5. h[0] = Cut(a, H) /\ h[Len(calls)] = Cut(b, H)
    BY <1>2, <1>3, <1>4 DEF History
  <1> HIDE DEF h
  <1>6. \A m \in 0 .. Len(calls) : Wood(h[m])
    BY <1>3, CutWood
  <1>7. \A m \in 1 .. Len(calls) : Made(h[m - 1], calls[m], h[m])
    <2> TAKE m \in 1 .. Len(calls)
    <2>1. m \in 0 .. Len(calls) /\ m - 1 \in 0 .. Len(calls) /\ calls[m] \in Calls /\ calls[m].parent \in H
      BY <1>1
    <2>2. Made(g[m - 1], calls[m], g[m]) /\ Wood(g[m - 1])
      BY <1>2, <1>3, <2>1 DEF History
    <2>3. Made(Cut(g[m - 1], H), calls[m], Cut(g[m], H))
      BY <2>1, <2>2, CutMade
    <2> QED
      BY <1>3, <2>1, <2>3
  <1>8. History(calls, Cut(a, H), Cut(b, H), h)
    BY <1>5, <1>6, <1>7 DEF History
  <1> QED
    BY <1>1, <1>8 DEF Tracked

-----------------------------------------------------------------------------
LEMMA CutRows ==
  ASSUME NEW f, NEW H, H \subseteq AllRenders
  PROVE  Rows([r \in H |-> IF r \in DOMAIN f THEN f[r] ELSE <<>>]) = Cut(Rows(f), H)
  <1> DEFINE y == [r \in H |-> IF r \in DOMAIN f THEN f[r] ELSE <<>>]
  <1>1. \A q \in H : y[q] = IF q \in DOMAIN f THEN f[q] ELSE <<>>
    OBVIOUS
  <1>2. DOMAIN y = H
    OBVIOUS
  <1> HIDE DEF y
  <1>3. \A q \in AllRenders : (IF q \in DOMAIN y THEN y[q] ELSE <<>>) = IF q \in H THEN Rows(f)[q] ELSE <<>>
    BY <1>1, <1>2 DEF Rows
  <1>4. Rows(y) = Cut(Rows(f), H)
    BY <1>3, Zenon DEF Rows, Cut
  <1> QED
    BY <1>4 DEF y

LEMMA CutSettling ==
  ASSUME NEW d, NEW a, Settling(d, a), NEW H, H \subseteq DOMAIN d.kids, FixedRoot \in H,
         \A e \in Elements : Built(d, e) => RenderOf(d, e) \in H,
         \A i \in 1 .. Len(d.calls) : d.calls[i].parent \in H,
         NEW x, x = [d EXCEPT !.kids = [r \in H |-> d.kids[r]]]
  PROVE  Settling(x, Cut(a, H))
  <1>1. IsDoc(d) /\ Firm(d, a) /\ Grown(d, a) /\ Rooted(d) /\ Planted(d)
    BY DEF Settling, Firm, Grown
  <1>2. BuildOnly(d, x)
    BY <1>1, BuildFields
  <1>3. SameBuilds(d, x) /\ x.calls = d.calls /\ x.kids = [r \in H |-> d.kids[r]]
    BY <1>1 DEF IsDoc, SameBuilds
  <1>4. SameTree(d, x) /\ SameStyles(d, x) /\ IsDoc(x)
    BY <1>2 DEF BuildOnly
  <1>5. Rooted(x)
    BY <1>1, <1>2, BuildComposes, InPlaceKeeps
  <1>6. H \subseteq AllRenders
    BY <1>1 DEF Planted
  <1>7. Rows(x.kids) = Cut(Rows(d.kids), H)
    <2>1. x.kids = [r \in H |-> IF r \in DOMAIN d.kids THEN d.kids[r] ELSE <<>>]
      BY <1>3
    <2> QED
      BY <1>6, <2>1, CutRows
  <1>8. Tracked(x.calls, Cut(a, H), Rows(x.kids))
    <2>1. Tracked(d.calls, a, Rows(d.kids))
      BY <1>1 DEF Grown
    <2> QED
      BY <1>3, <1>7, <2>1, CutTracked
  <1>9. \A s : Hangs(Rows(x.kids), s) => Hangs(Rows(d.kids), s)
    BY <1>1, <1>7, GrownWood, CutWood
  <1>10. DOMAIN x.kids = H
    BY <1>3
  <1>11. Planted(x)
    <2>1. H \subseteq DOMAIN d.kids
      OBVIOUS
    <2>2. \A y \in Elements, k \in Nat :
              Hangs(Rows(x.kids), <<y, k>>) \/ (<<y, k>> \in DOMAIN x.kids /\ <<y, k>> # FixedRoot)
                 => y \in x.born /\ k >= 1 /\ (y \in x.registry => k <= x.build[y])
      BY <1>1, <1>3, <1>4, <1>9, <1>10, <2>1 DEF Planted, SameTree, SameBuilds
    <2>3. \A y \in Elements : Built(x, y) => y \in x.registry /\ RenderOf(x, y) \in DOMAIN x.kids
      BY <1>1, <1>3, <1>4, <1>10 DEF Planted, SameTree, SameBuilds, Built, RenderOf
    <2>4. \A i \in 1 .. Len(x.calls) : x.calls[i].parent \in DOMAIN x.kids
      BY <1>3, <1>10
    <2> QED
      BY <1>1, <1>3, <1>4, <1>6, <1>10, <2>2, <2>3, <2>4 DEF Planted, SameTree, SameBuilds
  <1>12. Grown(x, Cut(a, H))
    BY <1>4, <1>8, <1>11 DEF Grown
  <1>13. Typed(x)
    BY <1>1, <1>3, <1>4 DEF Firm, Typed, SameBuilds, SameStyles, Built
  <1>14. Unhung(x)
    BY <1>1, <1>3, <1>4, <1>9 DEF Firm, Unhung, SameBuilds, SameTree, RenderOf
  <1>15. Standing(x)
    BY <1>1, <1>3, <1>4 DEF Firm, Standing, SameBuilds, SameTree, SameStyles, Built
  <1>16. DownwardBut(x, None)
    BY <1>3, <1>4 DEF Settling, DownwardBut, SameBuilds, SameTree
  <1> QED
    BY <1>5, <1>12, <1>13, <1>14, <1>15, <1>16 DEF Settling, Firm

(* Between two calls of JS: one native row for each render node there is.  *)
Mirrored ==
    /\ Settling(doc, Rows(native)) /\ DOMAIN native = DOMAIN doc.kids
    /\ OnlyOn(DOMAIN doc.kids, native) /\ OnlyOn(DOMAIN doc.kids, doc.kids)

LEMMA BecomeMirrored ==
  ASSUME NEW d, NEW n, Settling(d, Rows(n)), Become(d, n)
  PROVE  Mirrored'
  <1> DEFINE H == {r \in DOMAIN d.kids : Held(d, r)}
             x == [d EXCEPT !.kids = [r \in H |-> d.kids[r]]]
             y == [r \in H |-> IF r \in DOMAIN n THEN n[r] ELSE <<>>]
  <1>1. doc' = x /\ native' = y
    BY DEF Become
  <1>2. Planted(d) /\ IsDoc(d) /\ d.calls \in Seq(Calls)
    BY GrownWood DEF Settling, Firm, Grown
  <1>3. \A r \in DOMAIN d.kids : Held(d, r) => r \in H
    OBVIOUS
  <1>4. /\ H \subseteq DOMAIN d.kids /\ FixedRoot \in H
        /\ \A e \in Elements : Built(d, e) => RenderOf(d, e) \in H
        /\ \A i \in 1 .. Len(d.calls) : d.calls[i].parent \in H
    <2>1. FixedRoot \in H
      BY <1>2, <1>3 DEF Planted, Held
    <2>2. \A e \in Elements : Built(d, e) => RenderOf(d, e) \in H
      BY <1>2, <1>3 DEF Planted, Held
    <2>3. \A i \in 1 .. Len(d.calls) : d.calls[i].parent \in H
      BY <1>2, <1>3 DEF Planted, Held
    <2> QED
      BY <2>1, <2>2, <2>3
  <1>5. H \subseteq AllRenders
    BY <1>2, <1>4 DEF Planted
  <1>6. x.kids = [r \in H |-> d.kids[r]]
    BY <1>2 DEF IsDoc
  <1>7. DOMAIN y = H /\ OnlyOn(H, y) /\ DOMAIN x.kids = H /\ OnlyOn(H, x.kids)
    BY <1>6 DEF OnlyOn
  <1> HIDE DEF H
  <1>8. Settling(x, Cut(Rows(n), H))
    BY <1>4, CutSettling
  <1>9. Rows(y) = Cut(Rows(n), H)
    BY <1>5, CutRows
  <1> HIDE DEF x, y
  <1> QED
    BY <1>1, <1>7, <1>8, <1>9 DEF Mirrored

-----------------------------------------------------------------------------
LEMMA InitMirrored == Init => Mirrored
  <1> SUFFICES ASSUME Init PROVE Mirrored
    OBVIOUS
  <1>1. Rooted(doc) /\ IsDoc(doc)
    BY InitSound DEF Sound, Rooted, Tree
  <1>2. /\ doc.registry = {Page} /\ doc.born = {Page}
        /\ doc.parent = [e \in Elements |-> None]
        /\ doc.init = [e \in Elements |-> FALSE] /\ doc.ignore = [e \in Elements |-> FALSE]
        /\ doc.build = [e \in Elements |-> 0] /\ doc.style = [e \in Elements |-> "static"]
        /\ doc.want = [e \in Elements |-> "static"] /\ doc.dirty = FALSE
        /\ doc.kids = [r \in {FixedRoot} |-> <<>>] /\ doc.calls = <<>>
        /\ native = [r \in {FixedRoot} |-> <<>>]
    BY DEF Init
  <1>3. FixedRoot \in AllRenders /\ Page \in Elements /\ Nodes \subseteq Elements
    BY DEF FixedRoot, AllRenders, Elements
  <1> DEFINE b == Rows(doc.kids)
             g == [m \in {0} |-> b]
  <1>4. b = [q \in AllRenders |-> <<>>] /\ Rows(native) = b
    BY <1>2 DEF Rows
  <1>5. \A s : ~Hangs(b, s)
    BY <1>4 DEF Hangs, Listed
  <1>6. Wood(b)
    BY <1>4 DEF Wood, Distinct, OnePlace, Listed
  <1>7. Tracked(doc.calls, Rows(native), b)
    <2>1. Len(doc.calls) = 0 /\ doc.calls \in Seq(Calls)
      BY <1>2
    <2>2. g[0] = b
      OBVIOUS
    <2> HIDE DEF g, b
    <2>3. History(doc.calls, Rows(native), b, g)
      BY <1>4, <1>6, <2>1, <2>2 DEF History
    <2> QED
      BY <2>1, <2>3 DEF Tracked
  <1> HIDE DEF b
  <1>8. Planted(doc)
    BY <1>2, <1>3, <1>5 DEF Planted, Built, b
  <1>9. Grown(doc, Rows(native))
    BY <1>1, <1>7, <1>8 DEF Grown, b
  <1>10. Typed(doc)
    BY <1>2 DEF Typed, Positions
  <1>11. Unhung(doc)
    BY <1>5 DEF Unhung, b
  <1>12. Standing(doc) /\ DownwardBut(doc, None)
    BY <1>2, <1>3 DEF Standing, DownwardBut
  <1>13. OnlyOn(DOMAIN doc.kids, native) /\ OnlyOn(DOMAIN doc.kids, doc.kids)
    BY <1>2 DEF OnlyOn
  <1> QED
    BY <1>1, <1>2, <1>9, <1>10, <1>11, <1>12, <1>13 DEF Mirrored, Settling, Firm

(* When the calls have been made, the history begins again.                *)
LEMMA CallsMade ==
  ASSUME NEW s, NEW a, Settling(s, a), NEW v
  PROVE  LET f == [s EXCEPT !.calls = <<>>, !.flaws = @ \cup v]
         IN  /\ Settling(f, Rows(s.kids))
             /\ SameTree(s, f) /\ SameBuilds(s, f) /\ f.kids = s.kids /\ f.flaws = s.flaws \cup v
  <1> DEFINE f == [s EXCEPT !.calls = <<>>, !.flaws = @ \cup v]
  <1>1. IsDoc(s) /\ Rooted(s) /\ Firm(s, a) /\ Grown(s, a) /\ DownwardBut(s, None)
    BY DEF Settling, Firm, Grown
  <1>2. IsDoc(f)
    <2>1. s = [n \in Fields |-> s[n]]
      BY <1>1, DocIsRecord
    <2>2. f = [n \in Fields |-> f[n]]
      BY <2>1
    <2> HIDE DEF f
    <2> QED
      BY <2>2, DocIsRecord
  <1>3. SameTree(s, f) /\ SameStyles(s, f) /\ SameBuilds(s, f)
    <2>1. SameTree(s, f)
      BY <1>1 DEF IsDoc, SameTree
    <2>2. SameStyles(s, f)
      BY <1>1 DEF IsDoc, SameStyles
    <2>3. SameBuilds(s, f)
      BY <1>1 DEF IsDoc, SameBuilds
    <2> QED
      BY <2>1, <2>2, <2>3
  <1>4. f.calls = <<>> /\ f.kids = s.kids /\ f.flaws = s.flaws \cup v
    BY <1>1 DEF IsDoc
  <1> HIDE DEF f
  <1>5. Tracked(f.calls, Rows(s.kids), Rows(f.kids))
    <2> DEFINE b == Rows(s.kids)
               g == [m \in {0} |-> b]
    <2>1. Len(f.calls) = 0 /\ f.calls \in Seq(Calls)
      BY <1>4
    <2>2. g[0] = b
      OBVIOUS
    <2>3. Wood(b) /\ Rows(f.kids) = b
      BY <1>1, <1>4, GrownWood
    <2> HIDE DEF g, b
    <2>4. History(f.calls, b, b, g)
      BY <2>1, <2>2, <2>3 DEF History
    <2>5. Tracked(f.calls, b, b)
      BY <2>1, <2>4 DEF Tracked
    <2> QED
      BY <2>3, <2>5 DEF b
  <1>6. Planted(f)
    <2>1. Len(f.calls) = 0
      BY <1>4
    <2> QED
      BY <1>1, <1>3, <1>4, <2>1 DEF Grown, Planted, SameTree, SameBuilds, Built, RenderOf
  <1>7. Grown(f, Rows(s.kids))
    BY <1>2, <1>5, <1>6 DEF Grown
  <1>8. Typed(f)
    BY <1>1, <1>3 DEF Firm, Typed, SameBuilds, SameStyles, Built
  <1>9. Unhung(f)
    BY <1>1, <1>3, <1>4 DEF Firm, Unhung, SameBuilds, SameTree, RenderOf
  <1>10. Standing(f)
    BY <1>1, <1>3 DEF Firm, Standing, SameBuilds, SameTree, SameStyles, Built
  <1>11. DownwardBut(f, None)
    BY <1>1, <1>3 DEF DownwardBut, SameBuilds, SameTree
  <1>12. Rooted(f)
    BY <1>1, <1>2, <1>3 DEF Rooted, Tree, SameTree, SameStyles
  <1>13. Settling(f, Rows(s.kids))
    BY <1>7, <1>8, <1>9, <1>10, <1>11, <1>12 DEF Settling, Firm
  <1> QED
    BY <1>3, <1>4, <1>13 DEF f

(* The frame: styles, then the calls.                                      *)
LEMMA FlushMirrored ==
  ASSUME "miscount" \in Avoided, Mirrored, Flush
  PROVE  Mirrored'
  <1> DEFINE s == FlushStyle(doc)
             R == Replay(s, native, s.calls)
             f == [s EXCEPT !.calls = <<>>, !.flaws = @ \cup Miscounts(s)]
  <1>1. Settling(s, Rows(native)) /\ DOMAIN s.kids = DOMAIN doc.kids
    BY FlushStyleFirm DEF Mirrored, SamePlaces
  <1>2. f.flaws \cap Avoided = {} /\ Become(f, R)
    BY DEF Flush
  <1> HIDE DEF s
  <1>3. /\ Settling(f, Rows(s.kids))
        /\ f.kids = s.kids /\ f.flaws = s.flaws \cup Miscounts(s)
    BY <1>1, CallsMade
  <1> HIDE DEF f
  <1>4. Miscounts(s) = {}
    <2>1. "miscount" \notin Miscounts(s)
      BY <1>2, <1>3
    <2> QED
      BY <2>1 DEF Miscounts
  <1>5. /\ DOMAIN R = DOMAIN s.kids
        /\ \A q \in DOMAIN s.kids : R[q] = s.kids[q]
    <2>1. DOMAIN native = DOMAIN s.kids /\ native = [r \in DOMAIN native |-> native[r]]
      BY <1>1 DEF Mirrored, OnlyOn
    <2>2. Grown(s, Rows(native))
      BY <1>1 DEF Settling, Firm
    <2> QED
      BY <1>4, <2>1, <2>2, ReplayRows
  <1> HIDE DEF R
  <1>6. Rows(R) = Rows(s.kids)
    BY <1>5 DEF Rows
  <1> QED
    BY <1>2, <1>3, <1>6, BecomeMirrored

LEMMA MirroredStep ==
  ASSUME "miscount" \in Avoided, Mirrored, [Next]_vars
  PROVE  Mirrored'
  <1> DEFINE a == Rows(native)
  <1>1. Settling(doc, a) /\ Rooted(doc) /\ Tree(doc) /\ IsDoc(doc) /\ doc.registry \subseteq Elements
    BY DEF Mirrored, Settling, Rooted, Tree
  <1>2. ASSUME NEW d, Leave(d), Settling(d, a)
        PROVE  Mirrored'
    BY <1>2, BecomeMirrored DEF Leave
  <1> HIDE DEF a
  <1>3. ASSUME NEW e \in Nodes, CreateTaroNode(e)
        PROVE  Mirrored'
    BY <1>1, <1>2, <1>3, FirmCreate DEF CreateTaroNode
  <1>4. ASSUME AppendPage
        PROVE  Mirrored'
    BY <1>1, <1>2, <1>4, FirmPage DEF AppendPage
  <1>5. ASSUME NEW e \in doc.registry \ {Page}, NEW p \in Places(e)
        PROVE  e \in Nodes /\ e \in doc.registry /\ p \in doc.registry /\ p \notin Subtree(doc, e)
    BY <1>1 DEF Places, Elements
  <1>6. ASSUME NEW e \in doc.registry \ {Page}, NEW p \in Places(e), AppendTaroNode(p, e)
        PROVE  Mirrored'
    <2> DEFINE x == appendChild(doc, p, e)
    <2>1. Placed(doc, x, a, e, p)
      BY <1>1, <1>5, FirmAppend
    <2>2. Leave(BuildIfInit(x, p, e))
      BY <1>6 DEF AppendTaroNode
    <2> HIDE DEF x
    <2>3. Settling(BuildIfInit(x, p, e), a)
      BY <1>1, <1>5, <2>1, FirmBuildIfInit DEF Placed
    <2> QED
      BY <1>2, <2>2, <2>3
  <1>7. ASSUME NEW e \in doc.registry \ {Page}, NEW p \in Places(e),
               NEW c \in ToSet(doc.children[p]) \ {e}
        PROVE  c \in Nodes /\ c # e /\ doc.parent[c] = p
    BY <1>1, <1>5, ChildOf
  <1>8. ASSUME NEW e \in doc.registry \ {Page}, NEW p \in Places(e),
               NEW c \in ToSet(doc.children[p]) \ {e}, InsertBeforeTaroNode(p, e, c)
        PROVE  Mirrored'
    <2> DEFINE x == insertBefore(doc, p, e, c)
    <2>1. Placed(doc, x, a, e, p)
      BY <1>1, <1>5, <1>7, FirmInsert
    <2>2. Leave(BuildIfInit(x, p, e))
      BY <1>8 DEF InsertBeforeTaroNode
    <2> HIDE DEF x
    <2>3. Settling(BuildIfInit(x, p, e), a)
      BY <1>1, <1>5, <2>1, FirmBuildIfInit DEF Placed
    <2> QED
      BY <1>2, <2>2, <2>3
  <1>9. ASSUME NEW e \in doc.registry \ {Page}, NEW p \in Places(e),
               NEW c \in ToSet(doc.children[p]) \ {e}, ReplaceTaroNode(p, e, c)
        PROVE  Mirrored'
    <2> DEFINE x == replaceChild(doc, p, e, c)
    <2>1. Rooted(x) /\ Firm(x, a) /\ DownwardBut(x, e) /\ NewPlace(doc, x, e, p)
      BY <1>1, <1>5, <1>7, FirmReplace
    <2>2. Leave(BuildIfInit(x, p, e))
      BY <1>9 DEF ReplaceTaroNode
    <2> HIDE DEF x
    <2>3. Settling(BuildIfInit(x, p, e), a)
      BY <1>1, <1>5, <2>1, FirmBuildIfInit
    <2> QED
      BY <1>2, <2>2, <2>3
  <1>10. ASSUME NEW p \in doc.registry, NEW c \in ToSet(doc.children[p]), RemoveTaroNode(p, c)
         PROVE  Mirrored'
    <2> DEFINE x == removeChild(doc, p, c)
    <2>1. c \in Nodes
      BY <1>1, ChildOf
    <2>2. Rooted(x) /\ Firm(x, a) /\ DownwardBut(x, None)
      BY <1>1, <2>1, FirmRemove DEF Settling
    <2>3. Leave(x)
      BY <1>10 DEF RemoveTaroNode
    <2> HIDE DEF x
    <2> QED
      BY <1>2, <2>2, <2>3 DEF Settling
  <1>11. ASSUME NEW e \in Nodes, NEW v \in Positions, SetStyleAttribute(e, v)
         PROVE  Mirrored'
    <2> DEFINE w == [doc EXCEPT !.want[e] = v]
               x == IF doc.init[e] THEN invalidateStyle(w, e) ELSE w
    <2>1. Settling(x, a)
      BY <1>1, <1>11, FirmRestyle DEF SetStyleAttribute
    <2>2. Leave(x)
      BY <1>11 DEF SetStyleAttribute
    <2> HIDE DEF x
    <2> QED
      BY <1>2, <2>1, <2>2
  <1>12. ASSUME Flush PROVE Mirrored'
    BY <1>12, FlushMirrored
  <1>13. ASSUME UNCHANGED vars PROVE Mirrored'
    BY <1>13 DEF vars, Mirrored
  <1>14. ASSUME NEW e \in doc.registry \ {Page}, NEW p \in Places(e),
                \/ AppendTaroNode(p, e)
                \/ \E c \in ToSet(doc.children[p]) \ {e} :
                      InsertBeforeTaroNode(p, e, c) \/ ReplaceTaroNode(p, e, c)
         PROVE  Mirrored'
    BY <1>6, <1>8, <1>9, <1>14
  <1> QED
    BY <1>3, <1>4, <1>10, <1>11, <1>12, <1>13, <1>14 DEF Next

(* With no call left, the history has no step.                             *)
LEMMA MirroredMeans == Mirrored => NativeMirrors
  <1> SUFFICES ASSUME Mirrored, doc.calls = <<>> PROVE native = doc.kids
    BY DEF NativeMirrors
  <1>1. /\ Grown(doc, Rows(native)) /\ DOMAIN native = DOMAIN doc.kids
        /\ native = [r \in DOMAIN doc.kids |-> native[r]]
        /\ doc.kids = [r \in DOMAIN doc.kids |-> doc.kids[r]]
    BY DEF Mirrored, Settling, Firm, OnlyOn
  <1>2. Rows(native) = Rows(doc.kids)
    <2>1. Len(doc.calls) = 0
      OBVIOUS
    <2> QED
      BY <1>1, <2>1 DEF Grown, Tracked, History
  <1>3. \A r \in DOMAIN doc.kids : native[r] = doc.kids[r]
    <2> TAKE r \in DOMAIN doc.kids
    <2>1. r \in AllRenders
      BY <1>1, GrownWood
    <2>2. Rows(native)[r] = native[r] /\ Rows(doc.kids)[r] = doc.kids[r]
      BY <1>1, <2>1 DEF Rows
    <2> QED
      BY <1>2, <2>2
  <1> QED
    BY <1>1, <1>3

(* After a frame the native tree is the render tree, whatever the calls of *)
(* JS, if no delayed insertion is left out that a later index counts: the  *)
(* calls lead from the native rows to those of the render tree, and a      *)
(* child that was left out hangs nowhere at the end (addDelayedCall,       *)
(* FlushMount in arkui_node.cpp).                                          *)
THEOREM NativeMirrorsAlways == ("miscount" \in Avoided /\ Spec) => []NativeMirrors
  <1> SUFFICES ASSUME "miscount" \in Avoided PROVE Spec => []NativeMirrors
    OBVIOUS
  <1>1. Init => Mirrored
    BY InitMirrored
  <1>2. Mirrored /\ [Next]_vars => Mirrored'
    BY MirroredStep
  <1>3. Mirrored => NativeMirrors
    BY MirroredMeans
  <1> QED
    BY <1>1, <1>2, <1>3, PTL DEF Spec
=============================================================================
