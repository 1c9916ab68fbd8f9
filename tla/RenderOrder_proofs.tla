------------------------- MODULE RenderOrder_proofs -------------------------
(***************************************************************************)
(* The order of the rows of the render tree, for any number of elements,   *)
(* calls of JS and changes of style.  First what the order of a list is,   *)
(* then where an element is put (AppendOrInsertIntoParent), that building, *)
(* detaching and destroying keep the order, and the handlers and the       *)
(* resolver in turn.                                                       *)
(***************************************************************************)
EXTENDS Document_proofs

-----------------------------------------------------------------------------
(* The order of rows.  Where insertion puts a child: behind those up to    *)
(* its place, ahead of the others.                                         *)
LEMMA InsertedPlace ==
  ASSUME NEW C, NEW s \in Seq(C), NEW e \in C, NEW i \in 1 .. Len(s) + 1, NEW j \in 1 .. Len(s)
  PROVE  /\ j < i => Ahead(InsertAt(s, i, e), s[j], e)
         /\ j >= i => Ahead(InsertAt(s, i, e), e, s[j])
  <1> DEFINE t == InsertAt(s, i, e)
  <1>1. Wider(s, i, e, t) /\ Len(s) \in Nat
    BY WidenedRow
  <1> HIDE DEF t
  <1>2. Len(t) = Len(s) + 1 /\ t[i] = e /\ i \in 1 .. Len(t)
    BY <1>1 DEF Wider
  <1>3. ASSUME j < i PROVE Ahead(t, s[j], e)
    <2>1. j \in 1 .. Len(t) /\ t[j] = s[j]
      BY <1>1, <1>3 DEF Wider
    <2> QED
      BY <1>2, <1>3, <2>1 DEF Ahead
  <1>4. ASSUME j >= i PROVE Ahead(t, e, s[j])
    <2> DEFINE k == j + 1
    <2>1. k \in 1 .. Len(s) + 1 /\ ~(k < i) /\ k # i /\ k - 1 = j /\ i < k
      BY <1>1, <1>4
    <2> HIDE DEF k
    <2>2. t[k] = s[j]
      BY <1>1, <2>1 DEF Wider
    <2> QED
      BY <1>2, <2>1, <2>2 DEF Ahead
  <1> QED
    BY <1>3, <1>4 DEF t

(* Beside y: with everything on its side.                                  *)
Behind(s, t, e, y) ==
    /\ \A u : u = y \/ Ahead(s, u, y) => Ahead(t, u, e)
    /\ \A u : Ahead(s, y, u) => Ahead(t, e, u)
InFront(s, t, e, y) ==
    /\ \A u : Ahead(s, u, y) => Ahead(t, u, e)
    /\ \A u : u = y \/ Ahead(s, y, u) => Ahead(t, e, u)
LEMMA InsertedBeside ==
  ASSUME NEW C, NEW s \in Seq(C), Distinct(s), NEW e \in C, NEW k \in 1 .. Len(s)
  PROVE  /\ Behind(s, InsertAt(s, k + 1, e), e, s[k])
         /\ InFront(s, InsertAt(s, k, e), e, s[k])
  <1>1. Len(s) \in Nat
    OBVIOUS
  <1>2. ASSUME NEW u, Ahead(s, u, s[k]) PROVE \E j \in 1 .. Len(s) : j < k /\ s[j] = u
    BY <1>2 DEF Ahead, Distinct
  <1>3. ASSUME NEW u, Ahead(s, s[k], u) PROVE \E j \in 1 .. Len(s) : k < j /\ s[j] = u
    BY <1>3 DEF Ahead, Distinct
  <1>4. Behind(s, InsertAt(s, k + 1, e), e, s[k])
    <2> DEFINE i == k + 1
    <2>1. i \in 1 .. Len(s) + 1 /\ i = k + 1
      BY <1>1
    <2> HIDE DEF i
    <2>2. \A j \in 1 .. Len(s) : /\ j < i => Ahead(InsertAt(s, i, e), s[j], e)
                                 /\ j >= i => Ahead(InsertAt(s, i, e), e, s[j])
      BY <2>1, InsertedPlace
    <2>3. \A j \in 1 .. Len(s) : (j <= k <=> j < i) /\ (k < j <=> j >= i)
      BY <2>1
    <2>4. \A u : u = s[k] \/ Ahead(s, u, s[k]) => Ahead(InsertAt(s, i, e), u, e)
      BY <1>2, <2>2, <2>3
    <2>5. \A u : Ahead(s, s[k], u) => Ahead(InsertAt(s, i, e), e, u)
      BY <1>3, <2>2, <2>3
    <2> QED
      BY <2>4, <2>5 DEF Behind, i
  <1>5. InFront(s, InsertAt(s, k, e), e, s[k])
    <2>1. k \in 1 .. Len(s) + 1
      BY <1>1
    <2>2. \A j \in 1 .. Len(s) : /\ j < k => Ahead(InsertAt(s, k, e), s[j], e)
                                 /\ j >= k => Ahead(InsertAt(s, k, e), e, s[j])
      BY <2>1, InsertedPlace
    <2>3. \A u : Ahead(s, u, s[k]) => Ahead(InsertAt(s, k, e), u, e)
      BY <1>2, <2>2
    <2>4. \A u : u = s[k] \/ Ahead(s, s[k], u) => Ahead(InsertAt(s, k, e), e, u)
      BY <1>3, <2>2
    <2> QED
      BY <2>3, <2>4 DEF InFront
  <1> QED
    BY <1>4, <1>5

(* Lists with the same elements, of which one keeps the order of the other.*)
LEMMA HalfOrder ==
  ASSUME NEW C, NEW s \in Seq(C), NEW t \in Seq(C), Distinct(s), Distinct(t),
         \A x : Listed(s, x) <=> Listed(t, x), \A a, b : Ahead(s, a, b) => Ahead(t, a, b)
  PROVE  s = t
  <1>1. ASSUME NEW a, NEW b, Ahead(t, a, b) PROVE Ahead(s, a, b)
    <2>1. PICK i \in 1 .. Len(t), j \in 1 .. Len(t) : i < j /\ t[i] = a /\ t[j] = b
      BY <1>1 DEF Ahead
    <2>2. Listed(s, a) /\ Listed(s, b)
      BY <2>1 DEF Listed
    <2>3. PICK k \in 1 .. Len(s), m \in 1 .. Len(s) : s[k] = a /\ s[m] = b
      BY <2>2 DEF Listed
    <2>4. a # b
      BY <2>1 DEF Distinct
    <2>5. k < m \/ m < k
      BY <2>3, <2>4
    <2>6. CASE m < k
      <3>1. Ahead(s, b, a)
        BY <2>3, <2>6 DEF Ahead
      <3>2. Ahead(t, b, a)
        BY <3>1
      <3> QED
        BY <2>1, <3>2 DEF Ahead, Distinct
    <2> QED
      BY <2>3, <2>5, <2>6 DEF Ahead
  <1>2. \A a, b : Ahead(s, a, b) <=> Ahead(t, a, b)
    BY <1>1
  <1> QED
    BY <1>2, SameOrder

-----------------------------------------------------------------------------
(* The siblings that AppendOrInsertIntoParent looks for.                   *)
Hop(d, link, s) == IF s = None THEN None ELSE IF d.style[s] = "fixed" THEN link[s] ELSE s
LEMMA NodesFinite == IsFiniteSet(Nodes) /\ Cardinality(Nodes) \in Nat
  BY TreesAssumption, FS_CardinalityType DEF ConstantsBounded

LEMMA SiblingTrace ==
  ASSUME NEW d, NEW link, NEW e
  PROVE  \E g : /\ g[0] = link[e]
                /\ \A k \in 1 .. Cardinality(Nodes) : g[k] = Hop(d, link, g[k - 1])
                /\ StaticSibling(d, link, e) = g[Cardinality(Nodes)]
  <1> DEFINE N == Cardinality(Nodes)
             b == link[e]
             Eq(j, f) == f = [k \in 0 .. j |-> IF k = 0 THEN b ELSE Hop(d, link, f[k - 1])]
             T == {j \in Nat : \E f : Eq(j, f)}
             g == CHOOSE f : Eq(N, f)
  <1>1. 0 \in T
    <2> DEFINE f == [k \in 0 .. 0 |-> b]
    <2>1. Eq(0, f)
      OBVIOUS
    <2> HIDE DEF Eq
    <2> QED BY <2>1
  <1>2. ASSUME NEW j \in Nat, j \in T PROVE j + 1 \in T
    <2>1. PICK f : Eq(j, f)
      BY <1>2
    <2> DEFINE h == [k \in 0 .. j + 1 |-> IF k = j + 1 THEN Hop(d, link, f[j]) ELSE f[k]]
    <2>2. ASSUME NEW k \in 0 .. j + 1
          PROVE  h[k] = IF k = 0 THEN b ELSE Hop(d, link, h[k - 1])
      <3> HIDE DEF b
      <3>1. CASE k = j + 1
        <4>1. k - 1 = j /\ j \in 0 .. j + 1 /\ j # j + 1 /\ k # 0
          BY <3>1
        <4>2. h[j] = f[j] /\ h[j + 1] = Hop(d, link, f[j])
          BY <4>1
        <4> HIDE DEF h
        <4> QED BY <3>1, <4>1, <4>2
      <3>2. CASE k # j + 1
        <4>1. k \in 0 .. j /\ (k # 0 => k - 1 \in 0 .. j)
          BY <3>2
        <4>2. \A i \in 0 .. j : i \in 0 .. j + 1 /\ i # j + 1
          OBVIOUS
        <4>4. h[k] = f[k] /\ (k # 0 => h[k - 1] = f[k - 1])
          BY <4>1, <4>2
        <4>3. f[k] = IF k = 0 THEN b ELSE Hop(d, link, f[k - 1])
          BY <2>1, <4>1
        <4> HIDE DEF h, Eq
        <4> QED BY <4>4, <4>3
      <3> QED BY <3>1, <3>2
    <2>3. Eq(j + 1, h)
      <3>1. h = [k \in 0 .. j + 1 |-> h[k]]
        OBVIOUS
      <3> HIDE DEF h, b
      <3> QED BY <2>2, <3>1
    <2> HIDE DEF Eq
    <2> QED BY <2>3
  <1>3. N \in T
    <2>1. N \in Nat
      BY NodesFinite
    <2> HIDE DEF T, N
    <2> QED BY <1>1, <1>2, <2>1, Induction
  <1>4. Eq(N, g)
    <2> HIDE DEF Eq
    <2> QED BY <1>3
  <1>5. StaticSibling(d, link, e) = g[N]
    BY DEF StaticSibling, Hop
  <1>6. N \in Nat
    BY NodesFinite
  <1> HIDE DEF g, N, b
  <1>7. g[0] = b /\ \A k \in 1 .. N : g[k] = Hop(d, link, g[k - 1])
    BY <1>4, <1>6
  <1> QED
    BY <1>5, <1>7 DEF N, b

(* The children of one element are no more than there are nodes.           *)
LEMMA RowLength ==
  ASSUME NEW d, Tree(d), NEW p \in Elements
  PROVE  Len(d.children[p]) <= Cardinality(Nodes) /\ Len(d.children[p]) \in Nat
  <1> DEFINE s == d.children[p]
             n == Len(s)
  <1>1. s \in Seq(Nodes) /\ n \in Nat /\ \A i, j \in 1 .. n : s[i] = s[j] => i = j
    BY RowMembers
  <1>2. s \in [1 .. n -> Nodes]
    BY <1>1
  <1> HIDE DEF s, n
  <1>3. IsFiniteSet(1 .. n) /\ Cardinality(1 .. n) = n
    BY <1>1, FS_Interval
  <1>4. Cardinality(1 .. n) <= Cardinality(Nodes)
    <2>1. s \in Injection(1 .. n, Nodes)
      BY <1>1, <1>2 DEF Injection, IsInjective
    <2> QED
      BY <2>1, NodesFinite, FS_Injection
  <1> QED
    BY <1>1, <1>3, <1>4 DEF n, s

(* The nearest child ahead of the i-th that is not fixed, if there is one. *)
NearestBefore(d, s, i, n) ==
    \/ n = None /\ \A j \in 1 .. i - 1 : d.style[s[j]] = "fixed"
    \/ \E j \in 1 .. i - 1 : /\ n = s[j] /\ d.style[s[j]] # "fixed"
                            /\ \A k \in j + 1 .. i - 1 : d.style[s[k]] = "fixed"
(* On the way there, after k hops.                                         *)
SeekBefore(d, s, i, k, n) ==
    \/ n = None /\ \A j \in 1 .. i - 1 : d.style[s[j]] = "fixed"
    \/ \E j \in 1 .. i - 1 : /\ n = s[j] /\ (d.style[s[j]] = "fixed" => j = i - 1 - k)
                            /\ \A m \in j + 1 .. i - 1 : d.style[s[m]] = "fixed"
LEMMA HopBefore ==
  ASSUME NEW d, Tree(d), NEW p \in Elements, PointersAt(d, p), NEW s, s = d.children[p],
         NEW i \in 1 .. Len(s), NEW k \in Nat, NEW n, SeekBefore(d, s, i, k, n)
  PROVE  SeekBefore(d, s, i, k + 1, Hop(d, d.prev, n))
  <1>1. Len(s) \in Nat /\ \A j \in 1 .. Len(s) : s[j] \in Nodes
    BY RowMembers
  <1>2. \A j \in 1 .. Len(s) : s[j] # None /\ d.prev[s[j]] = IF j = 1 THEN None ELSE s[j - 1]
    BY <1>1, TreesAssumption DEF PointersAt, ConstantsBounded
  <1>3. CASE n = None /\ \A j \in 1 .. i - 1 : d.style[s[j]] = "fixed"
    BY <1>3 DEF SeekBefore, Hop
  <1>4. ASSUME NEW j \in 1 .. i - 1, n = s[j], d.style[s[j]] = "fixed" => j = i - 1 - k,
               \A m \in j + 1 .. i - 1 : d.style[s[m]] = "fixed"
        PROVE  SeekBefore(d, s, i, k + 1, Hop(d, d.prev, n))
    <2>1. j \in 1 .. Len(s) /\ n # None
      BY <1>1, <1>2, <1>4
    <2>2. CASE d.style[s[j]] # "fixed"
      <3>1. Hop(d, d.prev, n) = s[j]
        BY <1>4, <2>1, <2>2 DEF Hop
      <3> QED
        BY <1>4, <2>2, <3>1 DEF SeekBefore
    <2>3. CASE d.style[s[j]] = "fixed"
      <3>1. Hop(d, d.prev, n) = IF j = 1 THEN None ELSE s[j - 1]
        BY <1>2, <1>4, <2>1, <2>3 DEF Hop
      <3>2. \A m \in j .. i - 1 : d.style[s[m]] = "fixed"
        BY <1>4, <2>3
      <3>3. CASE j = 1
        <4>1. \A m \in 1 .. i - 1 : d.style[s[m]] = "fixed"
          BY <3>2, <3>3
        <4> QED
          BY <3>1, <3>3, <4>1 DEF SeekBefore
      <3>4. CASE j # 1
        <4> DEFINE h == j - 1
        <4>1. h \in 1 .. i - 1 /\ h + 1 = j /\ h = i - 1 - (k + 1)
          BY <1>4, <2>3, <3>4
        <4>2. Hop(d, d.prev, n) = s[h]
          BY <3>1, <3>4
        <4> HIDE DEF h
        <4> QED
          BY <3>2, <4>1, <4>2 DEF SeekBefore
      <3> QED
        BY <3>3, <3>4
    <2> QED
      BY <2>2, <2>3
  <1> QED
    BY <1>3, <1>4 DEF SeekBefore
LEMMA StaticBefore ==
  ASSUME NEW d, Tree(d), NEW p \in Elements, PointersAt(d, p), NEW s, s = d.children[p],
         NEW i \in 1 .. Len(s)
  PROVE  NearestBefore(d, s, i, StaticSibling(d, d.prev, s[i]))
  <1> DEFINE N == Cardinality(Nodes)
  <1>1. PICK g : /\ g[0] = d.prev[s[i]]
                 /\ \A k \in 1 .. N : g[k] = Hop(d, d.prev, g[k - 1])
                 /\ StaticSibling(d, d.prev, s[i]) = g[N]
    BY SiblingTrace
  <1>2. Len(s) \in Nat /\ Len(s) <= N /\ N \in Nat
    BY RowLength, NodesFinite
  <1> DEFINE T == {k \in Nat : k <= N => SeekBefore(d, s, i, k, g[k])}
  <1>3. 0 \in T
    <2>1. g[0] = IF i = 1 THEN None ELSE s[i - 1]
      BY <1>1 DEF PointersAt
    <2>2. CASE i = 1
      <3>1. \A j \in 1 .. i - 1 : FALSE
        BY <2>2
      <3> QED
        BY <2>1, <2>2, <3>1 DEF SeekBefore
    <2>3. CASE i # 1
      <3> DEFINE j == i - 1
      <3>1. j \in 1 .. i - 1 /\ j = i - 1 - 0 /\ \A m \in j + 1 .. i - 1 : FALSE
        BY <1>2, <2>3
      <3>2. g[0] = s[j]
        BY <2>1, <2>3
      <3> HIDE DEF j
      <3> QED
        BY <3>1, <3>2 DEF SeekBefore
    <2> QED
      BY <2>2, <2>3
  <1>4. ASSUME NEW k \in Nat, k \in T PROVE k + 1 \in T
    <2> SUFFICES ASSUME k + 1 <= N PROVE SeekBefore(d, s, i, k + 1, g[k + 1])
      OBVIOUS
    <2>1. k <= N /\ k + 1 \in 1 .. N /\ (k + 1) - 1 = k
      BY <1>2
    <2>2. g[k + 1] = Hop(d, d.prev, g[k])
      BY <1>1, <2>1
    <2>3. SeekBefore(d, s, i, k, g[k])
      BY <1>4, <2>1
    <2> QED
      BY <2>2, <2>3, HopBefore
  <1>5. N \in T
    <2> HIDE DEF T, N
    <2> QED
      BY <1>2, <1>3, <1>4, Induction
  <1>6. SeekBefore(d, s, i, N, g[N])
    BY <1>2, <1>5
  <1> HIDE DEF N
  <1>7. \A j \in 1 .. i - 1 : j # i - 1 - N
    BY <1>2
  <1> QED
    BY <1>1, <1>6, <1>7 DEF SeekBefore, NearestBefore

(* And the nearest one behind it.                                          *)
NearestAfter(d, s, i, n) ==
    \/ n = None /\ \A j \in i + 1 .. Len(s) : d.style[s[j]] = "fixed"
    \/ \E j \in i + 1 .. Len(s) : /\ n = s[j] /\ d.style[s[j]] # "fixed"
                            /\ \A k \in i + 1 .. j - 1 : d.style[s[k]] = "fixed"
SeekAfter(d, s, i, k, n) ==
    \/ n = None /\ \A j \in i + 1 .. Len(s) : d.style[s[j]] = "fixed"
    \/ \E j \in i + 1 .. Len(s) : /\ n = s[j] /\ (d.style[s[j]] = "fixed" => j = i + 1 + k)
                            /\ \A m \in i + 1 .. j - 1 : d.style[s[m]] = "fixed"
LEMMA HopAfter ==
  ASSUME NEW d, Tree(d), NEW p \in Elements, PointersAt(d, p), NEW s, s = d.children[p],
         NEW i \in 1 .. Len(s), NEW k \in Nat, NEW n, SeekAfter(d, s, i, k, n)
  PROVE  SeekAfter(d, s, i, k + 1, Hop(d, d.next, n))
  <1>1. Len(s) \in Nat /\ \A j \in 1 .. Len(s) : s[j] \in Nodes
    BY RowMembers
  <1>2. \A j \in 1 .. Len(s) : s[j] # None /\ d.next[s[j]] = IF j = Len(s) THEN None ELSE s[j + 1]
    BY <1>1, TreesAssumption DEF PointersAt, ConstantsBounded
  <1>3. CASE n = None /\ \A j \in i + 1 .. Len(s) : d.style[s[j]] = "fixed"
    BY <1>3 DEF SeekAfter, Hop
  <1>4. ASSUME NEW j \in i + 1 .. Len(s), n = s[j], d.style[s[j]] = "fixed" => j = i + 1 + k,
               \A m \in i + 1 .. j - 1 : d.style[s[m]] = "fixed"
        PROVE  SeekAfter(d, s, i, k + 1, Hop(d, d.next, n))
    <2>1. j \in 1 .. Len(s) /\ n # None
      BY <1>1, <1>2, <1>4
    <2>2. CASE d.style[s[j]] # "fixed"
      <3>1. Hop(d, d.next, n) = s[j]
        BY <1>4, <2>1, <2>2 DEF Hop
      <3> QED
        BY <1>4, <2>2, <3>1 DEF SeekAfter
    <2>3. CASE d.style[s[j]] = "fixed"
      <3>1. Hop(d, d.next, n) = IF j = Len(s) THEN None ELSE s[j + 1]
        BY <1>2, <1>4, <2>1, <2>3 DEF Hop
      <3>2. \A m \in i + 1 .. j : d.style[s[m]] = "fixed"
        BY <1>1, <1>4, <2>3
      <3>3. CASE j = Len(s)
        <4>1. \A m \in i + 1 .. Len(s) : d.style[s[m]] = "fixed"
          BY <1>1, <3>2, <3>3
        <4> QED
          BY <3>1, <3>3, <4>1 DEF SeekAfter
      <3>4. CASE j # Len(s)
        <4> DEFINE h == j + 1
        <4>1. h \in i + 1 .. Len(s) /\ h - 1 = j /\ h = i + 1 + (k + 1)
          BY <1>1, <1>4, <2>3, <3>4
        <4>2. Hop(d, d.next, n) = s[h]
          BY <3>1, <3>4
        <4> HIDE DEF h
        <4> QED
          BY <3>2, <4>1, <4>2 DEF SeekAfter
      <3> QED
        BY <3>3, <3>4
    <2> QED
      BY <2>2, <2>3
  <1> QED
    BY <1>3, <1>4 DEF SeekAfter
LEMMA StaticAfter ==
  ASSUME NEW d, Tree(d), NEW p \in Elements, PointersAt(d, p), NEW s, s = d.children[p],
         NEW i \in 1 .. Len(s)
  PROVE  NearestAfter(d, s, i, StaticSibling(d, d.next, s[i]))
  <1> DEFINE N == Cardinality(Nodes)
  <1>1. PICK g : /\ g[0] = d.next[s[i]]
                 /\ \A k \in 1 .. N : g[k] = Hop(d, d.next, g[k - 1])
                 /\ StaticSibling(d, d.next, s[i]) = g[N]
    BY SiblingTrace
  <1>2. Len(s) \in Nat /\ Len(s) <= N /\ N \in Nat
    BY RowLength, NodesFinite
  <1> DEFINE T == {k \in Nat : k <= N => SeekAfter(d, s, i, k, g[k])}
  <1>3. 0 \in T
    <2>1. g[0] = IF i = Len(s) THEN None ELSE s[i + 1]
      BY <1>1 DEF PointersAt
    <2>2. CASE i = Len(s)
      <3>1. \A j \in i + 1 .. Len(s) : FALSE
        BY <1>2, <2>2
      <3> QED
        BY <2>1, <2>2, <3>1 DEF SeekAfter
    <2>3. CASE i # Len(s)
      <3> DEFINE j == i + 1
      <3>1. j \in i + 1 .. Len(s) /\ j = i + 1 + 0 /\ \A m \in i + 1 .. j - 1 : FALSE
        BY <1>2, <2>3
      <3>2. g[0] = s[j]
        BY <2>1, <2>3
      <3> HIDE DEF j
      <3> QED
        BY <3>1, <3>2 DEF SeekAfter
    <2> QED
      BY <2>2, <2>3
  <1>4. ASSUME NEW k \in Nat, k \in T PROVE k + 1 \in T
    <2> SUFFICES ASSUME k + 1 <= N PROVE SeekAfter(d, s, i, k + 1, g[k + 1])
      OBVIOUS
    <2>1. k <= N /\ k + 1 \in 1 .. N /\ (k + 1) - 1 = k
      BY <1>2
    <2>2. g[k + 1] = Hop(d, d.next, g[k])
      BY <1>1, <2>1
    <2>3. SeekAfter(d, s, i, k, g[k])
      BY <1>4, <2>1
    <2> QED
      BY <2>2, <2>3, HopAfter
  <1>5. N \in T
    <2> HIDE DEF T, N
    <2> QED
      BY <1>2, <1>3, <1>4, Induction
  <1>6. SeekAfter(d, s, i, N, g[N])
    BY <1>2, <1>5
  <1> HIDE DEF N
  <1>7. \A j \in i + 1 .. Len(s) : j # i + 1 + N
    BY <1>2
  <1> QED
    BY <1>1, <1>6, <1>7 DEF SeekAfter, NearestAfter

-----------------------------------------------------------------------------
(* The rows of the render tree.  That of a built element p holds the       *)
(* render nodes of its children in S, in the order of the children; the    *)
(* fixed root has those of F.                                              *)
RowFor(d, p, S) ==
    /\ \A x : Listed(Rows(d.kids)[RenderOf(d, p)], x) <=>
                  \E c \in S : d.parent[c] = p /\ x = RenderOf(d, c)
    /\ \A b, c \in S : d.parent[b] = p /\ d.parent[c] = p /\ Ahead(d.children[p], b, c)
                  => Ahead(Rows(d.kids)[RenderOf(d, p)], RenderOf(d, b), RenderOf(d, c))
Ordered(d, S, F) ==
    /\ S \subseteq Elements /\ F \subseteq Elements
    /\ \A p \in Elements : Built(d, p) => RowFor(d, p, S)
    /\ \A x : Listed(Rows(d.kids)[FixedRoot], x) <=> \E e \in F : x = RenderOf(d, e)

(* The row of p and the children it is for are the same in x, though       *)
(* others may have come between them.                                      *)
Alike(d, x, S, T, p) ==
    /\ Built(d, p) /\ x.build[p] = d.build[p]
    /\ Rows(x.kids)[RenderOf(d, p)] = Rows(d.kids)[RenderOf(d, p)]
    /\ \A c \in Elements : c \in T /\ x.parent[c] = p <=> c \in S /\ d.parent[c] = p
    /\ \A b, c \in T : x.parent[b] = p /\ x.parent[c] = p /\ Ahead(x.children[p], b, c)
                  => Ahead(d.children[p], b, c)
LEMMA AlikeOrder ==
  ASSUME NEW d, NEW S, NEW F, Ordered(d, S, F), NEW x, NEW T \in SUBSET Elements,
         \A p \in Elements : Built(x, p) => Alike(d, x, S, T, p),
         \A c \in T \cup F : x.build[c] = d.build[c],
         Rows(x.kids)[FixedRoot] = Rows(d.kids)[FixedRoot]
  PROVE  Ordered(x, T, F)
  <1>1. /\ S \subseteq Elements /\ F \subseteq Elements
        /\ \A p \in Elements : Built(d, p) => RowFor(d, p, S)
        /\ \A z : Listed(Rows(d.kids)[FixedRoot], z) <=> \E e \in F : z = RenderOf(d, e)
    BY DEF Ordered
  <1>2. \A c \in T \cup F : RenderOf(x, c) = RenderOf(d, c)
    BY DEF RenderOf
  <1>3. ASSUME NEW p \in Elements, Built(x, p) PROVE RowFor(x, p, T)
    <2>1. Alike(d, x, S, T, p)
      BY <1>3
    <2>2. RowFor(d, p, S)
      BY <1>1, <2>1 DEF Alike
    <2>3. Rows(x.kids)[RenderOf(x, p)] = Rows(d.kids)[RenderOf(d, p)]
      BY <2>1 DEF Alike, RenderOf
    <2>4. \A c \in Elements : c \in T /\ x.parent[c] = p <=> c \in S /\ d.parent[c] = p
      BY <2>1 DEF Alike
    <2>5. \A z : Listed(Rows(x.kids)[RenderOf(x, p)], z) <=>
                    \E c \in T : x.parent[c] = p /\ z = RenderOf(x, c)
      BY <1>1, <1>2, <2>2, <2>3, <2>4 DEF RowFor
    <2>6. \A b, c \in T : x.parent[b] = p /\ x.parent[c] = p /\ Ahead(x.children[p], b, c)
             => Ahead(Rows(x.kids)[RenderOf(x, p)], RenderOf(x, b), RenderOf(x, c))
      <3> SUFFICES ASSUME NEW b \in T, NEW c \in T, x.parent[b] = p, x.parent[c] = p,
                          Ahead(x.children[p], b, c)
                   PROVE  Ahead(Rows(x.kids)[RenderOf(x, p)], RenderOf(x, b), RenderOf(x, c))
        OBVIOUS
      <3>1. Ahead(d.children[p], b, c)
        BY <2>1 DEF Alike
      <3>2. b \in S /\ c \in S /\ d.parent[b] = p /\ d.parent[c] = p
        BY <2>4
      <3> QED
        BY <1>2, <2>2, <2>3, <3>1, <3>2 DEF RowFor
    <2> QED
      BY <2>5, <2>6 DEF RowFor
  <1>4. \A z : Listed(Rows(x.kids)[FixedRoot], z) <=> \E e \in F : z = RenderOf(x, e)
    BY <1>1, <1>2
  <1> QED
    BY <1>1, <1>3, <1>4 DEF Ordered

(* Nothing of it has changed.                                              *)
SameForest(d, x) ==
    x.kids = d.kids /\ x.build = d.build /\ x.parent = d.parent /\ x.children = d.children
LEMMA SameOrdered ==
  ASSUME NEW d, NEW S, NEW F, Ordered(d, S, F), NEW x, SameForest(d, x)
  PROVE  Ordered(x, S, F)
  BY DEF SameForest, Ordered, RowFor, RenderOf, Built

-----------------------------------------------------------------------------
(* The render node of e taken away.                                        *)
LEMMA TakenOrder ==
  ASSUME NEW d, NEW S, NEW F, Ordered(d, S, F), NEW e \in Elements, NEW x,
         x.build = d.build, x.parent = d.parent, x.children = d.children,
         d.build \in [Elements -> Nat],
         \A q \in AllRenders : RemovedFrom(Rows(d.kids)[q], Rows(x.kids)[q], RenderOf(d, e))
  PROVE  Ordered(x, S \ {e}, F \ {e})
  <1>1. /\ S \subseteq Elements /\ F \subseteq Elements
        /\ \A p \in Elements : Built(d, p) => RowFor(d, p, S)
        /\ \A z : Listed(Rows(d.kids)[FixedRoot], z) <=> \E c \in F : z = RenderOf(d, c)
    BY DEF Ordered
  <1>2. \A c \in Elements : RenderOf(x, c) = RenderOf(d, c) /\ RenderOf(d, c) \in AllRenders
    BY DEF RenderOf, AllRenders
  <1>3. \A c \in Elements : RenderOf(d, c) = RenderOf(d, e) => c = e
    BY DEF RenderOf
  <1>4. FixedRoot \in AllRenders
    BY DEF FixedRoot, AllRenders, Elements
  <1>5. ASSUME NEW p \in Elements, Built(x, p) PROVE RowFor(x, p, S \ {e})
    <2>1. RowFor(d, p, S)
      BY <1>1, <1>5 DEF Built
    <2>2. RemovedFrom(Rows(d.kids)[RenderOf(d, p)], Rows(x.kids)[RenderOf(d, p)], RenderOf(d, e))
      BY <1>2
    <2>3. \A z : Listed(Rows(x.kids)[RenderOf(x, p)], z) <=>
                    \E c \in S \ {e} : x.parent[c] = p /\ z = RenderOf(x, c)
      BY <1>1, <1>2, <1>3, <2>1, <2>2 DEF RowFor, RemovedFrom
    <2>4. \A b, c \in S \ {e} : x.parent[b] = p /\ x.parent[c] = p /\ Ahead(x.children[p], b, c)
             => Ahead(Rows(x.kids)[RenderOf(x, p)], RenderOf(x, b), RenderOf(x, c))
      BY <1>1, <1>2, <1>3, <2>1, <2>2 DEF RowFor, RemovedFrom
    <2> QED
      BY <2>3, <2>4 DEF RowFor
  <1>6. \A z : Listed(Rows(x.kids)[FixedRoot], z) <=> \E c \in F \ {e} : z = RenderOf(x, c)
    <2>1. RemovedFrom(Rows(d.kids)[FixedRoot], Rows(x.kids)[FixedRoot], RenderOf(d, e))
      BY <1>4
    <2> QED
      BY <1>1, <1>2, <1>3, <2>1 DEF RemovedFrom
  <1>7. S \ {e} \subseteq Elements /\ F \ {e} \subseteq Elements
    BY <1>1
  <1> QED
    BY <1>5, <1>6, <1>7 DEF Ordered

LEMMA RemoveRows ==
  ASSUME NEW d, NEW a, Grown(d, a), NEW r \in AllRenders
  PROVE  \A q \in AllRenders : RemovedFrom(Rows(d.kids)[q], Rows(RemoveChild(d, r).kids)[q], r)
  <1> DEFINE x == RemoveChild(d, r)
             p == ParentRef(d, r)
             b == Rows(d.kids)
  <1>1. IsDoc(d) /\ Wood(b)
    BY GrownWood DEF Grown
  <1>2. \A q \in AllRenders : b[q] \in Seq(AllRenders) /\ Distinct(b[q])
    BY <1>1 DEF Wood
  <1>3. ASSUME NEW q \in AllRenders, ~Listed(b[q], r) PROVE RemovedFrom(b[q], b[q], r)
    <2>1. \A u, v : Ahead(b[q], u, v) => Listed(b[q], u) /\ Listed(b[q], v)
      BY <1>2, AheadListed
    <2> HIDE DEF b
    <2> QED
      BY <1>2, <1>3, <2>1 DEF RemovedFrom
  <1>4. CASE \E s \in DOMAIN d.kids : Contains(d.kids[s], r)
    <2>1. p \in DOMAIN d.kids /\ Contains(d.kids[p], r)
      BY <1>4 DEF ParentRef
    <2>2. p \in AllRenders /\ Listed(b[p], r) /\ b[p] = d.kids[p]
      BY <2>1, GrownWood DEF Contains, Listed
    <2>3. p # None
      BY <2>2, TreesAssumption DEF AllRenders, Elements, ConstantsBounded
    <2>4. x.kids = [d.kids EXCEPT ![p] = Erased(@, r)]
      BY <1>1, <2>3, RemoveFields
    <2> HIDE DEF x, p
    <2>5. x.kids[p] = Erased(d.kids[p], r) /\ DOMAIN x.kids = DOMAIN d.kids
          /\ \A q \in DOMAIN d.kids : q # p => x.kids[q] = d.kids[q]
      BY <2>1, <2>4
    <2>6. \A q \in AllRenders : Rows(x.kids)[q] = IF q = p THEN Erased(b[p], r) ELSE b[q]
      BY <2>1, <2>2, <2>5 DEF Rows
    <2>7. RemovedFrom(b[p], Erased(b[p], r), r)
      BY <1>2, <2>2, ErasedRow
    <2>8. \A q \in AllRenders : q # p => ~Listed(b[q], r)
      BY <1>1, <2>2 DEF Wood, OnePlace
    <2> HIDE DEF b
    <2>9. \A q \in AllRenders : RemovedFrom(b[q], Rows(x.kids)[q], r)
      BY <1>3, <2>6, <2>7, <2>8
    <2> QED
      BY <2>9 DEF b, x
  <1>5. CASE ~\E s \in DOMAIN d.kids : Contains(d.kids[s], r)
    <2>1. x = d
      BY <1>5 DEF ParentRef, RemoveChild
    <2>2. \A q \in AllRenders : ~Listed(b[q], r)
      <3>1. \A q \in AllRenders : q \notin DOMAIN d.kids => b[q] = <<>>
        BY DEF Rows
      <3>2. ~Listed(<<>>, r)
        BY DEF Listed
      <3> QED
        BY <1>5, <3>1, <3>2, GrownWood DEF Contains, Listed
    <2> HIDE DEF x, b
    <2>3. \A q \in AllRenders : RemovedFrom(b[q], Rows(x.kids)[q], r)
      BY <1>3, <2>1, <2>2 DEF b
    <2> QED
      BY <2>3 DEF x, b
  <1> QED
    BY <1>4, <1>5

LEMMA RemoveOrder ==
  ASSUME NEW d, NEW a, Grown(d, a), NEW S, NEW F, Ordered(d, S, F), NEW e \in Elements
  PROVE  Ordered(RemoveChild(d, RenderOf(d, e)), S \ {e}, F \ {e})
  <1> DEFINE r == RenderOf(d, e)
             x == RemoveChild(d, r)
  <1>1. d.build \in [Elements -> Nat] /\ IsDoc(d)
    BY DEF Grown, Planted
  <1>2. r \in AllRenders
    BY <1>1 DEF RenderOf, AllRenders
  <1>3. \A q \in AllRenders : RemovedFrom(Rows(d.kids)[q], Rows(x.kids)[q], r)
    BY <1>2, RemoveRows
  <1>4. x.build = d.build /\ x.parent = d.parent /\ x.children = d.children
    BY <1>1, RenderParts DEF RenderOnly, SameTree, SameBuilds
  <1> HIDE DEF x
  <1>5. Ordered(x, S \ {e}, F \ {e})
    BY <1>1, <1>3, <1>4, TakenOrder
  <1> QED
    BY <1>5 DEF x

-----------------------------------------------------------------------------
(* The render node of e put into a row.                                    *)
InsertedRows(d, x, q, i, r) ==
    /\ Rows(x.kids)[q] = InsertAt(Rows(d.kids)[q], i, r)
    /\ \A z \in AllRenders : z # q => Rows(x.kids)[z] = Rows(d.kids)[z]
LEMMA InsertRows ==
  ASSUME NEW d, NEW a, Grown(d, a), NEW op, op # "remove", NEW q \in DOMAIN d.kids, NEW r, NEW i
  PROVE  InsertedRows(d, InsertRender(d, op, q, r, i), q, i, r)
  <1> DEFINE x == InsertRender(d, op, q, r, i)
             c == [op |-> op, parent |-> q, child |-> r, index |-> i]
  <1>1. IsDoc(d) /\ q \in AllRenders /\ Rows(d.kids)[q] = d.kids[q]
    BY GrownWood DEF Grown
  <1>2. OneMore(d, x, c)
    BY <1>1, InsertFields
  <1> HIDE DEF x
  <1>3. x.kids = [d.kids EXCEPT ![q] = InsertAt(d.kids[q], i, r)]
    BY <1>2 DEF OneMore
  <1>4. DOMAIN x.kids = DOMAIN d.kids /\ x.kids[q] = InsertAt(d.kids[q], i, r)
        /\ \A z \in DOMAIN d.kids : z # q => x.kids[z] = d.kids[z]
    BY <1>3
  <1>5. InsertedRows(d, x, q, i, r)
    BY <1>1, <1>4 DEF Rows, InsertedRows
  <1> QED
    BY <1>5 DEF x

(* The fields an order of rows is about, beside the rows.                  *)
SamePlant(d, x) == x.build = d.build /\ x.parent = d.parent /\ x.children = d.children
LEMMA RenderPlant ==
  ASSUME NEW d, NEW x, RenderOnly(d, x)
  PROVE  SamePlant(d, x)
  BY DEF RenderOnly, SameTree, SameBuilds, SamePlant

LEMMA FixedOrder ==
  ASSUME NEW d, NEW a, Grown(d, a), NEW S, NEW F, Ordered(d, S, F), NEW e \in Elements, Loose(d, e)
  PROVE  Ordered(AppendChild(d, FixedRoot, RenderOf(d, e)), S, F \cup {e})
  <1> DEFINE r == RenderOf(d, e)
             i == Len(d.kids[FixedRoot]) + 1
             x == AppendChild(d, FixedRoot, r)
             t == Rows(d.kids)[FixedRoot]
             z == Rows(x.kids)[FixedRoot]
  <1>1. FixedRoot \in DOMAIN d.kids /\ Wood(Rows(d.kids)) /\ d.build \in [Elements -> Nat] /\ IsDoc(d)
    BY GrownWood DEF Grown, Planted
  <1>2. d.kids[FixedRoot] = t /\ FixedRoot \in AllRenders /\ t \in Seq(AllRenders) /\ Distinct(t)
    BY <1>1, GrownWood DEF Wood
  <1>3. r \in AllRenders /\ ~Listed(t, r)
    BY <1>1, <1>2 DEF Loose, Hangs, AllRenders, RenderOf
  <1>4. InsertedRows(d, x, FixedRoot, i, r)
    BY <1>1, InsertRows DEF AppendChild
  <1>5. SamePlant(d, x)
    BY <1>1, RenderParts, RenderPlant
  <1> HIDE DEF x, t, r
  <1>6. z = InsertAt(t, Len(t) + 1, r)
    BY <1>2, <1>4 DEF InsertedRows, t
  <1>7. Len(t) \in Nat
    BY <1>2
  <1>8. Len(t) + 1 \in 1 .. Len(t) + 1
    BY <1>7
  <1>9. \A y : Listed(z, y) <=> Listed(t, y) \/ y = r
    BY <1>2, <1>3, <1>6, <1>8, InsertedRow DEF InsertedIn
  <1>10. \A c \in Elements : RenderOf(x, c) = RenderOf(d, c)
    BY <1>5 DEF SamePlant, RenderOf
  <1>11. /\ S \subseteq Elements /\ F \subseteq Elements
         /\ \A p \in Elements : Built(d, p) => RowFor(d, p, S)
         /\ \A y : Listed(t, y) <=> \E c \in F : y = RenderOf(d, c)
    BY DEF Ordered, t
  <1>12. \A y : Listed(z, y) <=> \E c \in F \cup {e} : y = RenderOf(x, c)
    BY <1>9, <1>10, <1>11 DEF r
  <1>13. ASSUME NEW p \in Elements, Built(x, p) PROVE RowFor(x, p, S)
    <2>1. Built(d, p) /\ RenderOf(d, p) # FixedRoot /\ RenderOf(d, p) \in AllRenders
      BY <1>1, <1>5, <1>13 DEF SamePlant, Built, RenderOf, FixedRoot, AllRenders
    <2>2. Rows(x.kids)[RenderOf(d, p)] = Rows(d.kids)[RenderOf(d, p)]
      BY <1>4, <2>1 DEF InsertedRows
    <2>3. RowFor(d, p, S)
      BY <1>11, <2>1
    <2> QED
      BY <1>5, <1>10, <1>11, <2>2, <2>3 DEF RowFor, SamePlant
  <1>14. F \cup {e} \subseteq Elements
    BY <1>11
  <1>15. Ordered(x, S, F \cup {e})
    BY <1>11, <1>12, <1>13, <1>14 DEF Ordered
  <1> QED
    BY <1>15 DEF x, r

(* In a row, and beside the others as it is among the children.            *)
Aligned(d, x, e, S) ==
    \A c \in S : d.parent[c] = d.parent[e] =>
        /\ Ahead(d.children[d.parent[e]], c, e) =>
               Ahead(Rows(x.kids)[RenderOf(d, d.parent[e])], RenderOf(d, c), RenderOf(d, e))
        /\ Ahead(d.children[d.parent[e]], e, c) =>
               Ahead(Rows(x.kids)[RenderOf(d, d.parent[e])], RenderOf(d, e), RenderOf(d, c))
LEMMA StaticOrder ==
  ASSUME NEW d, Tree(d), NEW a, Grown(d, a), NEW S, NEW F, Ordered(d, S, F),
         NEW e \in Elements, Loose(d, e), e \notin S, NEW p \in Elements, d.parent[e] = p, Built(d, p),
         NEW x, SamePlant(d, x), NEW i \in 1 .. Len(Rows(d.kids)[RenderOf(d, p)]) + 1,
         InsertedRows(d, x, RenderOf(d, p), i, RenderOf(d, e)), Aligned(d, x, e, S)
  PROVE  Ordered(x, S \cup {e}, F)
  <1> DEFINE r == RenderOf(d, e)
             t == Rows(d.kids)[RenderOf(d, p)]
             z == Rows(x.kids)[RenderOf(d, p)]
  <1>1. Wood(Rows(d.kids)) /\ d.build \in [Elements -> Nat]
    BY GrownWood DEF Grown, Planted
  <1>2. RenderOf(d, p) \in AllRenders /\ RenderOf(d, p) # FixedRoot
    BY <1>1 DEF AllRenders, RenderOf, FixedRoot, Built
  <1>3. t \in Seq(AllRenders) /\ Distinct(t)
    BY <1>1, <1>2 DEF Wood
  <1>4. r \in AllRenders /\ ~Listed(t, r)
    BY <1>1, <1>2 DEF Loose, Hangs, AllRenders, RenderOf
  <1>5. z = InsertAt(t, i, r)
    BY DEF InsertedRows
  <1>6. i \in 1 .. Len(t) + 1
    OBVIOUS
  <1>7. \A y : Listed(z, y) <=> Listed(t, y) \/ y = r
    <2> HIDE DEF t, z, r
    <2> QED
      BY <1>3, <1>4, <1>5, <1>6, InsertedRow DEF InsertedIn
  <1>8. \A u, v : Ahead(t, u, v) => Ahead(z, u, v)
    <2> HIDE DEF t, z, r
    <2> QED
      BY <1>3, <1>4, <1>5, <1>6, InsertedOrder
  <1>9. \A c \in Elements : RenderOf(x, c) = RenderOf(d, c)
    BY DEF SamePlant, RenderOf
  <1>10. /\ S \subseteq Elements /\ F \subseteq Elements
         /\ \A q \in Elements : Built(d, q) => RowFor(d, q, S)
         /\ \A y : Listed(Rows(d.kids)[FixedRoot], y) <=> \E c \in F : y = RenderOf(d, c)
    BY DEF Ordered
  <1>11. x.parent = d.parent /\ x.children = d.children
    BY DEF SamePlant
  <1>12. RowFor(d, p, S)
    BY <1>10
  <1>13. \A y : Listed(z, y) <=> \E c \in S \cup {e} : x.parent[c] = p /\ y = RenderOf(x, c)
    BY <1>7, <1>9, <1>10, <1>11, <1>12 DEF RowFor
  <1>14. \A b, c \in S \cup {e} : x.parent[b] = p /\ x.parent[c] = p /\ Ahead(x.children[p], b, c)
            => Ahead(z, RenderOf(x, b), RenderOf(x, c))
    <2> SUFFICES ASSUME NEW b \in S \cup {e}, NEW c \in S \cup {e}, d.parent[b] = p, d.parent[c] = p,
                        Ahead(d.children[p], b, c)
                 PROVE  Ahead(z, RenderOf(d, b), RenderOf(d, c))
      BY <1>9, <1>10, <1>11
    <2>1. CASE b \in S /\ c \in S
      <3>1. Ahead(t, RenderOf(d, b), RenderOf(d, c))
        BY <1>12, <2>1 DEF RowFor
      <3> QED
        BY <1>8, <3>1
    <2>2. CASE b \in S /\ c = e
      BY <2>2 DEF Aligned
    <2>3. CASE b = e /\ c \in S
      BY <2>3 DEF Aligned
    <2>4. CASE b = e /\ c = e
      <3>1. PICK k, l \in 1 .. Len(d.children[p]) :
                    k < l /\ d.children[p][k] = e /\ d.children[p][l] = e
        BY <2>4 DEF Ahead
      <3>2. k = l
        BY <3>1, RowMembers
      <3>3. Len(d.children[p]) \in Nat
        BY RowMembers
      <3> QED
        BY <3>1, <3>2, <3>3
    <2> QED
      BY <2>1, <2>2, <2>3, <2>4
  <1>15. ASSUME NEW q \in Elements, Built(x, q) PROVE RowFor(x, q, S \cup {e})
    <2>1. CASE q = p
      <3>1. Rows(x.kids)[RenderOf(x, q)] = z
        BY <1>9, <2>1
      <3> QED
        BY <1>13, <1>14, <2>1, <3>1 DEF RowFor
    <2>2. CASE q # p
      <3>1. Built(d, q) /\ RenderOf(d, q) \in AllRenders /\ RenderOf(d, q) # RenderOf(d, p)
        BY <1>1, <1>15, <2>2 DEF SamePlant, Built, RenderOf, AllRenders
      <3>2. Rows(x.kids)[RenderOf(x, q)] = Rows(d.kids)[RenderOf(d, q)]
        BY <1>9, <3>1 DEF InsertedRows
      <3>3. RowFor(d, q, S)
        BY <1>10, <3>1
      <3>4. \A c \in S \cup {e} : x.parent[c] = q => c \in S
        BY <1>11, <2>2
      <3>5. \A y : Listed(Rows(x.kids)[RenderOf(x, q)], y) <=>
                      \E c \in S \cup {e} : x.parent[c] = q /\ y = RenderOf(x, c)
        BY <1>9, <1>10, <1>11, <3>2, <3>3, <3>4 DEF RowFor
      <3>6. \A b, c \in S \cup {e} : x.parent[b] = q /\ x.parent[c] = q /\ Ahead(x.children[q], b, c)
               => Ahead(Rows(x.kids)[RenderOf(x, q)], RenderOf(x, b), RenderOf(x, c))
        BY <1>9, <1>10, <1>11, <3>2, <3>3, <3>4 DEF RowFor
      <3> QED
        BY <3>5, <3>6 DEF RowFor
    <2> QED
      BY <2>1, <2>2
  <1>16. \A y : Listed(Rows(x.kids)[FixedRoot], y) <=> \E c \in F : y = RenderOf(x, c)
    <2>1. FixedRoot \in AllRenders
      BY DEF FixedRoot, AllRenders, Elements
    <2>2. Rows(x.kids)[FixedRoot] = Rows(d.kids)[FixedRoot]
      BY <1>2, <2>1 DEF InsertedRows
    <2> QED
      BY <1>9, <1>10, <2>2
  <1>17. S \cup {e} \subseteq Elements
    BY <1>10
  <1> QED
    BY <1>10, <1>15, <1>16, <1>17 DEF Ordered

-----------------------------------------------------------------------------
(* Beside the render node of a child y: e comes right behind y among the   *)
(* children in S, or right ahead of it.                                    *)
RightBehind(d, s, e, y, S) ==
    \A c \in S : d.parent[c] = d.parent[e] =>
        (Ahead(s, c, e) => c = y \/ Ahead(s, c, y)) /\ (Ahead(s, e, c) => Ahead(s, y, c))
RightAhead(d, s, e, y, S) ==
    \A c \in S : d.parent[c] = d.parent[e] =>
        (Ahead(s, c, e) => Ahead(s, c, y)) /\ (Ahead(s, e, c) => c = y \/ Ahead(s, y, c))
NextTo(d, s, e, y, S, offset) ==
    IF offset = 1 THEN RightBehind(d, s, e, y, S) ELSE RightAhead(d, s, e, y, S)
LEMMA BesideOrder ==
  ASSUME NEW d, Tree(d), NEW a, Grown(d, a), NEW S, NEW F, Ordered(d, S, F),
         NEW e \in Elements, Loose(d, e), e \notin S, NEW p \in Elements, d.parent[e] = p, Built(d, p),
         NEW y \in S, d.parent[y] = p, NEW offset \in {0, 1},
         NextTo(d, d.children[p], e, y, S, offset)
  PROVE  Ordered(InsertBeside(d, RenderOf(d, p), RenderOf(d, e), RenderOf(d, y), offset), S \cup {e}, F)
  <1> DEFINE r == RenderOf(d, e)
             q == RenderOf(d, p)
             h == RenderOf(d, y)
             s == d.children[p]
             t == Rows(d.kids)[q]
             m == IndexOf(t, h)
             x == InsertBeside(d, q, r, h, offset)
  <1>1. Wood(Rows(d.kids)) /\ d.build \in [Elements -> Nat] /\ q \in DOMAIN d.kids /\ IsDoc(d)
    BY GrownWood DEF Grown, Planted
  <1>2. d.kids[q] = t /\ q \in AllRenders /\ t \in Seq(AllRenders) /\ Distinct(t) /\ Len(t) \in Nat
    BY <1>1, GrownWood DEF Wood
  <1>3. r \in AllRenders
    BY <1>1 DEF AllRenders, RenderOf
  <1>4. RowFor(d, p, S)
    BY DEF Ordered
  <1>5. Listed(t, h)
    BY <1>4 DEF RowFor
  <1>6. m \in 1 .. Len(t) /\ t[m] = h
    BY <1>5 DEF Listed, IndexOf
  <1>7. x = InsertRender(d, "insert", q, r, m + offset)
    <2>1. Contains(d.kids[q], h)
      BY <1>2, <1>5 DEF Listed, Contains
    <2> QED
      BY <1>2, <2>1 DEF InsertBeside
  <1>8. SamePlant(d, x)
    BY <1>1, RenderParts, RenderPlant
  <1> HIDE DEF m, x
  <1> DEFINE i == m + offset
  <1>9. i \in 1 .. Len(t) + 1
    BY <1>2, <1>6
  <1>10. InsertedRows(d, x, q, i, r)
    BY <1>1, <1>7, InsertRows
  <1> DEFINE z == Rows(x.kids)[q]
  <1>11. z = InsertAt(t, i, r)
    BY <1>10 DEF InsertedRows
  <1>12. \A b, c \in S : d.parent[b] = p /\ d.parent[c] = p /\ Ahead(s, b, c)
            => Ahead(t, RenderOf(d, b), RenderOf(d, c))
    BY <1>4 DEF RowFor
  <1>13. Aligned(d, x, e, S)
    <2>1. CASE offset = 1
      <3>1. i = m + 1
        BY <2>1
      <3>2. Behind(t, z, r, h)
        <4> HIDE DEF t, z, r, h, i
        <4> QED
          BY <1>2, <1>3, <1>6, <1>11, <3>1, InsertedBeside
      <3>3. RightBehind(d, s, e, y, S)
        BY <2>1 DEF NextTo
      <3> HIDE DEF t, z, s
      <3>4. ASSUME NEW c \in S, d.parent[c] = p
            PROVE  /\ Ahead(s, c, e) => Ahead(z, RenderOf(d, c), r)
                   /\ Ahead(s, e, c) => Ahead(z, r, RenderOf(d, c))
        <4>1. /\ Ahead(s, c, e) => c = y \/ Ahead(s, c, y)
              /\ Ahead(s, e, c) => Ahead(s, y, c)
          BY <3>3, <3>4 DEF RightBehind
        <4>2. /\ Ahead(s, c, y) => Ahead(t, RenderOf(d, c), h)
              /\ Ahead(s, y, c) => Ahead(t, h, RenderOf(d, c))
          BY <1>12, <3>4
        <4> QED
          BY <3>2, <4>1, <4>2 DEF Behind
      <3> QED
        BY <3>4 DEF Aligned, z, s
    <2>2. CASE offset = 0
      <3>1. i = m
        BY <1>2, <1>6, <2>2
      <3>2. InFront(t, z, r, h)
        <4> HIDE DEF t, z, r, h, i
        <4> QED
          BY <1>2, <1>3, <1>6, <1>11, <3>1, InsertedBeside
      <3>3. RightAhead(d, s, e, y, S)
        BY <2>2 DEF NextTo
      <3> HIDE DEF t, z, s
      <3>4. ASSUME NEW c \in S, d.parent[c] = p
            PROVE  /\ Ahead(s, c, e) => Ahead(z, RenderOf(d, c), r)
                   /\ Ahead(s, e, c) => Ahead(z, r, RenderOf(d, c))
        <4>1. /\ Ahead(s, c, e) => Ahead(s, c, y)
              /\ Ahead(s, e, c) => c = y \/ Ahead(s, y, c)
          BY <3>3, <3>4 DEF RightAhead
        <4>2. /\ Ahead(s, c, y) => Ahead(t, RenderOf(d, c), h)
              /\ Ahead(s, y, c) => Ahead(t, h, RenderOf(d, c))
          BY <1>12, <3>4
        <4> QED
          BY <3>2, <4>1, <4>2 DEF InFront
      <3> QED
        BY <3>4 DEF Aligned, z, s
    <2> QED
      BY <2>1, <2>2
  <1> HIDE DEF i
  <1>14. Ordered(x, S \cup {e}, F)
    BY <1>8, <1>9, <1>10, <1>13, StaticOrder
  <1> QED
    BY <1>14 DEF x

(* Last, when none of S is behind e.                                       *)
LEMMA LastOrder ==
  ASSUME NEW d, Tree(d), NEW a, Grown(d, a), NEW S, NEW F, Ordered(d, S, F),
         NEW e \in Elements, Loose(d, e), e \notin S, NEW p \in Elements, d.parent[e] = p, Built(d, p),
         \A c \in S : d.parent[c] = p => ~Ahead(d.children[p], e, c)
  PROVE  Ordered(AppendChild(d, RenderOf(d, p), RenderOf(d, e)), S \cup {e}, F)
  <1> DEFINE r == RenderOf(d, e)
             q == RenderOf(d, p)
             t == Rows(d.kids)[q]
             i == Len(t) + 1
             x == AppendChild(d, q, r)
  <1>1. Wood(Rows(d.kids)) /\ d.build \in [Elements -> Nat] /\ q \in DOMAIN d.kids /\ IsDoc(d)
    BY GrownWood DEF Grown, Planted
  <1>2. d.kids[q] = t /\ q \in AllRenders /\ t \in Seq(AllRenders) /\ Distinct(t) /\ Len(t) \in Nat
    BY <1>1, GrownWood DEF Wood
  <1>3. r \in AllRenders
    BY <1>1 DEF AllRenders, RenderOf
  <1>4. RowFor(d, p, S)
    BY DEF Ordered
  <1>5. x = InsertRender(d, "add", q, r, i)
    BY <1>2 DEF AppendChild
  <1>6. SamePlant(d, x)
    BY <1>1, RenderParts, RenderPlant
  <1> HIDE DEF x
  <1>7. i \in 1 .. Len(t) + 1
    BY <1>2
  <1>8. InsertedRows(d, x, q, i, r)
    BY <1>1, <1>5, InsertRows
  <1>9. Rows(x.kids)[q] = Append(t, r)
    <2>1. Rows(x.kids)[q] = InsertAt(t, Len(t) + 1, r)
      BY <1>8 DEF InsertedRows
    <2> HIDE DEF t, r
    <2> QED
      BY <1>2, <1>3, <2>1, AppendedRow
  <1>10. \A u : Listed(t, u) => Ahead(Append(t, r), u, r)
    <2> HIDE DEF t, r
    <2> QED
      BY <1>2, <1>3, AppendedRow
  <1>11. Aligned(d, x, e, S)
    <2> SUFFICES ASSUME NEW c \in S, d.parent[c] = p PROVE Ahead(Append(t, r), RenderOf(d, c), r)
      BY <1>9 DEF Aligned
    <2>1. Listed(t, RenderOf(d, c))
      BY <1>4 DEF RowFor
    <2> QED
      BY <1>10, <2>1
  <1> HIDE DEF i
  <1>12. Ordered(x, S \cup {e}, F)
    BY <1>6, <1>7, <1>8, <1>11, StaticOrder
  <1> QED
    BY <1>12 DEF x

-----------------------------------------------------------------------------
(* The static children that are built, e aside, are those of S.            *)
StaticsIn(d, e, S) ==
    \A c \in Elements : c # e /\ d.parent[c] = d.parent[e] =>
        (c \in S <=> d.init[c] /\ d.style[c] = "static")
NearestOf(d, s, p, e, S) ==
    /\ \A y : y = StaticSibling(d, d.prev, e) /\ y # None /\ d.init[y]
                  => y \in S /\ d.parent[y] = p /\ RightBehind(d, s, e, y, S \ {e})
    /\ \A y : y = StaticSibling(d, d.next, e) /\ y # None /\ d.init[y]
                  => y \in S /\ d.parent[y] = p /\ RightAhead(d, s, e, y, S \ {e})
LEMMA NearestKinds ==
  ASSUME NEW d, Tree(d), NEW p \in Elements, PointersAt(d, p), d.style \in [Elements -> Positions],
         NEW s, s = d.children[p], NEW k \in 1 .. Len(s), NEW e, e = s[k], NEW S, StaticsIn(d, e, S)
  PROVE  NearestOf(d, s, p, e, S)
  <1>1. /\ Len(s) \in Nat /\ \A j \in 1 .. Len(s) : s[j] \in Elements /\ d.parent[s[j]] = p
        /\ \A i, j \in 1 .. Len(s) : s[i] = s[j] => i = j
    BY RowMembers
  <1>2. d.parent[e] = p /\ e \in Elements
    BY <1>1
  <1>3. \A c \in Elements : d.style[c] # "fixed" <=> d.style[c] = "static"
    BY DEF Positions
  <1>4. \A j \in 1 .. Len(s) : j # k => (s[j] \in S <=> d.init[s[j]] /\ d.style[s[j]] = "static")
    BY <1>1, <1>2 DEF StaticsIn
  <1>5. ASSUME NEW y, y = StaticSibling(d, d.prev, e), y # None, d.init[y]
        PROVE  y \in S /\ d.parent[y] = p /\ RightBehind(d, s, e, y, S \ {e})
    <2>1. NearestBefore(d, s, k, y)
      BY <1>5, StaticBefore
    <2>2. PICK j \in 1 .. k - 1 : /\ y = s[j] /\ d.style[s[j]] # "fixed"
                                  /\ \A l \in j + 1 .. k - 1 : d.style[s[l]] = "fixed"
      BY <1>5, <2>1 DEF NearestBefore
    <2>3. j \in 1 .. Len(s) /\ j < k
      BY <1>1, <2>2
    <2>4. y \in S /\ d.parent[y] = p
      BY <1>1, <1>3, <1>4, <1>5, <2>2, <2>3
    <2>5. ASSUME NEW c \in S \ {e}, Ahead(s, c, e) PROVE c = y \/ Ahead(s, c, y)
      <3>1. PICK u, v \in 1 .. Len(s) : u < v /\ s[u] = c /\ s[v] = e
        BY <2>5 DEF Ahead
      <3>2. v = k
        BY <1>1, <3>1
      <3>3. d.style[s[u]] # "fixed"
        BY <1>1, <1>3, <1>4, <2>5, <3>1, <3>2
      <3>4. u <= j
        BY <1>1, <2>2, <2>3, <3>1, <3>2, <3>3
      <3> QED
        BY <2>2, <2>3, <3>1, <3>4 DEF Ahead
    <2>6. ASSUME NEW c \in S \ {e}, Ahead(s, e, c) PROVE Ahead(s, y, c)
      <3>1. PICK u, v \in 1 .. Len(s) : u < v /\ s[u] = e /\ s[v] = c
        BY <2>6 DEF Ahead
      <3>2. u = k
        BY <1>1, <3>1
      <3>3. j < v
        BY <1>1, <2>3, <3>1, <3>2
      <3> QED
        BY <2>2, <2>3, <3>1, <3>3 DEF Ahead
    <2> QED
      BY <2>4, <2>5, <2>6 DEF RightBehind
  <1>6. ASSUME NEW y, y = StaticSibling(d, d.next, e), y # None, d.init[y]
        PROVE  y \in S /\ d.parent[y] = p /\ RightAhead(d, s, e, y, S \ {e})
    <2>1. NearestAfter(d, s, k, y)
      BY <1>6, StaticAfter
    <2>2. PICK j \in k + 1 .. Len(s) : /\ y = s[j] /\ d.style[s[j]] # "fixed"
                                  /\ \A l \in k + 1 .. j - 1 : d.style[s[l]] = "fixed"
      BY <1>6, <2>1 DEF NearestAfter
    <2>3. j \in 1 .. Len(s) /\ k < j
      BY <1>1, <2>2
    <2>4. y \in S /\ d.parent[y] = p
      BY <1>1, <1>3, <1>4, <1>6, <2>2, <2>3
    <2>5. ASSUME NEW c \in S \ {e}, Ahead(s, e, c) PROVE c = y \/ Ahead(s, y, c)
      <3>1. PICK u, v \in 1 .. Len(s) : u < v /\ s[u] = e /\ s[v] = c
        BY <2>5 DEF Ahead
      <3>2. u = k
        BY <1>1, <3>1
      <3>3. d.style[s[v]] # "fixed"
        BY <1>1, <1>3, <1>4, <2>5, <3>1, <3>2
      <3>4. j <= v
        BY <1>1, <2>2, <2>3, <3>1, <3>2, <3>3
      <3> QED
        BY <2>2, <2>3, <3>1, <3>4 DEF Ahead
    <2>6. ASSUME NEW c \in S \ {e}, Ahead(s, c, e) PROVE Ahead(s, c, y)
      <3>1. PICK u, v \in 1 .. Len(s) : u < v /\ s[u] = c /\ s[v] = e
        BY <2>6 DEF Ahead
      <3>2. v = k
        BY <1>1, <3>1
      <3>3. u < j
        BY <1>1, <2>3, <3>1, <3>2
      <3> QED
        BY <2>2, <2>3, <3>1, <3>3 DEF Ahead
    <2> QED
      BY <2>4, <2>5, <2>6 DEF RightAhead
  <1> QED
    BY <1>5, <1>6 DEF NearestOf

(* The place AppendOrInsertIntoParent finds is the right one, but where e  *)
(* is built before its siblings on both sides.                             *)
LEMMA PlacedOrder ==
  ASSUME NEW d, Tree(d), NEW a, Grown(d, a), NEW S, NEW F, Ordered(d, S, F),
         NEW e \in Elements, Loose(d, e), e \notin S, NEW p \in Elements, d.parent[e] = p,
         PointersAt(d, p), d.style \in [Elements -> Positions], StaticsIn(d, e, S), ~Misplaced(d, e)
  PROVE  Ordered(AppendOrInsertIntoParent(d, e), S \cup {e}, F)
  <1> DEFINE x == AppendOrInsertIntoParent(d, e)
             s == d.children[p]
             q == RenderOf(d, p)
             r == RenderOf(d, e)
             prev == StaticSibling(d, d.prev, e)
             next == StaticSibling(d, d.next, e)
             Usable(n) == n # None /\ d.init[n]
  <1>1. S \subseteq Elements
    BY DEF Ordered
  <1>2. CASE ~Built(d, p)
    <2>1. x = d
      BY <1>2 DEF AppendOrInsertIntoParent
    <2>2. \A z \in Elements : Built(d, z) => Alike(d, d, S, S \cup {e}, z)
      <3> SUFFICES ASSUME NEW z \in Elements, Built(d, z) PROVE Alike(d, d, S, S \cup {e}, z)
        OBVIOUS
      <3>1. z # p
        BY <1>2
      <3> QED
        BY <3>1 DEF Alike
    <2>3. S \cup {e} \in SUBSET Elements
      BY <1>1
    <2> HIDE DEF x
    <2>4. Ordered(d, S \cup {e}, F)
      BY <2>2, <2>3, AlikeOrder
    <2> QED
      BY <2>1, <2>4 DEF x
  <1>3. CASE Built(d, p)
    <2>1. d.parent[e] # None
      BY TreesAssumption DEF ConstantsBounded, Elements
    <2>2. IndexOf(s, e) \in 1 .. Len(s) /\ s[IndexOf(s, e)] = e
      BY <2>1, PlaceOfChild
    <2>3. PICK k \in 1 .. Len(s) : s[k] = e
      BY <2>2
    <2>4. S \ {e} = S
      OBVIOUS
    <2>5. /\ \A y : y = prev /\ Usable(y) => y \in S /\ d.parent[y] = p /\ RightBehind(d, s, e, y, S)
          /\ \A y : y = next /\ Usable(y) => y \in S /\ d.parent[y] = p /\ RightAhead(d, s, e, y, S)
      <3>1. NearestOf(d, s, p, e, S)
        BY <2>3, NearestKinds
      <3> QED
        BY <2>4, <3>1 DEF NearestOf
    <2>6. x = IF Usable(prev) THEN InsertBeside(d, q, r, RenderOf(d, prev), 1)
              ELSE IF Usable(next) THEN InsertBeside(d, q, r, RenderOf(d, next), 0)
              ELSE AppendChild(d, q, r)
      BY <1>3 DEF AppendOrInsertIntoParent
    <2> HIDE DEF x, prev, next, s
    <2>7. CASE Usable(prev)
      <3>1. prev \in S /\ d.parent[prev] = p /\ NextTo(d, s, e, prev, S, 1)
        BY <2>5, <2>7 DEF NextTo
      <3>2. Ordered(InsertBeside(d, q, r, RenderOf(d, prev), 1), S \cup {e}, F)
        BY <1>3, <3>1, BesideOrder DEF s
      <3> QED
        BY <2>6, <2>7, <3>2 DEF x
    <2>8. CASE ~Usable(prev) /\ Usable(next)
      <3>1. next \in S /\ d.parent[next] = p /\ NextTo(d, s, e, next, S, 0)
        BY <2>5, <2>8 DEF NextTo
      <3>2. Ordered(InsertBeside(d, q, r, RenderOf(d, next), 0), S \cup {e}, F)
        BY <1>3, <3>1, BesideOrder DEF s
      <3> QED
        BY <2>6, <2>8, <3>2 DEF x
    <2>9. CASE ~Usable(prev) /\ ~Usable(next)
      <3>1. ASSUME NEW c \in S, d.parent[c] = p, Ahead(s, e, c) PROVE FALSE
        <4>1. PICK i, j \in 1 .. Len(s) : i < j /\ s[i] = e /\ s[j] = c
          BY <3>1 DEF Ahead
        <4>2. c # e /\ c \in Elements
          BY <1>1, <3>1
        <4>3. d.init[c] /\ d.style[c] = "static"
          BY <3>1, <4>2 DEF StaticsIn
        <4>4. DOMAIN s = 1 .. Len(s)
          BY RowMembers DEF s
        <4> QED
          BY <2>9, <4>1, <4>3, <4>4 DEF Misplaced, prev, next, s
      <3>2. Ordered(AppendChild(d, q, r), S \cup {e}, F)
        BY <1>3, <3>1, LastOrder DEF s
      <3> QED
        BY <2>6, <2>9, <3>2 DEF x
    <2> QED
      BY <2>7, <2>8, <2>9 DEF x
  <1> QED
    BY <1>2, <1>3

-----------------------------------------------------------------------------
(* Building an element.  Its own place in the tree stays.                  *)
LEMMA MatchedTree ==
  ASSUME NEW d, IsDoc(d), NEW e, NEW f
  PROVE  LET c == [Build(PreBuild(d, e), e) EXCEPT !.ignore[e] = FALSE, !.flaws = @ \cup f]
         IN  SameTree(d, c) /\ f \subseteq c.flaws
  <1> DEFINE m == PreBuild(d, e)
             b == Build(m, e)
  <1>1. IsDoc(m) /\ SameTree(d, m)
    BY DEF PreBuild, IsDoc, SameTree
  <1> HIDE DEF m
  <1>2. IsDoc(b) /\ SameTree(m, b)
    <2>1. CASE m.init[e] \/ m.ignore[e]
      BY <1>1, <2>1 DEF Build, SameTree
    <2>2. CASE ~(m.init[e] \/ m.ignore[e])
      <3> DEFINE k == [q \in DOMAIN m.kids \cup {<<e, m.build[e] + 1>>} |->
                           IF q = <<e, m.build[e] + 1>> THEN <<>> ELSE m.kids[q]]
                 y == [m EXCEPT !.build[e] = @ + 1]
      <3>1. b = [y EXCEPT !.kids = k]
        BY <1>1, <2>2 DEF Build, NewRenderNode, IsDoc
      <3>2. BuildOnly(m, y) /\ IsDoc(y)
        BY <1>1, BuildFields DEF BuildOnly
      <3> HIDE DEF y, k, b
      <3>3. BuildOnly(y, b)
        BY <3>1, <3>2, BuildFields
      <3>4. BuildOnly(m, b)
        BY <3>2, <3>3, BuildComposes
      <3> QED
        BY <3>4 DEF BuildOnly
    <2> QED
      BY <2>1, <2>2
  <1> HIDE DEF b
  <1> DEFINE y == [b EXCEPT !.ignore[e] = FALSE]
             c == [b EXCEPT !.ignore[e] = FALSE, !.flaws = @ \cup f]
  <1>3. c = [y EXCEPT !.flaws = @ \cup f]
    BY <1>2 DEF IsDoc
  <1>4. BuildOnly(b, y) /\ IsDoc(y)
    BY <1>2, BuildFields DEF BuildOnly
  <1> HIDE DEF y, c
  <1>5. BuildOnly(y, c) /\ f \subseteq c.flaws
    BY <1>3, <1>4, BuildFields DEF IsDoc
  <1>6. SameTree(d, c) /\ f \subseteq c.flaws
    BY <1>1, <1>2, <1>4, <1>5 DEF BuildOnly, SameTree
  <1> QED
    BY <1>6 DEF c, b, m

(* The new render node of e has no children yet.                           *)
LEMMA RenewedOrder ==
  ASSUME NEW d, NEW a, Grown(d, a), NEW S, NEW F, Ordered(d, S, F),
         NEW e \in d.registry, e \notin S, e \notin F,
         ~d.init[e], ~d.ignore[e], \A c \in S : d.parent[c] # e,
         NEW x, IsDoc(x), Renewed(d, x, e), x.children = d.children
  PROVE  Ordered(x, S, F)
  <1>1. Planted(d) /\ e \in Elements /\ d.build \in [Elements -> Nat]
    BY DEF Grown, Planted
  <1>2. Rows(x.kids) = Rows(d.kids)
    BY RenewedGrown
  <1>3. x.build = [d.build EXCEPT ![e] = @ + 1] /\ x.parent = d.parent
    BY DEF Renewed
  <1>4. x.build[e] = d.build[e] + 1 /\ \A q \in Elements : q # e => x.build[q] = d.build[q]
    BY <1>1, <1>3
  <1>5. /\ S \subseteq Elements /\ F \subseteq Elements
        /\ \A p \in Elements : Built(d, p) => RowFor(d, p, S)
        /\ \A z : Listed(Rows(d.kids)[FixedRoot], z) <=> \E c \in F : z = RenderOf(d, c)
    BY DEF Ordered
  <1>6. \A c \in Elements : c # e => RenderOf(x, c) = RenderOf(d, c)
    BY <1>4 DEF RenderOf
  <1>7. ASSUME NEW p \in Elements, Built(x, p) PROVE RowFor(x, p, S)
    <2>1. CASE p # e
      <3>1. RowFor(d, p, S)
        BY <1>4, <1>5, <1>7, <2>1 DEF Built
      <3> QED
        BY <1>2, <1>3, <1>5, <1>6, <2>1, <3>1 DEF RowFor
    <2>2. CASE p = e
      <3>1. RenderOf(x, e) \notin DOMAIN d.kids /\ RenderOf(x, e) \in AllRenders
        <4>1. d.build[e] + 1 \in Nat /\ ~(d.build[e] + 1 <= d.build[e]) /\ d.build[e] + 1 # 0
          BY <1>1
        <4> QED
          BY <1>1, <1>4, <4>1 DEF Planted, RenderOf, AllRenders, FixedRoot
      <3>2. Rows(x.kids)[RenderOf(x, e)] = <<>>
        BY <1>2, <3>1 DEF Rows
      <3>3. \A z : ~Listed(<<>>, z)
        BY DEF Listed
      <3> QED
        BY <1>3, <2>2, <3>2, <3>3 DEF RowFor
    <2> QED
      BY <2>1, <2>2
  <1>8. \A z : Listed(Rows(x.kids)[FixedRoot], z) <=> \E c \in F : z = RenderOf(x, c)
    BY <1>2, <1>5, <1>6
  <1> QED
    BY <1>5, <1>7, <1>8 DEF Ordered

(* An element without a parent is in no row.                               *)
LEMMA IdleOrder ==
  ASSUME NEW d, NEW S, NEW F, Ordered(d, S, F), NEW e \in Elements, d.parent[e] \notin Elements
  PROVE  Ordered(d, S \cup {e}, F)
  <1>1. S \subseteq Elements
    BY DEF Ordered
  <1>2. \A p \in Elements : Built(d, p) => Alike(d, d, S, S \cup {e}, p)
    BY DEF Alike
  <1>3. S \cup {e} \in SUBSET Elements
    BY <1>1
  <1> QED
    BY <1>2, <1>3, AlikeOrder

-----------------------------------------------------------------------------
(* Whether e gets its place is a matter of its siblings.                   *)
SameSiblings(d, x, e) ==
    /\ x.children = d.children /\ x.parent = d.parent /\ x.prev = d.prev /\ x.next = d.next
    /\ x.style = d.style /\ \A c \in Elements : c # e => x.init[c] = d.init[c]
LEMMA SameSibling ==
  ASSUME NEW d, NEW x, x.style = d.style, NEW link, NEW e
  PROVE  StaticSibling(x, link, e) = StaticSibling(d, link, e)
  <1> DEFINE Found(st) ==
                LET hop[k \in 0 .. Cardinality(Nodes)] ==
                        IF k = 0 THEN link[e]
                        ELSE LET s == hop[k - 1]
                             IN  IF s = None THEN None ELSE IF st[s] = "fixed" THEN link[s] ELSE s
                IN  hop[Cardinality(Nodes)]
  <1>1. StaticSibling(x, link, e) = Found(x.style) /\ StaticSibling(d, link, e) = Found(d.style)
    BY Zenon DEF StaticSibling
  <1> HIDE DEF Found
  <1> QED
    BY <1>1
LEMMA SiblingElse ==
  ASSUME NEW d, Tree(d), NEW p \in Elements, PointersAt(d, p), NEW k \in 1 .. Len(d.children[p]),
         NEW e, e = d.children[p][k]
  PROVE  /\ StaticSibling(d, d.prev, e) \in Elements \cup {None} /\ StaticSibling(d, d.prev, e) # e
         /\ StaticSibling(d, d.next, e) \in Elements \cup {None} /\ StaticSibling(d, d.next, e) # e
  <1> DEFINE s == d.children[p]
  <1>1. /\ Len(s) \in Nat /\ \A j \in 1 .. Len(s) : s[j] \in Elements
        /\ \A i, j \in 1 .. Len(s) : s[i] = s[j] => i = j
    BY RowMembers
  <1>2. e # None
    BY <1>1, TreesAssumption DEF ConstantsBounded, Elements
  <1>3. NearestBefore(d, s, k, StaticSibling(d, d.prev, e)) /\ NearestAfter(d, s, k, StaticSibling(d, d.next, e))
    BY StaticBefore, StaticAfter
  <1> HIDE DEF s
  <1>4. \A n : NearestBefore(d, s, k, n) => n \in Elements \cup {None} /\ n # e
    <2> SUFFICES ASSUME NEW n, NearestBefore(d, s, k, n) PROVE n \in Elements \cup {None} /\ n # e
      OBVIOUS
    <2>1. CASE n = None
      BY <1>2, <2>1
    <2>2. CASE \E j \in 1 .. k - 1 : n = s[j]
      BY <1>1, <2>2 DEF s
    <2> QED
      BY <2>1, <2>2 DEF NearestBefore
  <1>5. \A n : NearestAfter(d, s, k, n) => n \in Elements \cup {None} /\ n # e
    <2> SUFFICES ASSUME NEW n, NearestAfter(d, s, k, n) PROVE n \in Elements \cup {None} /\ n # e
      OBVIOUS
    <2>1. CASE n = None
      BY <1>2, <2>1
    <2>2. CASE \E j \in k + 1 .. Len(s) : n = s[j]
      BY <1>1, <2>2 DEF s
    <2> QED
      BY <2>1, <2>2 DEF NearestAfter
  <1> QED
    BY <1>3, <1>4, <1>5
LEMMA SameMisplaced ==
  ASSUME NEW d, Tree(d), NEW e \in Elements, d.parent[e] \in Elements, PointersAt(d, d.parent[e]),
         NEW x, SameSiblings(d, x, e), ~Misplaced(d, e)
  PROVE  ~Misplaced(x, e)
  <1> DEFINE p == d.parent[e]
             s == d.children[p]
             prev == StaticSibling(d, d.prev, e)
             next == StaticSibling(d, d.next, e)
  <1>1. p # None
    BY TreesAssumption DEF ConstantsBounded, Elements
  <1>2. IndexOf(s, e) \in 1 .. Len(s) /\ s[IndexOf(s, e)] = e
    BY <1>1, PlaceOfChild
  <1>3. PICK k \in 1 .. Len(s) : e = s[k]
    BY <1>2
  <1>4. prev \in Elements \cup {None} /\ prev # e /\ next \in Elements \cup {None} /\ next # e
    BY <1>3, SiblingElse
  <1>5. StaticSibling(x, x.prev, e) = prev /\ StaticSibling(x, x.next, e) = next
    BY SameSibling DEF SameSiblings
  <1>6. /\ DOMAIN s = 1 .. Len(s) /\ Len(s) \in Nat
        /\ \A i, j \in 1 .. Len(s) : s[i] = s[j] => i = j
        /\ \A j \in 1 .. Len(s) : s[j] \in Elements
    BY RowMembers
  <1> HIDE DEF prev, next
  <1> SUFFICES ASSUME Misplaced(x, e) PROVE FALSE
    OBVIOUS
  <1>7. x.parent = d.parent /\ x.children = d.children /\ x.style = d.style
    BY DEF SameSiblings
  <1>8. /\ ~(prev # None /\ x.init[prev]) /\ ~(next # None /\ x.init[next])
        /\ \E i, j \in DOMAIN s : i < j /\ s[i] = e /\ x.init[s[j]] /\ d.style[s[j]] = "static"
    BY <1>5, <1>7 DEF Misplaced
  <1>9. PICK i, j \in 1 .. Len(s) : i < j /\ s[i] = e /\ x.init[s[j]] /\ d.style[s[j]] = "static"
    BY <1>6, <1>8
  <1>10. s[j] # e
    BY <1>6, <1>9
  <1>11. d.init[s[j]]
    BY <1>6, <1>9, <1>10 DEF SameSiblings
  <1>12. ~(prev # None /\ d.init[prev]) /\ ~(next # None /\ d.init[next])
    BY <1>4, <1>8 DEF SameSiblings
  <1> QED
    BY <1>6, <1>9, <1>11, <1>12 DEF Misplaced, prev, next
(* Where all siblings are built, it does.                                  *)
LEMMA NotMisplaced ==
  ASSUME NEW d, Tree(d), NEW e \in Elements, d.parent[e] \in Elements, PointersAt(d, d.parent[e]),
         \A c \in Nodes : d.parent[c] = d.parent[e] /\ c # e => d.init[c]
  PROVE  ~Misplaced(d, e)
  <1> DEFINE p == d.parent[e]
             s == d.children[p]
             next == StaticSibling(d, d.next, e)
  <1>1. /\ DOMAIN s = 1 .. Len(s) /\ Len(s) \in Nat
        /\ \A j \in 1 .. Len(s) : s[j] \in Nodes /\ d.parent[s[j]] = p
        /\ \A i, j \in 1 .. Len(s) : s[i] = s[j] => i = j
    BY RowMembers
  <1> SUFFICES ASSUME Misplaced(d, e) PROVE FALSE
    OBVIOUS
  <1>2. ~(next # None /\ d.init[next])
    BY DEF Misplaced
  <1>3. PICK i, j \in 1 .. Len(s) : i < j /\ s[i] = e /\ d.style[s[j]] = "static"
    BY <1>1 DEF Misplaced
  <1>4. NearestAfter(d, s, i, next)
    BY <1>3, StaticAfter
  <1> HIDE DEF s, next
  <1>5. CASE next = None /\ \A l \in i + 1 .. Len(s) : d.style[s[l]] = "fixed"
    BY <1>1, <1>3, <1>5
  <1>6. ASSUME NEW l \in i + 1 .. Len(s), next = s[l] PROVE FALSE
    <2>1. l \in 1 .. Len(s) /\ l # i
      BY <1>1
    <2>2. next \in Nodes /\ next # e /\ d.parent[next] = p
      BY <1>1, <1>3, <1>6, <2>1
    <2>3. next # None
      BY <2>2, TreesAssumption DEF ConstantsBounded
    <2> QED
      BY <1>2, <2>2, <2>3
  <1> QED
    BY <1>4, <1>5, <1>6 DEF NearestAfter

-----------------------------------------------------------------------------
LEMMA RenderKeeps ==
  ASSUME NEW d, NEW x, Tree(d), RenderOnly(d, x)
  PROVE  /\ Tree(x) /\ \A q : PointersAt(d, q) => PointersAt(x, q)
         /\ \A e : SameSiblings(d, x, e)
         /\ \A e, S : StaticsIn(d, e, S) => StaticsIn(x, e, S \ {e})
  <1>1. InPlace(d, x)
    BY BuildComposes
  <1>2. Tree(x) /\ \A q : PointersAt(d, q) => PointersAt(x, q)
    BY <1>1, InPlaceKeeps
  <1>3. \A e : SameSiblings(d, x, e)
    BY DEF RenderOnly, SameTree, SameBuilds, SameSiblings
  <1>4. \A e, S : StaticsIn(d, e, S) => StaticsIn(x, e, S \ {e})
    BY DEF RenderOnly, SameTree, SameBuilds, StaticsIn
  <1> QED
    BY <1>2, <1>3, <1>4

(* MountFixedRenderNode between the two kinds of rows.                     *)
MountedOrder(y, x, S, F, e, old) ==
    /\ y.style[e] = "fixed" /\ old \in {None, "static"} => Ordered(x, S \ {e}, F \cup {e})
    /\ y.style[e] = "static" /\ old = "fixed" => Ordered(x, S \cup {e}, F \ {e})
    /\ y.style[e] = "fixed" /\ old = "fixed" => x = y
    /\ y.style[e] = "static" /\ old # "fixed" => x = y
LEMMA MountFixedOrder ==
  ASSUME NEW y, Tree(y), NEW a, Grown(y, a), NEW S, NEW F, Ordered(y, S, F),
         NEW e \in y.registry, Built(y, e), NEW old \in Positions \cup {None},
         y.style \in [Elements -> Positions],
         y.style[e] = "fixed" /\ old = None => Loose(y, e) /\ e \notin S,
         y.style[e] = "static" /\ old = "fixed" =>
            /\ y.parent[e] \in Elements /\ PointersAt(y, y.parent[e])
            /\ StaticsIn(y, e, S) /\ ~Misplaced(y, e)
  PROVE  MountedOrder(y, MountFixedRenderNode(y, e, old), S, F, e, old)
  <1> DEFINE x == MountFixedRenderNode(y, e, old)
             r == RenderOf(y, e)
             z == RemoveChild(y, r)
  <1>1. e \in Elements /\ None # "static" /\ None # "fixed"
    BY TreesAssumption DEF Tree, ConstantsBounded
  <1>2. /\ Grown(z, a) /\ RenderOnly(y, z) /\ Loose(z, e) /\ RenderOf(z, e) = r
    BY AfterRemove
  <1>3. Ordered(z, S \ {e}, F \ {e})
    BY <1>1, RemoveOrder
  <1> HIDE DEF z
  <1>4. ASSUME y.style[e] = "fixed", old = None PROVE Ordered(x, S \ {e}, F \cup {e})
    <2>1. x = AppendChild(y, FixedRoot, r)
      BY <1>1, <1>4 DEF MountFixedRenderNode
    <2>2. Ordered(AppendChild(y, FixedRoot, r), S, F \cup {e})
      BY <1>1, <1>4, FixedOrder
    <2>3. S \ {e} = S
      BY <1>4
    <2> QED
      BY <2>1, <2>2, <2>3
  <1>5. ASSUME y.style[e] = "fixed", old = "static" PROVE Ordered(x, S \ {e}, F \cup {e})
    <2>1. x = AppendChild(z, FixedRoot, r)
      BY <1>1, <1>5 DEF MountFixedRenderNode, z
    <2>2. Ordered(AppendChild(z, FixedRoot, RenderOf(z, e)), S \ {e}, (F \ {e}) \cup {e})
      BY <1>1, <1>2, <1>3, FixedOrder
    <2>3. (F \ {e}) \cup {e} = F \cup {e}
      OBVIOUS
    <2> QED
      BY <1>2, <2>1, <2>2, <2>3
  <1>6. ASSUME y.style[e] = "static", old = "fixed" PROVE Ordered(x, S \cup {e}, F \ {e})
    <2> DEFINE p == y.parent[e]
    <2>1. x = AppendOrInsertIntoParent(z, e)
      BY <1>6 DEF MountFixedRenderNode, z
    <2>2. /\ Tree(z) /\ PointersAt(z, p) /\ SameSiblings(y, z, e) /\ StaticsIn(z, e, S \ {e})
          /\ z.parent[e] = p /\ p \in Elements /\ z.style \in [Elements -> Positions]
      BY <1>2, <1>6, RenderKeeps DEF RenderOnly, SameTree, SameBuilds
    <2>3. ~Misplaced(z, e)
      BY <1>1, <1>6, <2>2, SameMisplaced
    <2> HIDE DEF p
    <2>4. e \notin S \ {e}
      OBVIOUS
    <2>5. Ordered(AppendOrInsertIntoParent(z, e), (S \ {e}) \cup {e}, F \ {e})
      BY <1>1, <1>2, <1>3, <2>2, <2>3, <2>4, PlacedOrder
    <2>6. (S \ {e}) \cup {e} = S \cup {e}
      OBVIOUS
    <2> QED
      BY <2>1, <2>5, <2>6
  <1>7. (y.style[e] = "fixed" /\ old = "fixed") \/ (y.style[e] = "static" /\ old # "fixed") => x = y
    BY <1>1 DEF MountFixedRenderNode
  <1> HIDE DEF x
  <1>8. MountedOrder(y, x, S, F, e, old)
    BY <1>4, <1>5, <1>6, <1>7 DEF MountedOrder
  <1> QED
    BY <1>8 DEF x

-----------------------------------------------------------------------------
LEMMA PostBuildParts ==
  ASSUME NEW d, IsDoc(d), NEW e, NEW old
  PROVE  BuildOnly(d, PostBuild(d, e, old))
  <1>1. \A x : BuildOnly(d, x) => IsDoc(x)
    BY DEF BuildOnly
  <1>2. BuildOnly(d, AppendOrInsertIntoParent(d, e)) /\ BuildOnly(d, d)
    BY MountRender, BuildComposes
  <1>3. \A y : BuildOnly(d, y) => BuildOnly(d, [y EXCEPT !.init[e] = TRUE])
    BY <1>1, BuildFields, BuildComposes
  <1>4. \A y : BuildOnly(d, y) => BuildOnly(d, MountFixedRenderNode(y, e, old))
    BY <1>1, MountRender, BuildComposes
  <1> QED
    BY <1>2, <1>3, <1>4 DEF PostBuild

(* What BuildProcess notes before it mounts.                               *)
Unflawed(d, c, x, e, before) ==
    LET renewed == ~d.init[e] /\ ~d.ignore[e]
    IN  /\ "rebuild" \notin x.flaws => ~(renewed /\ Built(d, e) /\ \E n \in Nodes : d.parent[n] = e /\ d.init[n])
        /\ "movefixed" \notin x.flaws =>
              ~(~d.init[e] /\ ~renewed /\ Built(d, e) /\ before = "fixed" /\ c.style[e] = "fixed")
        /\ "between" \notin x.flaws => ~(MountsAtBuild(c, e) /\ Misplaced(c, e))
(* Up to there.                                                            *)
Readied(d, c, e) ==
    /\ IsDoc(c) /\ SameTree(d, c) /\ Renewed(d, c, e) /\ c.init = d.init
    /\ c.style = IF d.init[e] THEN d.style ELSE [d.style EXCEPT ![e] = d.want[e]]
OldOf(d, e, before) ==
    IF (~d.init[e] /\ ~d.ignore[e]) \/ ~Built(d, e) THEN None ELSE before
LEMMA MisplacedAs ==
  ASSUME NEW m, NEW c, SameTree(m, c), c.init = m.init, c.style = m.style, NEW e
  PROVE  (MountsAtBuild(c, e) <=> MountsAtBuild(m, e)) /\ (Misplaced(c, e) <=> Misplaced(m, e))
  <1>1. \A link : StaticSibling(c, link, e) = StaticSibling(m, link, e)
    BY SameSibling
  <1>2. /\ c.children = m.children /\ c.parent = m.parent /\ c.prev = m.prev /\ c.next = m.next
    BY DEF SameTree
  <1> QED
    BY <1>1, <1>2 DEF MountsAtBuild, Misplaced
LEMMA ProcessReadied ==
  ASSUME NEW d, IsDoc(d), NEW e, NEW before, before # None, None # "fixed"
  PROVE  \E c : /\ Readied(d, c, e) /\ BuildProcess(d, e, before) = PostBuild(c, e, OldOf(d, e, before))
                /\ Unflawed(d, c, BuildProcess(d, e, before), e, before)
  <1> DEFINE renewed == ~d.init[e] /\ ~d.ignore[e]
             old == IF renewed \/ ~Built(d, e) THEN None ELSE before
             m == PreBuild(d, e)
             f == (IF renewed /\ Built(d, e) /\ \E n \in Nodes : d.parent[n] = e /\ d.init[n]
                   THEN {"rebuild"} ELSE {})
                  \cup (IF ~d.init[e] /\ old = "fixed" /\ m.style[e] = "fixed"
                        THEN {"movefixed"} ELSE {})
                  \cup (IF MountsAtBuild(m, e) /\ Misplaced(m, e)
                        THEN {"between"} ELSE {})
             c == [Build(m, e) EXCEPT !.ignore[e] = FALSE, !.flaws = @ \cup f]
             x == BuildProcess(d, e, before)
  <1>1. x = PostBuild(c, e, old)
    BY Zenon DEF BuildProcess
  <1> HIDE DEF f
  <1>2. /\ IsDoc(c) /\ Renewed(d, c, e) /\ c.init = d.init
        /\ c.style = IF d.init[e] THEN d.style ELSE [d.style EXCEPT ![e] = d.want[e]]
    BY RenewedFields
  <1>3. SameTree(d, c) /\ f \subseteq c.flaws
    BY MatchedTree
  <1>4. /\ SameTree(d, m) /\ m.init = d.init
        /\ m.style = IF d.init[e] THEN d.style ELSE [d.style EXCEPT ![e] = d.want[e]]
    BY DEF PreBuild, IsDoc, SameTree
  <1> HIDE DEF c, m, x
  <1>5. BuildOnly(c, x)
    BY <1>1, <1>2, PostBuildParts
  <1>6. f \subseteq x.flaws
    BY <1>3, <1>5 DEF BuildOnly
  <1>7. SameTree(m, c) /\ c.init = m.init /\ c.style = m.style
    BY <1>2, <1>3, <1>4 DEF SameTree
  <1>8. (MountsAtBuild(c, e) <=> MountsAtBuild(m, e)) /\ (Misplaced(c, e) <=> Misplaced(m, e))
    BY <1>7, MisplacedAs
  <1>9. "rebuild" \notin x.flaws => ~(renewed /\ Built(d, e) /\ \E n \in Nodes : d.parent[n] = e /\ d.init[n])
    BY <1>6 DEF f
  <1>10. "movefixed" \notin x.flaws =>
              ~(~d.init[e] /\ ~renewed /\ Built(d, e) /\ before = "fixed" /\ c.style[e] = "fixed")
    <2>1. "movefixed" \notin x.flaws => ~(~d.init[e] /\ old = "fixed" /\ m.style[e] = "fixed")
      BY <1>6 DEF f
    <2> QED
      BY <1>7, <2>1
  <1>11. "between" \notin x.flaws => ~(MountsAtBuild(c, e) /\ Misplaced(c, e))
    <2>1. "between" \notin x.flaws => ~(MountsAtBuild(m, e) /\ Misplaced(m, e))
      BY <1>6 DEF f
    <2> QED
      BY <1>8, <2>1
  <1>12. Unflawed(d, c, x, e, before)
    BY <1>9, <1>10, <1>11 DEF Unflawed
  <1>13. Readied(d, c, e)
    BY <1>2, <1>3 DEF Readied
  <1>14. x = PostBuild(c, e, OldOf(d, e, before))
    BY <1>1 DEF OldOf
  <1> QED
    BY <1>12, <1>13, <1>14 DEF x

-----------------------------------------------------------------------------
(* The elements that are built, by what they are; all in their rows.       *)
Statics(d) == {e \in Elements : d.init[e] /\ d.style[e] = "static"}
Fixeds(d) == {e \in Elements : d.init[e] /\ d.style[e] = "fixed"}
InOrder(d) == Ordered(d, Statics(d), Fixeds(d))
(* Where e was mounted: its style may have changed since.                  *)
WasStatic(d, e, before) ==
    IF d.init[e] /\ before = "static" THEN Statics(d) \cup {e} ELSE Statics(d) \ {e}
WasFixed(d, e, before) ==
    IF d.init[e] /\ before = "fixed" THEN Fixeds(d) \cup {e} ELSE Fixeds(d) \ {e}
(* An element whose place can be found.                                    *)
Placeable(d, e, before) ==
    /\ Buildable(d, e) /\ before \in Positions /\ (e = Page => before = "static")
    /\ \A q \in Elements : PointersAt(d, q)
    /\ e \in Nodes => /\ d.init[d.parent[e]]
                      /\ d.init[e] /\ d.style[e] # before =>
                            \A c \in Nodes : d.parent[c] = d.parent[e] => d.init[c]
LEMMA ReadiedFirm ==
  ASSUME NEW d, Tree(d), NEW a, Firm(d, a), NEW e, NEW before, Placeable(d, e, before),
         NEW c, Readied(d, c, e)
  PROVE  /\ Grown(c, a) /\ Tree(c) /\ Built(c, e) /\ (~d.init[e] => Loose(c, e))
         /\ e \in c.registry /\ e \in Elements /\ (\A q \in Elements : PointersAt(c, q))
         /\ c.style \in [Elements -> Positions]
  <1>1. e \in d.registry /\ e \in Elements /\ IsDoc(d) /\ Tree(d)
    BY DEF Placeable, Buildable, Tree
  <1>2. /\ IsDoc(c) /\ SameTree(d, c) /\ Renewed(d, c, e) /\ c.init = d.init
        /\ c.style = IF d.init[e] THEN d.style ELSE [d.style EXCEPT ![e] = d.want[e]]
    BY DEF Readied
  <1>3. /\ Grown(c, a) /\ Rows(c.kids) = Rows(d.kids) /\ (~d.init[e] /\ ~d.ignore[e] => Loose(c, e))
    BY <1>1, <1>2, RenewedGrown DEF Firm
  <1>4. Tree(c) /\ e \in c.registry /\ \A q \in Elements : PointersAt(c, q)
    BY <1>1, <1>2 DEF SameTree, Tree, PointersAt, Placeable
  <1>5. ~d.init[e] => Loose(c, e)
    <2> SUFFICES ASSUME ~d.init[e], d.ignore[e] PROVE Loose(c, e)
      BY <1>3
    <2>1. c.build = d.build
      BY <1>2 DEF Renewed
    <2>2. Built(d, e) /\ ~Hangs(Rows(d.kids), RenderOf(d, e))
      BY <1>1 DEF Firm, Typed, Unhung
    <2> QED
      BY <1>3, <1>4, <2>1, <2>2 DEF Loose, Built, RenderOf
  <1>6. Built(c, e)
    <2>1. CASE ~d.init[e]
      BY <1>5, <2>1 DEF Loose
    <2>2. CASE d.init[e]
      <3>1. c.build = d.build
        BY <1>2, <2>2 DEF Renewed
      <3> QED
        BY <1>1, <2>2, <3>1 DEF Firm, Typed, Built
    <2> QED
      BY <2>1, <2>2
  <1>7. c.style \in [Elements -> Positions]
    BY <1>1, <1>2 DEF Firm, Typed
  <1> QED
    BY <1>1, <1>3, <1>4, <1>5, <1>6, <1>7

LEMMA ReadiedOrder ==
  ASSUME NEW d, Tree(d), NEW a, Firm(d, a), NEW e, NEW before, Placeable(d, e, before),
         NEW c, Readied(d, c, e), NEW x, Unflawed(d, c, x, e, before), "rebuild" \notin x.flaws,
         Ordered(d, WasStatic(d, e, before), WasFixed(d, e, before))
  PROVE  Ordered(c, WasStatic(d, e, before), WasFixed(d, e, before))
  <1> DEFINE S == WasStatic(d, e, before)
             F == WasFixed(d, e, before)
  <1>1. e \in d.registry /\ e \in Elements /\ Grown(d, a)
    BY DEF Placeable, Buildable, Tree, Firm
  <1>2. IsDoc(c) /\ SameTree(d, c) /\ Renewed(d, c, e)
    BY DEF Readied
  <1>3. c.children = d.children /\ c.parent = d.parent
    BY <1>2 DEF SameTree
  <1>4. CASE d.init[e] \/ d.ignore[e]
    <2>1. SameForest(d, c)
      BY <1>2, <1>3, <1>4 DEF SameForest, Renewed
    <2> QED
      BY <2>1, SameOrdered
  <1>5. CASE ~d.init[e] /\ ~d.ignore[e]
    <2>1. e \notin S /\ e \notin F
      BY <1>5 DEF WasStatic, WasFixed
    <2>2. ASSUME NEW n \in S, d.parent[n] = e PROVE FALSE
      <3>1. n \in Elements /\ d.init[n]
        BY <1>5, <2>2 DEF WasStatic, Statics
      <3>2. e # None
        BY <1>1, TreesAssumption DEF ConstantsBounded, Elements
      <3>3. n \in Nodes
        BY <2>2, <3>1, <3>2, PlaceOfChild
      <3>4. Built(d, e)
        BY <2>2, <3>1, <3>3 DEF Firm, Standing
      <3> QED
        BY <1>5, <2>2, <3>1, <3>3, <3>4 DEF Unflawed
    <2> HIDE DEF S, F
    <2>3. Ordered(d, S, F)
      BY DEF S, F
    <2>4. Ordered(c, S, F)
      BY <1>1, <1>2, <1>3, <1>5, <2>1, <2>2, <2>3, RenewedOrder
    <2> QED
      BY <2>4 DEF S, F
  <1> QED
    BY <1>4, <1>5

(* Mounted by PostBuild, if its parent is built, and built.                *)
Entered(c, e) ==
    [(IF MountsAtBuild(c, e) THEN AppendOrInsertIntoParent(c, e) ELSE c) EXCEPT !.init[e] = TRUE]
EnteredSet(c, e, S) == IF MountsAtBuild(c, e) THEN S \cup {e} ELSE S
LEMMA EnteredOrder ==
  ASSUME NEW d, Tree(d), NEW a, Firm(d, a), NEW e, NEW before, Placeable(d, e, before),
         NEW c, Readied(d, c, e), NEW x, Unflawed(d, c, x, e, before), "between" \notin x.flaws,
         NEW S, S = WasStatic(d, e, before), NEW F, Ordered(c, S, F)
  PROVE  /\ Ordered(Entered(c, e), EnteredSet(c, e, S), F)
         /\ Grown(Entered(c, e), a) /\ BuildOnly(c, Entered(c, e)) /\ SameBuilds([c EXCEPT !.init[e] = TRUE], Entered(c, e))
         /\ ~MountsAtBuild(c, e) /\ ~d.init[e] => Loose(Entered(c, e), e)
         /\ StaticsIn(Entered(c, e), e, EnteredSet(c, e, S))
  <1> DEFINE p == c.parent[e]
             m == IF MountsAtBuild(c, e) THEN AppendOrInsertIntoParent(c, e) ELSE c
             T == EnteredSet(c, e, S)
             y == Entered(c, e)
  <1>1. /\ Grown(c, a) /\ Tree(c) /\ Built(c, e) /\ (~d.init[e] => Loose(c, e))
        /\ e \in c.registry /\ e \in Elements /\ (\A q \in Elements : PointersAt(c, q))
        /\ c.style \in [Elements -> Positions]
    BY ReadiedFirm
  <1>2. /\ IsDoc(c) /\ SameTree(d, c) /\ c.init = d.init
        /\ c.style = IF d.init[e] THEN d.style ELSE [d.style EXCEPT ![e] = d.want[e]]
    BY DEF Readied
  <1>3. \A n \in Elements : n # e => c.style[n] = d.style[n]
    BY <1>2 DEF Firm, Typed
  <1>4. StaticsIn(c, e, S)
    BY <1>2, <1>3 DEF StaticsIn, WasStatic, Statics
  <1>5. MountsAtBuild(c, e) => ~d.init[e] /\ e \notin S /\ p \in Elements /\ ~Misplaced(c, e)
    <2>1. MountsAtBuild(c, e) => ~Misplaced(c, e)
      BY DEF Unflawed
    <2>2. MountsAtBuild(c, e) => ~d.init[e] /\ p # None
      BY <1>2 DEF MountsAtBuild
    <2>3. p \in Elements \cup {None}
      BY <1>1 DEF Tree
    <2> QED
      BY <2>1, <2>2, <2>3 DEF WasStatic
  <1>6. Ordered(m, T, F)
    <2>1. CASE MountsAtBuild(c, e)
      <3>1. PointersAt(c, p)
        BY <1>1, <1>5, <2>1
      <3> HIDE DEF p
      <3>2. Ordered(AppendOrInsertIntoParent(c, e), S \cup {e}, F)
        BY <1>1, <1>4, <1>5, <2>1, <3>1, PlacedOrder DEF p
      <3> QED
        BY <2>1, <3>2 DEF EnteredSet
    <2>2. CASE ~MountsAtBuild(c, e)
      BY <2>2 DEF EnteredSet
    <2> QED
      BY <2>1, <2>2
  <1>7. Grown(m, a) /\ RenderOnly(c, m)
    <2>1. CASE MountsAtBuild(c, e)
      <3>1. Mounted(c, AppendOrInsertIntoParent(c, e), a, RenderOf(c, e))
        BY <1>1, <1>5, <2>1, AppendOrInsertGrown
      <3> QED
        BY <2>1, <3>1 DEF Mounted
    <2>2. CASE ~MountsAtBuild(c, e)
      <3>1. RenderOnly(c, c)
        BY <1>2, RenderParts
      <3> QED
        BY <1>1, <2>2, <3>1
    <2> QED
      BY <2>1, <2>2
  <1>8. y = [m EXCEPT !.init[e] = TRUE]
    BY DEF Entered
  <1>9. ~MountsAtBuild(c, e) => m = c
    OBVIOUS
  <1> HIDE DEF m, y
  <1>10. IsDoc(m)
    BY <1>7 DEF RenderOnly
  <1>11. /\ IsDoc(y) /\ SameTree(m, y) /\ SameStyles(m, y) /\ y.kids = m.kids /\ y.calls = m.calls
         /\ y.flaws = m.flaws /\ y.build = m.build /\ y.ignore = m.ignore /\ y.style = m.style
         /\ y.init = [m.init EXCEPT ![e] = TRUE]
    BY <1>8, <1>10 DEF IsDoc, SameTree, SameStyles
  <1>12. Ordered(y, T, F)
    <2>1. SameForest(m, y)
      BY <1>11 DEF SameForest, SameTree
    <2> HIDE DEF T
    <2> QED
      BY <1>6, <2>1, SameOrdered
  <1>13. Grown(y, a)
    <2>1. SameRenders(m, y)
      BY <1>11 DEF SameRenders, SameTree
    <2> QED
      BY <1>7, <1>11, <2>1, SameGrown
  <1>14. BuildOnly(c, y)
    <2>1. BuildOnly(c, m) /\ BuildOnly(m, y)
      BY <1>7, <1>8, <1>10, BuildComposes, BuildFields
    <2> QED
      BY <2>1, BuildComposes
  <1>15. SameBuilds([c EXCEPT !.init[e] = TRUE], y)
    BY <1>2, <1>7, <1>11 DEF SameBuilds, RenderOnly, IsDoc
  <1>16. ~MountsAtBuild(c, e) /\ ~d.init[e] => Loose(y, e)
    BY <1>1, <1>9, <1>11 DEF Loose, Built, RenderOf, SameTree
  <1>17. StaticsIn(y, e, T)
    <2>1. /\ y.parent = c.parent /\ y.style = c.style
          /\ \A n \in Elements : n # e => y.init[n] = c.init[n]
      BY <1>7, <1>11 DEF RenderOnly, SameTree, SameBuilds
    <2>2. \A n : n # e => (n \in T <=> n \in S)
      BY DEF EnteredSet
    <2> HIDE DEF T
    <2> QED
      BY <1>4, <2>1, <2>2 DEF StaticsIn
  <1> QED
    BY <1>12, <1>13, <1>14, <1>15, <1>16, <1>17 DEF y

(* The flaws the order does not survive.                                   *)
Tidy(d) == "rebuild" \notin d.flaws /\ "movefixed" \notin d.flaws /\ "between" \notin d.flaws
LEMMA PageAlone ==
  ASSUME NEW d, Tree(d)
  PROVE  d.parent[Page] = None /\ Page \notin Nodes /\ Page \in Elements /\ None \notin Elements
         /\ None # "static" /\ None # "fixed" /\ None \notin Positions
  <1>1. /\ Page \notin Nodes /\ Page \in Elements /\ None \notin Elements
        /\ None # "static" /\ None # "fixed" /\ None \notin Positions
    BY TreesAssumption DEF ConstantsBounded, Elements, Positions
  <1>2. d.parent[Page] = None
    BY <1>1, PlaceOfChild
  <1> QED
    BY <1>1, <1>2
LEMMA ProcessOrder ==
  ASSUME NEW d, Tree(d), NEW a, Firm(d, a), NEW e, NEW before, Placeable(d, e, before),
         Ordered(d, WasStatic(d, e, before), WasFixed(d, e, before)),
         Tidy(BuildProcess(d, e, before))
  PROVE  InOrder(BuildProcess(d, e, before))
  <1> DEFINE x == BuildProcess(d, e, before)
             old == OldOf(d, e, before)
             S == WasStatic(d, e, before)
             F == WasFixed(d, e, before)
  <1>1. /\ None # "static" /\ None # "fixed" /\ None \notin Positions /\ before \in Positions
        /\ e \in d.registry /\ e \in Elements /\ (e = Page \/ e \in Nodes) /\ d.parent[Page] = None
        /\ Page \notin Nodes /\ None \notin Elements
    BY PageAlone DEF Placeable, Buildable, Tree, Elements
  <1>2. IsDoc(d) /\ before # None
    BY <1>1 DEF Tree
  <1>3. PICK c : Readied(d, c, e) /\ x = PostBuild(c, e, old) /\ Unflawed(d, c, x, e, before)
    BY <1>1, <1>2, ProcessReadied
  <1>4. BuildOnly(d, x) /\ Processed(d, x, e)
    BY <1>2, ProcessFields
  <1>5. Tidy(x)
    OBVIOUS
  <1> HIDE DEF x
  <1>6. Ordered(c, S, F)
    BY <1>3, <1>5, ReadiedOrder DEF Tidy
  <1>7. /\ Grown(c, a) /\ Tree(c) /\ Built(c, e) /\ (~d.init[e] => Loose(c, e))
        /\ e \in c.registry /\ e \in Elements /\ (\A q \in Elements : PointersAt(c, q))
        /\ c.style \in [Elements -> Positions]
    BY <1>3, ReadiedFirm
  <1> DEFINE y == Entered(c, e)
             T == EnteredSet(c, e, S)
  <1>8. /\ Ordered(y, T, F)
        /\ Grown(y, a) /\ BuildOnly(c, y) /\ SameBuilds([c EXCEPT !.init[e] = TRUE], y)
        /\ ~MountsAtBuild(c, e) /\ ~d.init[e] => Loose(y, e)
        /\ StaticsIn(y, e, T)
    <2> HIDE DEF F, y, T
    <2>1. S = WasStatic(d, e, before)
      OBVIOUS
    <2> HIDE DEF S
    <2> QED
      BY <1>3, <1>5, <1>6, <2>1, EnteredOrder DEF Tidy, y, T
  <1>9. x = MountFixedRenderNode(y, e, old)
    BY <1>3 DEF PostBuild, Entered
  <1>10. /\ c.init = d.init /\ SameTree(d, c) /\ IsDoc(c)
         /\ c.style = IF d.init[e] THEN d.style ELSE [d.style EXCEPT ![e] = d.want[e]]
    BY <1>3 DEF Readied
  <1> HIDE DEF y, T
  <1>11. y.style = c.style /\ y.build = c.build /\ y.init = [c.init EXCEPT ![e] = TRUE] /\ SameTree(c, y)
    BY <1>8, <1>10 DEF SameBuilds, IsDoc, BuildOnly
  <1>12. Tree(y) /\ e \in y.registry /\ Built(y, e) /\ (\A q \in Elements : PointersAt(y, q))
         /\ y.style \in [Elements -> Positions]
    <2>1. InPlace(c, y)
      BY <1>8, BuildComposes
    <2> QED
      BY <1>7, <1>11, <2>1, InPlaceKeeps DEF SameTree, Built
  <1>13. old \in Positions \cup {None}
    BY <1>1 DEF OldOf
  <1>14. old = None => ~d.init[e]
    BY <1>1 DEF OldOf, Firm, Typed
  <1>15. y.style[e] = "fixed" /\ old = None => Loose(y, e) /\ e \notin T
    <2> SUFFICES ASSUME y.style[e] = "fixed", old = None PROVE Loose(y, e) /\ e \notin T
      OBVIOUS
    <2>1. ~MountsAtBuild(c, e) /\ ~d.init[e]
      BY <1>11, <1>14 DEF MountsAtBuild
    <2>2. e \notin S
      BY <2>1 DEF WasStatic
    <2> QED
      BY <1>8, <2>1, <2>2 DEF T, EnteredSet
  <1>16. ASSUME y.style[e] = "static", old = "fixed"
         PROVE  y.parent[e] \in Elements /\ PointersAt(y, y.parent[e]) /\ ~Misplaced(y, e)
    <2>1. before = "fixed" /\ e \in Nodes
      BY <1>1, <1>16 DEF OldOf, Placeable
    <2>2. y.parent = d.parent /\ d.parent[e] \in Elements
      BY <1>10, <1>11, <2>1 DEF SameTree, Placeable, Buildable
    <2>3. PointersAt(y, y.parent[e])
      BY <1>12, <2>2
    <2>4. CASE d.init[e]
      <3>1. \A n \in Nodes : y.parent[n] = y.parent[e] /\ n # e => y.init[n]
        <4> SUFFICES ASSUME NEW n \in Nodes, d.parent[n] = d.parent[e], n # e PROVE y.init[n]
          BY <2>2
        <4>1. d.style[e] # before
          BY <1>10, <1>11, <1>16, <2>1, <2>4
        <4>2. d.init[n]
          BY <2>1, <2>4, <4>1 DEF Placeable
        <4> QED
          BY <1>10, <1>11, <4>2
      <3> QED
        BY <1>1, <1>12, <2>2, <2>3, <3>1, NotMisplaced
    <2>5. CASE ~d.init[e]
      <3>1. MountsAtBuild(c, e)
        BY <1>1, <1>10, <1>11, <1>16, <2>1, <2>2, <2>5 DEF MountsAtBuild, Placeable, SameTree
      <3>2. ~Misplaced(c, e)
        BY <1>3, <1>5, <3>1 DEF Tidy, Unflawed
      <3>3. SameSiblings(c, y, e)
        BY <1>11 DEF SameSiblings, SameTree
      <3>4. c.parent[e] \in Elements /\ PointersAt(c, c.parent[e])
        BY <1>7, <1>10, <2>2 DEF SameTree
      <3>5. ~Misplaced(y, e)
        BY <1>7, <3>2, <3>3, <3>4, SameMisplaced
      <3> QED
        BY <2>2, <2>3, <3>5
    <2> QED
      BY <2>4, <2>5
  <1>17. MountedOrder(y, x, T, F, e, old)
    <2> HIDE DEF old, F, S
    <2>1. y.style[e] = "static" /\ old = "fixed" =>
            y.parent[e] \in Elements /\ PointersAt(y, y.parent[e]) /\ StaticsIn(y, e, T) /\ ~Misplaced(y, e)
      BY <1>8, <1>16
    <2> QED
      BY <1>8, <1>9, <1>12, <1>13, <1>15, <2>1, MountFixedOrder
  <1>18. x.init = [d.init EXCEPT ![e] = TRUE] /\ x.style = c.style /\ y.style = x.style
    BY <1>4, <1>10, <1>11 DEF Processed
  <1>19. /\ Statics(x) = IF x.style[e] = "static" THEN Statics(d) \cup {e} ELSE Statics(d) \ {e}
         /\ Fixeds(x) = IF x.style[e] = "fixed" THEN Fixeds(d) \cup {e} ELSE Fixeds(d) \ {e}
    <2>1. \A n \in Elements : n # e => x.init[n] = d.init[n] /\ x.style[n] = d.style[n]
      BY <1>10, <1>18 DEF Firm, Typed
    <2>2. x.init[e]
      BY <1>1, <1>18 DEF Firm, Typed
    <2>3. \A n : n \in Statics(x) <=> (IF n = e THEN x.style[e] = "static" ELSE n \in Statics(d))
      BY <1>1, <2>1, <2>2 DEF Statics
    <2>4. \A n : n \in Fixeds(x) <=> (IF n = e THEN x.style[e] = "fixed" ELSE n \in Fixeds(d))
      BY <1>1, <2>1, <2>2 DEF Fixeds
    <2> QED
      BY <2>3, <2>4
  <1>20. y.style[e] = "static" \/ y.style[e] = "fixed"
    BY <1>1, <1>12 DEF Positions
  <1>21. CASE y.style[e] = "fixed" /\ old \in {None, "static"}
    <2>1. Ordered(x, T \ {e}, F \cup {e})
      BY <1>17, <1>21 DEF MountedOrder
    <2>2. T \ {e} = Statics(x) /\ F \cup {e} = Fixeds(x)
      BY <1>18, <1>19, <1>21 DEF T, EnteredSet, WasStatic, WasFixed
    <2> QED
      BY <2>1, <2>2 DEF InOrder, x
  <1>22. CASE y.style[e] = "static" /\ old = "fixed"
    <2>1. Ordered(x, T \cup {e}, F \ {e})
      BY <1>17, <1>22 DEF MountedOrder
    <2>2. T \cup {e} = Statics(x) /\ F \ {e} = Fixeds(x)
      BY <1>18, <1>19, <1>22 DEF T, EnteredSet, WasStatic, WasFixed
    <2> QED
      BY <2>1, <2>2 DEF InOrder, x
  <1>23. CASE y.style[e] = "fixed" /\ old = "fixed"
    <2>1. Ordered(x, T, F)
      BY <1>8, <1>17, <1>23 DEF MountedOrder
    <2>2. before = "fixed" /\ (d.init[e] \/ d.ignore[e]) /\ Built(d, e)
      BY <1>1, <1>23 DEF OldOf
    <2>3. d.init[e]
      BY <1>3, <1>5, <1>11, <1>23, <2>2 DEF Tidy, Unflawed
    <2>4. ~MountsAtBuild(c, e)
      BY <1>10, <2>3 DEF MountsAtBuild
    <2>5. T = Statics(x) /\ F = Fixeds(x)
      BY <1>18, <1>19, <1>23, <2>2, <2>3, <2>4 DEF T, EnteredSet, WasStatic, WasFixed
    <2> QED
      BY <2>1, <2>5 DEF InOrder, x
  <1>24. CASE y.style[e] = "static" /\ old # "fixed"
    <2>1. Ordered(x, T, F)
      BY <1>8, <1>17, <1>24 DEF MountedOrder
    <2>2. CASE d.init[e]
      <3>1. before = "static"
        BY <1>1, <1>24, <2>2 DEF OldOf, Firm, Typed, Positions
      <3>2. ~MountsAtBuild(c, e)
        BY <1>10, <2>2 DEF MountsAtBuild
      <3>3. T = Statics(x) /\ F = Fixeds(x)
        BY <1>18, <1>19, <1>24, <2>2, <3>1, <3>2 DEF T, EnteredSet, WasStatic, WasFixed
      <3> QED
        BY <2>1, <3>3 DEF InOrder, x
    <2>3. CASE ~d.init[e]
      <3>1. F = Fixeds(x) /\ S \cup {e} = Statics(x)
        BY <1>18, <1>19, <1>24, <2>3 DEF WasStatic, WasFixed
      <3>2. CASE e \in Nodes
        <4>1. MountsAtBuild(c, e)
          BY <1>1, <1>10, <1>11, <1>24, <2>3, <3>2 DEF MountsAtBuild, SameTree, Placeable, Buildable
        <4>2. T = Statics(x)
          BY <3>1, <4>1 DEF T, EnteredSet
        <4> QED
          BY <2>1, <3>1, <4>2 DEF InOrder, x
      <3>3. CASE e = Page
        <4>1. x.parent = d.parent
          BY <1>4 DEF BuildOnly, SameTree
        <4>2. x.parent[e] \notin Elements
          BY <1>1, <3>3, <4>1
        <4> HIDE DEF F
        <4>3. Ordered(x, T \cup {e}, F)
          BY <1>1, <2>1, <4>2, IdleOrder
        <4>4. T \cup {e} = Statics(x)
          BY <3>1 DEF T, EnteredSet
        <4> QED
          BY <3>1, <4>3, <4>4 DEF InOrder, x
      <3> QED
        BY <1>1, <3>2, <3>3
    <2> QED
      BY <2>2, <2>3
  <1> QED
    BY <1>1, <1>13, <1>20, <1>21, <1>22, <1>23, <1>24 DEF Positions

-----------------------------------------------------------------------------
(* The walk of BuildElement keeps the rows in order.                       *)
AllPointers(d) == \A q \in Elements : PointersAt(d, q)
LEMMA WasAsIs ==
  ASSUME NEW d, NEW e \in Elements
  PROVE  WasStatic(d, e, d.style[e]) = Statics(d) /\ WasFixed(d, e, d.style[e]) = Fixeds(d)
  BY DEF WasStatic, WasFixed, Statics, Fixeds
LEMMA OrderWalkStep ==
  ASSUME NEW d, Tree(d), AllPointers(d), NEW a, NEW e \in Elements, NEW S,
         e \in Nodes => d.parent[e] \in Elements /\ d.init[d.parent[e]],
         NEW k \in Nat, NEW s, FirmWalking(d, a, e, S, k, s), S \subseteq Elements,
         Tidy(s.doc) => InOrder(s.doc), Tidy(BuildNext(s).doc)
  PROVE  InOrder(BuildNext(s).doc)
  <1>1. PICK V : FirmWalk(d, a, e, S, V, s)
    BY DEF FirmWalking
  <1>2. CASE s.todo = <<>>
    BY <1>2 DEF BuildNext
  <1>3. CASE s.todo # <<>>
    <2> DEFINE h == Head(s.todo)
               x == BuildProcess(s.doc, h, s.doc.style[h])
    <2>1. /\ BuildOnly(d, s.doc) /\ Firm(s.doc, a) /\ Buildable(s.doc, e) /\ Met(d, e, S, V, s.todo)
          /\ \A y \in Elements : s.doc.init[y] <=> d.init[y] \/ y \in V
      BY <1>1 DEF FirmWalk
    <2>2. SameTree(d, s.doc) /\ Tree(s.doc) /\ IsDoc(s.doc) /\ AllPointers(s.doc)
      BY <2>1, BuildComposes, InPlaceKeeps DEF BuildOnly, AllPointers
    <2>3. BuildNext(s).doc = x
      BY <1>3 DEF BuildNext
    <2>4. h \in Elements /\ h \in ToSet(s.todo) /\ h \notin V /\ V \subseteq Elements
      BY <1>3, <2>1, HeadAndTail, TailWithin DEF Met
    <2> HIDE DEF h
    <2>5. Buildable(s.doc, h) /\ (h \in Nodes => s.doc.init[s.doc.parent[h]])
      <3>1. CASE h = e
        <4>1. e \in Nodes => s.doc.init[s.doc.parent[e]]
          BY <2>1, <2>2 DEF SameTree
        <4> QED
          BY <2>1, <3>1, <4>1
      <3>2. CASE h # e
        <4> DEFINE p == s.doc.parent[h]
        <4>1. p \in V /\ p \in Elements
          BY <2>1, <2>2, <2>4, <3>2 DEF Met, SameTree
        <4>2. p # None
          BY <4>1, TreesAssumption DEF ConstantsBounded, Elements
        <4>3. s.doc.init[p]
          BY <2>1, <4>1
        <4>4. Built(s.doc, p) /\ s.doc.init[Page]
          BY <2>1, <4>1, <4>3 DEF Firm, Typed, Standing
        <4>5. h \in s.doc.registry
          BY <2>2, <2>4, <4>2 DEF Tree
        <4> QED
          BY <4>1, <4>3, <4>4, <4>5 DEF Buildable
      <3> QED
        BY <3>1, <3>2
    <2>6. Placeable(s.doc, h, s.doc.style[h])
      <3>1. s.doc.style[h] \in Positions /\ (h = Page => s.doc.style[h] = "static")
        BY <2>1, <2>4 DEF Firm, Typed, Standing
      <3> QED
        BY <2>2, <2>5, <3>1 DEF Placeable, AllPointers
    <2>7. Tidy(x)
      BY <2>3
    <2>8. BuildOnly(s.doc, x)
      BY <2>2, BuildParts
    <2>9. Tidy(s.doc)
      BY <2>7, <2>8 DEF Tidy, BuildOnly
    <2>10. Ordered(s.doc, WasStatic(s.doc, h, s.doc.style[h]), WasFixed(s.doc, h, s.doc.style[h]))
      BY <2>4, <2>9, WasAsIs DEF InOrder
    <2>11. InOrder(x)
      BY <2>1, <2>2, <2>6, <2>7, <2>10, ProcessOrder
    <2> QED
      BY <2>3, <2>11
  <1> QED
    BY <1>2, <1>3

LEMMA BuiltOrder ==
  ASSUME NEW d, Tree(d), AllPointers(d), NEW a, Firm(d, a), NEW e \in Elements, Buildable(d, e),
         NEW S, Island(d, e, S), e \in Nodes => d.init[d.parent[e]],
         Tidy(d) => InOrder(d), Tidy(BuildElement(d, e))
  PROVE  InOrder(BuildElement(d, e))
  <1> DEFINE N == Cardinality(Elements)
  <1>1. PICK g : /\ g[0] = [doc |-> d, todo |-> <<e>>]
                 /\ \A k \in 1 .. N : g[k] = BuildNext(g[k - 1])
                 /\ BuildElement(d, e) = g[N].doc
    BY BuildTrace
  <1> DEFINE Fine(k) == FirmWalking(d, a, e, S, k, g[k]) /\ (Tidy(g[k].doc) => InOrder(g[k].doc))
             T == {k \in Nat : k <= N => Fine(k)}
  <1>2. 0 \in T
    <2>1. BuildOnly(d, d)
      BY BuildComposes DEF Tree
    <2>2. <<e>> \in Seq(Elements) /\ ToSet(<<e>>) = {e} /\ Distinct(<<e>>)
      BY DEF ToSet, Distinct
    <2>3. g[0].doc = d /\ g[0].todo = <<e>>
      BY <1>1
    <2>4. Met(d, e, S, {}, <<e>>)
      BY <2>2 DEF Met, Island
    <2>5. FirmWalk(d, a, e, S, {}, g[0])
      BY <2>1, <2>3, <2>4 DEF FirmWalk
    <2>6. FirmWalking(d, a, e, S, 0, g[0])
      BY <2>5, FS_EmptySet DEF FirmWalking
    <2> QED
      BY <2>3, <2>6
  <1>3. ASSUME NEW k \in Nat, k \in T PROVE k + 1 \in T
    <2> SUFFICES ASSUME k + 1 <= N PROVE Fine(k + 1)
      OBVIOUS
    <2>1. k <= N /\ k + 1 \in 1 .. N /\ (k + 1) - 1 = k
      BY ElementsFinite
    <2>2. Fine(k) /\ g[k + 1] = BuildNext(g[k])
      BY <1>1, <1>3, <2>1
    <2>3. FirmWalking(d, a, e, S, k + 1, g[k + 1])
      BY <2>2, FirmWalkStep
    <2>4. e \in Nodes => d.parent[e] \in Elements /\ d.init[d.parent[e]]
      BY DEF Buildable
    <2>5. S \subseteq Elements
      BY DEF Island
    <2>6. Tidy(BuildNext(g[k]).doc) => InOrder(BuildNext(g[k]).doc)
      BY <2>2, <2>4, <2>5, OrderWalkStep
    <2> QED
      BY <2>2, <2>3, <2>6
  <1>4. N \in T /\ N <= N
    <2>1. N \in Nat /\ N <= N
      BY ElementsFinite
    <2> HIDE DEF T
    <2> QED
      BY <2>1, <1>2, <1>3, Induction
  <1> QED
    BY <1>1, <1>4

-----------------------------------------------------------------------------
(* An element detached leaves its row; the other children keep their order.*)
LEMMA UnlinkedAhead ==
  ASSUME NEW d, Tree(d), NEW p \in Elements, NEW i \in 1 .. Len(d.children[p]),
         NEW x, Unlinked(d, x, p, i), NEW q \in Elements, NEW b, NEW c, Ahead(x.children[q], b, c)
  PROVE  Ahead(d.children[q], b, c)
  <1> DEFINE s == d.children[p]
  <1>1. x.children = [d.children EXCEPT ![p] = RemoveAt(s, i)]
    BY Zenon DEF Unlinked
  <1>2. s \in Seq(Nodes) /\ Distinct(s)
    BY RowMembers DEF Distinct
  <1>3. CASE q # p
    <2>1. x.children[q] = d.children[q]
      BY <1>1, <1>3 DEF Tree
    <2> QED
      BY <2>1
  <1>4. CASE q = p
    <2> DEFINE t == RemoveAt(s, i)
    <2>1. RemovedFrom(s, t, s[i])
      BY <1>2, RemovedRow
    <2> HIDE DEF t
    <2>2. x.children[p] = t
      BY <1>1 DEF Tree, t
    <2> QED
      BY <1>4, <2>1, <2>2 DEF RemovedFrom
  <1> QED
    BY <1>3, <1>4

LEMMA DetachedOrder ==
  ASSUME NEW d, Tree(d), NEW a, Firm(d, a), InOrder(d), NEW e \in Nodes, NEW new
  PROVE  InOrder(detachTaroNodeReference(d, new, e))
  <1> DEFINE p == d.parent[e]
             x == detachTaroNodeReference(d, new, e)
             r == RenderOf(d, e)
             z == IF d.init[e] /\ Built(d, p) THEN RemoveChild(d, r) ELSE d
             S == Statics(d) \ {e}
             F == Fixeds(d) \ {e}
  <1>1. /\ e \in Elements /\ None \notin Elements /\ IsDoc(d)
    BY PageAlone DEF Elements, Tree
  <1>2. Typed(d) /\ Grown(d, a) /\ Standing(d)
    BY DEF Firm
  <1>3. CASE p = None
    <2>1. x = d
      BY <1>3 DEF detachTaroNodeReference
    <2> QED
      BY <2>1
  <1>4. CASE p # None
    <2>1. x.build = d.build /\ x.style = d.style
      BY <1>1, <1>4, DetachFields, ZenonT(60)
    <2>2. Unlinked(d, x, p, IndexOf(d.children[p], e))
      BY <1>1, <1>4, DetachFields, ZenonT(60)
    <2>3. x.init = IF d.init[e] THEN [d.init EXCEPT ![e] = FALSE] ELSE d.init
      BY <1>1, <1>4, DetachFields, ZenonT(60)
    <2>4. x.kids = z.kids
      BY <1>1, <1>4, DetachFields, ZenonT(60)
    <2>5. \A n \in Elements : n # e => x.parent[n] = d.parent[n]
      BY <1>1, DetachedTree
    <2>6. p \in Elements /\ IndexOf(d.children[p], e) \in 1 .. Len(d.children[p])
      BY <1>1, <1>4, PlaceOfChild DEF Tree
    <2>7. \A q \in Elements : \A b, c : Ahead(x.children[q], b, c) => Ahead(d.children[q], b, c)
      BY <2>2, <2>6, UnlinkedAhead
    <2>8. d.init[e] => Built(d, p)
      BY <1>2 DEF Standing
    <2> HIDE DEF x, r
    <2>9. \A n \in Elements : x.init[n] <=> d.init[n] /\ n # e
      BY <1>1, <1>2, <2>3 DEF Typed
    <2>10. Statics(x) = S /\ Fixeds(x) = F
      BY <2>1, <2>9 DEF Statics, Fixeds
    <2> HIDE DEF S, F
    <2>11. z.build = d.build /\ z.parent = d.parent /\ z.children = d.children /\ Ordered(z, S, F)
      <3>1. CASE d.init[e]
        <4>1. z = RemoveChild(d, r)
          BY <2>8, <3>1
        <4> HIDE DEF z
        <4>2. RenderOnly(d, z)
          BY <1>1, <4>1, RenderParts
        <4>3. Ordered(z, S, F)
          BY <1>1, <1>2, <4>1, RemoveOrder DEF InOrder, S, F, r
        <4> QED
          BY <4>2, <4>3 DEF RenderOnly, SameTree, SameBuilds
      <3>2. CASE ~d.init[e]
        <4>1. z = d
          BY <3>2
        <4> HIDE DEF z
        <4>2. S = Statics(d) /\ F = Fixeds(d)
          BY <3>2 DEF S, F, Statics, Fixeds
        <4> QED
          BY <4>1, <4>2 DEF InOrder
      <3> QED
        BY <3>1, <3>2
    <2> HIDE DEF z
    <2>12. S \in SUBSET Elements /\ \A c \in S : c \in Elements /\ c # e
      BY DEF S, Statics
    <2>13. ASSUME NEW q \in Elements, Built(x, q) PROVE Alike(z, x, S, S, q)
      <3>1. Built(z, q) /\ x.build[q] = z.build[q] /\ RenderOf(z, q) = RenderOf(x, q)
        BY <2>1, <2>11, <2>13 DEF Built, RenderOf
      <3>2. \A c \in S : x.parent[c] = z.parent[c]
        BY <2>5, <2>11, <2>12
      <3>3. \A b, c : Ahead(x.children[q], b, c) => Ahead(z.children[q], b, c)
        BY <2>7, <2>11
      <3> QED
        BY <2>4, <3>1, <3>2, <3>3 DEF Alike
    <2>14. Ordered(x, S, F)
      BY <2>1, <2>4, <2>11, <2>12, <2>13, AlikeOrder
    <2> QED
      BY <2>10, <2>14 DEF InOrder, x
  <1> QED
    BY <1>3, <1>4

-----------------------------------------------------------------------------
(* Linked, it is not built yet, and the others keep their order.           *)
LEMMA LinkedAhead ==
  ASSUME NEW d, Tree(d), NEW p \in Elements, NEW e \in Nodes, d.parent[e] = None,
         NEW i \in 1 .. Len(d.children[p]) + 1,
         NEW x, NEW prev, NEW next, Linked(d, x, p, i, e, prev, next),
         NEW q \in Elements, NEW b, NEW c, b # e, c # e, Ahead(x.children[q], b, c)
  PROVE  Ahead(d.children[q], b, c)
  <1> DEFINE s == d.children[p]
  <1>1. x.children = [d.children EXCEPT ![p] = InsertAt(s, i, e)]
    BY Zenon DEF Linked
  <1>2. s \in Seq(Nodes) /\ Distinct(s) /\ ~Listed(s, e)
    <2>1. /\ s \in Seq(Nodes) /\ Distinct(s)
          /\ \A k \in 1 .. Len(s) : d.parent[s[k]] = p
      BY RowMembers DEF Distinct
    <2>2. p # None
      BY PageAlone
    <2> QED
      BY <2>1, <2>2 DEF Listed
  <1>3. CASE q # p
    <2>1. x.children[q] = d.children[q]
      BY <1>1, <1>3 DEF Tree
    <2> QED
      BY <2>1
  <1>4. CASE q = p
    <2> DEFINE t == InsertAt(s, i, e)
    <2>1. \A u, v : Ahead(s, u, v) <=> Ahead(t, u, v) /\ u # e /\ v # e
      BY <1>2, InsertedOrder
    <2> HIDE DEF t
    <2>2. x.children[p] = t
      BY <1>1 DEF Tree, t
    <2> QED
      BY <1>4, <2>1, <2>2
  <1> QED
    BY <1>3, <1>4

LEMMA LinkedInOrder ==
  ASSUME NEW d, Tree(d), InOrder(d), NEW p \in Elements, NEW e \in Nodes, ~d.init[e],
         d.parent[e] = None, NEW i \in 1 .. Len(d.children[p]) + 1, NEW prev, NEW next
  PROVE  InOrder(Link(d, p, e, i, prev, next))
  <1> DEFINE x == Link(d, p, e, i, prev, next)
  <1>1. /\ Linked(d, x, p, i, e, prev, next) /\ SameBuilds(d, x) /\ x.kids = d.kids
    BY LinkFields DEF Tree
  <1> HIDE DEF x
  <1>2. /\ x.parent = [d.parent EXCEPT ![e] = p] /\ x.init = d.init
        /\ x.build = d.build /\ x.style = d.style
    BY <1>1 DEF Linked, SameBuilds
  <1>3. \A n \in Elements : n # e => x.parent[n] = d.parent[n]
    BY <1>2 DEF Tree
  <1> DEFINE S == Statics(d)
             F == Fixeds(d)
  <1>4. Statics(x) = S /\ Fixeds(x) = F
    BY <1>2 DEF Statics, Fixeds
  <1>5. S \in SUBSET Elements /\ \A c \in S : c \in Elements /\ c # e
    BY DEF Statics
  <1>6. Ordered(d, S, F)
    BY DEF InOrder
  <1> HIDE DEF S, F
  <1>7. ASSUME NEW q \in Elements, Built(x, q) PROVE Alike(d, x, S, S, q)
    <2>1. Built(d, q) /\ x.build[q] = d.build[q] /\ RenderOf(d, q) = RenderOf(x, q)
      BY <1>2, <1>7 DEF Built, RenderOf
    <2>2. \A c \in S : x.parent[c] = d.parent[c]
      BY <1>3, <1>5
    <2>3. \A b, c \in S : Ahead(x.children[q], b, c) => Ahead(d.children[q], b, c)
      <3> SUFFICES ASSUME NEW b \in S, NEW c \in S, Ahead(x.children[q], b, c)
                   PROVE  Ahead(d.children[q], b, c)
        OBVIOUS
      <3>1. b # e /\ c # e
        BY <1>5
      <3> QED
        BY <1>1, <3>1, LinkedAhead
    <2> QED
      BY <1>1, <2>1, <2>2, <2>3 DEF Alike
  <1>8. Ordered(x, S, F)
    BY <1>1, <1>2, <1>5, <1>6, <1>7, AlikeOrder
  <1> QED
    BY <1>4, <1>8 DEF InOrder, x

-----------------------------------------------------------------------------
(* The walk of Destroy: the fixed elements met so far have left the fixed  *)
(* root.                                                                   *)
Clearing(d, a, e, S, V, s) ==
    /\ Unmounting(d, s, a) /\ Met(d, e, S, V, s.todo)
    /\ Ordered(s.doc, Statics(d), Fixeds(d) \ V)
ClearingAt(d, a, e, S, k, s) ==
    \E V : Clearing(d, a, e, S, V, s) /\ (s.todo = <<>> \/ Cardinality(V) = k)
LEMMA ClearStep ==
  ASSUME NEW d, Tree(d), NEW a, Firm(d, a), NEW e \in Elements, NEW S, Island(d, e, S),
         NEW k \in Nat, NEW s, ClearingAt(d, a, e, S, k, s)
  PROVE  ClearingAt(d, a, e, S, k + 1, DestroyNext(s))
  <1>1. PICK V : Clearing(d, a, e, S, V, s) /\ (s.todo = <<>> \/ Cardinality(V) = k)
    BY DEF ClearingAt
  <1>2. CASE s.todo = <<>>
    BY <1>1, <1>2 DEF ClearingAt, DestroyNext
  <1>3. CASE s.todo # <<>>
    <2> DEFINE h == Head(s.todo)
               y == RemoveChild(s.doc, RenderOf(s.doc, h))
               x == IF Built(s.doc, h) /\ s.doc.style[h] = "fixed" THEN y ELSE s.doc
               W == V \cup {h}
               todo == d.children[h] \o Tail(s.todo)
               n == DestroyNext(s)
    <2>1. /\ Unmounting(d, s, a) /\ Met(d, e, S, V, s.todo)
          /\ Ordered(s.doc, Statics(d), Fixeds(d) \ V)
      BY <1>1 DEF Clearing
    <2>2. RenderOnly(d, s.doc) /\ Grown(s.doc, a)
      BY <2>1 DEF Unmounting, Unmounted
    <2>3. SameTree(d, s.doc) /\ SameBuilds(d, s.doc)
      BY <2>2 DEF RenderOnly
    <2>4. n = [doc |-> x, todo |-> todo]
      BY <1>3, <2>3 DEF DestroyNext, SameTree
    <2>5. Unmounting(d, n, a)
      BY <2>1, DestroyStep DEF Firm
    <2>6. h \in Elements /\ h \in ToSet(s.todo) /\ h \notin V /\ V \subseteq Elements
      BY <1>3, <2>1, HeadAndTail, TailWithin DEF Met, Island
    <2>7. Met(d, e, S, W, todo)
      BY <1>3, <2>1, MetMore
    <2> HIDE DEF todo, n, h
    <2>8. Ordered(x, Statics(d), Fixeds(d) \ W)
      <3>1. CASE Built(s.doc, h) /\ s.doc.style[h] = "fixed"
        <4>1. x = y
          BY <3>1
        <4> HIDE DEF x
        <4> DEFINE A == Statics(d)
                   B == Fixeds(d) \ V
        <4>2. A \ {h} = A /\ B \ {h} = Fixeds(d) \ W
          BY <2>3, <3>1 DEF Statics, SameBuilds
        <4>3. Ordered(s.doc, A, B)
          BY <2>1
        <4> HIDE DEF A, B
        <4>4. Ordered(y, A \ {h}, B \ {h})
          BY <2>2, <2>6, <4>3, RemoveOrder
        <4>5. Ordered(x, A, Fixeds(d) \ W)
          BY <4>1, <4>2, <4>4
        <4> QED
          BY <4>5 DEF A
      <3>2. CASE ~(Built(s.doc, h) /\ s.doc.style[h] = "fixed")
        <4>1. x = s.doc
          BY <3>2
        <4>2. h \notin Fixeds(d)
          BY <2>3, <2>6, <3>2 DEF Fixeds, SameBuilds, Firm, Typed, Built
        <4>3. Fixeds(d) \ W = Fixeds(d) \ V
          BY <4>2
        <4> QED
          BY <2>1, <4>1, <4>3
      <3> QED
        BY <3>1, <3>2
    <2> HIDE DEF x
    <2>9. n.doc = x /\ n.todo = todo
      BY <2>4
    <2>10. Clearing(d, a, e, S, W, n)
      BY <2>5, <2>7, <2>8, <2>9 DEF Clearing
    <2>11. Cardinality(W) = k + 1
      <3>1. IsFiniteSet(V)
        BY <2>6, ElementsFinite, FS_Subset
      <3> QED
        BY <1>1, <1>3, <2>6, <3>1, FS_AddElement
    <2> QED
      BY <2>10, <2>11 DEF ClearingAt, n
  <1> QED
    BY <1>2, <1>3

LEMMA DestroyedOrder ==
  ASSUME NEW d, Tree(d), NEW a, Firm(d, a), InOrder(d), NEW e \in Elements, d.parent[e] = None
  PROVE  Ordered(Destroy(d, e), Statics(d), Fixeds(d) \ Subtree(d, e))
  <1> DEFINE N == Cardinality(Elements)
             S == Subtree(d, e)
  <1>1. PICK g : /\ g[0] = [doc |-> d, todo |-> <<e>>]
                 /\ \A k \in 1 .. N : g[k] = DestroyNext(g[k - 1])
                 /\ Destroy(d, e) = g[N].doc
    BY DestroyTrace
  <1>2. Island(d, e, S)
    <2>1. /\ S \subseteq Elements /\ e \in S
          /\ \A n \in Elements : d.parent[n] \in S => n \in S
      BY SubtreeClosed, SubtreeParents
    <2>2. None \notin Elements
      BY PageAlone
    <2> HIDE DEF S
    <2> QED
      BY <2>1, <2>2 DEF Island
  <1> HIDE DEF S
  <1> DEFINE T == {k \in Nat : k <= N => ClearingAt(d, a, e, S, k, g[k])}
  <1>3. 0 \in T
    <2>1. RenderOnly(d, d)
      BY RenderParts DEF Tree
    <2>2. <<e>> \in Seq(Elements) /\ ToSet(<<e>>) = {e} /\ Distinct(<<e>>)
      BY DEF ToSet, Distinct
    <2>3. g[0].doc = d /\ g[0].todo = <<e>>
      BY <1>1
    <2>4. Met(d, e, S, {}, <<e>>)
      BY <1>2, <2>2 DEF Met, Island
    <2>5. Unmounted(d, d, a)
      BY <2>1 DEF Unmounted, SamePlaces, Firm
    <2>6. Fixeds(d) \ {} = Fixeds(d)
      OBVIOUS
    <2>7. Clearing(d, a, e, S, {}, g[0])
      BY <2>2, <2>3, <2>4, <2>5, <2>6 DEF Clearing, Unmounting, InOrder
    <2> QED
      BY <2>7, FS_EmptySet DEF ClearingAt
  <1>4. ASSUME NEW k \in Nat, k \in T PROVE k + 1 \in T
    <2>1. k + 1 <= N => k <= N /\ k + 1 \in 1 .. N /\ (k + 1) - 1 = k
      BY ElementsFinite
    <2> QED
      BY <1>1, <1>2, <1>4, <2>1, ClearStep
  <1>5. N \in T /\ N <= N
    <2>1. N \in Nat /\ N <= N
      BY ElementsFinite
    <2> HIDE DEF T
    <2> QED
      BY <2>1, <1>3, <1>4, Induction
  <1>6. PICK V : Clearing(d, a, e, S, V, g[N]) /\ (g[N].todo = <<>> \/ Cardinality(V) = N)
    BY <1>5 DEF ClearingAt
  <1>7. Met(d, e, S, V, g[N].todo) /\ V \subseteq Elements /\ V \subseteq S
    BY <1>2, <1>6 DEF Clearing, Met, Island
  <1>8. g[N].todo = <<>>
    <2> SUFFICES ASSUME g[N].todo # <<>> PROVE FALSE
      OBVIOUS
    <2>1. V = Elements
      BY <1>6, <1>7, ElementsFinite, FS_Subset
    <2>2. Head(g[N].todo) \in Elements /\ Head(g[N].todo) \in ToSet(g[N].todo)
      BY <1>7, HeadAndTail, TailWithin DEF Met
    <2> QED
      BY <1>7, <2>1, <2>2 DEF Met
  <1>9. e \in V /\ \A n \in Elements : d.parent[n] \in V => n \in V
    <2>1. ToSet(<<>>) = {}
      BY DEF ToSet
    <2> QED
      BY <1>7, <1>8, <2>1 DEF Met
  <1>10. \A q \in V : ToSet(d.children[q]) \subseteq V
    <2> SUFFICES ASSUME NEW q \in V, NEW c \in ToSet(d.children[q]) PROVE c \in V
      OBVIOUS
    <2>1. c \in Elements /\ d.parent[c] = q
      BY <1>7, ChildOf
    <2> QED
      BY <1>9, <2>1
  <1>11. V = S
    BY <1>7, <1>9, <1>10, SubtreeClosed DEF S
  <1>12. Ordered(g[N].doc, Statics(d), Fixeds(d) \ V)
    BY <1>6 DEF Clearing
  <1> QED
    BY <1>1, <1>11, <1>12 DEF S

-----------------------------------------------------------------------------
(* Removed with all below it: the other rows keep their children.          *)
LEMMA BuriedOrder ==
  ASSUME NEW d, Tree(d), NEW e \in Nodes, d.parent[e] = None,
         Ordered(d, Statics(d), Fixeds(d) \ Subtree(d, e))
  PROVE  InOrder(Bury(d, Subtree(d, e)))
  <1> DEFINE gone == Subtree(d, e)
             x == Bury(d, gone)
  <1>1. IsDoc(x) /\ Buried(d, x, gone) /\ Emptied(d, x, gone)
    BY BuryFields DEF Tree
  <1>2. /\ e \in Elements /\ None \notin Elements /\ gone \subseteq Elements
        /\ \A n \in Elements : d.parent[n] \in gone => n \in gone
        /\ \A n \in gone : n # e => d.parent[n] \in gone
    <2>1. e \in Elements /\ None \notin Elements
      BY PageAlone DEF Elements
    <2> QED
      BY <2>1, SubtreeClosed, SubtreeParents
  <1> HIDE DEF x, gone
  <1>3. /\ \A n \in Elements \ gone : /\ x.parent[n] = d.parent[n]
                                      /\ x.children[n] = d.children[n]
        /\ \A n \in gone : x.parent[n] = None
    <2>1. x.parent = [n \in Elements |->
                        IF n \in gone \/ d.parent[n] \in gone THEN None ELSE d.parent[n]]
      BY <1>1 DEF Buried
    <2>2. x.children = [n \in Elements |-> IF n \in gone THEN <<>> ELSE d.children[n]]
      BY <1>1 DEF Buried
    <2> QED
      BY <1>2, <2>1, <2>2
  <1>4. /\ \A n \in Elements \ gone :
              x.init[n] = d.init[n] /\ x.build[n] = d.build[n] /\ x.style[n] = d.style[n]
        /\ \A n \in Elements : n \in gone => x.init[n] = FALSE /\ x.build[n] = 0
    BY <1>1, Zenon DEF Emptied
  <1>5. x.kids = d.kids
    BY <1>1 DEF Emptied
  <1> DEFINE S == Statics(d)
             F == Fixeds(d) \ gone
             T == S \ gone
  <1>6. Statics(x) = T /\ Fixeds(x) = F
    BY <1>4 DEF Statics, Fixeds
  <1>7. Ordered(d, S, F)
    BY DEF gone
  <1>8. S \subseteq Elements /\ F \subseteq Elements \ gone
    BY DEF Statics, Fixeds
  <1> HIDE DEF S, F
  <1>9. ASSUME NEW q \in Elements, Built(x, q) PROVE Alike(d, x, S, T, q)
    <2>1. q \notin gone
      BY <1>4, <1>9 DEF Built
    <2>2. Built(d, q) /\ x.build[q] = d.build[q] /\ x.children[q] = d.children[q]
      BY <1>3, <1>4, <1>9, <2>1 DEF Built
    <2>3. \A c \in Elements : c \in T /\ x.parent[c] = q <=> c \in S /\ d.parent[c] = q
      BY <1>2, <1>3, <2>1
    <2> QED
      BY <1>5, <2>2, <2>3 DEF Alike
  <1>10. \A c \in T \cup F : x.build[c] = d.build[c]
    BY <1>4, <1>8
  <1>11. T \in SUBSET Elements
    BY <1>8
  <1> HIDE DEF T
  <1>12. Ordered(x, T, F)
    BY <1>5, <1>7, <1>9, <1>10, <1>11, AlikeOrder
  <1> QED
    BY <1>6, <1>12 DEF InOrder, x, gone

LEMMA RemovedOrder ==
  ASSUME NEW d, Rooted(d), NEW a, Firm(d, a), InOrder(d), NEW e \in Nodes, NEW p
  PROVE  InOrder(removeChild(d, p, e))
  <1> DEFINE t == detachTaroNodeReference(d, p, e)
             y == Destroy(t, e)
             x == Bury(y, Subtree(y, e))
  <1>1. Tree(d) /\ e \in Elements
    BY DEF Rooted, Elements
  <1>2. Firm(t, a) /\ InOrder(t)
    BY <1>1, DetachedFirm, DetachedOrder DEF DetachedTo
  <1>3. Tree(t) /\ t.parent[e] = None
    BY <1>1, DetachedTree
  <1> HIDE DEF t
  <1>4. RenderOnly(t, y) /\ Ordered(y, Statics(t), Fixeds(t) \ Subtree(t, e))
    BY <1>1, <1>2, <1>3, DestroyParts, DestroyedOrder DEF Tree
  <1> HIDE DEF y
  <1>5. Tree(y) /\ y.parent = t.parent
    <2>1. InPlace(t, y)
      BY <1>4, BuildComposes
    <2> QED
      BY <1>3, <1>4, <2>1, InPlaceKeeps DEF RenderOnly, SameTree
  <1>6. Statics(y) = Statics(t) /\ Fixeds(y) = Fixeds(t)
    BY <1>4 DEF Statics, Fixeds, RenderOnly, SameBuilds
  <1>7. Subtree(t, e) = Subtree(y, e)
    BY <1>4 DEF Subtree, RenderOnly, SameTree
  <1>8. removeChild(d, p, e) = x
    BY <1>7 DEF removeChild, t, y
  <1>9. InOrder(x)
    BY <1>3, <1>4, <1>5, <1>6, <1>7, BuriedOrder
  <1> QED
    BY <1>8, <1>9

-----------------------------------------------------------------------------
(* The calls of JS keep the rows in order.                                 *)
LEMMA SameInOrder ==
  ASSUME NEW d, InOrder(d), NEW x, SameForest(d, x), x.init = d.init, x.style = d.style
  PROVE  InOrder(x)
  <1>1. Statics(x) = Statics(d) /\ Fixeds(x) = Fixeds(d)
    BY DEF Statics, Fixeds
  <1> QED
    BY <1>1, SameOrdered DEF InOrder

LEMMA OrderDetach ==
  ASSUME NEW d, NEW a, Settling(d, a), InOrder(d), NEW e \in Nodes, NEW p
  PROVE  InOrder(detachTaroNodeReference(d, p, e))
  BY DetachedOrder DEF Settling, Rooted

LEMMA OrderAppend ==
  ASSUME NEW d, NEW a, Settling(d, a), InOrder(d), NEW e \in Nodes, e \in d.registry,
         NEW p \in d.registry
  PROVE  InOrder(appendChild(d, p, e))
  <1> DEFINE x == detachTaroNodeReference(d, p, e)
             s == x.children[p]
             prev == IF s = <<>> THEN None ELSE Last(s)
             l == Link(x, p, e, Len(s) + 1, prev, None)
  <1>1. /\ Settling(x, a) /\ ~x.init[e] /\ x.parent[e] = None /\ p \in x.registry
    BY FirmDetach
  <1>2. appendChild(d, p, e) = l
    BY DEF appendChild
  <1>3. InOrder(x)
    BY OrderDetach
  <1> HIDE DEF x
  <1>4. Tree(x) /\ p \in Elements /\ Len(s) \in Nat
    BY <1>1 DEF Settling, Rooted, Tree
  <1>5. Len(s) + 1 \in 1 .. Len(s) + 1
    BY <1>4
  <1>6. InOrder(l)
    BY <1>1, <1>3, <1>4, <1>5, LinkedInOrder
  <1> QED
    BY <1>2, <1>6

LEMMA OrderInsert ==
  ASSUME NEW d, NEW a, Settling(d, a), InOrder(d), NEW e \in Nodes, e \in d.registry,
         NEW p \in d.registry, NEW ref \in Nodes, ref # e, d.parent[ref] = p
  PROVE  InOrder(insertBefore(d, p, e, ref))
  <1> DEFINE x == detachTaroNodeReference(d, p, e)
             s == x.children[p]
             i == IndexOf(s, ref)
             l == Link(x, p, e, i, x.prev[ref], ref)
  <1>1. /\ Settling(x, a) /\ ~x.init[e] /\ x.parent[e] = None /\ p \in x.registry
        /\ \A n \in Elements : n # e => x.parent[n] = d.parent[n]
    BY FirmDetach
  <1>2. insertBefore(d, p, e, ref) = l
    BY DEF insertBefore
  <1>3. InOrder(x)
    BY OrderDetach
  <1> HIDE DEF x
  <1>4. Tree(x) /\ p \in Elements /\ p # None /\ ref \in Elements /\ Len(s) \in Nat
    <2>1. Tree(x)
      BY <1>1 DEF Settling, Rooted
    <2>2. p \in Elements /\ ref \in Elements
      BY <1>1, <2>1 DEF Tree, Elements
    <2>3. Len(s) \in Nat
      BY <2>1, <2>2, RowMembers
    <2>4. p # None
      BY <2>1, <2>2, PageAlone
    <2> QED
      BY <2>1, <2>2, <2>3, <2>4
  <1>5. i \in 1 .. Len(s)
    BY <1>1, <1>4, PlaceOfChild
  <1>6. i \in 1 .. Len(s) + 1
    BY <1>4, <1>5
  <1> HIDE DEF i
  <1>7. InOrder(l)
    BY <1>1, <1>3, <1>4, <1>6, LinkedInOrder
  <1> QED
    BY <1>2, <1>7

LEMMA OrderReplace ==
  ASSUME NEW d, NEW a, Settling(d, a), InOrder(d), NEW e \in Nodes, e \in d.registry,
         NEW p \in d.registry, NEW old \in Nodes, old # e, d.parent[old] = p
  PROVE  InOrder(replaceChild(d, p, e, old))
  <1> DEFINE f == detachTaroNodeReference(d, p, e)
             s == f.children[p]
             i == IndexOf(s, old)
             l == Link(f, p, e, i, f.prev[old], f.next[old])
             y == [l EXCEPT !.flaws = @ \cup IF Last(l.children[p]) # old THEN {"replace"} ELSE {}]
             x == removeChild(y, p, old)
  <1>1. /\ Settling(f, a) /\ ~f.init[e] /\ f.parent[e] = None
        /\ e \in f.registry /\ p \in f.registry
        /\ \A n \in Elements : n # e => f.parent[n] = d.parent[n]
    BY FirmDetach
  <1>2. InOrder(f)
    BY OrderDetach
  <1>3. replaceChild(d, p, e, old) = x
    BY DEF replaceChild
  <1> HIDE DEF f
  <1>4. Tree(f) /\ p \in Elements /\ p # None /\ old \in Elements /\ Len(s) \in Nat
    <2>1. Tree(f)
      BY <1>1 DEF Settling, Rooted
    <2>2. p \in Elements /\ old \in Elements
      BY <1>1, <2>1 DEF Tree, Elements
    <2>3. Len(s) \in Nat
      BY <2>1, <2>2, RowMembers
    <2>4. p # None
      BY <2>1, <2>2, PageAlone
    <2> QED
      BY <2>1, <2>2, <2>3, <2>4
  <1>5. i \in 1 .. Len(s) + 1
    <2>1. i \in 1 .. Len(s)
      BY <1>1, <1>4, PlaceOfChild
    <2> QED
      BY <1>4, <2>1
  <1> HIDE DEF i
  <1>6. Placed(f, l, a, e, p)
    BY <1>1, <1>5, FirmLink
  <1>7. InOrder(l)
    BY <1>1, <1>2, <1>4, <1>5, LinkedInOrder
  <1> HIDE DEF l
  <1>8. /\ InPlace(l, y) /\ IsDoc(y) /\ SameTree(l, y) /\ SameBuilds(l, y) /\ SameStyles(l, y)
        /\ y.kids = l.kids /\ y.calls = l.calls
    <2>1. IsDoc(l)
      BY <1>6 DEF Placed, Rooted, Tree
    <2>2. BuildOnly(l, y)
      BY <2>1, BuildFields
    <2>3. SameBuilds(l, y) /\ y.kids = l.kids /\ y.calls = l.calls
      BY <2>1 DEF SameBuilds, IsDoc
    <2> HIDE DEF y
    <2> QED
      BY <2>2, <2>3, BuildComposes DEF BuildOnly
  <1> HIDE DEF y
  <1>9. Rooted(y)
    BY <1>6, <1>8, InPlaceKeeps DEF Placed
  <1>10. Firm(y, a)
    <2>1. SameRenders(l, y) /\ y.parent = l.parent /\ y.dirty = l.dirty /\ y.want = l.want
      BY <1>8 DEF SameRenders, SameTree, SameBuilds, SameStyles
    <2>2. Firm(l, a)
      BY <1>6 DEF Placed
    <2> QED
      BY <1>8, <2>1, <2>2, SameFirm
  <1>11. InOrder(y)
    BY <1>7, <1>8, SameInOrder DEF SameForest, SameTree, SameBuilds
  <1>12. InOrder(x)
    BY <1>9, <1>10, <1>11, RemovedOrder
  <1> QED
    BY <1>3, <1>12

(* What was put below a built element is built, and gets its place.        *)
LEMMA OrderBuildIfInit ==
  ASSUME NEW d, Tree(d), NEW e \in Nodes, NEW p \in d.registry, p \notin Subtree(d, e),
         NEW x, NEW a, Sound(x), Firm(x, a), NewPlace(d, x, e, p), InOrder(x),
         Tidy(BuildIfInit(x, p, e))
  PROVE  InOrder(BuildIfInit(x, p, e))
  <1>1. /\ e \in Elements /\ p \in Elements /\ p # None /\ Tree(x) /\ AllPointers(x)
        /\ None \notin Elements
    <2>1. Tree(x) /\ AllPointers(x)
      BY DEF Rooted, Sound, AllPointers
    <2>2. e \in Elements /\ p \in Elements
      BY DEF Elements, Tree
    <2> QED
      BY <2>1, <2>2, PageAlone
  <1>2. CASE ~x.init[p]
    BY <1>2 DEF BuildIfInit
  <1>3. CASE x.init[p]
    <2>1. x.parent[e] = p
      BY <1>3 DEF NewPlace
    <2>2. Buildable(x, e)
      <3>1. e \in x.registry
        BY <1>1, <2>1 DEF Tree
      <3>2. x.init[Page] /\ Built(x, p)
        BY <1>1, <1>3 DEF Firm, Standing, Typed
      <3> QED
        BY <1>1, <2>1, <3>1, <3>2 DEF Buildable
    <2> DEFINE S == Subtree(d, e)
    <2>3. Island(x, e, S)
      <3>1. /\ S \subseteq Elements /\ e \in S
            /\ \A n \in Elements : d.parent[n] \in S => n \in S
        BY <1>1, SubtreeClosed, SubtreeParents
      <3>2. p \notin S
        OBVIOUS
      <3> HIDE DEF S
      <3>3. \A n \in Elements : x.parent[n] \in S => n \in S
        BY <1>1, <3>1 DEF NewPlace
      <3> QED
        BY <2>1, <3>1, <3>2, <3>3 DEF Island
    <2> HIDE DEF S
    <2> DEFINE y == BuildElement(x, e)
    <2>4. BuildIfInit(x, p, e) = y
      BY <1>3 DEF BuildIfInit
    <2>5. Tidy(y)
      BY <2>4
    <2> HIDE DEF y
    <2>6. InOrder(y)
      BY <1>1, <1>3, <2>1, <2>2, <2>3, <2>5, BuiltOrder DEF y
    <2> QED
      BY <2>4, <2>6
  <1> QED
    BY <1>2, <1>3

LEMMA OrderPage ==
  ASSUME NEW d, NEW a, Settling(d, a), Sound(d), InOrder(d), Tidy(BuildElement(d, Page))
  PROVE  InOrder(BuildElement(d, Page))
  <1> DEFINE S == Subtree(d, Page)
  <1>1. Tree(d) /\ Firm(d, a) /\ Page \in d.registry /\ AllPointers(d)
    BY DEF Settling, Rooted, Tree, Sound, AllPointers
  <1>2. Page \in Elements /\ Page \notin Nodes /\ None \notin Elements /\ d.parent[Page] = None
    BY <1>1, PageAlone
  <1>3. Buildable(d, Page)
    BY <1>1, <1>2 DEF Buildable
  <1>4. Island(d, Page, S)
    <2>1. /\ S \subseteq Elements /\ Page \in S
          /\ \A n \in Elements : d.parent[n] \in S => n \in S
      BY <1>1, <1>2, SubtreeClosed, SubtreeParents
    <2> HIDE DEF S
    <2> QED
      BY <1>2, <2>1 DEF Island
  <1> HIDE DEF S
  <1> QED
    BY <1>1, <1>2, <1>3, <1>4, BuiltOrder

LEMMA OrderCreate ==
  ASSUME NEW d, IsDoc(d), InOrder(d), NEW e
  PROVE  InOrder([d EXCEPT !.registry = @ \cup {e}, !.born = @ \cup {e}])
  <1> DEFINE x == [d EXCEPT !.registry = @ \cup {e}, !.born = @ \cup {e}]
  <1>1. SameForest(d, x)
    BY DEF IsDoc, SameForest
  <1>2. x.init = d.init /\ x.style = d.style
    BY DEF IsDoc
  <1> HIDE DEF x
  <1>3. InOrder(x)
    BY <1>1, <1>2, SameInOrder
  <1> QED
    BY <1>3 DEF x

LEMMA OrderRestyle ==
  ASSUME NEW d, NEW a, Settling(d, a), InOrder(d), NEW e \in Nodes, NEW v
  PROVE  LET w == [d EXCEPT !.want[e] = v]
         IN  InOrder(IF d.init[e] THEN invalidateStyle(w, e) ELSE w)
  <1> DEFINE w == [d EXCEPT !.want[e] = v]
             x == invalidateStyle(w, e)
  <1>1. /\ Tree(d) /\ IsDoc(d) /\ e \in Elements /\ Rooted(d)
    BY DEF Settling, Rooted, Tree, Elements
  <1>2. /\ IsDoc(w) /\ SameTree(d, w) /\ SameBuilds(d, w)
        /\ w.descend = d.descend /\ w.kids = d.kids
    <2>1. IsDoc(w) /\ SameTree(d, w)
      BY <1>1 DEF IsDoc, SameTree
    <2>2. SameBuilds(d, w) /\ w.descend = d.descend /\ w.kids = d.kids
      BY <1>1 DEF IsDoc, SameBuilds
    <2> QED
      BY <2>1, <2>2
  <1> HIDE DEF w
  <1>3. Tree(w) /\ w.descend \subseteq Elements
    BY <1>1, <1>2 DEF Rooted, Tree, SameTree
  <1>4. InOrder(w)
    BY <1>2, SameInOrder DEF SameForest, SameTree, SameBuilds
  <1>5. SameTree(w, x) /\ SameBuilds(w, x) /\ x.kids = w.kids
    BY <1>1, <1>3, InvalidatedFields
  <1> HIDE DEF x
  <1>6. InOrder(x)
    BY <1>4, <1>5, SameInOrder DEF SameForest, SameTree, SameBuilds
  <1> QED
    BY <1>4, <1>6 DEF w, x

-----------------------------------------------------------------------------
(* The resolver mounts again what has become fixed or static; its siblings *)
(* are all built, so that it finds its place.                              *)
WithStyle(d, m, e, v) ==
    /\ SameForest(d, m) /\ m.init = d.init /\ m.style = [d.style EXCEPT ![e] = v]
LEMMA MatchedOrder ==
  ASSUME NEW d, InOrder(d), NEW a, Firm(d, a), NEW e \in Elements, d.init[e],
         NEW v, NEW m, WithStyle(d, m, e, v)
  PROVE  Ordered(m, WasStatic(m, e, d.style[e]), WasFixed(m, e, d.style[e]))
  <1>1. /\ d.style \in [Elements -> Positions] /\ m.init = d.init
        /\ m.style = [d.style EXCEPT ![e] = v]
    BY DEF Firm, Typed, WithStyle
  <1>2. \A n \in Elements : n # e => m.style[n] = d.style[n]
    BY <1>1
  <1>3. d.style[e] = "static" \/ d.style[e] = "fixed"
    BY <1>1 DEF Positions
  <1>4. WasStatic(m, e, d.style[e]) = Statics(d)
    <2>1. CASE d.style[e] = "static"
      <3>1. WasStatic(m, e, d.style[e]) = Statics(m) \cup {e}
        BY <1>1, <2>1 DEF WasStatic
      <3>2. Statics(m) \cup {e} = Statics(d)
        BY <1>1, <1>2, <2>1 DEF Statics
      <3> QED
        BY <3>1, <3>2
    <2>2. CASE d.style[e] # "static"
      <3>1. WasStatic(m, e, d.style[e]) = Statics(m) \ {e}
        BY <2>2 DEF WasStatic
      <3>2. Statics(m) \ {e} = Statics(d)
        BY <1>1, <1>2, <2>2 DEF Statics
      <3> QED
        BY <3>1, <3>2
    <2> QED
      BY <2>1, <2>2
  <1>5. WasFixed(m, e, d.style[e]) = Fixeds(d)
    <2>1. CASE d.style[e] = "fixed"
      <3>1. WasFixed(m, e, d.style[e]) = Fixeds(m) \cup {e}
        BY <1>1, <2>1 DEF WasFixed
      <3>2. Fixeds(m) \cup {e} = Fixeds(d)
        BY <1>1, <1>2, <2>1 DEF Fixeds
      <3> QED
        BY <3>1, <3>2
    <2>2. CASE d.style[e] # "fixed"
      <3>1. WasFixed(m, e, d.style[e]) = Fixeds(m) \ {e}
        BY <2>2 DEF WasFixed
      <3>2. Fixeds(m) \ {e} = Fixeds(d)
        BY <1>1, <1>2, <2>2 DEF Fixeds
      <3> QED
        BY <3>1, <3>2
    <2> QED
      BY <2>1, <2>2
  <1>6. Ordered(m, Statics(d), Fixeds(d))
    BY SameOrdered DEF InOrder, WithStyle
  <1> QED
    BY <1>4, <1>5, <1>6

LEMMA ResolveChildOrder ==
  ASSUME NEW d, Tree(d), AllPointers(d), NEW a, Firm(d, a), DownwardBut(d, None), InOrder(d),
         NEW e \in Nodes, d.init[e], d.init[d.parent[e]], Tidy(ResolveChild(d, e))
  PROVE  InOrder(ResolveChild(d, e))
  <1> DEFINE m == [d EXCEPT !.invalid = @ \ {e}, !.style[e] = d.want[e]]
             before == d.style[e]
             x == BuildProcess(m, e, before)
  <1>1. /\ e \in Elements /\ IsDoc(d) /\ e # Page /\ Page \in Elements /\ None \notin Elements
    <2>1. e \in Elements /\ IsDoc(d)
      BY DEF Elements, Tree
    <2> QED
      BY <2>1, PageAlone
  <1>2. CASE e \notin d.invalid
    BY <1>2 DEF ResolveChild
  <1>3. CASE e \in d.invalid
    <2>1. /\ IsDoc(m) /\ m.want = d.want /\ m.style = [d.style EXCEPT ![e] = d.want[e]]
          /\ m.dirty = d.dirty /\ m.init = d.init /\ m.ignore = d.ignore /\ m.build = d.build
          /\ SameTree(d, m) /\ m.kids = d.kids /\ m.calls = d.calls
      <3>1. d = [n \in Fields |-> d[n]]
        BY <1>1, DocIsRecord
      <3>2. m = [n \in Fields |-> m[n]]
        BY <3>1
      <3>3. /\ m.want = d.want /\ m.init = d.init /\ m.ignore = d.ignore /\ m.build = d.build
            /\ m.dirty = d.dirty /\ m.kids = d.kids /\ m.calls = d.calls
        BY <1>1 DEF IsDoc
      <3>4. m.style = [d.style EXCEPT ![e] = d.want[e]]
        BY <1>1 DEF IsDoc
      <3>5. SameTree(d, m)
        BY <1>1 DEF IsDoc, SameTree
      <3> HIDE DEF m
      <3> QED
        BY <3>2, <3>3, <3>4, <3>5, DocIsRecord
    <2>2. ResolveChild(d, e) = x
      BY <1>3 DEF ResolveChild
    <2> HIDE DEF m
    <2>3. Tree(m) /\ m.registry = d.registry /\ m.parent = d.parent /\ AllPointers(m)
      BY <2>1 DEF Tree, SameTree, AllPointers, PointersAt
    <2>4. Firm(m, a)
      <3>1. SameRenders(d, m)
        BY <2>1 DEF SameRenders, SameTree
      <3>2. Grown(m, a)
        BY <2>1, <3>1, SameGrown DEF Firm
      <3>3. Typed(m)
        BY <1>1, <2>1 DEF Firm, Typed, Built
      <3>4. Unhung(m)
        BY <2>1, <2>3 DEF Firm, Unhung, RenderOf
      <3>5. Standing(m)
        <4>1. m.style[Page] = d.style[Page]
          BY <1>1, <2>1 DEF Firm, Typed
        <4> QED
          BY <2>1, <2>3, <4>1 DEF Firm, Standing, Built
      <3> QED
        BY <3>2, <3>3, <3>4, <3>5 DEF Firm
    <2>5. m.init[e] /\ before \in Positions /\ m.init[m.parent[e]]
      BY <1>1, <2>1, <2>3 DEF Firm, Typed
    <2>6. Buildable(m, e)
      <3>1. m.parent[e] \in Elements /\ Built(m, m.parent[e]) /\ m.init[Page]
        BY <1>1, <2>4, <2>5 DEF Firm, Standing
      <3>2. e \in m.registry
        BY <1>1, <2>3, <3>1 DEF Tree
      <3> QED
        BY <3>1, <3>2 DEF Buildable
    <2>7. \A c \in Nodes : m.parent[c] = m.parent[e] => m.init[c]
      <3>1. m.parent[e] # None
        BY <1>1, <2>6 DEF Buildable
      <3>2. \A c \in Nodes : c # None
        BY <1>1 DEF Elements
      <3> QED
        BY <2>1, <2>3, <2>5, <3>1, <3>2 DEF DownwardBut
    <2>8. Placeable(m, e, before)
      BY <1>1, <2>3, <2>5, <2>6, <2>7 DEF Placeable, AllPointers
    <2>9. Ordered(m, WasStatic(m, e, before), WasFixed(m, e, before))
      <3>1. WithStyle(d, m, e, d.want[e])
        BY <2>1 DEF WithStyle, SameForest, SameTree
      <3> QED
        BY <1>1, <3>1, MatchedOrder
    <2>10. Tidy(x)
      BY <2>2
    <2> HIDE DEF before
    <2>11. InOrder(x)
      BY <2>3, <2>4, <2>8, <2>9, <2>10, ProcessOrder
    <2> QED
      BY <2>2, <2>11
  <1> QED
    BY <1>2, <1>3

-----------------------------------------------------------------------------
(* The resolver on its way, the rows in order.                             *)
ResolvingOrder(d, a, s) == ResolvingFirm(d, a, s) /\ (Tidy(s.doc) => InOrder(s.doc))
LEMMA ResolveNextOrder ==
  ASSUME NEW d, Tree(d), AllPointers(d), DownwardBut(d, None), NEW a,
         NEW s, ResolvingOrder(d, a, s), NEW e \in Nodes, d.init[e], d.init[d.parent[e]]
  PROVE  ResolvingOrder(d, a, ResolveNext(s, e))
  <1> DEFINE r == ResolveChild(s.doc, e)
             y == [r EXCEPT !.descend = @ \ {e}]
             x == ResolveNext(s, e)
  <1>1. /\ InPlace(d, s.doc) /\ Firm(s.doc, a) /\ s.doc.init = d.init /\ e \in Elements
        /\ ResolvingFirm(d, a, s) /\ (Tidy(s.doc) => InOrder(s.doc))
    BY DEF ResolvingOrder, ResolvingFirm, Rebuilt, Elements
  <1>2. ResolvingFirm(d, a, x)
    BY <1>1, ResolveNextFirm
  <1>3. /\ Tree(s.doc) /\ AllPointers(s.doc) /\ s.doc.parent = d.parent /\ IsDoc(s.doc)
        /\ DownwardBut(s.doc, None)
    BY <1>1, InPlaceKeeps DEF InPlace, SameTree, AllPointers, DownwardBut
  <1>4. InPlace(s.doc, r)
    BY <1>3, ResolveChildParts
  <1>5. x = IF e \in s.doc.descend THEN [doc |-> y, todo |-> <<e>> \o s.todo]
            ELSE [doc |-> r, todo |-> s.todo]
    BY DEF ResolveNext
  <1>6. Tidy(r) => InOrder(r)
    <2> SUFFICES ASSUME Tidy(r) PROVE InOrder(r)
      OBVIOUS
    <2>1. Tidy(s.doc)
      BY <1>4 DEF Tidy, InPlace
    <2>2. InOrder(s.doc)
      BY <1>1, <2>1
    <2> QED
      BY <1>1, <1>3, <2>2, ResolveChildOrder
  <1> HIDE DEF r
  <1>7. Tidy(y) => InOrder(y)
    <2>1. IsDoc(r)
      BY <1>4 DEF InPlace
    <2>2. SameForest(r, y) /\ y.init = r.init /\ y.style = r.style /\ y.flaws = r.flaws
      BY <2>1 DEF IsDoc, SameForest
    <2> HIDE DEF y
    <2> QED
      BY <1>6, <2>2, SameInOrder DEF Tidy
  <1> HIDE DEF y
  <1>8. x.doc = y \/ x.doc = r
    BY <1>5
  <1> HIDE DEF x
  <1> QED
    BY <1>2, <1>6, <1>7, <1>8 DEF ResolvingOrder, x

LEMMA ResolveChildrenOrder ==
  ASSUME NEW d, Tree(d), AllPointers(d), DownwardBut(d, None), NEW a,
         NEW s, ResolvingOrder(d, a, s)
  PROVE  ResolvingOrder(d, a, ResolveChildren(s))
  <1>1. CASE s.todo = <<>>
    BY <1>1 DEF ResolveChildren
  <1>2. CASE s.todo # <<>>
    <2> DEFINE h == Head(s.todo)
               es == s.doc.children[h]
    <2>1. /\ h \in Elements /\ Tail(s.todo) \in Seq(Elements)
          /\ ToSet(s.todo) = {h} \cup ToSet(Tail(s.todo)) /\ d.init[h]
      BY <1>2, TailWithin, HeadAndTail DEF ResolvingOrder, ResolvingFirm
    <2>2. es = s.doc.children[Head(s.todo)]
      OBVIOUS
    <2>3. es = d.children[h]
      BY DEF ResolvingOrder, ResolvingFirm, Rebuilt, InPlace, SameTree
    <2> HIDE DEF h, es
    <2>4. /\ es \in Seq(Nodes) /\ Len(es) \in Nat
          /\ \A j \in 1 .. Len(es) : es[j] \in Nodes /\ d.init[es[j]] /\ d.init[d.parent[es[j]]]
      <3>1. /\ es \in Seq(Nodes) /\ Len(es) \in Nat
            /\ \A j \in 1 .. Len(es) : es[j] \in Nodes /\ d.parent[es[j]] = h
        BY <2>1, <2>3, RowMembers
      <3>2. None \notin Elements /\ \A n \in Nodes : n # None
        BY PageAlone DEF Elements
      <3>3. \A n \in Nodes : d.parent[n] = h => d.init[n]
        BY <2>1, <3>2 DEF DownwardBut
      <3> QED
        BY <2>1, <3>1, <3>3
    <2>5. \E g : ChildSteps(s, es, g)
      BY <1>2, <2>2, <2>4, ChildrenTrace
    <2>6. PICK g : /\ g[0] = [doc |-> s.doc, todo |-> Tail(s.todo)]
                   /\ \A k \in 1 .. Len(es) : g[k] = ResolveNext(g[k - 1], es[Len(es) + 1 - k])
                   /\ ResolveChildren(s) = g[Len(es)]
      BY <2>5 DEF ChildSteps
    <2> DEFINE T == {k \in Nat : k <= Len(es) => ResolvingOrder(d, a, g[k])}
    <2>7. 0 \in T
      <3>1. g[0].doc = s.doc /\ g[0].todo = Tail(s.todo)
        BY <2>6
      <3> QED
        BY <2>1, <3>1 DEF ResolvingOrder, ResolvingFirm
    <2>8. ASSUME NEW k \in Nat, k \in T PROVE k + 1 \in T
      <3>1. k + 1 <= Len(es) =>
              k <= Len(es) /\ k + 1 \in 1 .. Len(es) /\ (k + 1) - 1 = k
              /\ Len(es) + 1 - (k + 1) \in 1 .. Len(es)
        BY <2>4
      <3> DEFINE c == es[Len(es) + 1 - (k + 1)]
      <3>2. k + 1 <= Len(es) =>
              ResolvingOrder(d, a, g[k]) /\ c \in Nodes /\ d.init[c] /\ d.init[d.parent[c]]
        BY <2>4, <2>8, <3>1
      <3>3. k + 1 <= Len(es) => g[k + 1] = ResolveNext(g[k], c)
        BY <2>6, <3>1
      <3> HIDE DEF c
      <3> QED
        BY <3>2, <3>3, ResolveNextOrder
    <2>9. Len(es) \in T
      <3> HIDE DEF T
      <3> QED
        BY <2>4, <2>7, <2>8, Induction
    <2> QED
      BY <2>4, <2>6, <2>9
  <1> QED
    BY <1>1, <1>2

LEMMA FlushStyleOrder ==
  ASSUME NEW d, NEW a, Settling(d, a), Sound(d), Tidy(d) => InOrder(d), Tidy(FlushStyle(d))
  PROVE  InOrder(FlushStyle(d))
  <1> DEFINE N == 1 + Cardinality(d.descend)
             r == resolver(d, Page)
             x == [r EXCEPT !.dirty = FALSE]
  <1>1. /\ Tree(d) /\ IsDoc(d) /\ Firm(d, a) /\ Rooted(d) /\ DownwardBut(d, None)
        /\ d.descend \subseteq Elements /\ Page \in Elements /\ AllPointers(d)
    BY DEF Settling, Rooted, Tree, Elements, Sound, AllPointers
  <1>2. CASE ~d.dirty
    BY <1>2 DEF FlushStyle
  <1>3. CASE d.dirty
    <2>1. Cardinality(d.descend) \in Nat
      BY <1>1, ElementsFinite, FS_Subset, FS_CardinalityType
    <2>2. PICK g : /\ g[0] = [doc |-> d, todo |-> <<Page>>]
                   /\ \A k \in 1 .. N : g[k] = ResolveChildren(g[k - 1])
                   /\ r = g[N].doc
      BY <2>1, ResolveTrace
    <2> DEFINE T == {k \in Nat : k <= N => ResolvingOrder(d, a, g[k])}
    <2>3. 0 \in T
      <3>1. InPlace(d, d)
        BY <1>1, BuildComposes
      <3>2. g[0].doc = d /\ g[0].todo = <<Page>>
        BY <2>2
      <3>3. ToSet(<<Page>>) = {Page} /\ <<Page>> \in Seq(Elements)
        BY <1>1 DEF ToSet
      <3>4. d.init[Page]
        BY <1>1, <1>3 DEF Firm, Standing
      <3>5. ResolvingFirm(d, a, g[0])
        BY <1>1, <3>1, <3>2, <3>3, <3>4 DEF ResolvingFirm, Rebuilt, SamePlaces
      <3> QED
        BY <3>2, <3>5 DEF ResolvingOrder
    <2>4. ASSUME NEW k \in Nat, k \in T PROVE k + 1 \in T
      <3>1. k + 1 <= N => k <= N /\ k + 1 \in 1 .. N /\ (k + 1) - 1 = k
        BY <2>1
      <3> QED
        BY <1>1, <2>2, <2>4, <3>1, ResolveChildrenOrder
    <2>5. ResolvingOrder(d, a, g[N])
      <3>1. N \in Nat /\ N <= N
        BY <2>1
      <3> HIDE DEF T
      <3>2. N \in T
        BY <2>3, <2>4, <3>1, Induction
      <3> QED
        BY <3>1, <3>2 DEF T
    <2>6. IsDoc(r) /\ (Tidy(r) => InOrder(r))
      BY <2>2, <2>5 DEF ResolvingOrder, ResolvingFirm, Rebuilt, InPlace
    <2>7. FlushStyle(d) = x
      BY <1>3 DEF FlushStyle
    <2> HIDE DEF r
    <2>8. SameForest(r, x) /\ x.init = r.init /\ x.style = r.style /\ x.flaws = r.flaws
      BY <2>6 DEF IsDoc, SameForest
    <2> HIDE DEF x
    <2>9. Tidy(x)
      BY <2>7
    <2>10. InOrder(x)
      BY <2>6, <2>8, <2>9, SameInOrder DEF Tidy
    <2> QED
      BY <2>7, <2>10
  <1> QED
    BY <1>2, <1>3

-----------------------------------------------------------------------------
(* Between two calls of JS: the pointers sound, the rows in order.         *)
Settled(d) == \E a : Settling(d, a)
Arranged == Sound(doc) /\ Settled(doc) /\ InOrder(doc)

(* Render nodes that nothing holds are not in use.                         *)
LEMMA BecomeArranged ==
  ASSUME NEW d, NEW a, Settling(d, a), InOrder(d), NEW n, Become(d, n)
  PROVE  Settled(doc') /\ InOrder(doc')
  <1> DEFINE H == {r \in DOMAIN d.kids : Held(d, r)}
             x == [d EXCEPT !.kids = [r \in H |-> d.kids[r]]]
  <1>1. doc' = x
    BY DEF Become
  <1>2. Planted(d) /\ IsDoc(d) /\ d.calls \in Seq(Calls)
    BY GrownWood DEF Settling, Firm, Grown
  <1>3. \A r \in DOMAIN d.kids : Held(d, r) => r \in H
    OBVIOUS
  <1>4. /\ H \subseteq DOMAIN d.kids /\ FixedRoot \in H
        /\ \A e \in Elements : Built(d, e) => RenderOf(d, e) \in H
        /\ \A i \in 1 .. Len(d.calls) : d.calls[i].parent \in H
    <2>1. FixedRoot \in H
      BY <1>2, <1>3 DEF Planted, Held
    <2>2. \A e \in Elements : Built(d, e) => RenderOf(d, e) \in H
      BY <1>2, <1>3 DEF Planted, Held
    <2>3. \A i \in 1 .. Len(d.calls) : d.calls[i].parent \in H
      BY <1>2, <1>3 DEF Planted, Held
    <2> QED
      BY <2>1, <2>2, <2>3
  <1>5. /\ x.kids = [r \in H |-> d.kids[r]] /\ x.build = d.build /\ x.parent = d.parent
        /\ x.children = d.children /\ x.init = d.init /\ x.style = d.style
    BY <1>2 DEF IsDoc
  <1> HIDE DEF H
  <1>6. Settling(x, Cut(a, H))
    BY <1>4, CutSettling
  <1>7. \A q \in H : Rows(x.kids)[q] = Rows(d.kids)[q]
    <2> TAKE q \in H
    <2>1. q \in AllRenders /\ q \in DOMAIN d.kids /\ q \in DOMAIN x.kids /\ x.kids[q] = d.kids[q]
      BY <1>2, <1>4, <1>5 DEF Planted
    <2> HIDE DEF x
    <2> QED
      BY <2>1 DEF Rows
  <1> HIDE DEF x
  <1> DEFINE S == Statics(d)
             F == Fixeds(d)
  <1>8. Statics(x) = S /\ Fixeds(x) = F
    BY <1>5 DEF Statics, Fixeds
  <1>9. Ordered(d, S, F) /\ S \in SUBSET Elements
    BY DEF InOrder, Statics
  <1> HIDE DEF S, F
  <1>10. ASSUME NEW p \in Elements, Built(x, p) PROVE Alike(d, x, S, S, p)
    <2>1. Built(d, p) /\ RenderOf(d, p) \in H
      BY <1>4, <1>5, <1>10 DEF Built
    <2>2. Rows(x.kids)[RenderOf(d, p)] = Rows(d.kids)[RenderOf(d, p)]
      BY <1>7, <2>1
    <2> QED
      BY <1>5, <2>1, <2>2 DEF Alike
  <1>11. Rows(x.kids)[FixedRoot] = Rows(d.kids)[FixedRoot]
    BY <1>4, <1>7
  <1>12. Ordered(x, S, F)
    BY <1>5, <1>9, <1>10, <1>11, AlikeOrder
  <1> QED
    BY <1>1, <1>6, <1>8, <1>12 DEF Settled, InOrder

LEMMA InitArranged == Init => Arranged
  <1> SUFFICES ASSUME Init PROVE Arranged
    OBVIOUS
  <1>1. Sound(doc) /\ Settled(doc)
    BY InitSound, InitMirrored DEF Mirrored, Settled
  <1>2. /\ doc.init = [e \in Elements |-> FALSE] /\ doc.build = [e \in Elements |-> 0]
        /\ doc.kids = [r \in {FixedRoot} |-> <<>>]
    BY DEF Init
  <1>3. Statics(doc) = {} /\ Fixeds(doc) = {}
    BY <1>2 DEF Statics, Fixeds
  <1>4. \A e \in Elements : ~Built(doc, e)
    BY <1>2 DEF Built
  <1>5. Rows(doc.kids)[FixedRoot] = <<>>
    BY <1>2 DEF Rows, FixedRoot, AllRenders, Elements
  <1>6. \A x : ~Listed(<<>>, x)
    BY DEF Listed
  <1>7. Ordered(doc, {}, {})
    BY <1>4, <1>5, <1>6 DEF Ordered
  <1> QED
    BY <1>1, <1>3, <1>7 DEF Arranged, InOrder

-----------------------------------------------------------------------------
OrderAvoided == {"replace", "rebuild", "movefixed", "between"} \subseteq Avoided
(* The frame: what has changed its position moves; the calls change no row.*)
LEMMA FlushArranged ==
  ASSUME OrderAvoided, Arranged, Flush
  PROVE  Settled(doc') /\ InOrder(doc')
  <1> DEFINE s == FlushStyle(doc)
             f == [s EXCEPT !.calls = <<>>, !.flaws = @ \cup Miscounts(s)]
  <1>1. PICK a : Settling(doc, a)
    BY DEF Arranged, Settled
  <1>2. Settling(s, a)
    BY <1>1, FlushStyleFirm
  <1>3. f.flaws \cap Avoided = {} /\ Become(f, Replay(s, native, s.calls))
    BY DEF Flush
  <1>4. /\ Settling(f, Rows(s.kids))
        /\ SameTree(s, f) /\ SameBuilds(s, f) /\ f.kids = s.kids /\ s.flaws \subseteq f.flaws
    <2> HIDE DEF s
    <2>1. /\ Settling(f, Rows(s.kids))
          /\ SameTree(s, f) /\ SameBuilds(s, f) /\ f.kids = s.kids
          /\ f.flaws = s.flaws \cup Miscounts(s)
      BY <1>2, CallsMade, ZenonT(60)
    <2> QED
      BY <2>1
  <1>5. Tidy(s)
    <2> HIDE DEF s, f
    <2> QED
      BY <1>3, <1>4 DEF Tidy, OrderAvoided
  <1>6. InOrder(s)
    BY <1>1, <1>5, FlushStyleOrder DEF Arranged
  <1> HIDE DEF s, f
  <1>7. InOrder(f)
    BY <1>4, <1>6, SameInOrder DEF SameForest, SameTree, SameBuilds
  <1> QED
    BY <1>3, <1>4, <1>7, BecomeArranged

LEMMA ArrangedStep ==
  ASSUME OrderAvoided, Arranged, [Next]_vars
  PROVE  Arranged'
  <1> DEFINE Good == Settled(doc') /\ InOrder(doc')
  <1>1. PICK a : Settling(doc, a)
    BY DEF Arranged, Settled
  <1>2. /\ Tree(doc) /\ IsDoc(doc) /\ doc.registry \subseteq Elements /\ Rooted(doc) /\ Firm(doc, a)
        /\ Sound(doc) /\ InOrder(doc) /\ DownwardBut(doc, None)
    BY <1>1 DEF Arranged, Settling, Rooted, Tree
  <1>3. ASSUME NEW d, Leave(d) PROVE Tidy(d) /\ "replace" \notin d.flaws
    BY <1>3 DEF Leave, Tidy, OrderAvoided
  <1>4. ASSUME NEW d, Leave(d), Settling(d, a), InOrder(d) PROVE Good
    BY <1>4, BecomeArranged DEF Leave
  <1> HIDE DEF Good
  <1>5. ASSUME NEW e \in Nodes, CreateTaroNode(e) PROVE Good
    <2> DEFINE d == [doc EXCEPT !.registry = @ \cup {e}, !.born = @ \cup {e}]
    <2>1. Settling(d, a) /\ InOrder(d)
      BY <1>1, <1>2, <1>5, FirmCreate, OrderCreate DEF CreateTaroNode
    <2>2. Leave(d)
      BY <1>5 DEF CreateTaroNode
    <2> HIDE DEF d
    <2> QED
      BY <1>4, <2>1, <2>2
  <1>6. ASSUME AppendPage PROVE Good
    <2> DEFINE d == BuildElement(doc, Page)
    <2>1. Leave(d)
      BY <1>6 DEF AppendPage
    <2>2. Settling(d, a)
      BY <1>1, FirmPage
    <2>3. InOrder(d)
      BY <1>1, <1>2, <1>3, <2>1, OrderPage
    <2> HIDE DEF d
    <2> QED
      BY <1>4, <2>1, <2>2, <2>3
  <1>7. ASSUME NEW e \in doc.registry \ {Page}, NEW p \in Places(e)
        PROVE  e \in Nodes /\ e \in doc.registry /\ p \in doc.registry /\ p \notin Subtree(doc, e)
    BY <1>2 DEF Places, Elements
  <1>8. ASSUME NEW e \in Nodes, NEW p \in doc.registry, p \notin Subtree(doc, e),
               NEW x, Rooted(x), Firm(x, a), DownwardBut(x, e), NewPlace(doc, x, e, p),
               InOrder(x), "replace" \notin x.flaws => Sound(x),
               Leave(BuildIfInit(x, p, e))
        PROVE  Good
    <2> DEFINE y == BuildIfInit(x, p, e)
    <2>1. Settling(y, a)
      BY <1>2, <1>8, FirmBuildIfInit
    <2>2. Tidy(y) /\ "replace" \notin y.flaws
      BY <1>3, <1>8
    <2>3. x.flaws \subseteq y.flaws
      <3>1. IsDoc(x)
        BY <1>8 DEF Rooted, Tree
      <3>2. BuildOnly(x, BuildElement(x, e))
        BY <3>1, BuildElementParts
      <3> QED
        BY <3>2 DEF BuildOnly, BuildIfInit
    <2>4. Sound(x)
      BY <1>8, <2>2, <2>3
    <2>5. InOrder(y)
      BY <1>2, <1>8, <2>2, <2>4, OrderBuildIfInit
    <2> HIDE DEF y
    <2>6. Leave(y)
      BY <1>8 DEF y
    <2> QED
      BY <1>4, <2>1, <2>5, <2>6
  <1>9. ASSUME NEW e \in doc.registry \ {Page}, NEW p \in Places(e), AppendTaroNode(p, e)
        PROVE  Good
    <2> DEFINE x == appendChild(doc, p, e)
    <2>1. Placed(doc, x, a, e, p) /\ InOrder(x) /\ Sound(x)
      BY <1>1, <1>2, <1>7, FirmAppend, OrderAppend, AppendedSound
    <2>2. Leave(BuildIfInit(x, p, e))
      BY <1>9 DEF AppendTaroNode
    <2> HIDE DEF x
    <2> QED
      BY <1>7, <1>8, <2>1, <2>2 DEF Placed
  <1>10. ASSUME NEW e \in doc.registry \ {Page}, NEW p \in Places(e),
                NEW c \in ToSet(doc.children[p]) \ {e}
         PROVE  c \in Nodes /\ c # e /\ doc.parent[c] = p
    BY <1>2, <1>7, ChildOf
  <1>11. ASSUME NEW e \in doc.registry \ {Page}, NEW p \in Places(e),
                NEW c \in ToSet(doc.children[p]) \ {e}, InsertBeforeTaroNode(p, e, c)
         PROVE  Good
    <2> DEFINE x == insertBefore(doc, p, e, c)
    <2>1. Placed(doc, x, a, e, p)
      BY <1>1, <1>7, <1>10, FirmInsert
    <2>2. InOrder(x) /\ Sound(x)
      BY <1>1, <1>2, <1>7, <1>10, OrderInsert, InsertedSound
    <2>3. Leave(BuildIfInit(x, p, e))
      BY <1>11 DEF InsertBeforeTaroNode
    <2> HIDE DEF x
    <2> QED
      BY <1>7, <1>8, <2>1, <2>2, <2>3 DEF Placed
  <1>12. ASSUME NEW e \in doc.registry \ {Page}, NEW p \in Places(e),
                NEW c \in ToSet(doc.children[p]) \ {e}, ReplaceTaroNode(p, e, c)
         PROVE  Good
    <2> DEFINE x == replaceChild(doc, p, e, c)
    <2>1. Rooted(x) /\ Firm(x, a) /\ DownwardBut(x, e) /\ NewPlace(doc, x, e, p)
      BY <1>1, <1>7, <1>10, FirmReplace
    <2>2. InOrder(x)
      BY <1>1, <1>2, <1>7, <1>10, OrderReplace
    <2>3. "replace" \notin x.flaws => Sound(x)
      BY <1>2, <1>7, <1>10, ReplacedSound
    <2>4. Leave(BuildIfInit(x, p, e))
      BY <1>12 DEF ReplaceTaroNode
    <2> HIDE DEF x
    <2> QED
      BY <1>7, <1>8, <2>1, <2>2, <2>3, <2>4
  <1>13. ASSUME NEW p \in doc.registry, NEW c \in ToSet(doc.children[p]), RemoveTaroNode(p, c)
         PROVE  Good
    <2> DEFINE x == removeChild(doc, p, c)
    <2>1. c \in Nodes
      BY <1>2, ChildOf
    <2>2. Rooted(x) /\ Firm(x, a) /\ DownwardBut(x, None)
      BY <1>2, <2>1, FirmRemove
    <2>3. InOrder(x)
      BY <1>2, <2>1, RemovedOrder
    <2>4. Leave(x)
      BY <1>13 DEF RemoveTaroNode
    <2> HIDE DEF x
    <2> QED
      BY <1>4, <2>2, <2>3, <2>4 DEF Settling
  <1>14. ASSUME NEW e \in Nodes, NEW v \in Positions, SetStyleAttribute(e, v)
         PROVE  Good
    <2> DEFINE w == [doc EXCEPT !.want[e] = v]
               x == IF doc.init[e] THEN invalidateStyle(w, e) ELSE w
    <2>1. Settling(x, a)
      BY <1>1, <1>14, FirmRestyle DEF SetStyleAttribute
    <2>2. InOrder(x)
      BY <1>1, <1>2, OrderRestyle
    <2>3. Leave(x)
      BY <1>14 DEF SetStyleAttribute
    <2> HIDE DEF x
    <2> QED
      BY <1>4, <2>1, <2>2, <2>3
  <1>15. ASSUME Flush PROVE Good
    BY <1>15, FlushArranged DEF Good
  <1>16. ASSUME UNCHANGED vars PROVE Good
    BY <1>1, <1>2, <1>16 DEF vars, Good, Settled
  <1>17. ASSUME NEW e \in doc.registry \ {Page}, NEW p \in Places(e),
                \/ AppendTaroNode(p, e)
                \/ \E c \in ToSet(doc.children[p]) \ {e} :
                      InsertBeforeTaroNode(p, e, c) \/ ReplaceTaroNode(p, e, c)
         PROVE  Good
    BY <1>9, <1>11, <1>12, <1>17
  <1>18. Good
    BY <1>5, <1>6, <1>13, <1>14, <1>15, <1>16, <1>17 DEF Next
  <1>19. Sound(doc')
    BY <1>2, SoundStep DEF OrderAvoided
  <1> QED
    BY <1>18, <1>19 DEF Good, Arranged

-----------------------------------------------------------------------------
(* A row in order is the list of the children without the others.          *)
LEMMA RowIsStaticHeads ==
  ASSUME Arranged, NEW e \in doc.registry, Built(doc, e)
  PROVE  doc.kids[RenderOf(doc, e)] = StaticHeads(e)
  <1> DEFINE s == doc.children[e]
             X == {c \in Elements : ~doc.init[c] \/ doc.style[c] = "fixed"}
             w == Without(s, X)
             h == [i \in DOMAIN w |-> RenderOf(doc, w[i])]
             q == RenderOf(doc, e)
             r == Rows(doc.kids)[q]
  <1>1. PICK a : Settling(doc, a)
    BY DEF Arranged, Settled
  <1>2. /\ Tree(doc) /\ Typed(doc) /\ Planted(doc) /\ Grown(doc, a) /\ e \in Elements
        /\ InOrder(doc)
    BY <1>1 DEF Settling, Rooted, Firm, Grown, Tree, Arranged
  <1>3. /\ s \in Seq(Nodes) /\ Len(s) \in Nat
        /\ \A j, k \in 1 .. Len(s) : s[j] = s[k] => j = k
        /\ \A k \in 1 .. Len(s) : s[k] \in Elements /\ doc.parent[s[k]] = e
    BY <1>2, RowMembers
  <1>4. /\ w \in Seq(Nodes) /\ ToSet(w) = ToSet(s) \ X
        /\ \E at \in [1 .. Len(w) -> 1 .. Len(s)] :
               /\ \A i \in 1 .. Len(w) : w[i] = s[at[i]]
               /\ \A i, j \in 1 .. Len(w) : i < j => at[i] < at[j]
    <2>1. s \in Seq(Nodes)
      BY <1>3
    <2> HIDE DEF s, X
    <2>2. Without(s, X) \in Seq(Nodes)
      BY <2>1, WithoutKeeps, ZenonT(60)
    <2>3. ToSet(Without(s, X)) = ToSet(s) \ X
      BY <2>1, WithoutKeeps, ZenonT(60)
    <2>4. \E at \in [1 .. Len(Without(s, X)) -> 1 .. Len(s)] :
               /\ \A i \in 1 .. Len(Without(s, X)) : Without(s, X)[i] = s[at[i]]
               /\ \A i, j \in 1 .. Len(Without(s, X)) : i < j => at[i] < at[j]
      BY <2>1, WithoutKeeps, ZenonT(60)
    <2> QED
      BY <2>2, <2>3, <2>4, Zenon
  <1>5. StaticHeads(e) = h
    BY DEF StaticHeads
  <1> HIDE DEF w
  <1>6. PICK at \in [1 .. Len(w) -> 1 .. Len(s)] :
               /\ \A i \in 1 .. Len(w) : w[i] = s[at[i]]
               /\ \A i, j \in 1 .. Len(w) : i < j => at[i] < at[j]
    BY <1>4
  <1>7. Len(w) \in Nat /\ DOMAIN w = 1 .. Len(w)
    BY <1>4
  <1>8. ASSUME NEW c
        PROVE  (\E i \in 1 .. Len(w) : w[i] = c) <=> c \in Statics(doc) /\ doc.parent[c] = e
    <2>1. (\E i \in 1 .. Len(w) : w[i] = c) <=> c \in ToSet(w)
      BY <1>7 DEF ToSet
    <2>2. c \in ToSet(s) <=> c \in Elements /\ doc.parent[c] = e
      <3>1. c \in ToSet(s) <=> \E i \in 1 .. Len(s) : s[i] = c
        BY <1>3 DEF ToSet
      <3>2. e # None
        BY <1>2, PageAlone
      <3>3. c \in Elements /\ doc.parent[c] = e => \E i \in 1 .. Len(s) : s[i] = c
        BY <1>2, <3>2 DEF Tree
      <3> QED
        BY <1>3, <3>1, <3>3
    <2>3. c \in Elements => (c \notin X <=> doc.init[c] /\ doc.style[c] = "static")
      BY <1>2 DEF Typed, Positions
    <2> HIDE DEF X
    <2> QED
      BY <1>4, <2>1, <2>2, <2>3 DEF Statics
  <1>9. h \in Seq(AllRenders) /\ Len(h) = Len(w) /\ \A i \in 1 .. Len(w) : h[i] = RenderOf(doc, w[i])
    <2>1. \A i \in 1 .. Len(w) : w[i] \in Elements
      BY <1>3, <1>6
    <2>2. \A c \in Elements : RenderOf(doc, c) \in AllRenders
      BY <1>2 DEF RenderOf, AllRenders, Typed
    <2>3. h = [i \in 1 .. Len(w) |-> RenderOf(doc, w[i])]
      BY <1>7
    <2> HIDE DEF h
    <2> QED
      BY <1>7, <2>1, <2>2, <2>3
  <1> HIDE DEF h
  <1>10. Distinct(h)
    <2> SUFFICES ASSUME NEW i \in 1 .. Len(w), NEW j \in 1 .. Len(w), h[i] = h[j] PROVE i = j
      BY <1>9 DEF Distinct
    <2>1. w[i] = w[j]
      BY <1>9 DEF RenderOf
    <2>2. at[i] = at[j] /\ at[i] \in 1 .. Len(s) /\ at[j] \in 1 .. Len(s)
      BY <1>3, <1>6, <2>1
    <2>3. ~(i < j) /\ ~(j < i)
      BY <1>3, <1>6, <2>2
    <2> QED
      BY <1>7, <2>3
  <1>11. RowFor(doc, e, Statics(doc))
    BY <1>2 DEF InOrder, Ordered
  <1>12. \A x : Listed(h, x) <=> Listed(r, x)
    <2> TAKE x
    <2>1. Listed(h, x) <=> \E i \in 1 .. Len(w) : x = RenderOf(doc, w[i])
      BY <1>9 DEF Listed
    <2>2. Listed(r, x) <=> \E c \in Statics(doc) : doc.parent[c] = e /\ x = RenderOf(doc, c)
      BY <1>11 DEF RowFor
    <2> QED
      BY <1>8, <2>1, <2>2
  <1>13. ASSUME NEW x, NEW y, Ahead(h, x, y) PROVE Ahead(r, x, y)
    <2>1. PICK i \in 1 .. Len(w), j \in 1 .. Len(w) :
            i < j /\ x = RenderOf(doc, w[i]) /\ y = RenderOf(doc, w[j])
      BY <1>9, <1>13 DEF Ahead
    <2>2. at[i] < at[j] /\ w[i] = s[at[i]] /\ w[j] = s[at[j]]
          /\ at[i] \in 1 .. Len(s) /\ at[j] \in 1 .. Len(s)
      BY <1>6, <2>1
    <2>3. Ahead(s, w[i], w[j])
      BY <2>2 DEF Ahead
    <2>4. /\ w[i] \in Statics(doc) /\ doc.parent[w[i]] = e
          /\ w[j] \in Statics(doc) /\ doc.parent[w[j]] = e
      BY <1>8
    <2> QED
      BY <1>11, <2>1, <2>3, <2>4 DEF RowFor
  <1>14. r \in Seq(AllRenders) /\ Distinct(r) /\ r = doc.kids[q]
    <2>1. q \in DOMAIN doc.kids
      BY <1>2 DEF Planted
    <2>2. Wood(Rows(doc.kids)) /\ r = doc.kids[q] /\ q \in AllRenders
      BY <1>2, <2>1, GrownWood
    <2> QED
      BY <2>2 DEF Wood
  <1> HIDE DEF r
  <1>15. h = r
    BY <1>9, <1>10, <1>12, <1>13, <1>14, HalfOrder
  <1> QED
    BY <1>5, <1>14, <1>15

LEMMA ArrangedMeans == Arranged => RenderOrder
  <1> SUFFICES ASSUME Arranged PROVE RenderOrder
    OBVIOUS
  <1>1. PICK a : Settling(doc, a)
    BY DEF Arranged, Settled
  <1>2. Typed(doc) /\ Planted(doc) /\ Grown(doc, a) /\ InOrder(doc)
    BY <1>1 DEF Settling, Firm, Grown, Arranged
  <1> DEFINE k == doc.kids[FixedRoot]
             fixed == {n \in doc.registry : doc.init[n] /\ doc.style[n] = "fixed"}
  <1>3. k = Rows(doc.kids)[FixedRoot] /\ k \in Seq(AllRenders)
    BY <1>2, GrownWood DEF Planted
  <1>4. fixed = Fixeds(doc)
    <2>1. doc.registry \subseteq Elements
      BY <1>2 DEF Planted
    <2>2. \A n \in Elements : doc.init[n] => n \in doc.registry
      BY <1>2 DEF Planted, Typed
    <2> QED
      BY <2>1, <2>2 DEF Fixeds
  <1>5. \A x : Listed(k, x) <=> \E e \in fixed : x = RenderOf(doc, e)
    BY <1>2, <1>3, <1>4 DEF InOrder, Ordered
  <1> HIDE DEF k, fixed
  <1>6. \A x : x \in ToSet(k) <=> Listed(k, x)
    BY <1>3 DEF ToSet, Listed
  <1>7. ToSet(k) = {RenderOf(doc, e) : e \in fixed}
    BY <1>5, <1>6
  <1>8. \A e \in doc.registry : Built(doc, e) => doc.kids[RenderOf(doc, e)] = StaticHeads(e)
    BY RowIsStaticHeads
  <1> QED
    BY <1>7, <1>8 DEF RenderOrder, k, fixed

(* Where JS keeps clear of the four flaws, a render node holds those of    *)
(* the static children that are built, in the order of the DOM, and the    *)
(* fixed root those that are fixed, for any number of elements, moves and  *)
(* style changes: an element finds its place beside its nearest static     *)
(* siblings (AppendOrInsertIntoParent), the resolver moves it to the fixed *)
(* root and back (MountFixedRenderNode), and what is detached or destroyed *)
(* leaves its row (detachTaroNodeReference, ~TaroElement).                 *)
THEOREM RenderOrderAlways == (OrderAvoided /\ Spec) => []RenderOrder
  <1> SUFFICES ASSUME OrderAvoided PROVE Spec => []RenderOrder
    OBVIOUS
  <1>1. Init => Arranged
    BY InitArranged
  <1>2. Arranged /\ [Next]_vars => Arranged'
    BY ArrangedStep
  <1>3. Arranged => RenderOrder
    BY ArrangedMeans
  <1> QED
    BY <1>1, <1>2, <1>3, PTL DEF Spec
=============================================================================
