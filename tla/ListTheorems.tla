---------------------------- MODULE ListTheorems ----------------------------
(***************************************************************************)
(* Induction over the natural numbers in the form the provers can use: its *)
(* hypothesis is a set, not an operator, so that it can be cited by name.  *)
(* From it, what a left fold computes: the models of the source's list     *)
(* loops (merging, filtering and summing) are folds.                       *)
(***************************************************************************)
EXTENDS Lists, FiniteSetsExt, SequenceTheorems, WellFoundedInduction, TLAPS

(* Least: a non-empty set of natural numbers has a least element.          *)
LEMMA Least ==
  ASSUME NEW T, T \subseteq Nat, T # {}
  PROVE  \E n \in T : \A m \in T : n <= m
  <1> DEFINE R == OpToRel(<, Nat)
  <1>1. IsWellFoundedOn(R, Nat)
    BY NatLessThanWellFounded
  <1>2. PICK x \in T : \A y \in T : ~(<<y, x>> \in R)
    <2> HIDE DEF R
    <2> QED
      BY <1>1, WFMin
  <1>3. \A y \in T : ~(y < x)
    <2> SUFFICES ASSUME NEW y \in T, y < x PROVE <<y, x>> \in R
      BY <1>2
    <2> QED
      BY DEF OpToRel
  <1>4. x \in Nat /\ \A y \in T : y \in Nat
    OBVIOUS
  <1> HIDE DEF R
  <1> QED
    BY <1>4, <1>3

(* Induction: a set with 0 and every successor holds every number.         *)
LEMMA Induction ==
  ASSUME NEW T, 0 \in T, \A n \in Nat : n \in T => n + 1 \in T
  PROVE  Nat \subseteq T
  <1> SUFFICES ASSUME Nat \ T # {} PROVE FALSE
    OBVIOUS
  <1>1. PICK n \in Nat \ T : \A m \in Nat \ T : n <= m
    BY Least
  <1>2. n # 0
    OBVIOUS
  <1>3. n - 1 \in Nat /\ n - 1 \notin Nat \ T /\ (n - 1) + 1 = n
    BY <1>1, <1>2
  <1> QED
    BY <1>1, <1>3

-----------------------------------------------------------------------------
(* MaxOfTop: the largest of some numbers up to k + 1, itself among them.   *)
LEMMA MaxOfTop ==
  ASSUME NEW k \in Nat, NEW t \in SUBSET (1 .. k + 1), k + 1 \in t
  PROVE  Max(t) = k + 1
  <1>1. \A x \in t : k + 1 >= x /\ (x >= k + 1 => x = k + 1)
    OBVIOUS
  <1> QED
    BY <1>1 DEF Max

(* MaxWithin: some numbers up to k have a largest one.                     *)
LEMMA MaxWithin ==
  ASSUME NEW k \in Nat, NEW t \in SUBSET (1 .. k), t # {}
  PROVE  Max(t) \in t
  <1> DEFINE U == {m \in Nat : \A y \in t : m >= y}
  <1>1. k \in U
    OBVIOUS
  <1>2. PICK m \in U : \A n \in U : m <= n
    BY <1>1, Least
  <1>3. m \in t
    <2> SUFFICES ASSUME m \notin t PROVE FALSE
      OBVIOUS
    <2>1. PICK z \in t : TRUE
      OBVIOUS
    <2>2. m > 0 /\ m - 1 \in Nat
      BY <2>1
    <2>3. m - 1 \in U
      <3> SUFFICES ASSUME NEW y \in t PROVE m - 1 >= y
        BY <2>2
      <3> QED
        BY <1>2
    <2> QED
      BY <1>2, <2>2, <2>3
  <1> QED
    BY <1>2, <1>3 DEF Max

(* Initial: the interval up to i, as the argument of a fold.               *)
LEMMA Initial ==
  ASSUME NEW n \in Nat, NEW i \in 1 .. n
  PROVE  /\ 1 .. i \in SUBSET (1 .. n) /\ 1 .. i # {}
         /\ Max(1 .. i) = i
         /\ (1 .. i) \ {i} = 1 .. i - 1
  <1>1. i - 1 \in Nat /\ (i - 1) + 1 = i /\ i \in 1 .. i
    OBVIOUS
  <1>2. 1 .. i \in SUBSET (1 .. (i - 1) + 1)
    OBVIOUS
  <1>3. Max(1 .. i) = i
    BY <1>1, <1>2, MaxOfTop
  <1> QED
    BY <1>1, <1>3

-----------------------------------------------------------------------------
(* The equation a left fold of `step' over s solves, on sets of positions. *)
FoldEq(g, D, step, b, s) ==
    g = [t \in SUBSET D |-> IF t = {} THEN b ELSE step[<<g[t \ {Max(t)}], s[Max(t)]>>]]

(* FoldExists: it has a solution, for a step of any type.                  *)
LEMMA FoldExists ==
  ASSUME NEW A, NEW C, NEW step \in [A \X C -> A], NEW b \in A,
         NEW n \in Nat, NEW s \in [1 .. n -> C]
  PROVE  \E g \in [SUBSET (1 .. n) -> A] : FoldEq(g, 1 .. n, step, b, s)
  <1> DEFINE Folds(k) == \E g \in [SUBSET (1 .. k) -> A] : FoldEq(g, 1 .. k, step, b, s)
             Upto(k) == k <= n => Folds(k)
             T == {k \in Nat : Upto(k)}
  <1>1. Folds(0)
    <2> DEFINE g == [t \in SUBSET (1 .. 0) |-> b]
    <2>1. \A t \in SUBSET (1 .. 0) : t = {}
      OBVIOUS
    <2>2. g \in [SUBSET (1 .. 0) -> A] /\ FoldEq(g, 1 .. 0, step, b, s)
      BY <2>1 DEF FoldEq
    <2> QED
      BY <2>2
  <1>2. ASSUME NEW k \in Nat, k + 1 <= n, Folds(k) PROVE Folds(k + 1)
    <2>1. PICK g \in [SUBSET (1 .. k) -> A] : FoldEq(g, 1 .. k, step, b, s)
      BY <1>2
    <2>2. k + 1 \in 1 .. n /\ s[k + 1] \in C
      BY <1>2
    <2> DEFINE h == [t \in SUBSET (1 .. k + 1) |->
                       IF k + 1 \in t THEN step[<<g[t \ {k + 1}], s[k + 1]>>] ELSE g[t]]
    <2>3. \A t \in SUBSET (1 .. k + 1) : t \ {k + 1} \in SUBSET (1 .. k)
      OBVIOUS
    <2>4. h \in [SUBSET (1 .. k + 1) -> A]
      BY <2>2, <2>3
    <2>5. ASSUME NEW t \in SUBSET (1 .. k + 1)
          PROVE  h[t] = IF t = {} THEN b ELSE step[<<h[t \ {Max(t)}], s[Max(t)]>>]
      <3>1. CASE k + 1 \in t
        <4>1. Max(t) = k + 1 /\ t # {}
          BY <3>1, MaxOfTop
        <4>2. h[t \ {k + 1}] = g[t \ {k + 1}]
          BY <2>3
        <4> QED
          BY <3>1, <4>1, <4>2
      <3>2. CASE k + 1 \notin t
        <4>1. t \in SUBSET (1 .. k) /\ h[t] = g[t]
          BY <3>2, <2>3
        <4>2. CASE t = {}
          BY <4>1, <4>2, <2>1 DEF FoldEq
        <4>3. CASE t # {}
          <5>1. g[t] = step[<<g[t \ {Max(t)}], s[Max(t)]>>]
            BY <4>1, <4>3, <2>1, Zenon DEF FoldEq
          <5>2. h[t \ {Max(t)}] = g[t \ {Max(t)}]
            BY <4>1, <3>2
          <5> QED
            BY <4>1, <4>3, <5>1, <5>2
        <4> QED
          BY <4>2, <4>3
      <3> QED
        BY <3>1, <3>2
    <2>6. FoldEq(h, 1 .. k + 1, step, b, s)
      BY <2>5, Zenon DEF FoldEq
    <2> QED
      BY <2>4, <2>6
  <1> HIDE DEF Folds
  <1>3. 0 \in T /\ \A k \in Nat : k \in T => k + 1 \in T
    BY <1>1, <1>2
  <1>4. n \in T
    <2> HIDE DEF T
    <2> QED
      BY <1>3, Induction
  <1>5. Folds(n)
    BY <1>4
  <1> QED
    BY <1>5 DEF Folds

-----------------------------------------------------------------------------
(* WithoutTrace: the lists that Without goes through.                      *)
LEMMA WithoutTrace ==
  ASSUME NEW C, NEW s \in Seq(C), NEW ids
  PROVE  \E f : /\ f[0] = <<>>
                /\ \A i \in 1 .. Len(s) :
                      f[i] = IF s[i] \in ids THEN f[i - 1] ELSE Append(f[i - 1], s[i])
                /\ Without(s, ids) = f[Len(s)]
  <1> DEFINE n == Len(s)
             Drop(kept, e) == IF e \in ids THEN kept ELSE Append(kept, e)
             step == [p \in Seq(C) \X C |-> Drop(p[1], p[2])]
             Eq(it) == it = [t \in SUBSET DOMAIN s |-> IF t = {} THEN <<>>
                                ELSE Drop(it[t \ {Max(t)}], s[Max(t)])]
             it == CHOOSE it : Eq(it)
  <1>1. step \in [Seq(C) \X C -> Seq(C)] /\ <<>> \in Seq(C)
    OBVIOUS
  <1>2. n \in Nat /\ DOMAIN s = 1 .. n /\ s \in [1 .. n -> C]
    OBVIOUS
  <1>3. PICK g \in [SUBSET (1 .. n) -> Seq(C)] : FoldEq(g, 1 .. n, step, <<>>, s)
    <2> HIDE DEF n, step
    <2> QED
      BY <1>1, <1>2, FoldExists
  <1>4. Eq(g)
    <2>1. ASSUME NEW t \in SUBSET (1 .. n), t # {}
          PROVE  step[<<g[t \ {Max(t)}], s[Max(t)]>>] = Drop(g[t \ {Max(t)}], s[Max(t)])
      <3>1. Max(t) \in t
        BY <1>2, <2>1, MaxWithin
      <3>2. g[t \ {Max(t)}] \in Seq(C) /\ s[Max(t)] \in C
        BY <3>1, <1>2
      <3> QED
        BY <3>1, <3>2
    <2> HIDE DEF step, n, Drop
    <2> QED
      BY <1>2, <1>3, <2>1 DEF FoldEq
  <1>5. Eq(it)
    <2> HIDE DEF Eq
    <2> QED
      BY <1>4
  <1>6. Without(s, ids) = it[DOMAIN s]
    BY DEF Without, FoldLeft, MapThenFoldSet
  <1> DEFINE f == [i \in 0 .. n |-> it[1 .. i]]
  <1>7. f[0] = <<>>
    <2> HIDE DEF it
    <2>1. it[{}] = <<>>
      BY <1>5
    <2>2. 1 .. 0 = {} /\ 0 \in 0 .. n
      BY <1>2
    <2> QED
      BY <2>1, <2>2
  <1>8. ASSUME NEW i \in 1 .. n
        PROVE  f[i] = Drop(f[i - 1], s[i])
    <2>1. /\ 1 .. i \in SUBSET (1 .. n) /\ 1 .. i # {}
          /\ Max(1 .. i) = i /\ (1 .. i) \ {i} = 1 .. i - 1
      <3> HIDE DEF n
      <3> QED
        BY <1>2, Initial
    <2> HIDE DEF it, Drop
    <2>2. it[1 .. i] = Drop(it[1 .. i - 1], s[i])
      BY <1>2, <1>5, <2>1, Zenon
    <2>3. i \in 0 .. n /\ i - 1 \in 0 .. n
      OBVIOUS
    <2> QED
      BY <2>2, <2>3
  <1>9. f[n] = Without(s, ids)
    <2> HIDE DEF it
    <2> QED
      BY <1>2, <1>6
  <1> HIDE DEF it, f
  <1> QED
    BY <1>7, <1>8, <1>9

(* AppendedSet: what a list holds after push_back.                         *)
LEMMA AppendedSet ==
  ASSUME NEW C, NEW s \in Seq(C), NEW e \in C
  PROVE  ToSet(Append(s, e)) = ToSet(s) \cup {e}
  <1> DEFINE g == Append(s, e)
  <1>1. /\ Len(s) \in Nat /\ DOMAIN s = 1 .. Len(s) /\ DOMAIN g = 1 .. Len(s) + 1
        /\ g[Len(s) + 1] = e /\ \A i \in 1 .. Len(s) : g[i] = s[i]
    OBVIOUS
  <1> HIDE DEF g
  <1>2. \A i \in 1 .. Len(s) + 1 : i \in 1 .. Len(s) \/ i = Len(s) + 1
    BY <1>1
  <1>3. \A i \in 1 .. Len(s) : i \in 1 .. Len(s) + 1
    BY <1>1
  <1>4. Len(s) + 1 \in 1 .. Len(s) + 1
    BY <1>1
  <1>5. ToSet(g) = ToSet(s) \cup {e}
    BY <1>1, <1>2, <1>3, <1>4, Zenon DEF ToSet
  <1> QED
    BY <1>5 DEF g

(* WithoutKeeps: what is left, in the order it had; all of s when nothing  *)
(* of it is dropped.                                                       *)
LEMMA WithoutKeeps ==
  ASSUME NEW C, NEW s \in Seq(C), NEW ids
  PROVE  /\ Without(s, ids) \in Seq(C)
         /\ ToSet(Without(s, ids)) = ToSet(s) \ ids
         /\ \E at \in [1 .. Len(Without(s, ids)) -> 1 .. Len(s)] :
               /\ \A i \in 1 .. Len(Without(s, ids)) : Without(s, ids)[i] = s[at[i]]
               /\ \A i, j \in 1 .. Len(Without(s, ids)) : i < j => at[i] < at[j]
         /\ ToSet(s) \cap ids = {} => Without(s, ids) = s
  <1> DEFINE n == Len(s)
  <1>1. PICK f : /\ f[0] = <<>>
                 /\ \A i \in 1 .. n :
                       f[i] = IF s[i] \in ids THEN f[i - 1] ELSE Append(f[i - 1], s[i])
                 /\ Without(s, ids) = f[n]
    BY WithoutTrace, Zenon
  <1> DEFINE Typed(i) == f[i] \in Seq(C)
             Left(i) == \A e : e \in ToSet(f[i]) <=> e \notin ids /\ \E k \in 1 .. i : e = s[k]
             Ordered(i) == \E at \in [1 .. Len(f[i]) -> 1 .. i] :
                             /\ \A k \in 1 .. Len(f[i]) : f[i][k] = s[at[k]]
                             /\ \A k, l \in 1 .. Len(f[i]) : k < l => at[k] < at[l]
             Whole(i) == (\A k \in 1 .. i : s[k] \notin ids) =>
                             Len(f[i]) = i /\ \A k \in 1 .. i : f[i][k] = s[k]
             Good(i) == Typed(i) /\ Left(i) /\ Ordered(i) /\ Whole(i)
             Upto(i) == i <= n => Good(i)
             T == {i \in Nat : Upto(i)}
  <1>2. Good(0)
    <2>1. Typed(0) /\ Whole(0)
      BY <1>1
    <2>2. Left(0)
      BY <1>1 DEF ToSet
    <2>3. Ordered(0)
      <3> DEFINE at == [k \in 1 .. 0 |-> 0]
      <3>1. Len(f[0]) = 0
        BY <1>1
      <3>2. at \in [1 .. Len(f[0]) -> 1 .. 0] /\ \A k \in 1 .. Len(f[0]) : FALSE
        BY <3>1
      <3> HIDE DEF at
      <3> QED
        BY <3>2
    <2> QED
      BY <2>1, <2>2, <2>3
  <1>3. ASSUME NEW i \in Nat, i + 1 <= n, Good(i) PROVE Good(i + 1)
    <2>1. i + 1 \in 1 .. n /\ s[i + 1] \in C /\ (i + 1) - 1 = i
      BY <1>3
    <2>2. PICK at \in [1 .. Len(f[i]) -> 1 .. i] :
                             /\ \A k \in 1 .. Len(f[i]) : f[i][k] = s[at[k]]
                             /\ \A k, l \in 1 .. Len(f[i]) : k < l => at[k] < at[l]
      BY <1>3
    <2>3. CASE s[i + 1] \in ids
      <3>1. f[i + 1] = f[i]
        BY <1>1, <2>1, <2>3
      <3>2. at \in [1 .. Len(f[i]) -> 1 .. i + 1]
        OBVIOUS
      <3>3. Ordered(i + 1)
        BY <2>2, <3>1, <3>2
      <3>4. Typed(i + 1) /\ Left(i + 1)
        BY <1>3, <2>3, <3>1
      <3>5. Whole(i + 1)
        BY <2>3
      <3> QED
        BY <3>3, <3>4, <3>5
    <2>4. CASE s[i + 1] \notin ids
      <3>1. f[i + 1] = Append(f[i], s[i + 1]) /\ f[i] \in Seq(C)
        BY <1>1, <1>3, <2>1, <2>4
      <3> DEFINE m == Len(f[i])
                 g == f[i + 1]
      <3>2. /\ m \in Nat /\ g \in Seq(C) /\ Len(g) = m + 1
            /\ g[m + 1] = s[i + 1] /\ \A k \in 1 .. m : g[k] = f[i][k]
        BY <2>1, <3>1
      <3>3. Left(i + 1)
        <4>1. ToSet(g) = ToSet(f[i]) \cup {s[i + 1]}
          BY <2>1, <3>1, AppendedSet
        <4> QED
          BY <1>3, <2>4, <4>1
      <3>4. Ordered(i + 1)
        <4> DEFINE to == [k \in 1 .. m + 1 |-> IF k = m + 1 THEN i + 1 ELSE at[k]]
        <4>1. to \in [1 .. Len(g) -> 1 .. i + 1]
          BY <3>2
        <4>2. \A k \in 1 .. Len(g) : g[k] = s[to[k]]
          BY <2>2, <3>2
        <4>3. ASSUME NEW k \in 1 .. Len(g), NEW l \in 1 .. Len(g), k < l
              PROVE  to[k] < to[l]
          <5>0. m \in Nat /\ k \in 1 .. m + 1 /\ l \in 1 .. m + 1 /\ at \in [1 .. m -> 1 .. i]
            BY <3>2
          <5> HIDE DEF m, g
          <5>1. k \in 1 .. m /\ k \in 1 .. m + 1 /\ k # m + 1
            BY <5>0, <4>3
          <5>4. to[k] = at[k] /\ at[k] \in 1 .. i
            BY <5>0, <5>1
          <5>2. CASE l = m + 1
            BY <5>0, <5>4, <5>2
          <5>3. CASE l # m + 1
            <6>1. l \in 1 .. m /\ to[l] = at[l]
              BY <5>0, <5>3
            <6> QED
              BY <2>2, <5>1, <5>4, <6>1, <4>3 DEF m
          <5> QED
            BY <5>2, <5>3
        <4> HIDE DEF to
        <4> QED
          BY <4>1, <4>2, <4>3
      <3>5. Whole(i + 1)
        BY <1>3, <3>2
      <3> QED
        BY <3>2, <3>3, <3>4, <3>5
    <2> QED
      BY <2>3, <2>4
  <1>4. Good(n)
    <2> HIDE DEF Good
    <2>1. 0 \in T /\ \A i \in Nat : i \in T => i + 1 \in T
      BY <1>2, <1>3
    <2>2. n \in T
      <3> HIDE DEF T
      <3> QED
        BY <2>1, Induction
    <2> QED
      BY <2>2
  <1>5. ToSet(s) = {s[k] : k \in 1 .. n}
    BY DEF ToSet
  <1>6. ToSet(Without(s, ids)) = ToSet(s) \ ids
    BY <1>1, <1>4, <1>5
  <1>7. ToSet(s) \cap ids = {} => Without(s, ids) = s
    <2> SUFFICES ASSUME ToSet(s) \cap ids = {} PROVE f[n] = s
      BY <1>1
    <2>1. n \in Nat /\ \A k \in 1 .. n : s[k] \notin ids
      BY <1>5
    <2>3. Len(f[n]) = n /\ \A k \in 1 .. n : f[n][k] = s[k]
      BY <1>4, <2>1
    <2>2. f[n] \in Seq(C)
      BY <1>4
    <2>4. f[n] = s
      <3> HIDE DEF n, Good
      <3> DEFINE x == f[n]
      <3>1. x \in Seq(C) /\ Len(x) = Len(s) /\ \A k \in 1 .. Len(x) : x[k] = s[k]
        BY <2>2, <2>3 DEF n
      <3> HIDE DEF x
      <3>2. x = s
        BY <3>1, SeqEqual
      <3> QED BY <3>2 DEF x
    <2> QED BY <2>4
  <1>8. Typed(n) /\ Ordered(n)
    BY <1>4
  <1>9. Without(s, ids) = f[n]
    BY <1>1
  <1> QED
    BY <1>6, <1>7, <1>8, <1>9, Zenon
-----------------------------------------------------------------------------
(* TailWithin: pop_front leaves elements of the list.                      *)
LEMMA TailWithin ==
  ASSUME NEW C, NEW s \in Seq(C), s # <<>>
  PROVE  Tail(s) \in Seq(C) /\ Head(s) \in C /\ ToSet(Tail(s)) \subseteq ToSet(s)
  <1>1. /\ Tail(s) \in Seq(C) /\ Head(s) \in C /\ Len(Tail(s)) = Len(s) - 1
        /\ \A i \in 1 .. Len(Tail(s)) : Tail(s)[i] = s[i + 1]
    BY HeadTailProperties
  <1>2. Len(s) \in Nat /\ DOMAIN s = 1 .. Len(s) /\ DOMAIN Tail(s) = 1 .. Len(Tail(s))
    BY <1>1
  <1>3. ASSUME NEW i \in 1 .. Len(Tail(s)) PROVE Tail(s)[i] \in ToSet(s)
    <2>1. i + 1 \in 1 .. Len(s) /\ Tail(s)[i] = s[i + 1]
      BY <1>1, <1>2
    <2> QED
      BY <1>2, <2>1 DEF ToSet
  <1> QED
    BY <1>1, <1>2, <1>3 DEF ToSet

(* HeadAndTail: pop_front takes one element away, the first.               *)
LEMMA HeadAndTail ==
  ASSUME NEW C, NEW s \in Seq(C), s # <<>>
  PROVE  ToSet(s) = {Head(s)} \cup ToSet(Tail(s)) /\ Len(Tail(s)) = Len(s) - 1 /\ Len(s) \in Nat
  <1>1. /\ Tail(s) \in Seq(C) /\ Len(Tail(s)) = Len(s) - 1 /\ Len(s) \in Nat /\ Len(s) >= 1
        /\ Head(s) = s[1]
        /\ \A i \in 1 .. Len(Tail(s)) : Tail(s)[i] = s[i + 1]
    BY HeadTailProperties
  <1>2. DOMAIN s = 1 .. Len(s) /\ DOMAIN Tail(s) = 1 .. Len(Tail(s))
    BY <1>1
  <1>3. ASSUME NEW i \in 1 .. Len(s)
        PROVE  s[i] \in {Head(s)} \cup ToSet(Tail(s))
    <2>1. CASE i = 1
      BY <1>1, <2>1
    <2>2. CASE i # 1
      <3>1. i - 1 \in 1 .. Len(Tail(s)) /\ (i - 1) + 1 = i
        BY <1>1, <2>2
      <3>2. Tail(s)[i - 1] = s[i]
        BY <1>1, <3>1
      <3> QED
        BY <1>2, <3>1, <3>2 DEF ToSet
    <2> QED
      BY <2>1, <2>2
  <1>4. ToSet(s) \subseteq {Head(s)} \cup ToSet(Tail(s))
    BY <1>2, <1>3 DEF ToSet
  <1>5. ToSet(Tail(s)) \subseteq ToSet(s)
    BY TailWithin
  <1>6. Head(s) \in ToSet(s)
    BY <1>1, <1>2 DEF ToSet
  <1> QED
    BY <1>1, <1>4, <1>5, <1>6

(* PushedOnTop: push on a stack, its top first.                            *)
LEMMA PushedOnTop ==
  ASSUME NEW C, NEW s \in Seq(C), NEW e \in C
  PROVE  /\ <<e>> \o s \in Seq(C) /\ Len(<<e>> \o s) = Len(s) + 1
         /\ ToSet(<<e>> \o s) = {e} \cup ToSet(s)
  <1> DEFINE t == <<e>> \o s
  <1>1. t \in Seq(C) /\ Len(t) = Len(s) + 1 /\ Len(s) \in Nat
    OBVIOUS
  <1>2. t # <<>> /\ Head(t) = e
    BY <1>1
  <1>3. Tail(t) = s
    <2>1. Len(Tail(t)) = Len(s) /\ Tail(t) \in Seq(C)
      BY <1>1, <1>2
    <2>2. \A i \in 1 .. Len(s) : Tail(t)[i] = s[i]
      BY <1>1, <1>2
    <2> HIDE DEF t
    <2> QED
      BY <2>1, <2>2, SeqEqual
  <1> HIDE DEF t
  <1> QED
    BY <1>1, <1>2, <1>3, HeadAndTail DEF t

(* PushBehind: push_back on the last of two lists in a row.                *)
LEMMA PushBehind ==
  ASSUME NEW C, NEW s \in Seq(C), NEW t \in Seq(C), NEW e \in C
  PROVE  s \o Append(t, e) = Append(s \o t, e)
  <1>1. Append(t, e) = t \o <<e>> /\ <<e>> \in Seq(C)
    BY AppendIsConcat
  <1>2. s \o t \in Seq(C) /\ Append(s \o t, e) = (s \o t) \o <<e>>
    <2>1. s \o t \in Seq(C)
      BY ConcatProperties
    <2> QED
      BY <2>1, AppendIsConcat
  <1> QED
    BY <1>1, <1>2, ConcatAssociative

(* Associative: three lists in a row.                                      *)
InARow(s, t, u) == (s \o t) \o u = s \o (t \o u)

LEMMA Associative ==
  ASSUME NEW C, NEW s \in Seq(C), NEW t \in Seq(C), NEW u \in Seq(C)
  PROVE  InARow(s, t, u)
  BY ConcatAssociative DEF InARow

(* The front of t goes to the end of s; the lists s, t, u in a row.        *)
SameRow(s, t, u) == Append(s, Head(t)) \o (Tail(t) \o u) = s \o (t \o u)

(* MoveAcross: moving it leaves what the lists in a row hold.              *)
LEMMA MoveAcross ==
  ASSUME NEW C, NEW s \in Seq(C), NEW t \in Seq(C), NEW u \in Seq(C), t # <<>>
  PROVE  SameRow(s, t, u)
  <1>1. Head(t) \in C /\ Tail(t) \in Seq(C) /\ <<Head(t)>> \in Seq(C)
    BY TailWithin
  <1>2. <<Head(t)>> \o Tail(t) = t
    <2>1. Tail(t) = SubSeq(t, 2, Len(t)) /\ Head(t) = t[1] /\ 1 \in 1 .. Len(t) /\ Len(t) \in 1 .. Len(t)
      BY TailIsSubSeq
    <2>2. SubSeq(t, 1, Len(t)) = <<t[1]>> \o SubSeq(t, 1 + 1, Len(t))
      BY <2>1, SubSeqRecursiveFirst
    <2>3. SubSeq(t, 1, Len(t)) = t
      BY SubSeqFull
    <2> QED
      BY <2>1, <2>2, <2>3
  <1>3. Append(s, Head(t)) = s \o <<Head(t)>>
    BY <1>1, AppendIsConcat
  <1>4. ASSUME NEW h \in Seq(C), NEW r \in Seq(C)
        PROVE  (s \o h) \o (r \o u) = s \o ((h \o r) \o u)
    <2>1. InARow(h, r, u)
      BY Associative
    <2>2. r \o u \in Seq(C)
      BY ConcatProperties
    <2>3. InARow(s, h, r \o u)
      BY <2>2, Associative
    <2> QED
      BY <2>1, <2>3, Zenon DEF InARow
  <1>5. (s \o <<Head(t)>>) \o (Tail(t) \o u) = s \o ((<<Head(t)>> \o Tail(t)) \o u)
    BY <1>1, <1>4, Zenon
  <1> QED
    BY <1>2, <1>3, <1>5, Zenon DEF SameRow

(* PrefixOfConcat: a list is a prefix of itself with more behind it.       *)
LEMMA PrefixOfConcat ==
  ASSUME NEW C, NEW s \in Seq(C), NEW t \in Seq(C)
  PROVE  IsPrefix(s, s \o t)
  <1>1. /\ s \o t \in Seq(C) /\ Len(s \o t) = Len(s) + Len(t)
        /\ \A i \in 1 .. Len(s) + Len(t) :
              (s \o t)[i] = IF i <= Len(s) THEN s[i] ELSE t[i - Len(s)]
    BY ConcatProperties
  <1>2. Len(s) \in Nat /\ Len(t) \in Nat
    OBVIOUS
  <1>3. SubSeq(s, 1, Len(s)) = s
    BY SubSeqFull
  <1> DEFINE r == SubSeq(s \o t, 1, Len(s))
             st == s \o t
  <1>4. /\ st \in Seq(C) /\ Len(st) = Len(s) + Len(t)
        /\ \A i \in 1 .. Len(s) : st[i] = s[i]
    BY <1>1, <1>2
  <1>5. /\ r \in Seq(C) /\ Len(r) = Len(s)
        /\ \A i \in 1 .. Len(s) : r[i] = st[i]
    <2> HIDE DEF st
    <2>1. r = SubSeq(st, 1, Len(s))
      BY DEF st
    <2> HIDE DEF r
    <2> QED
      BY <1>2, <1>4, <2>1
  <1>6. r = s
    <2> HIDE DEF r, st
    <2> QED
      BY <1>4, <1>5, SeqEqual
  <1> QED
    BY <1>1, <1>2, <1>3, <1>6 DEF IsPrefix

-----------------------------------------------------------------------------
(* SlicedRow: a part of a list, empty ones included.                       *)
LEMMA SlicedRow ==
  ASSUME NEW C, NEW s \in Seq(C), NEW i \in 1 .. Len(s) + 1, NEW j \in 0 .. Len(s),
         i <= j + 1
  PROVE  /\ SubSeq(s, i, j) \in Seq(C)
         /\ Len(SubSeq(s, i, j)) = j + 1 - i
         /\ \A k \in 1 .. j + 1 - i : SubSeq(s, i, j)[k] = s[i + k - 1]
  OBVIOUS

(* WidenedRow: what insert leaves, at any position up to the end.          *)
Wider(s, i, e, t) ==
    /\ Len(t) = Len(s) + 1
    /\ \A k \in 1 .. Len(s) + 1 :
            t[k] = IF k < i THEN s[k] ELSE IF k = i THEN e ELSE s[k - 1]

LEMMA WidenedRow ==
  ASSUME NEW C, NEW s \in Seq(C), NEW i \in 1 .. Len(s) + 1, NEW e \in C
  PROVE  InsertAt(s, i, e) \in Seq(C) /\ Wider(s, i, e, InsertAt(s, i, e))
  <1> DEFINE f == SubSeq(s, 1, i - 1)
             t == SubSeq(s, i, Len(s))
             m == Len(s)
  <1>0. m \in Nat /\ i \in 1 .. m + 1
    OBVIOUS
  <1>1. f \in Seq(C) /\ Len(f) = i - 1 /\ \A k \in 1 .. i - 1 : f[k] = s[k]
    <2>1. 1 \in 1 .. Len(s) + 1 /\ i - 1 \in 0 .. Len(s) /\ 1 <= (i - 1) + 1 /\ (i - 1) + 1 - 1 = i - 1
      OBVIOUS
    <2>2. \A k \in 1 .. i - 1 : 1 + k - 1 = k
      OBVIOUS
    <2> QED
      BY <2>1, <2>2, SlicedRow
  <1>2. t \in Seq(C) /\ Len(t) = m + 1 - i /\ \A k \in 1 .. m + 1 - i : t[k] = s[i + k - 1]
    <2>1. m \in 0 .. Len(s) /\ i <= m + 1
      OBVIOUS
    <2> QED
      BY <2>1, SlicedRow
  <1>3. InsertAt(s, i, e) = f \o <<e>> \o t
    BY DEF InsertAt
  <1> HIDE DEF f, t, m
  <1>4. \A k \in 1 .. m + 1 : (f \o <<e>> \o t)[k] = IF k < i THEN s[k] ELSE IF k = i THEN e ELSE s[k - 1]
    <2> SUFFICES ASSUME NEW k \in 1 .. m + 1
                 PROVE (f \o <<e>> \o t)[k] = IF k < i THEN s[k] ELSE IF k = i THEN e ELSE s[k - 1]
      OBVIOUS
    <2>1. CASE k < i
      BY <1>0, <1>1, <1>2, <2>1
    <2>2. CASE k = i
      BY <1>0, <1>1, <1>2, <2>2
    <2>3. CASE k > i
      <3>1. k - i \in 1 .. m + 1 - i /\ i + (k - i) - 1 = k - 1
        BY <1>0, <2>3
      <3>2. (f \o <<e>> \o t)[k] = t[k - i]
        BY <1>0, <1>1, <1>2, <2>3
      <3>3. t[k - i] = s[k - 1]
        BY <1>2, <3>1
      <3>4. ~(k < i) /\ k # i
        BY <1>0, <2>3
      <3> QED
        BY <3>2, <3>3, <3>4
    <2>4. k < i \/ k = i \/ k > i
      BY <1>0
    <2> QED
      BY <2>1, <2>2, <2>3, <2>4
  <1>5. f \o <<e>> \o t \in Seq(C) /\ Len(f \o <<e>> \o t) = m + 1
    <2>1. <<e>> \in Seq(C) /\ Len(<<e>>) = 1
      OBVIOUS
    <2>2. f \o <<e>> \in Seq(C) /\ Len(f \o <<e>>) = i
      BY <1>0, <1>1, <2>1
    <2> DEFINE g == f \o <<e>>
    <2> HIDE DEF g
    <2>3. g \in Seq(C) /\ Len(g) = i
      BY <2>2 DEF g
    <2>4. g \o t \in Seq(C) /\ Len(g \o t) = i + (m + 1 - i)
      <3>1. g \o t \in Seq(C) /\ Len(g \o t) = Len(g) + Len(t)
        BY <1>2, <2>3, ConcatProperties
      <3> QED
        BY <1>2, <2>3, <3>1
    <2> QED
      BY <1>0, <2>4 DEF g
  <1> QED
    BY <1>3, <1>4, <1>5 DEF m, Wider

(* RemovedAt: what erase leaves.                                           *)
LEMMA RemovedAt ==
  ASSUME NEW C, NEW s \in Seq(C), NEW i \in 1 .. Len(s)
  PROVE  /\ RemoveAt(s, i) \in Seq(C)
         /\ Len(RemoveAt(s, i)) = Len(s) - 1
         /\ \A k \in 1 .. Len(s) - 1 : RemoveAt(s, i)[k] =
                IF k < i THEN s[k] ELSE s[k + 1]
  <1> DEFINE f == SubSeq(s, 1, i - 1)
             t == SubSeq(s, i + 1, Len(s))
             m == Len(s)
  <1>0. m \in Nat /\ i \in 1 .. m
    OBVIOUS
  <1>1. f \in Seq(C) /\ Len(f) = i - 1 /\ \A k \in 1 .. i - 1 : f[k] = s[k]
    <2>1. 1 \in 1 .. Len(s) + 1 /\ i - 1 \in 0 .. Len(s) /\ 1 <= (i - 1) + 1 /\ (i - 1) + 1 - 1 = i - 1
      OBVIOUS
    <2>2. \A k \in 1 .. i - 1 : 1 + k - 1 = k
      OBVIOUS
    <2> QED
      BY <2>1, <2>2, SlicedRow
  <1>2. t \in Seq(C) /\ Len(t) = m - i /\ \A k \in 1 .. m - i : t[k] = s[i + k]
    <2>1. i + 1 \in 1 .. Len(s) + 1 /\ m \in 0 .. Len(s) /\ i + 1 <= m + 1 /\ m + 1 - (i + 1) = m - i
      OBVIOUS
    <2>2. \A k \in 1 .. m - i : (i + 1) + k - 1 = i + k
      OBVIOUS
    <2> QED
      BY <2>1, <2>2, SlicedRow
  <1>3. RemoveAt(s, i) = f \o t
    BY DEF RemoveAt
  <1> HIDE DEF f, t, m
  <1>4. \A k \in 1 .. m - 1 : (f \o t)[k] = IF k < i THEN s[k] ELSE s[k + 1]
    <2> SUFFICES ASSUME NEW k \in 1 .. m - 1
                 PROVE (f \o t)[k] = IF k < i THEN s[k] ELSE s[k + 1]
      OBVIOUS
    <2>1. CASE k < i
      BY <1>0, <1>1, <1>2, <2>1
    <2>2. CASE k >= i
      <3>1. k - (i - 1) \in 1 .. m - i /\ i + (k - (i - 1)) = k + 1
        BY <1>0, <2>2
      <3>2. (f \o t)[k] = t[k - (i - 1)]
        BY <1>0, <1>1, <1>2, <2>2
      <3> QED
        BY <1>0, <1>2, <2>2, <3>1, <3>2
    <2>3. k < i \/ k >= i
      BY <1>0
    <2> QED
      BY <2>1, <2>2, <2>3
  <1>5. f \o t \in Seq(C) /\ Len(f \o t) = m - 1
    <2>1. f \o t \in Seq(C) /\ Len(f \o t) = Len(f) + Len(t)
      BY <1>1, <1>2, ConcatProperties
    <2>2. (i - 1) + (m - i) = m - 1
      BY <1>0
    <2> QED
      BY <1>1, <1>2, <2>1, <2>2
  <1> QED
    BY <1>3, <1>4, <1>5 DEF m

-----------------------------------------------------------------------------
(* Lists without repetition, and the order of what they hold.              *)
Distinct(s) == \A i, j \in 1 .. Len(s) : s[i] = s[j] => i = j
Listed(s, x) == \E i \in 1 .. Len(s) : s[i] = x
Ahead(s, a, b) == \E i, j \in 1 .. Len(s) : i < j /\ s[i] = a /\ s[j] = b

(* InsertedRow: insert of something new.                                   *)
InsertedIn(s, t, e) == Distinct(t) /\ \A x : Listed(t, x) <=> Listed(s, x) \/ x = e
LEMMA InsertedRow ==
  ASSUME NEW C, NEW s \in Seq(C), Distinct(s), NEW e \in C, ~Listed(s, e), NEW i \in 1 .. Len(s) + 1
  PROVE  InsertAt(s, i, e) \in Seq(C) /\ InsertedIn(s, InsertAt(s, i, e), e)
  <1> DEFINE t == InsertAt(s, i, e)
  <1>0. t \in Seq(C) /\ Wider(s, i, e, t)
    BY WidenedRow
  <1> HIDE DEF t
  <1>1. t \in Seq(C) /\ Len(t) = Len(s) + 1 /\ Len(s) \in Nat /\ Len(t) \in Nat
    BY <1>0 DEF Wider
  <1>2. \A k \in 1 .. Len(t) : t[k] = IF k < i THEN s[k] ELSE IF k = i THEN e ELSE s[k - 1]
    BY <1>0, <1>1 DEF Wider
  <1>3. i \in Nat /\ 1 <= i /\ i <= Len(s) + 1
    BY <1>1
  <1>4. ASSUME NEW k \in 1 .. Len(t)
        PROVE  /\ k < i => k \in 1 .. Len(s) /\ t[k] = s[k]
               /\ k = i => t[k] = e
               /\ k > i => k - 1 \in 1 .. Len(s) /\ t[k] = s[k - 1]
    BY <1>1, <1>2, <1>3
  <1>5. ASSUME NEW x
        PROVE  Listed(t, x) <=> Listed(s, x) \/ x = e
    <2>1. Listed(t, x) => Listed(s, x) \/ x = e
      <3> SUFFICES ASSUME NEW k \in 1 .. Len(t), t[k] = x PROVE Listed(s, x) \/ x = e
        BY DEF Listed
      <3>1. k < i \/ k = i \/ k > i
        BY <1>1, <1>3
      <3> QED
        BY <1>4, <3>1 DEF Listed
    <2>2. Listed(s, x) => Listed(t, x)
      <3> SUFFICES ASSUME NEW k \in 1 .. Len(s), s[k] = x PROVE Listed(t, x)
        BY DEF Listed
      <3>1. CASE k < i
        <4>1. k \in 1 .. Len(t) /\ t[k] = x
          BY <1>1, <1>2, <3>1
        <4> QED
          BY <4>1 DEF Listed
      <3>2. CASE ~(k < i)
        <4>1. k + 1 \in 1 .. Len(t) /\ t[k + 1] = x
          BY <1>1, <1>2, <1>3, <3>2
        <4> QED
          BY <4>1 DEF Listed
      <3> QED
        BY <3>1, <3>2
    <2>3. x = e => Listed(t, x)
      BY <1>1, <1>2, <1>3 DEF Listed
    <2> QED
      BY <2>1, <2>2, <2>3
  <1>6. Distinct(t)
    <2> SUFFICES ASSUME NEW j \in 1 .. Len(t), NEW k \in 1 .. Len(t), t[j] = t[k], j < k
                 PROVE  FALSE
      BY <1>1 DEF Distinct
    <2>1. j < i \/ j = i \/ j > i
      BY <1>1, <1>3
    <2>2. k < i \/ k = i \/ k > i
      BY <1>1, <1>3
    <2>3. \A m \in 1 .. Len(s) : s[m] # e
      BY DEF Listed
    <2>4. CASE j < i /\ k < i
      BY <1>1, <1>4, <2>4 DEF Distinct
    <2>5. CASE j < i /\ k = i
      BY <1>4, <2>3, <2>5
    <2>6. CASE j < i /\ k > i
      <3>1. j = k - 1
        BY <1>4, <2>6 DEF Distinct
      <3> QED
        BY <1>3, <2>6, <3>1
    <2>7. CASE j = i /\ k > i
      BY <1>4, <2>3, <2>7
    <2>8. CASE j > i /\ k > i
      <3>1. j - 1 = k - 1
        BY <1>4, <2>8 DEF Distinct
      <3> QED
        BY <3>1
    <2> QED
      BY <1>1, <1>3, <2>1, <2>2, <2>4, <2>5, <2>6, <2>7, <2>8
  <1> QED
    BY <1>1, <1>5, <1>6 DEF InsertedIn, t

(* AppendedRow: insert at the end is push_back.                            *)
LEMMA AppendedRow ==
  ASSUME NEW C, NEW s \in Seq(C), NEW e \in C
  PROVE  /\ InsertAt(s, Len(s) + 1, e) = Append(s, e)
         /\ \A a, b : Ahead(Append(s, e), a, b) <=> Ahead(s, a, b) \/ (Listed(s, a) /\ b = e)
  <1> DEFINE t == InsertAt(s, Len(s) + 1, e)
             u == Append(s, e)
  <1>1. Len(s) + 1 \in 1 .. Len(s) + 1 /\ Len(s) \in Nat
    OBVIOUS
  <1>2. /\ t \in Seq(C) /\ Len(t) = Len(s) + 1
        /\ \A k \in 1 .. Len(s) + 1 :
                t[k] = IF k < Len(s) + 1 THEN s[k] ELSE IF k = Len(s) + 1 THEN e ELSE s[k - 1]
    <2>1. t \in Seq(C) /\ Wider(s, Len(s) + 1, e, t)
      BY <1>1, WidenedRow
    <2> HIDE DEF t
    <2> QED
      BY <2>1 DEF Wider
  <1> HIDE DEF t
  <1>3. /\ u \in Seq(C) /\ Len(u) = Len(s) + 1 /\ u[Len(s) + 1] = e
        /\ \A k \in 1 .. Len(s) : u[k] = s[k] /\ k \in 1 .. Len(s) + 1
    OBVIOUS
  <1> HIDE DEF u
  <1>4. \A k \in 1 .. Len(s) + 1 : k \in 1 .. Len(s) \/ k = Len(s) + 1
    BY <1>1
  <1>5. \A k \in 1 .. Len(t) : t[k] = u[k]
    BY <1>1, <1>2, <1>3, <1>4
  <1>6. t = u
    BY <1>2, <1>3, <1>5, SeqEqual
  <1>7. ASSUME NEW a, NEW b
        PROVE  Ahead(u, a, b) <=> Ahead(s, a, b) \/ (Listed(s, a) /\ b = e)
    <2>1. ASSUME NEW i \in 1 .. Len(u), NEW j \in 1 .. Len(u), i < j, u[i] = a, u[j] = b
          PROVE  Ahead(s, a, b) \/ (Listed(s, a) /\ b = e)
      <3>1. i \in 1 .. Len(s) /\ s[i] = a
        BY <1>1, <1>3, <1>4, <2>1
      <3>2. CASE j \in 1 .. Len(s)
        <4>1. s[j] = b
          BY <1>3, <2>1, <3>2
        <4>2. \E m, n \in 1 .. Len(s) : m < n /\ s[m] = a /\ s[n] = b
          <5>1. i < j /\ s[i] = a /\ s[j] = b
            BY <2>1, <3>1, <4>1
          <5> QED
            BY <3>1, <3>2, <5>1
        <4>3. Ahead(s, a, b)
          BY <4>2 DEF Ahead
        <4> QED
          BY <4>3
      <3>3. CASE j = Len(s) + 1
        BY <1>3, <2>1, <3>1, <3>3 DEF Listed
      <3> QED
        BY <1>3, <1>4, <3>2, <3>3
    <2>2. ASSUME NEW i \in 1 .. Len(s), s[i] = a
          PROVE  Ahead(u, a, e)
      <3>1. i \in 1 .. Len(u) /\ Len(s) + 1 \in 1 .. Len(u) /\ i < Len(s) + 1
        BY <1>1, <1>3
      <3> QED
        BY <1>3, <2>2, <3>1 DEF Ahead
    <2>3. ASSUME NEW i \in 1 .. Len(s), NEW j \in 1 .. Len(s), i < j, s[i] = a, s[j] = b
          PROVE  Ahead(u, a, b)
      BY <1>3, <2>3 DEF Ahead
    <2> QED
      BY <2>1, <2>2, <2>3 DEF Ahead, Listed
  <1> QED
    BY <1>6, <1>7 DEF t, u

(* RemovedRow: erase takes one element away and leaves the others in their *)
(* order.                                                                  *)
RemovedFrom(s, t, e) ==
    /\ Distinct(t) /\ \A x : Listed(t, x) <=> Listed(s, x) /\ x # e
    /\ \A a, b : Ahead(t, a, b) <=> Ahead(s, a, b) /\ a # e /\ b # e
LEMMA RemovedRow ==
  ASSUME NEW C, NEW s \in Seq(C), Distinct(s), NEW i \in 1 .. Len(s)
  PROVE  RemoveAt(s, i) \in Seq(C) /\ RemovedFrom(s, RemoveAt(s, i), s[i])
  <1> DEFINE t == RemoveAt(s, i)
             e == s[i]
  <1>1. t \in Seq(C) /\ Len(t) = Len(s) - 1 /\ Len(s) \in Nat /\ Len(t) \in Nat
    BY RemovedAt
  <1>2. \A k \in 1 .. Len(t) : t[k] = IF k < i THEN s[k] ELSE s[k + 1]
    BY <1>1, RemovedAt
  <1> HIDE DEF t
  <1>3. i \in Nat /\ 1 <= i /\ i <= Len(s) /\ s[i] = e
    BY <1>1
  <1> DEFINE at(k) == IF k < i THEN k ELSE k + 1
             back(k) == IF k < i THEN k ELSE k - 1
  <1>4. ASSUME NEW k \in 1 .. Len(t)
        PROVE  at(k) \in 1 .. Len(s) /\ at(k) # i /\ t[k] = s[at(k)]
    BY <1>1, <1>2, <1>3
  <1>5. ASSUME NEW k \in 1 .. Len(s), k # i
        PROVE  back(k) \in 1 .. Len(t) /\ t[back(k)] = s[k]
    BY <1>1, <1>2, <1>3, <1>5
  <1>6. ASSUME NEW j \in Int, NEW k \in Int
        PROVE  j < k => at(j) < at(k)
    BY <1>3
  <1>7. ASSUME NEW j \in Int, NEW k \in Int, j # i, k # i
        PROVE  j < k => back(j) < back(k)
    BY <1>3, <1>7
  <1> HIDE DEF at, back, e
  <1>8. \A k \in 1 .. Len(s) : s[k] = e => k = i
    BY <1>3 DEF Distinct
  <1>9. ASSUME NEW x
        PROVE  Listed(t, x) <=> Listed(s, x) /\ x # e
    <2>1. Listed(t, x) => Listed(s, x) /\ x # e
      BY <1>4, <1>8 DEF Listed
    <2>2. Listed(s, x) /\ x # e => Listed(t, x)
      BY <1>3, <1>5 DEF Listed
    <2> QED
      BY <2>1, <2>2
  <1>10. Distinct(t)
    <2> SUFFICES ASSUME NEW j \in 1 .. Len(t), NEW k \in 1 .. Len(t), t[j] = t[k], j < k
                 PROVE  FALSE
      BY <1>1 DEF Distinct
    <2>1. at(j) = at(k)
      BY <1>4 DEF Distinct
    <2>2. at(j) < at(k) /\ at(j) \in Int
      BY <1>1, <1>4, <1>6
    <2> QED
      BY <2>1, <2>2
  <1>11. ASSUME NEW a, NEW b
         PROVE  Ahead(t, a, b) <=> Ahead(s, a, b) /\ a # e /\ b # e
    <2>1. ASSUME NEW j \in 1 .. Len(t), NEW k \in 1 .. Len(t), j < k, t[j] = a, t[k] = b
          PROVE  Ahead(s, a, b) /\ a # e /\ b # e
      <3>1. at(j) < at(k)
        BY <1>6, <2>1
      <3>2. Ahead(s, a, b)
        BY <1>4, <2>1, <3>1 DEF Ahead
      <3> QED
        BY <1>4, <1>8, <2>1, <3>2
    <2>2. ASSUME NEW j \in 1 .. Len(s), NEW k \in 1 .. Len(s), j < k, s[j] = a, s[k] = b, a # e, b # e
          PROVE  Ahead(t, a, b)
      <3>1. j # i /\ k # i
        BY <1>3, <2>2
      <3>2. back(j) < back(k)
        BY <1>7, <2>2, <3>1
      <3> QED
        BY <1>5, <2>2, <3>1, <3>2 DEF Ahead
    <2> QED
      BY <2>1, <2>2 DEF Ahead
  <1> QED
    BY <1>1, <1>9, <1>10, <1>11 DEF RemovedFrom, t, e

(* SameOrder: the same elements in the same order are the same list.         *)
LEMMA SameOrder ==
  ASSUME NEW C, NEW s \in Seq(C), NEW t \in Seq(C), Distinct(s), Distinct(t),
         \A x : Listed(s, x) <=> Listed(t, x), \A a, b : Ahead(s, a, b) <=> Ahead(t, a, b)
  PROVE  s = t
  <1>1. Len(s) \in Nat /\ Len(t) \in Nat
    OBVIOUS
  (* A common beginning of two such lists, and what comes next in one.     *)
  <1>2. ASSUME NEW u \in Seq(C), NEW v \in Seq(C), Distinct(u), Distinct(v),
               \A x : Listed(u, x) => Listed(v, x), \A a, b : Ahead(v, a, b) => Ahead(u, a, b),
               NEW k \in Nat, k + 1 <= Len(u),
               \A i \in 1 .. k : i <= Len(v) /\ u[i] = v[i]
        PROVE  k + 1 <= Len(v) /\ u[k + 1] = v[k + 1]
    <2>1. k + 1 \in 1 .. Len(u) /\ Len(u) \in Nat /\ Len(v) \in Nat
      BY <1>2
    <2>2. PICK j \in 1 .. Len(v) : v[j] = u[k + 1]
      BY <1>2, <2>1 DEF Listed
    <2>3. j > k
      <3> SUFFICES ASSUME j <= k PROVE FALSE
        BY <2>1
      <3>1. j \in 1 .. k /\ j \in 1 .. Len(u)
        BY <1>2, <2>1
      <3>2. u[j] = u[k + 1]
        BY <1>2, <2>2, <3>1
      <3>3. j = k + 1
        BY <1>2, <2>1, <3>1, <3>2 DEF Distinct
      <3> QED
        BY <3>1, <3>3
    <2>4. k + 1 \in 1 .. Len(v)
      BY <2>1, <2>3
    <2>5. j = k + 1
      <3> SUFFICES ASSUME j # k + 1 PROVE FALSE
        OBVIOUS
      <3>1. k + 1 < j
        BY <2>3
      <3>2. Ahead(v, v[k + 1], u[k + 1])
        BY <2>2, <2>4, <3>1 DEF Ahead
      <3>3. Ahead(u, v[k + 1], u[k + 1])
        BY <1>2, <3>2
      <3>4. PICK m, n \in 1 .. Len(u) : m < n /\ u[m] = v[k + 1] /\ u[n] = u[k + 1]
        BY <3>3 DEF Ahead
      <3>5. n = k + 1
        BY <1>2, <2>1, <3>4 DEF Distinct
      <3>6. m \in 1 .. k /\ m \in 1 .. Len(v)
        BY <1>2, <2>1, <2>4, <3>4, <3>5
      <3>7. v[m] = v[k + 1]
        BY <1>2, <3>4, <3>6
      <3>8. m = k + 1
        BY <1>2, <2>4, <3>6, <3>7 DEF Distinct
      <3> QED
        BY <3>6, <3>8
    <2> QED
      BY <2>1, <2>2, <2>4, <2>5
  <1> DEFINE T == {k \in Nat : \A i \in 1 .. k : (i <= Len(s) \/ i <= Len(t)) =>
                                    i <= Len(s) /\ i <= Len(t) /\ s[i] = t[i]}
  <1>3. 0 \in T
    OBVIOUS
  <1>4. ASSUME NEW k \in Nat, k \in T PROVE k + 1 \in T
    <2>1. \A i \in 1 .. k : (i <= Len(s) \/ i <= Len(t)) => i <= Len(s) /\ i <= Len(t) /\ s[i] = t[i]
      BY <1>4
    <2>2. ASSUME k + 1 <= Len(s) PROVE k + 1 <= Len(t) /\ s[k + 1] = t[k + 1]
      <3>1. \A i \in 1 .. k : i <= Len(t) /\ s[i] = t[i]
        BY <1>1, <2>1, <2>2
      <3> QED
        BY <1>2, <2>2, <3>1
    <2>3. ASSUME k + 1 <= Len(t) PROVE k + 1 <= Len(s) /\ s[k + 1] = t[k + 1]
      <3>1. \A i \in 1 .. k : i <= Len(s) /\ t[i] = s[i]
        BY <1>1, <2>1, <2>3
      <3> QED
        BY <1>2, <2>3, <3>1
    <2>4. \A i \in 1 .. k + 1 : i \in 1 .. k \/ i = k + 1
      OBVIOUS
    <2> QED
      BY <2>1, <2>2, <2>3, <2>4
  <1>5. Nat \subseteq T
    <2> HIDE DEF T
    <2> QED
      BY <1>3, <1>4, Induction
  <1>6. Len(s) <= Len(t) /\ Len(t) <= Len(s) /\ \A i \in 1 .. Len(s) : s[i] = t[i]
    <2>1. Len(s) \in T /\ Len(t) \in T
      BY <1>1, <1>5
    <2> QED
      BY <1>1, <2>1
  <1>7. Len(s) = Len(t)
    BY <1>1, <1>6
  <1> QED
    BY <1>6, <1>7, SeqEqual
=============================================================================
