------------------------- MODULE KeyframeVsync_proofs -------------------------
(***************************************************************************)
(* Proofs about KeyframeVsync for any callbacks, priorities and number of  *)
(* failures.  First the flag has_vsync, which is the truth, and what is    *)
(* attached, never left without a frame unless RequestFrame failed: these  *)
(* look only at whether a list is empty.  Then what the lists hold and the *)
(* order they run in, which needs what the merge, a fold, computes.        *)
(***************************************************************************)
EXTENDS KeyframeVsync, ListTheorems

-----------------------------------------------------------------------------
(* onFrame clears the flag after a failure in a step of its own; until     *)
(* then the failure is on record, and attaching meanwhile does not erase   *)
(* it because the flag is still set.                                       *)
FailureOnRecord == frame = "failed" => bindFailed

(* What the flag and the owed frames range over.                           *)
FlagTypes ==
    /\ has_vsync \in BOOLEAN
    /\ bindFailed \in BOOLEAN
    /\ requests \in Nat
    /\ frame \in FrameStates

IInv ==
    /\ FlagTypes
    /\ FlagTellsTheTruth
    /\ FailureOnRecord
    /\ PendingIsBound

(* The little arithmetic there is, so that the other leaves are logic.     *)
LEMMA Counts == 0 # 1 /\ 0 + 1 = 1 /\ 1 - 1 = 0 /\ 0 \in Nat /\ 1 \in Nat /\ ~(0 > 0)
  OBVIOUS

(* InitInvariant: no frame is owed and nothing is attached at the start.   *)
LEMMA InitInvariant == Init => IInv
  BY Counts, Zenon DEF Init, IInv, FlagTypes, FrameStates, FlagTellsTheTruth,
         FailureOnRecord, PendingIsBound

(* FlagStep: the flag, and the record of a failure, through every step.    *)
LEMMA FlagStep ==
    IInv /\ [Next]_vars => FlagTypes' /\ FlagTellsTheTruth' /\ FailureOnRecord'
  <1> SUFFICES ASSUME IInv, [Next]_vars
               PROVE  FlagTypes' /\ FlagTellsTheTruth' /\ FailureOnRecord'
    OBVIOUS
  <1> USE DEF IInv, FlagTypes, FrameStates, FlagTellsTheTruth, FailureOnRecord
  <1>1. ASSUME NEW c \in Callbacks, Attach(c)
        PROVE  FlagTypes' /\ FlagTellsTheTruth' /\ FailureOnRecord'
    <2>1. CASE has_vsync
      BY <1>1, <2>1 DEF Attach
    <2>2. CASE ~has_vsync
      <3>1. PICK succeeds \in BOOLEAN : RequestFrame(succeeds) /\ has_vsync' = succeeds
        BY <1>1, <2>2 DEF Attach
      <3>2. frame = "idle" /\ requests = 0 /\ frame' = frame
        BY <1>1, <2>2, Zenon DEF Attach
      <3>3. CASE succeeds
        BY <3>1, <3>2, <3>3, Counts, Zenon DEF RequestFrame
      <3>4. CASE ~succeeds
        BY <3>1, <3>2, <3>4, Counts, Zenon DEF RequestFrame
      <3> QED
        BY <3>3, <3>4
    <2> QED
      BY <2>1, <2>2
  <1>2. ASSUME NEW c \in Callbacks, deleteVsync(c)
        PROVE  FlagTypes' /\ FlagTellsTheTruth' /\ FailureOnRecord'
    BY <1>2 DEF deleteVsync
  <1>3. CASE BeginFrame
    <2>1. requests = 1 /\ has_vsync /\ frame = "idle"
      BY <1>3, Counts, Zenon DEF BeginFrame
    <2> QED
      BY <1>3, <2>1, Counts, Zenon DEF BeginFrame
  <1>4. CASE CallFun \/ ReturnFun \/ EndLoop
    BY <1>4 DEF CallFun, ReturnFun, EndLoop
  <1>5. ASSUME RebindUnlocked \/ RebindLocked
        PROVE  has_vsync /\ requests = 0 /\ frame # "idle"
    BY <1>5, Zenon DEF RebindUnlocked, RebindLocked
  <1>6. CASE RebindUnlocked
    <2>1. PICK succeeds \in BOOLEAN :
             RequestFrame(succeeds) /\ frame' = IF succeeds THEN "idle" ELSE "failed"
      BY <1>6 DEF RebindUnlocked
    <2>2. has_vsync' = has_vsync
      BY <1>6 DEF RebindUnlocked
    <2>3. CASE succeeds
      BY <1>5, <1>6, <2>1, <2>2, <2>3, Counts, Zenon DEF RequestFrame
    <2>4. CASE ~succeeds
      BY <1>5, <1>6, <2>1, <2>2, <2>4, Counts, Zenon DEF RequestFrame
    <2> QED
      BY <2>3, <2>4
  <1>7. CASE ClearAfterFailure
    BY <1>7, Counts, Zenon DEF ClearAfterFailure
  <1>8. CASE RebindLocked
    <2>1. frame' = "idle" /\ has_vsync
      BY <1>5, <1>8, Zenon DEF RebindLocked
    <2>2. CASE tmp_vsync_fun = <<>>
      BY <1>5, <1>8, <2>1, <2>2, Counts, Zenon DEF RebindLocked
    <2>3. CASE tmp_vsync_fun # <<>>
      <3>1. PICK succeeds \in BOOLEAN :
               RequestFrame(succeeds) /\ has_vsync' = (has_vsync /\ succeeds)
        BY <1>8, <2>3 DEF RebindLocked
      <3>2. CASE succeeds
        BY <1>5, <1>8, <2>1, <3>1, <3>2, Counts, Zenon DEF RequestFrame
      <3>3. CASE ~succeeds
        BY <1>5, <1>8, <2>1, <3>1, <3>3, Counts, Zenon DEF RequestFrame
      <3> QED
        BY <3>2, <3>3
    <2> QED
      BY <2>2, <2>3
  <1>9. CASE UNCHANGED vars
    BY <1>9 DEF vars
  <1> QED
    BY <1>1, <1>2, <1>3, <1>4, <1>6, <1>7, <1>8, <1>9 DEF Next, onFrame

(* PendingStep: what is attached has a frame coming, through every step.   *)
LEMMA PendingStep == IInv /\ [Next]_vars => PendingIsBound'
  <1> SUFFICES ASSUME IInv, [Next]_vars PROVE PendingIsBound'
    OBVIOUS
  <1> USE DEF IInv, FlagTypes, FrameStates, PendingIsBound
  <1>1. ASSUME NEW c \in Callbacks, Attach(c) PROVE PendingIsBound'
    BY <1>1 DEF Attach, RequestFrame
  <1>2. ASSUME NEW c \in Callbacks, deleteVsync(c) PROVE PendingIsBound'
    BY <1>2 DEF deleteVsync
  <1>3. CASE BeginFrame
    BY <1>3 DEF BeginFrame
  <1>4. CASE CallFun \/ ReturnFun \/ EndLoop
    BY <1>4 DEF CallFun, ReturnFun, EndLoop
  <1>5. CASE RebindUnlocked
    BY <1>5 DEF RebindUnlocked, RequestFrame, FlagTellsTheTruth
  <1>6. CASE ClearAfterFailure
    BY <1>6 DEF ClearAfterFailure, FailureOnRecord
  <1>7. CASE RebindLocked
    BY <1>7 DEF RebindLocked, RequestFrame, FlagTellsTheTruth
  <1>8. CASE UNCHANGED vars
    BY <1>8 DEF vars
  <1> QED
    BY <1>1, <1>2, <1>3, <1>4, <1>5, <1>6, <1>7, <1>8 DEF Next, onFrame

(* Invariant: the inductive invariant holds in every behaviour.            *)
LEMMA Invariant == Spec => []IInv
  <1>1. IInv /\ [Next]_vars => IInv'
    BY FlagStep, PendingStep DEF IInv
  <1> QED
    BY InitInvariant, <1>1, PTL DEF Spec

(* OneFrameOwed: in every behaviour has_vsync means exactly that a frame   *)
(* is owed or being run, and no frame is asked for twice, although onFrame *)
(* asks, and clears the flag, without the lock of attachInner              *)
(* (keyframe_vsync.cpp:112-155).                                           *)
THEOREM OneFrameOwed == Spec => []FlagTellsTheTruth
  <1>1. IInv => FlagTellsTheTruth
    BY DEF IInv
  <1> QED
    BY Invariant, <1>1, PTL

(* NoAttachmentLost: in every behaviour callbacks wait without a frame     *)
(* only after RequestFrame failed (keyframe_vsync.cpp:52-63, 122-130).     *)
THEOREM NoAttachmentLost == Spec => []PendingIsBound
  <1>1. IInv => PendingIsBound
    BY DEF IInv
  <1> QED
    BY Invariant, <1>1, PTL

-----------------------------------------------------------------------------
(* What the list of a frame holds, and in which order.  The merge is a     *)
(* fold over the attached callbacks, so its facts are proved by induction. *)

(* InsertedAt: where InsertByPriority puts a callback.                     *)
LEMMA InsertedAt ==
  ASSUME NEW s \in Seq(Callbacks), NEW c \in Callbacks
  PROVE  \E n \in 0 .. Len(s) :
           /\ InsertByPriority(s, c) \in Seq(Callbacks)
           /\ Len(InsertByPriority(s, c)) = Len(s) + 1
           /\ \A i \in 1 .. Len(s) + 1 : InsertByPriority(s, c)[i] =
                 IF i <= n THEN s[i] ELSE IF i = n + 1 THEN c ELSE s[i - 1]
           /\ \A i \in 1 .. n : Priority[s[i]] >= Priority[c]
           /\ n < Len(s) => Priority[s[n + 1]] < Priority[c]
  <1> DEFINE Fits(n) == /\ \A i \in 1 .. n : Priority[s[i]] >= Priority[c]
                        /\ n < Len(s) => Priority[s[n + 1]] < Priority[c]
             Stops(n) == n < Len(s) => Priority[s[n + 1]] < Priority[c]
             S == {n \in 0 .. Len(s) : Stops(n)}
             n == CHOOSE n \in 0 .. Len(s) : Fits(n)
  <1>1. \A i \in 1 .. Len(s) : s[i] \in Callbacks /\ Priority[s[i]] \in Nat
    BY ConstantsAssumption
  <1>2. Priority[c] \in Nat
    BY ConstantsAssumption
  <1>3. Len(s) \in S /\ S \subseteq Nat
    OBVIOUS
  <1>4. PICK m \in S : \A k \in S : m <= k
    BY <1>3, Least
  <1>5. Fits(m)
    <2> SUFFICES ASSUME NEW i \in 1 .. m PROVE Priority[s[i]] >= Priority[c]
      OBVIOUS
    <2>1. i - 1 \in 0 .. Len(s) /\ i - 1 \notin S /\ (i - 1) + 1 = i
      BY <1>4
    <2> QED
      BY <2>1, <1>1, <1>2
  <1>6. n \in 0 .. Len(s) /\ Fits(n)
    <2> HIDE DEF Fits
    <2>1. m \in 0 .. Len(s)
      OBVIOUS
    <2> QED
      BY <1>5, <2>1
  <1>7. InsertByPriority(s, c) = InsertAt(s, n + 1, c)
    BY DEF InsertByPriority
  <1> HIDE DEF n
  <1> DEFINE front == SubSeq(s, 1, n)
             back == SubSeq(s, n + 1, Len(s))
  <1>8. /\ front \in Seq(Callbacks) /\ Len(front) = n
        /\ \A i \in 1 .. n : front[i] = s[i]
    BY <1>6
  <1>9. /\ back \in Seq(Callbacks) /\ Len(back) = Len(s) - n
        /\ \A i \in 1 .. Len(s) - n : back[i] = s[n + i]
    BY <1>6
  <1>10. InsertAt(s, n + 1, c) = (front \o <<c>>) \o back
    <2>1. (n + 1) - 1 = n
      BY <1>6
    <2> QED
      BY <2>1 DEF InsertAt
  <1> HIDE DEF front, back
  <1>11. /\ front \o <<c>> \in Seq(Callbacks) /\ Len(front \o <<c>>) = n + 1
         /\ \A i \in 1 .. n + 1 : (front \o <<c>>)[i] = IF i <= n THEN s[i] ELSE c
    BY <1>6, <1>8
  <1> DEFINE most == front \o <<c>>
  <1> HIDE DEF most
  <1>12. /\ n \in Nat /\ Len(s) \in Nat /\ n <= Len(s)
         /\ InsertAt(s, n + 1, c) = most \o back
         /\ most \in Seq(Callbacks) /\ Len(most) = n + 1
         /\ \A i \in 1 .. n + 1 : most[i] = IF i <= n THEN s[i] ELSE c
    BY <1>6, <1>10, <1>11 DEF most
  <1>13. /\ most \o back \in Seq(Callbacks)
         /\ Len(most \o back) = (n + 1) + (Len(s) - n)
         /\ \A i \in 1 .. (n + 1) + (Len(s) - n) : (most \o back)[i] =
               IF i <= n + 1 THEN most[i] ELSE back[i - (n + 1)]
    <2>1. /\ most \o back \in Seq(Callbacks)
          /\ Len(most \o back) = Len(most) + Len(back)
          /\ \A i \in 1 .. Len(most) + Len(back) : (most \o back)[i] =
                IF i <= Len(most) THEN most[i] ELSE back[i - Len(most)]
      BY <1>9, <1>12, ConcatProperties
    <2> QED
      BY <2>1, <1>9, <1>12, Zenon
  <1>14. (n + 1) + (Len(s) - n) = Len(s) + 1
    BY <1>12
  <1>15. ASSUME NEW i \in 1 .. Len(s) + 1
         PROVE  (most \o back)[i] =
                 IF i <= n THEN s[i] ELSE IF i = n + 1 THEN c ELSE s[i - 1]
    <2>1. (most \o back)[i] = IF i <= n + 1 THEN most[i] ELSE back[i - (n + 1)]
      BY <1>13, <1>14
    <2>2. CASE i <= n + 1
      <3>1. i \in 1 .. n + 1 /\ (i <= n \/ (i = n + 1 /\ ~(n + 1 <= n)))
        BY <2>2, <1>12
      <3>2. most[i] = IF i <= n THEN s[i] ELSE c
        BY <3>1, <1>12
      <3> QED
        BY <2>1, <2>2, <3>1, <3>2
    <2>3. CASE ~(i <= n + 1)
      <3>1. /\ i - (n + 1) \in 1 .. Len(s) - n /\ n + (i - (n + 1)) = i - 1
            /\ ~(i <= n) /\ i # n + 1
        BY <2>3, <1>12
      <3>2. back[i - (n + 1)] = s[i - 1]
        BY <3>1, <1>9
      <3> QED
        BY <2>1, <2>3, <3>1, <3>2
    <2> QED
      BY <2>2, <2>3
  <1> QED
    BY <1>6, <1>7, <1>12, <1>13, <1>14, <1>15, Zenon

(* MergeTrace: the lists the merge goes through.                           *)
LEMMA MergeTrace ==
  ASSUME NEW base \in Seq(Callbacks), NEW s \in Seq(Callbacks)
  PROVE  \E f : /\ f[0] = base
                /\ \A i \in 1 .. Len(s) : f[i] = InsertByPriority(f[i - 1], s[i])
                /\ FoldLeft(InsertByPriority, base, s) = f[Len(s)]
  <1> DEFINE n == Len(s)
             step == [p \in Seq(Callbacks) \X Callbacks |-> InsertByPriority(p[1], p[2])]
             Eq(it) == it = [t \in SUBSET DOMAIN s |-> IF t = {} THEN base
                                ELSE InsertByPriority(it[t \ {Max(t)}], s[Max(t)])]
             it == CHOOSE it : Eq(it)
  <1>1. step \in [Seq(Callbacks) \X Callbacks -> Seq(Callbacks)]
    <2>1. \A q \in Seq(Callbacks), c \in Callbacks : InsertByPriority(q, c) \in Seq(Callbacks)
      BY InsertedAt
    <2> QED
      BY <2>1
  <1>2. n \in Nat /\ DOMAIN s = 1 .. n /\ s \in [1 .. n -> Callbacks]
    OBVIOUS
  <1>3. PICK g \in [SUBSET (1 .. n) -> Seq(Callbacks)] : FoldEq(g, 1 .. n, step, base, s)
    <2> HIDE DEF n, step
    <2> QED
      BY <1>1, <1>2, FoldExists
  <1>4. Eq(g)
    <2>1. ASSUME NEW t \in SUBSET (1 .. n), t # {}
          PROVE  step[<<g[t \ {Max(t)}], s[Max(t)]>>]
                       = InsertByPriority(g[t \ {Max(t)}], s[Max(t)])
      <3>1. Max(t) \in t
        BY <1>2, <2>1, MaxWithin
      <3>2. g[t \ {Max(t)}] \in Seq(Callbacks) /\ s[Max(t)] \in Callbacks
        BY <3>1, <1>2
      <3> QED
        BY <3>1, <3>2
    <2> HIDE DEF step, n
    <2> QED
      BY <1>2, <1>3, <2>1 DEF FoldEq
  <1>5. Eq(it)
    <2> HIDE DEF Eq
    <2> QED
      BY <1>4
  <1>6. FoldLeft(InsertByPriority, base, s) = it[DOMAIN s]
    BY DEF FoldLeft, MapThenFoldSet
  <1> DEFINE f == [i \in 0 .. n |-> it[1 .. i]]
  <1> HIDE DEF it
  <1>7. f[0] = base
    <2>1. it[{}] = base
      BY <1>5
    <2>2. 1 .. 0 = {} /\ 0 \in 0 .. n
      BY <1>2
    <2> QED
      BY <2>1, <2>2
  <1>8. ASSUME NEW i \in 1 .. n
        PROVE  f[i] = InsertByPriority(f[i - 1], s[i])
    <2>1. /\ 1 .. i \in SUBSET (1 .. n) /\ 1 .. i # {}
          /\ Max(1 .. i) = i /\ (1 .. i) \ {i} = 1 .. i - 1
      <3> HIDE DEF n
      <3> QED
        BY <1>2, Initial
    <2>2. it[1 .. i] = InsertByPriority(it[1 .. i - 1], s[i])
      BY <1>2, <1>5, <2>1, Zenon
    <2>3. i \in 0 .. n /\ i - 1 \in 0 .. n
      OBVIOUS
    <2> QED
      BY <2>2, <2>3
  <1>9. FoldLeft(InsertByPriority, base, s) = f[n]
    BY <1>2, <1>6
  <1> HIDE DEF f
  <1> QED
    BY <1>7, <1>8, <1>9

-----------------------------------------------------------------------------
Earlier(order, a, b) == \E m, n \in DOMAIN order : m < n /\ order[m] = a /\ order[n] = b

Before(a, b) == Earlier(attachOrder, a, b)

(* a runs before b in any frame that runs both.                            *)
RunsBefore(a, b) == \/ Priority[a] > Priority[b]
                    \/ Priority[a] = Priority[b] /\ Before(a, b)

InOrder(s) == \A i, j \in DOMAIN s : i < j => RunsBefore(s[i], s[j])

(* InsertOne: inserting the last attached callback keeps the order.        *)
LEMMA InsertOne ==
  ASSUME NEW s \in Seq(Callbacks), NEW c \in Callbacks,
         InOrder(s), \A a \in ToSet(s) : Before(a, c)
  PROVE  /\ InsertByPriority(s, c) \in Seq(Callbacks)
         /\ ToSet(InsertByPriority(s, c)) = ToSet(s) \cup {c}
         /\ InOrder(InsertByPriority(s, c))
  <1> DEFINE r == InsertByPriority(s, c)
  <1>1. PICK n \in 0 .. Len(s) :
           /\ r \in Seq(Callbacks)
           /\ Len(r) = Len(s) + 1
           /\ \A i \in 1 .. Len(s) + 1 : r[i] =
                 IF i <= n THEN s[i] ELSE IF i = n + 1 THEN c ELSE s[i - 1]
           /\ \A i \in 1 .. n : Priority[s[i]] >= Priority[c]
           /\ n < Len(s) => Priority[s[n + 1]] < Priority[c]
    BY InsertedAt
  <1>2. /\ \A i \in 1 .. Len(s) : s[i] \in Callbacks /\ Priority[s[i]] \in Nat
        /\ Priority[c] \in Nat /\ Len(s) \in Nat /\ DOMAIN s = 1 .. Len(s)
        /\ \A i \in 1 .. Len(s) : s[i] \in ToSet(s)
    BY ConstantsAssumption DEF ToSet
  <1> HIDE DEF r
  <1>3. DOMAIN r = 1 .. Len(s) + 1
    BY <1>1
  <1>4. ToSet(r) = ToSet(s) \cup {c}
    <2>1. ASSUME NEW e \in ToSet(r) PROVE e \in ToSet(s) \cup {c}
      <3>1. PICK i \in 1 .. Len(s) + 1 : e = r[i]
        BY <1>3, <2>1 DEF ToSet
      <3>2. CASE i <= n
        BY <1>1, <1>2, <3>1, <3>2
      <3>3. CASE i > n
        <4>1. i = n + 1 \/ i - 1 \in 1 .. Len(s)
          BY <3>3
        <4> QED
          BY <1>1, <1>2, <3>1, <3>3, <4>1
      <3> QED
        BY <3>2, <3>3
    <2>2. ASSUME NEW i \in 1 .. Len(s) PROVE s[i] \in ToSet(r)
      <3>1. CASE i <= n
        <4>1. i \in 1 .. Len(s) + 1 /\ r[i] = s[i]
          BY <1>1, <1>2, <3>1
        <4> QED
          BY <1>3, <4>1 DEF ToSet
      <3>2. CASE i > n
        <4>1. i + 1 \in 1 .. Len(s) + 1 /\ r[i + 1] = s[i]
          BY <1>1, <1>2, <3>2
        <4> QED
          BY <1>3, <4>1 DEF ToSet
      <3> QED
        BY <3>1, <3>2
    <2>3. c \in ToSet(r)
      <3>1. n + 1 \in 1 .. Len(s) + 1 /\ r[n + 1] = c
        BY <1>1, <1>2
      <3> QED
        BY <1>3, <3>1 DEF ToSet
    <2>4. ToSet(s) = {s[i] : i \in 1 .. Len(s)}
      BY <1>2 DEF ToSet
    <2> QED
      BY <2>1, <2>2, <2>3, <2>4
  <1>5. ASSUME NEW i \in 1 .. Len(s) + 1, NEW j \in 1 .. Len(s) + 1, i < j
        PROVE  RunsBefore(r[i], r[j])
    <2>1. CASE j <= n
      BY <1>1, <1>2, <1>5, <2>1 DEF InOrder
    <2>2. CASE j = n + 1
      <3>1. i \in 1 .. n /\ i \in 1 .. Len(s) /\ r[i] = s[i] /\ r[j] = c
        BY <1>1, <1>5, <2>2
      <3>2. Priority[s[i]] >= Priority[c] /\ Before(s[i], c)
        BY <1>1, <1>2, <3>1
      <3> QED
        BY <1>2, <3>1, <3>2 DEF RunsBefore
    <2>3. CASE j > n + 1 /\ i <= n
      <3>1. /\ i \in 1 .. Len(s) /\ j - 1 \in 1 .. Len(s) /\ i < j - 1
            /\ r[i] = s[i] /\ r[j] = s[j - 1]
        BY <1>1, <1>5, <2>3
      <3> QED
        BY <1>2, <3>1 DEF InOrder
    <2>4. CASE j > n + 1 /\ i = n + 1
      <3>1. /\ j - 1 \in 1 .. Len(s) /\ n + 1 <= j - 1 /\ n + 1 \in 1 .. Len(s)
            /\ r[i] = c /\ r[j] = s[j - 1] /\ n < Len(s)
        BY <1>1, <1>5, <2>4
      <3>2. Priority[s[n + 1]] < Priority[c]
        BY <1>1, <3>1
      <3>3. Priority[s[j - 1]] <= Priority[s[n + 1]]
        <4>1. CASE n + 1 = j - 1
          BY <4>1, <1>2, <3>1
        <4>2. CASE n + 1 < j - 1
          <5>1. RunsBefore(s[n + 1], s[j - 1])
            BY <4>2, <1>2, <3>1 DEF InOrder
          <5> QED
            BY <5>1, <1>2, <3>1 DEF RunsBefore
        <4> QED
          BY <4>1, <4>2, <3>1
      <3> QED
        BY <1>2, <3>1, <3>2, <3>3 DEF RunsBefore
    <2>5. CASE j > n + 1 /\ i > n + 1
      <3>1. /\ i - 1 \in 1 .. Len(s) /\ j - 1 \in 1 .. Len(s) /\ i - 1 < j - 1
            /\ r[i] = s[i - 1] /\ r[j] = s[j - 1]
        BY <1>1, <1>5, <2>5
      <3> QED
        BY <1>2, <3>1 DEF InOrder
    <2> QED
      BY <2>1, <2>2, <2>3, <2>4, <2>5, <1>5
  <1>6. InOrder(r)
    BY <1>3, <1>5 DEF InOrder
  <1> QED
    BY <1>1, <1>4, <1>6 DEF r
(* MergeKeeps: the merge holds exactly what it was given, in order.        *)
LEMMA MergeKeeps ==
  ASSUME NEW base \in Seq(Callbacks), NEW s \in Seq(Callbacks), InOrder(base),
         \A i, j \in 1 .. Len(s) : i < j => Before(s[i], s[j]),
         \A a \in ToSet(base), i \in 1 .. Len(s) : Before(a, s[i])
  PROVE  /\ FoldLeft(InsertByPriority, base, s) \in Seq(Callbacks)
         /\ ToSet(FoldLeft(InsertByPriority, base, s)) = ToSet(base) \cup ToSet(s)
         /\ InOrder(FoldLeft(InsertByPriority, base, s))
  <1> DEFINE n == Len(s)
  <1>1. PICK f : /\ f[0] = base
                 /\ \A i \in 1 .. n : f[i] = InsertByPriority(f[i - 1], s[i])
                 /\ FoldLeft(InsertByPriority, base, s) = f[n]
    BY MergeTrace
  <1>2. n \in Nat /\ DOMAIN s = 1 .. n /\ \A i \in 1 .. n : s[i] \in Callbacks
    OBVIOUS
  <1> DEFINE Good(k) == /\ f[k] \in Seq(Callbacks)
                        /\ ToSet(f[k]) = ToSet(base) \cup {s[i] : i \in 1 .. k}
                        /\ InOrder(f[k])
             Upto(k) == k <= n => Good(k)
             T == {k \in Nat : Upto(k)}
  <1>3. 0 \in T
    BY <1>1
  <1>4. ASSUME NEW k \in Nat, k \in T PROVE k + 1 \in T
    <2> SUFFICES ASSUME k + 1 <= n PROVE Good(k + 1)
      OBVIOUS
    <2>1. /\ k <= n /\ k + 1 \in 1 .. n /\ (k + 1) - 1 = k
          /\ \A i \in 1 .. k : i \in 1 .. n /\ i < k + 1
          /\ 1 .. k + 1 = (1 .. k) \cup {k + 1}
      BY <1>2
    <2>2. Good(k)
      BY <1>4, <2>1
    <2>3. f[k + 1] = InsertByPriority(f[k], s[k + 1])
      BY <1>1, <2>1
    <2>4. s[k + 1] \in Callbacks /\ \A a \in ToSet(f[k]) : Before(a, s[k + 1])
      BY <1>2, <2>1, <2>2
    <2>5. /\ f[k + 1] \in Seq(Callbacks) /\ InOrder(f[k + 1])
          /\ ToSet(f[k + 1]) = ToSet(f[k]) \cup {s[k + 1]}
      BY <2>2, <2>3, <2>4, InsertOne
    <2>6. {s[i] : i \in 1 .. k + 1} = {s[i] : i \in 1 .. k} \cup {s[k + 1]}
      BY <2>1
    <2> QED
      BY <2>2, <2>5, <2>6
  <1>5. n \in T
    <2> HIDE DEF T
    <2> QED
      BY <1>2, <1>3, <1>4, Induction
  <1>6. Good(n)
    BY <1>2, <1>5
  <1>7. ToSet(s) = {s[i] : i \in 1 .. n}
    BY <1>2 DEF ToSet
  <1> QED
    BY <1>1, <1>6, <1>7

(* KeptInOrder: what is dropped from a list does not disturb the rest.     *)
LEMMA KeptInOrder ==
  ASSUME NEW s \in Seq(Callbacks), NEW ids, InOrder(s)
  PROVE  InOrder(Without(s, ids))
  <1> DEFINE r == Without(s, ids)
  <1>1. r \in Seq(Callbacks)
    BY WithoutKeeps
  <1>2. PICK at \in [1 .. Len(r) -> 1 .. Len(s)] :
           /\ \A i \in 1 .. Len(r) : r[i] = s[at[i]]
           /\ \A i, j \in 1 .. Len(r) : i < j => at[i] < at[j]
    BY WithoutKeeps
  <1> HIDE DEF r
  <1>3. DOMAIN r = 1 .. Len(r) /\ DOMAIN s = 1 .. Len(s)
    BY <1>1
  <1>4. InOrder(r)
    BY <1>2, <1>3 DEF InOrder
  <1> QED
    BY <1>4 DEF r

-----------------------------------------------------------------------------
(* What the lists hold: ids that were attached, each attached once.        *)
ListTypes ==
    /\ attachOrder \in Seq(Callbacks)
    /\ \A m, n \in DOMAIN attachOrder : attachOrder[m] = attachOrder[n] => m = n
    /\ vsync_fun \in Seq(Callbacks)
    /\ tmp_vsync_fun \in Seq(Callbacks)
    /\ ToSet(vsync_fun) \cup ToSet(tmp_vsync_fun) \subseteq ToSet(attachOrder)
    /\ tmp_delete_id \cup removed \subseteq ToSet(attachOrder)

(* Where the vsync thread stands in its list.                              *)
CursorInList ==
    /\ next \in Nat \ {0}
    /\ frame = "call" => next <= Len(vsync_fun)

(* What waits for a merge waits in the order of its attachment, and was    *)
(* attached after everything that is already merged.                       *)
ArrivalOrder ==
    /\ \A i, j \in 1 .. Len(tmp_vsync_fun) :
          i < j => Before(tmp_vsync_fun[i], tmp_vsync_fun[j])
    /\ \A a \in ToSet(vsync_fun), i \in 1 .. Len(tmp_vsync_fun) :
          Before(a, tmp_vsync_fun[i])

(* A one-shot callback that has run is deleted, or about to be.            *)
RanGone ==
    \A c \in ran \cap OneShot :
        \/ c \in removed \cup tmp_delete_id
        \/ frame = "call" /\ c = vsync_fun[next]

LInv ==
    /\ ListTypes
    /\ CursorInList
    /\ ArrivalOrder
    /\ InOrder(vsync_fun)
    /\ DeletedStaysOut
    /\ RanGone
    /\ OneShotOnce

(* InitLists: nothing is attached at the start.                            *)
LEMMA InitLists == Init => LInv
  <1> SUFFICES ASSUME Init PROVE LInv
    OBVIOUS
  <1>1. ToSet(<<>>) = {}
    BY DEF ToSet
  <1> QED
    BY <1>1 DEF Init, LInv, ListTypes, CursorInList, ArrivalOrder, InOrder,
                DeletedStaysOut, RanGone, OneShotOnce

(* RunsOnce: no callback is twice in a list that is in order.              *)
LEMMA RunsOnce ==
  ASSUME ListTypes, InOrder(vsync_fun),
         NEW i \in DOMAIN vsync_fun, NEW j \in DOMAIN vsync_fun, i < j
  PROVE  vsync_fun[i] # vsync_fun[j]
  <1>1. RunsBefore(vsync_fun[i], vsync_fun[j])
    BY DEF InOrder
  <1>2. \A c \in Callbacks : ~RunsBefore(c, c)
    <2>1. \A c \in Callbacks : Priority[c] \in Nat /\ ~(Priority[c] > Priority[c])
      BY ConstantsAssumption
    <2>2. \A c \in Callbacks : ~Before(c, c)
      <3>1. DOMAIN attachOrder \subseteq Nat
        BY DEF ListTypes
      <3>2. \A m \in Nat : ~(m < m)
        OBVIOUS
      <3> QED
        BY <3>1, <3>2, Zenon DEF Before, Earlier, ListTypes
    <2> QED
      BY <2>1, <2>2 DEF RunsBefore
  <1>3. vsync_fun[i] \in Callbacks
    BY DEF ListTypes
  <1> QED
    BY <1>1, <1>2, <1>3

(* Appended: an attachment is after all earlier ones and disturbs none.    *)
LEMMA Appended ==
  ASSUME ListTypes, NEW c \in Callbacks, Attach(c)
  PROVE  /\ \A a \in ToSet(attachOrder) : Earlier(attachOrder', a, c)
         /\ \A a, b \in Callbacks : Before(a, b) => Earlier(attachOrder', a, b)
         /\ attachOrder' \in Seq(Callbacks)
         /\ ToSet(attachOrder') = ToSet(attachOrder) \cup {c}
         /\ \A m, n \in DOMAIN attachOrder' : attachOrder'[m] = attachOrder'[n] => m = n
  <1> DEFINE k == Len(attachOrder)
  <1>1. /\ attachOrder \in Seq(Callbacks) /\ attachOrder' = Append(attachOrder, c)
        /\ c \notin ToSet(attachOrder)
    BY DEF ListTypes, Attach
  <1>2. /\ k \in Nat /\ DOMAIN attachOrder = 1 .. k /\ DOMAIN attachOrder' = 1 .. k + 1
        /\ \A m \in 1 .. k : attachOrder'[m] = attachOrder[m]
        /\ attachOrder'[k + 1] = c
        /\ attachOrder' \in Seq(Callbacks)
    BY <1>1
  <1>3. ToSet(attachOrder') = ToSet(attachOrder) \cup {c}
    BY <1>1, AppendedSet
  <1> HIDE DEF k
  <1>4. /\ \A m \in 1 .. k : m \in 1 .. k + 1 /\ m < k + 1
        /\ k + 1 \in 1 .. k + 1
        /\ \A m \in 1 .. k + 1 : m \in 1 .. k \/ m = k + 1
    BY <1>2
  <1>5. \A a \in ToSet(attachOrder) : Earlier(attachOrder', a, c)
    BY <1>2, <1>4 DEF Earlier, ToSet
  <1>6. \A a, b \in Callbacks : Before(a, b) => Earlier(attachOrder', a, b)
    BY <1>2, <1>4 DEF Before, Earlier
  <1>7. ASSUME NEW m \in 1 .. k + 1, NEW n \in 1 .. k + 1, attachOrder'[m] = attachOrder'[n]
        PROVE  m = n
    <2>1. \A i \in 1 .. k : attachOrder[i] # c
      BY <1>1, <1>2 DEF ToSet
    <2> QED
      BY <1>2, <1>4, <1>7, <2>1 DEF ListTypes
  <1> QED
    BY <1>2, <1>3, <1>5, <1>6, <1>7
(* AttachLists: the new callback goes behind everything attached before.   *)
LEMMA AttachLists ==
  ASSUME LInv, NEW c \in Callbacks, Attach(c)
  PROVE  LInv'
  <1> DEFINE k == Len(tmp_vsync_fun)
  <1>1. /\ tmp_vsync_fun \in Seq(Callbacks) /\ tmp_vsync_fun' = Append(tmp_vsync_fun, c)
        /\ c \notin ToSet(attachOrder) /\ ListTypes
        /\ UNCHANGED <<vsync_fun, tmp_delete_id, frame, next, ran, removed>>
    BY DEF LInv, ListTypes, Attach
  <1>2. /\ k \in Nat /\ DOMAIN tmp_vsync_fun = 1 .. k /\ Len(tmp_vsync_fun') = k + 1
        /\ \A i \in 1 .. k : tmp_vsync_fun'[i] = tmp_vsync_fun[i]
        /\ tmp_vsync_fun'[k + 1] = c
        /\ tmp_vsync_fun' \in Seq(Callbacks)
        /\ \A i \in 1 .. k + 1 : i \in 1 .. k \/ i = k + 1
        /\ \A i, j \in 1 .. k + 1 : i < j => i \in 1 .. k
    BY <1>1
  <1>3. ToSet(tmp_vsync_fun') = ToSet(tmp_vsync_fun) \cup {c}
    BY <1>1, AppendedSet
  <1>4. /\ \A a \in ToSet(attachOrder) : Earlier(attachOrder', a, c)
        /\ \A a, b \in Callbacks : Before(a, b) => Earlier(attachOrder', a, b)
        /\ attachOrder' \in Seq(Callbacks)
        /\ ToSet(attachOrder') = ToSet(attachOrder) \cup {c}
        /\ \A m, n \in DOMAIN attachOrder' : attachOrder'[m] = attachOrder'[n] => m = n
    BY <1>1, Appended
  <1>5. ListTypes'
    BY <1>1, <1>2, <1>3, <1>4 DEF ListTypes
  <1>6. /\ \A a \in ToSet(vsync_fun) : a \in Callbacks /\ a \in ToSet(attachOrder)
        /\ \A i \in 1 .. k : /\ tmp_vsync_fun[i] \in Callbacks
                            /\ tmp_vsync_fun[i] \in ToSet(attachOrder)
        /\ \A i \in DOMAIN vsync_fun : vsync_fun[i] \in Callbacks
    <2>1. \A i \in 1 .. k : tmp_vsync_fun[i] \in ToSet(tmp_vsync_fun)
      BY <1>2, Zenon DEF ToSet
    <2>2. \A i \in DOMAIN vsync_fun : vsync_fun[i] \in Callbacks
      BY <1>1 DEF ListTypes
    <2>3. \A a \in ToSet(vsync_fun) : a \in Callbacks
      BY <2>2, Zenon DEF ToSet
    <2>4. \A i \in 1 .. k : tmp_vsync_fun[i] \in Callbacks
      BY <1>1, <1>2
    <2>5. ToSet(vsync_fun) \cup ToSet(tmp_vsync_fun) \subseteq ToSet(attachOrder)
      BY <1>1 DEF ListTypes
    <2> HIDE DEF k
    <2> QED
      BY <2>1, <2>2, <2>3, <2>4, <2>5
  <1> HIDE DEF k
  <1>7. ArrivalOrder'
    <2>1. ASSUME NEW i \in 1 .. k + 1, NEW j \in 1 .. k + 1, i < j
          PROVE  Earlier(attachOrder', tmp_vsync_fun'[i], tmp_vsync_fun'[j])
      <3>1. i \in 1 .. k /\ tmp_vsync_fun'[i] = tmp_vsync_fun[i]
        BY <1>2, <2>1
      <3>2. CASE j \in 1 .. k
        <4>1. Before(tmp_vsync_fun[i], tmp_vsync_fun[j])
          BY <2>1, <3>1, <3>2 DEF LInv, ArrivalOrder, k
        <4>2. tmp_vsync_fun'[j] = tmp_vsync_fun[j]
          BY <1>2, <3>2
        <4>3. /\ tmp_vsync_fun[i] \in Callbacks /\ tmp_vsync_fun[j] \in Callbacks
          BY <1>6, <3>1, <3>2
        <4> QED
          BY <1>4, <3>1, <4>1, <4>2, <4>3
      <3>3. CASE j = k + 1
        <4>1. tmp_vsync_fun'[j] = c /\ tmp_vsync_fun[i] \in ToSet(attachOrder)
          BY <1>2, <1>6, <3>1, <3>3
        <4> QED
          BY <1>4, <3>1, <4>1
      <3> QED
        BY <1>2, <3>2, <3>3
    <2>2. ASSUME NEW a \in ToSet(vsync_fun), NEW j \in 1 .. k + 1
          PROVE  Earlier(attachOrder', a, tmp_vsync_fun'[j])
      <3>1. CASE j \in 1 .. k
        <4>1. Before(a, tmp_vsync_fun[j]) /\ tmp_vsync_fun'[j] = tmp_vsync_fun[j]
          BY <1>2, <3>1 DEF LInv, ArrivalOrder, k
        <4>2. a \in Callbacks /\ tmp_vsync_fun[j] \in Callbacks
          BY <1>6, <3>1
        <4> QED
          BY <1>4, <4>1, <4>2
      <3>2. CASE j = k + 1
        <4>1. tmp_vsync_fun'[j] = c /\ a \in ToSet(attachOrder)
          BY <1>2, <1>6, <3>2
        <4> QED
          BY <1>4, <4>1
      <3> QED
        BY <1>2, <3>1, <3>2
    <2> QED
      BY <1>1, <1>2, <2>1, <2>2 DEF ArrivalOrder, Before
  <1>8. InOrder(vsync_fun)'
    <2>1. ASSUME NEW i \in DOMAIN vsync_fun, NEW j \in DOMAIN vsync_fun, i < j
          PROVE  RunsBefore(vsync_fun[i], vsync_fun[j])'
      <3>1. RunsBefore(vsync_fun[i], vsync_fun[j])
        BY <2>1 DEF LInv, InOrder
      <3>2. vsync_fun[i] \in Callbacks /\ vsync_fun[j] \in Callbacks /\ vsync_fun' = vsync_fun
        BY <1>1, <1>6
      <3> QED
        BY <1>4, <3>1, <3>2 DEF RunsBefore, Before
    <2> QED
      BY <1>1, <2>1 DEF InOrder, RunsBefore, Before
  <1>9. DeletedStaysOut'
    BY <1>1, <1>3 DEF LInv, ListTypes, DeletedStaysOut
  <1>10. CursorInList' /\ RanGone' /\ OneShotOnce'
    BY <1>1 DEF LInv, CursorInList, RanGone, OneShotOnce
  <1> QED
    BY <1>5, <1>7, <1>8, <1>9, <1>10 DEF LInv

(* Merged: what a merge leaves in the list, and in which order.            *)
LEMMA Merged ==
  ASSUME LInv, MergeThenDelete
  PROVE  /\ vsync_fun' \in Seq(Callbacks) /\ InOrder(vsync_fun')
         /\ ToSet(vsync_fun') = (ToSet(vsync_fun) \cup ToSet(tmp_vsync_fun)) \ tmp_delete_id
  <1> DEFINE merged == FoldLeft(InsertByPriority, vsync_fun, tmp_vsync_fun)
  <1>1. /\ merged \in Seq(Callbacks) /\ InOrder(merged)
        /\ ToSet(merged) = ToSet(vsync_fun) \cup ToSet(tmp_vsync_fun)
    BY MergeKeeps DEF LInv, ListTypes, ArrivalOrder
  <1>2. vsync_fun' = Without(merged, tmp_delete_id)
    BY DEF MergeThenDelete
  <1> HIDE DEF merged
  <1>3. /\ vsync_fun' \in Seq(Callbacks)
        /\ ToSet(vsync_fun') = (ToSet(vsync_fun) \cup ToSet(tmp_vsync_fun)) \ tmp_delete_id
    BY <1>1, <1>2, WithoutKeeps
  <1>4. InOrder(vsync_fun')
    BY <1>1, <1>2, KeptInOrder
  <1> QED
    BY <1>3, <1>4

(* MergeLists: the frame begins with what is attached and not deleted, and *)
(* what has run once is among the deleted.                                 *)
LEMMA MergeLists ==
  ASSUME LInv, BeginFrame
  PROVE  LInv'
  <1>1. /\ frame = "idle" /\ frame' = "run" /\ next' = 1
        /\ MergeThenDelete
        /\ tmp_vsync_fun' = <<>> /\ tmp_delete_id' = {}
        /\ removed' = removed \cup tmp_delete_id
        /\ attachOrder' = attachOrder /\ ran' = ran
    BY DEF BeginFrame
  <1>3. /\ vsync_fun' \in Seq(Callbacks) /\ InOrder(vsync_fun')
        /\ ToSet(vsync_fun') = (ToSet(vsync_fun) \cup ToSet(tmp_vsync_fun)) \ tmp_delete_id
    BY <1>1, Merged
  <1>4. InOrder(vsync_fun)'
    BY <1>1, <1>3 DEF InOrder, RunsBefore, Before
  <1>5. tmp_vsync_fun' \in Seq(Callbacks) /\ Len(tmp_vsync_fun') = 0 /\ ToSet(tmp_vsync_fun') = {}
    BY <1>1 DEF ToSet
  <1>6. ListTypes'
    BY <1>1, <1>3, <1>5 DEF LInv, ListTypes
  <1>7. CursorInList' /\ ArrivalOrder'
    BY <1>1, <1>5 DEF CursorInList, ArrivalOrder
  <1>8. DeletedStaysOut'
    BY <1>1, <1>3, <1>5 DEF LInv, DeletedStaysOut
  <1>9. RanGone'
    BY <1>1 DEF LInv, RanGone
  <1>10. OneShotOnce'
    <2> SUFFICES ASSUME NEW i \in 1 .. Len(vsync_fun'), vsync_fun'[i] \in OneShot,
                        vsync_fun'[i] \in ran
                 PROVE  FALSE
      BY <1>1 DEF OneShotOnce
    <2>1. vsync_fun'[i] \in ToSet(vsync_fun')
      BY <1>3 DEF ToSet
    <2>2. vsync_fun'[i] \in removed \cup tmp_delete_id
      BY <1>1 DEF LInv, RanGone
    <2> QED
      BY <1>3, <2>1, <2>2 DEF LInv, DeletedStaysOut
  <1> QED
    BY <1>4, <1>6, <1>7, <1>8, <1>9, <1>10 DEF LInv

(* LoopLists: the loop over the list, whose cursor only moves on.          *)
LEMMA LoopLists ==
  ASSUME LInv, CallFun \/ ReturnFun \/ EndLoop
  PROVE  LInv'
  <1>1. UNCHANGED <<vsync_fun, tmp_vsync_fun, attachOrder, removed>>
    BY DEF CallFun, ReturnFun, EndLoop, history
  <1>2. ArrivalOrder' /\ InOrder(vsync_fun)' /\ DeletedStaysOut'
    BY <1>1 DEF LInv, ArrivalOrder, InOrder, RunsBefore, Before, DeletedStaysOut
  <1>3. vsync_fun \in Seq(Callbacks) /\ Len(vsync_fun) \in Nat /\ next \in Nat \ {0}
    BY DEF LInv, ListTypes, CursorInList
  <1>4. CASE CallFun
    <2>1. /\ frame = "run" /\ frame' = "call" /\ next <= Len(vsync_fun)
          /\ next' = next /\ ran' = ran \cup {vsync_fun[next]}
          /\ tmp_delete_id' = tmp_delete_id
      BY <1>4 DEF CallFun
    <2>2. ListTypes' /\ CursorInList' /\ RanGone'
      BY <1>1, <1>3, <2>1 DEF LInv, ListTypes, CursorInList, RanGone
    <2>3. ASSUME NEW i \in next + 1 .. Len(vsync_fun), vsync_fun[i] \in OneShot
          PROVE  vsync_fun[i] \notin ran'
      <3>1. /\ i \in next .. Len(vsync_fun) /\ i \in DOMAIN vsync_fun
            /\ next \in DOMAIN vsync_fun /\ next < i
        BY <1>3, <2>1
      <3>2. vsync_fun[next] # vsync_fun[i]
        BY <3>1, RunsOnce DEF LInv
      <3> QED
        BY <2>1, <2>3, <3>1, <3>2 DEF LInv, OneShotOnce
    <2>4. OneShotOnce'
      BY <1>1, <2>1, <2>3 DEF OneShotOnce
    <2> QED
      BY <1>2, <2>2, <2>4 DEF LInv
  <1>5. CASE ReturnFun
    <2>1. /\ frame = "call" /\ frame' = "run" /\ next' = next + 1 /\ ran' = ran
          /\ tmp_delete_id' = tmp_delete_id \cup ({vsync_fun[next]} \cap OneShot)
      BY <1>5 DEF ReturnFun, history
    <2>2. vsync_fun[next] \in ToSet(attachOrder)
      <3>1. next \in DOMAIN vsync_fun
        BY <1>3, <2>1 DEF LInv, CursorInList
      <3> QED
        BY <3>1 DEF LInv, ListTypes, ToSet
    <2>3. ListTypes' /\ CursorInList' /\ RanGone'
      BY <1>1, <1>3, <2>1, <2>2 DEF LInv, ListTypes, CursorInList, RanGone
    <2>4. OneShotOnce'
      BY <1>1, <2>1 DEF LInv, OneShotOnce
    <2> QED
      BY <1>2, <2>3, <2>4 DEF LInv
  <1>6. CASE EndLoop
    BY <1>1, <1>2, <1>6 DEF EndLoop, LInv, ListTypes, CursorInList, RanGone, OneShotOnce, history
  <1> QED
    BY <1>4, <1>5, <1>6

(* ListStep: the lists through every step.                                 *)
LEMMA ListStep == LInv /\ [Next]_vars => LInv'
  <1> SUFFICES ASSUME LInv, [Next]_vars PROVE LInv'
    OBVIOUS
  <1>1. ASSUME NEW c \in Callbacks, Attach(c) PROVE LInv'
    BY <1>1, AttachLists
  <1>2. ASSUME NEW c \in Callbacks, deleteVsync(c) PROVE LInv'
    BY <1>2 DEF deleteVsync, history, LInv, ListTypes, CursorInList, ArrivalOrder, InOrder,
                RunsBefore, Before, DeletedStaysOut, RanGone, OneShotOnce
  <1>3. CASE BeginFrame
    BY <1>3, MergeLists
  <1>4. CASE CallFun \/ ReturnFun \/ EndLoop
    BY <1>4, LoopLists
  <1>5. ASSUME RebindUnlocked \/ ClearAfterFailure \/ RebindLocked \/ UNCHANGED vars
        PROVE  LInv'
    <2>1. /\ UNCHANGED <<vsync_fun, tmp_vsync_fun, tmp_delete_id, next, attachOrder, ran, removed>>
          /\ frame' = frame \/ (frame \notin {"run", "call"} /\ frame' \notin {"run", "call"})
      BY <1>5 DEF RebindUnlocked, ClearAfterFailure, RebindLocked, history, vars
    <2> QED
      BY <2>1 DEF LInv, ListTypes, CursorInList, ArrivalOrder, InOrder,
                  RunsBefore, Before, DeletedStaysOut, RanGone, OneShotOnce
  <1> QED
    BY <1>1, <1>2, <1>3, <1>4, <1>5 DEF Next, onFrame

(* Lists: the invariant of the lists holds in every behaviour.             *)
LEMMA ListInvariant == Spec => []LInv
  BY InitLists, ListStep, PTL DEF Spec

(* RunOnce: in every behaviour a callback of attachOneVsync is never in    *)
(* the rest of a frame once it has run, whatever is attached, deleted and  *)
(* merged in between (keyframe_vsync.cpp:86-117).                          *)
THEOREM RunOnce == Spec => []OneShotOnce
  <1>1. LInv => OneShotOnce
    BY DEF LInv
  <1> QED
    BY ListInvariant, <1>1, PTL

(* DeletionHolds: in every behaviour an id whose deletion a frame applied  *)
(* is in neither list from then on (keyframe_vsync.cpp:91-106).            *)
THEOREM DeletionHolds == Spec => []DeletedStaysOut
  <1>1. LInv => DeletedStaysOut
    BY DEF LInv
  <1> QED
    BY ListInvariant, <1>1, PTL

(* FrameOrder: in every behaviour, and for any priorities, a frame runs    *)
(* its callbacks by descending priority and, within one priority, in the   *)
(* order of their attachment, although they are merged frame by frame      *)
(* (keyframe_vsync.cpp:91-97).                                             *)
THEOREM FrameOrder == Spec => []PriorityOrder
  <1>1. LInv => PriorityOrder
    BY DEF LInv, InOrder, RunsBefore, Before, Earlier, PriorityOrder
  <1> QED
    BY ListInvariant, <1>1, PTL
=============================================================================
