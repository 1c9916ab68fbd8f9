------------------------ MODULE FramePipeline_proofs -------------------------
(***************************************************************************)
(* Proofs about FramePipeline for any nodes, tasks, ids and failures: the  *)
(* vsync underneath is a KeyframeVsync, the whole is the pipeline that     *)
(* DirtyTaskPipeline specifies, and nothing is queued while the vsync      *)
(* thread rests.  What is known of the two parts is taken from their       *)
(* proofs; what is added is which callbacks wait for their flush where.    *)
(***************************************************************************)
EXTENDS FramePipeline, ListTheorems, FiniteSetTheorems

K == INSTANCE KeyframeVsync_proofs WITH
    OneShot <- Callbacks, Priority <- [c \in Callbacks |-> 0]

P == INSTANCE DirtyTaskPipeline_proofs WITH
    outstanding <- Cardinality(ToSet(attachOrder) \ served),
    blocked <- Waiting

(* The parts are given what they assume of their constants.                *)
LEMMA PartsAssumptions == K!ConstantsAssumption /\ P!ConstantsAssumption
  BY ConstantsAssumption DEF ConstantsAssumption, K!ConstantsAssumption,
     P!ConstantsAssumption, Callbacks

-----------------------------------------------------------------------------
(* Keyframe and Pipeline are read from the modules, K and P from the       *)
(* modules' proofs; they are the same, definition by definition.           *)
LEMMA SameKeyframe ==
    /\ Keyframe!Init <=> K!Init
    /\ \A c : Keyframe!Attach(c) <=> K!Attach(c)
    /\ Keyframe!BeginFrame <=> K!BeginFrame
    /\ Keyframe!CallFun <=> K!CallFun
    /\ Keyframe!ReturnFun <=> K!ReturnFun
    /\ Keyframe!EndLoop <=> K!EndLoop
    /\ Keyframe!RebindUnlocked <=> K!RebindUnlocked
    /\ Keyframe!ClearAfterFailure <=> K!ClearAfterFailure
    /\ Keyframe!RebindLocked <=> K!RebindLocked
  BY DEF Keyframe!vars, K!vars, Keyframe!history, K!history, Keyframe!Init,
         K!Init, Keyframe!RequestFrame, K!RequestFrame, Keyframe!Attach,
         K!Attach, Keyframe!deleteVsync, K!deleteVsync,
         Keyframe!InsertByPriority, K!InsertByPriority,
         Keyframe!MergeThenDelete, K!MergeThenDelete, Keyframe!BeginFrame,
         K!BeginFrame, Keyframe!CallFun, K!CallFun, Keyframe!ReturnFun,
         K!ReturnFun, Keyframe!EndLoop, K!EndLoop, Keyframe!RebindUnlocked,
         K!RebindUnlocked, Keyframe!ClearAfterFailure, K!ClearAfterFailure,
         Keyframe!RebindLocked, K!RebindLocked, Keyframe!Without, K!Without,
         Keyframe!ToSet, K!ToSet, Keyframe!FoldLeft, K!FoldLeft,
         Keyframe!MapThenFoldSet, K!MapThenFoldSet, Keyframe!Max, K!Max,
         Keyframe!InsertAt, K!InsertAt

LEMMA SamePipeline ==
    /\ Pipeline!Init <=> P!Init
    /\ [Pipeline!Next]_Pipeline!vars <=> [P!Next]_P!vars
  BY DEF Pipeline!flags, P!flags, Pipeline!lists, P!lists, Pipeline!place,
         P!place, Pipeline!vsync, P!vsync, Pipeline!history, P!history,
         Pipeline!vars, P!vars, Pipeline!Kinds, P!Kinds, Pipeline!Init, P!Init,
         Pipeline!MainRunsCode, P!MainRunsCode, Pipeline!attachOneVsync,
         P!attachOneVsync, Pipeline!RequestNextFrame, P!RequestNextFrame,
         Pipeline!AddDirtyNode, P!AddDirtyNode, Pipeline!AddUpdateTask,
         P!AddUpdateTask, Pipeline!RegistryAdapterAttach,
         P!RegistryAdapterAttach, Pipeline!RegistryNextTick, P!RegistryNextTick,
         Pipeline!FlushPaintLocalSync, P!FlushPaintLocalSync, Pipeline!NodeDies,
         P!NodeDies, Pipeline!CleanAllTasks, P!CleanAllTasks, Pipeline!OnVsync,
         P!OnVsync, Pipeline!BeginFlush, P!BeginFlush, Pipeline!FlushOnVsync,
         P!FlushOnVsync, Pipeline!UpdatePageSync, P!UpdatePageSync,
         Pipeline!Flush, P!Flush, Pipeline!CallItem, P!CallItem,
         Pipeline!FlushStart, P!FlushStart, Pipeline!FlushNodes, P!FlushNodes,
         Pipeline!FlushStyle, P!FlushStyle, Pipeline!FlushNotifyFixed,
         P!FlushNotifyFixed, Pipeline!FlushPaint, P!FlushPaint,
         Pipeline!FlushLayout, P!FlushLayout, Pipeline!FlushAdapter,
         P!FlushAdapter, Pipeline!FlushMount, P!FlushMount,
         Pipeline!ItemReturns, P!ItemReturns, Pipeline!Advance, P!Advance,
         Pipeline!NextRequested, P!NextRequested, Pipeline!SwapTicks,
         P!SwapTicks, Pipeline!StayFlushing, P!StayFlushing,
         Pipeline!StopFlushing, P!StopFlushing, Pipeline!FlushFinish,
         P!FlushFinish, Pipeline!FlushStep, P!FlushStep, Pipeline!QueueWork,
         P!QueueWork, Pipeline!Next, P!Next, Pipeline!Without, P!Without,
         Pipeline!ToSet, P!ToSet, Pipeline!SetToSeq, P!SetToSeq,
         Pipeline!FoldLeft, P!FoldLeft, Pipeline!MapThenFoldSet,
         P!MapThenFoldSet, Pipeline!Max, P!Max, Pipeline!IsInjective,
         P!IsInjective, Pipeline!Cardinality, P!Cardinality

-----------------------------------------------------------------------------
(* Where a callback waits for its flush: it was attached and the next      *)
(* frame will merge it, or it is in the rest of the frame being run; and   *)
(* only what was served is deleted.                                        *)
InFrame(c) ==
    /\ frame \in {"run", "call"}
    /\ \E i \in next .. Len(vsync_fun) : vsync_fun[i] = c

Unserved ==
    /\ tmp_delete_id \subseteq served
    /\ served \subseteq ToSet(attachOrder)
    /\ \A c \in ToSet(attachOrder) \ served : c \in ToSet(tmp_vsync_fun) \/ InFrame(c)

Inv ==
    /\ K!LInv
    /\ K!IInv
    /\ Unserved
    /\ P!IInv

(* ListsOf: what the invariant of the vsync's lists says here.             *)
LEMMA ListsOf ==
  ASSUME K!LInv
  PROVE  /\ attachOrder \in Seq(Callbacks) /\ Len(attachOrder) \in Nat
         /\ vsync_fun \in Seq(Callbacks) /\ Len(vsync_fun) \in Nat
         /\ tmp_vsync_fun \in Seq(Callbacks)
         /\ ToSet(vsync_fun) \cup ToSet(tmp_vsync_fun) \subseteq ToSet(attachOrder)
         /\ next \in Nat \ {0}
         /\ frame = "call" => next \in 1 .. Len(vsync_fun)
         /\ next \in 1 .. Len(vsync_fun) => vsync_fun[next] \in ToSet(attachOrder)
  <1>1. /\ attachOrder \in Seq(Callbacks) /\ vsync_fun \in Seq(Callbacks)
        /\ tmp_vsync_fun \in Seq(Callbacks)
        /\ ToSet(vsync_fun) \cup ToSet(tmp_vsync_fun) \subseteq ToSet(attachOrder)
        /\ next \in Nat \ {0}
        /\ frame = "call" => next <= Len(vsync_fun)
    BY DEF K!LInv, K!ListTypes, K!CursorInList, K!ToSet, ToSet
  <1>2. /\ Len(attachOrder) \in Nat /\ Len(vsync_fun) \in Nat
        /\ DOMAIN vsync_fun = 1 .. Len(vsync_fun)
    BY <1>1
  <1>3. frame = "call" => next \in 1 .. Len(vsync_fun)
    BY <1>1, <1>2
  <1>4. next \in 1 .. Len(vsync_fun) => vsync_fun[next] \in ToSet(vsync_fun)
    BY <1>2 DEF ToSet
  <1> QED
    BY <1>1, <1>2, <1>3, <1>4

(* KeyframeStep: a step of the whole is a step of the vsync or leaves it   *)
(* alone.                                                                  *)
LEMMA KeyframeStep == K!LInv /\ [Next]_vars => [K!Next]_K!vars
  <1> SUFFICES ASSUME K!LInv, [Next]_vars PROVE [K!Next]_K!vars
    OBVIOUS
  <1>1. ASSUME MayAttach PROVE [K!Next]_K!vars
    <2>1. CASE UNCHANGED keyframeVars
      BY <2>1 DEF keyframeVars, K!vars
    <2>2. CASE Len(attachOrder) < MaxIds /\ Keyframe!Attach(Len(attachOrder) + 1)
      <3>1. Len(attachOrder) + 1 \in Callbacks
        BY <2>2, ListsOf, ConstantsAssumption DEF Callbacks, ConstantsAssumption
      <3>2. K!Attach(Len(attachOrder) + 1)
        BY <2>2, SameKeyframe
      <3> QED
        BY <3>1, <3>2 DEF K!Next
    <2> QED
      BY <1>1, <2>1, <2>2 DEF MayAttach
  <1>2. CASE QueueWork \/ FlushStep
    BY <1>1, <1>2 DEF QueueWork, FlushStep
  <1>3. CASE MainOnly \/ FlushOnVsync \/ UNCHANGED vars
    BY <1>3 DEF MainOnly, FlushOnVsync, vars, keyframeVars, K!vars
  <1>4. CASE ReturnFromOnVsync \/ VsyncThread
    BY <1>4, SameKeyframe DEF ReturnFromOnVsync, VsyncThread, K!Next, K!onFrame
  <1> QED
    BY <1>2, <1>3, <1>4 DEF Next

(* Attached: attachInner adds one callback to what waits for a merge.      *)
LEMMA Attached ==
  ASSUME K!LInv, K!Attach(Len(attachOrder) + 1), Len(attachOrder) < MaxIds
  PROVE  /\ ToSet(attachOrder') = ToSet(attachOrder) \cup {Len(attachOrder) + 1}
         /\ ToSet(tmp_vsync_fun') = ToSet(tmp_vsync_fun) \cup {Len(attachOrder) + 1}
         /\ UNCHANGED <<vsync_fun, tmp_delete_id, frame, next>>
  <1>1. Len(attachOrder) + 1 \in Callbacks
    BY ListsOf, ConstantsAssumption DEF Callbacks, ConstantsAssumption
  <1>2. /\ attachOrder' = Append(attachOrder, Len(attachOrder) + 1)
        /\ tmp_vsync_fun' = Append(tmp_vsync_fun, Len(attachOrder) + 1)
        /\ UNCHANGED <<vsync_fun, tmp_delete_id, frame, next>>
    BY DEF K!Attach
  <1> QED
    BY <1>1, <1>2, ListsOf, AppendedSet

(* UnservedStep: no callback gets lost between its attachment and its      *)
(* flush.                                                                  *)
LEMMA UnservedStep == K!LInv /\ Unserved /\ [Next]_vars => Unserved'
  <1> SUFFICES ASSUME K!LInv, Unserved, [Next]_vars PROVE Unserved'
    OBVIOUS
  <1>1. CASE MayAttach
    <2>1. CASE UNCHANGED keyframeVars
      BY <1>1, <2>1 DEF MayAttach, keyframeVars, Unserved, InFrame
    <2>2. CASE Len(attachOrder) < MaxIds /\ Keyframe!Attach(Len(attachOrder) + 1)
      <3>1. /\ ToSet(attachOrder') = ToSet(attachOrder) \cup {Len(attachOrder) + 1}
            /\ ToSet(tmp_vsync_fun') = ToSet(tmp_vsync_fun) \cup {Len(attachOrder) + 1}
            /\ UNCHANGED <<vsync_fun, tmp_delete_id, frame, next, served>>
        BY <1>1, <2>2, SameKeyframe, Attached DEF MayAttach
      <3> QED
        BY <3>1 DEF Unserved, InFrame
    <2> QED
      BY <1>1, <2>1, <2>2 DEF MayAttach
  <1>2. CASE MainOnly \/ UNCHANGED vars
    BY <1>2 DEF MainOnly, vars, keyframeVars, Unserved, InFrame
  <1>3. CASE FlushOnVsync
    <2>1. /\ frame = "call" /\ next \in 1 .. Len(vsync_fun)
          /\ served' = served \cup {vsync_fun[next]}
          /\ UNCHANGED keyframeVars
      BY <1>3, ListsOf DEF FlushOnVsync, Waiting, InOnVsync
    <2>2. vsync_fun[next] \in ToSet(attachOrder)
      BY <2>1, ListsOf
    <2> QED
      BY <2>1, <2>2 DEF keyframeVars, Unserved, InFrame
  <1>4. CASE ReturnFromOnVsync
    <2>1. /\ frame = "call" /\ frame' = "run" /\ next' = next + 1
          /\ vsync_fun[next] \in served
          /\ tmp_delete_id' \subseteq tmp_delete_id \cup {vsync_fun[next]}
          /\ UNCHANGED <<vsync_fun, tmp_vsync_fun, attachOrder, served>>
      BY <1>4, SameKeyframe
         DEF ReturnFromOnVsync, Waiting, InOnVsync, K!ReturnFun, K!history
    <2>2. \A c : InFrame(c) /\ c \notin served => InFrame(c)'
      BY <2>1, ListsOf DEF InFrame
    <2> QED
      BY <2>1, <2>2 DEF Unserved
  <1>5. CASE VsyncThread
    <2>1. CASE Keyframe!BeginFrame
      <3>1. K!BeginFrame
        BY <2>1, SameKeyframe
      <3>2. /\ frame = "idle" /\ frame' = "run" /\ next' = 1 /\ tmp_delete_id' = {}
            /\ UNCHANGED <<attachOrder, served>>
        BY <1>5, <3>1 DEF VsyncThread, K!BeginFrame
      <3>3. /\ vsync_fun' \in Seq(Callbacks)
            /\ ToSet(vsync_fun') = (ToSet(vsync_fun) \cup ToSet(tmp_vsync_fun)) \ tmp_delete_id
        BY <3>1, PartsAssumptions, K!Merged DEF K!BeginFrame, K!ToSet, ToSet
      <3>4. \A c \in ToSet(vsync_fun') : InFrame(c)'
        BY <3>2, <3>3 DEF InFrame, ToSet
      <3> QED
        BY <3>2, <3>3, <3>4 DEF Unserved, InFrame
    <2>2. CASE Keyframe!CallFun
      BY <1>5, <2>2, SameKeyframe DEF VsyncThread, K!CallFun, Unserved, InFrame
    <2>3. CASE Keyframe!EndLoop
      <3>1. \A c : ~InFrame(c)
        BY <2>3, SameKeyframe, ListsOf DEF K!EndLoop, InFrame
      <3> QED
        BY <1>5, <2>3, <3>1, SameKeyframe DEF VsyncThread, K!EndLoop, K!history, Unserved
    <2>4. CASE Keyframe!RebindUnlocked \/ Keyframe!ClearAfterFailure \/ Keyframe!RebindLocked
      <3>1. /\ frame \notin {"run", "call"}
            /\ UNCHANGED <<tmp_vsync_fun, tmp_delete_id, attachOrder, served>>
        BY <1>5, <2>4, SameKeyframe DEF VsyncThread, K!RebindUnlocked,
           K!ClearAfterFailure, K!RebindLocked, K!history
      <3> QED
        BY <3>1 DEF Unserved, InFrame
    <2> QED
      BY <1>5, <2>1, <2>2, <2>3, <2>4 DEF VsyncThread
  <1> QED
    BY <1>1, <1>2, <1>3, <1>4, <1>5 DEF Next, QueueWork, FlushStep

-----------------------------------------------------------------------------
(* OutstandingCounts: how many callbacks are outstanding.                  *)
LEMMA OutstandingCounts ==
  ASSUME K!LInv
  PROVE  Cardinality(ToSet(attachOrder) \ served) > 0 <=> ToSet(attachOrder) \ served # {}
  <1>1. IsFiniteSet(Callbacks)
    BY ConstantsAssumption, FS_Interval DEF ConstantsAssumption, Callbacks
  <1>2. ToSet(attachOrder) \ served \subseteq Callbacks
    BY ListsOf DEF ToSet
  <1>3. /\ IsFiniteSet(ToSet(attachOrder) \ served)
        /\ Cardinality(ToSet(attachOrder) \ served) \in Nat
    BY <1>1, <1>2, FS_Subset, FS_CardinalityType
  <1> QED
    BY <1>3, FS_EmptySet

(* PipelineStep: a step of the whole is a step of the pipeline or leaves   *)
(* it alone.  MAIN's steps are given; of the vsync thread's, the call of a *)
(* callback that was not served is OnVsync, and there is one outstanding.  *)
LEMMA PipelineStep ==
  K!LInv /\ Unserved /\ [Next]_vars => [Pipeline!Next]_Pipeline!vars
  <1> SUFFICES ASSUME K!LInv, Unserved, [Next]_vars PROVE [Pipeline!Next]_Pipeline!vars
    OBVIOUS
  <1>1. CASE QueueWork \/ MainOnly \/ FlushStep \/ FlushOnVsync
    BY <1>1 DEF QueueWork, MainOnly, FlushStep, FlushOnVsync, Pipeline!Next
  <1>2. ASSUME UNCHANGED <<pipelineVars, attachOrder, served, Waiting>>
        PROVE  UNCHANGED Pipeline!vars
    BY <1>2 DEF pipelineVars, Pipeline!vars, Pipeline!flags, Pipeline!lists,
       Pipeline!place, Pipeline!vsync, Pipeline!history
  <1>3. CASE ReturnFromOnVsync
    <2>1. UNCHANGED <<pipelineVars, attachOrder, served, Waiting>>
      BY <1>3, SameKeyframe DEF ReturnFromOnVsync, Waiting, InOnVsync, K!ReturnFun, K!history
    <2> QED
      BY <1>2, <2>1
  <1>4. CASE VsyncThread /\ Keyframe!CallFun
    <2>1. /\ frame = "run" /\ frame' = "call" /\ next <= Len(vsync_fun)
          /\ UNCHANGED <<pipelineVars, vsync_fun, next, attachOrder, served>>
      BY <1>4, SameKeyframe DEF VsyncThread, K!CallFun
    <2>2. CASE vsync_fun[next] \in served
      BY <1>2, <2>1, <2>2 DEF Waiting, InOnVsync
    <2>3. CASE vsync_fun[next] \notin served
      <3>1. ~Waiting /\ Waiting'
        BY <2>1, <2>3 DEF Waiting, InOnVsync
      <3>2. vsync_fun[next] \in ToSet(attachOrder) \ served
        BY <2>1, <2>3, ListsOf
      <3>3. Cardinality(ToSet(attachOrder) \ served) > 0
        BY <3>2, OutstandingCounts
      <3> QED
        BY <2>1, <3>1, <3>3 DEF pipelineVars, Pipeline!Next, Pipeline!OnVsync, Pipeline!flags,
           Pipeline!lists, Pipeline!place, Pipeline!history
    <2> QED
      BY <2>2, <2>3
  <1>5. CASE VsyncThread /\ ~Keyframe!CallFun
    <2>1. UNCHANGED <<pipelineVars, attachOrder, served, Waiting>>
      BY <1>5, SameKeyframe DEF VsyncThread, Waiting, InOnVsync, K!BeginFrame, K!EndLoop,
         K!RebindUnlocked, K!ClearAfterFailure, K!RebindLocked, K!history
    <2> QED
      BY <1>2, <2>1
  <1>6. CASE UNCHANGED vars
    BY <1>2, <1>6 DEF vars, keyframeVars, Waiting, InOnVsync
  <1> QED
    BY <1>1, <1>3, <1>4, <1>5, <1>6 DEF Next

(* InitParts: initial states are initial states of the parts.              *)
LEMMA InitParts == Init => K!Init /\ P!Init /\ Unserved
  <1> SUFFICES ASSUME Init PROVE K!Init /\ P!Init /\ Unserved
    OBVIOUS
  <1>1. K!Init /\ P!Init /\ served = {}
    BY SameKeyframe, SamePipeline DEF Init
  <1>2. Unserved
    BY <1>1 DEF K!Init, Unserved, ToSet
  <1> QED
    BY <1>1, <1>2

(* Invariant: what is known of the parts, and Unserved, hold throughout.   *)
LEMMA Invariant == Spec => []Inv
  <1>1. Init => Inv
    <2> SUFFICES ASSUME Init PROVE Inv
      OBVIOUS
    <2>1. K!Init /\ P!Init /\ Unserved
      BY InitParts
    <2>2. K!LInv /\ K!IInv
      BY <2>1, PartsAssumptions, K!InitLists, K!InitInvariant
    <2>3. P!IInv
      BY <2>1, PartsAssumptions, P!InitInvariant
    <2> QED
      BY <2>1, <2>2, <2>3 DEF Inv
  <1>2. Inv /\ [Next]_vars => Inv'
    <2> SUFFICES ASSUME Inv, [Next]_vars PROVE Inv'
      OBVIOUS
    <2>1. /\ K!LInv /\ K!IInv /\ P!IInv
          /\ [K!Next]_K!vars /\ [P!Next]_P!vars
      BY KeyframeStep, PipelineStep, SamePipeline DEF Inv
    <2>2. K!LInv' /\ K!IInv'
      BY <2>1, PartsAssumptions, K!ListStep, K!FlagStep, K!PendingStep DEF K!IInv
    <2>3. P!IInv'
      BY <2>1, PartsAssumptions, P!Step
    <2> QED
      BY <2>2, <2>3, UnservedStep DEF Inv
  <1> QED
    BY <1>1, <1>2, PTL DEF Spec

(* Refinement: with the real vsync underneath, whatever it         *)
(* interleaves with MAIN and however often RequestFrame fails, the         *)
(* pipeline is the one DirtyTaskPipeline specifies (dirty_vsync_task.cpp:  *)
(* 31-72, keyframe_vsync.cpp:48-154).                                      *)
THEOREM Refinement == Spec => ImplementsPipeline
  <1>1. Init => Pipeline!Init
    BY DEF Init
  <1>2. Inv /\ [Next]_vars => [Pipeline!Next]_Pipeline!vars
    BY PipelineStep DEF Inv
  <1> QED
    BY <1>1, <1>2, Invariant, PTL DEF Spec, ImplementsPipeline, Pipeline!Spec

(* NeverForgotten: with nothing flushing, work that waits has a frame      *)
(* coming, unless RequestFrame failed.  The request has a callback         *)
(* outstanding; that callback waits for a merge, and PendingIsBound says a *)
(* frame is owed, or it is in the frame being run.                         *)
THEOREM NeverForgotten == Spec => []NothingForgotten
  <1>1. Inv => NothingForgotten
    <2> SUFFICES ASSUME Inv, Pipeline!MissedWork, ~isFlushing, ~bindFailed PROVE has_vsync
      BY DEF NothingForgotten
    <2>1. Pipeline!MissedWork <=> P!MissedWork
      BY DEF Pipeline!MissedWork, P!MissedWork, Pipeline!After, P!After, Pipeline!Kinds, P!Kinds
    <2>2. Cardinality(ToSet(attachOrder) \ served) > 0
      BY <2>1 DEF Inv, P!IInv, P!WorkRequested, P!RequestOutstanding
    <2>3. PICK c \in ToSet(attachOrder) : c \notin served
      BY <2>2, OutstandingCounts DEF Inv
    <2>4. CASE c \in ToSet(tmp_vsync_fun)
      BY <2>4 DEF Inv, K!IInv, K!PendingIsBound, ToSet
    <2>5. CASE InFrame(c)
      BY <2>5 DEF Inv, K!IInv, K!FlagTellsTheTruth, InFrame
    <2> QED
      BY <2>3, <2>4, <2>5 DEF Inv, Unserved
  <1> QED
    BY <1>1, Invariant, PTL
====
