----------------------- MODULE DirtyTaskPipeline_proofs -----------------------
(***************************************************************************)
(* Proofs about DirtyTaskPipeline for any nodes, tasks and bounds, with or *)
(* without updatePageSync and destruction: no work waits without a frame   *)
(* requested, a request outside a flush has a callback attached, mount     *)
(* tasks run in the order given, and next ticks in the second flush.       *)
(***************************************************************************)
EXTENDS DirtyTaskPipeline, ListTheorems

-----------------------------------------------------------------------------
(* The types these proofs need; the lists are only compared with <<>>.     *)
FlagTypes ==
    /\ isRequestVsync \in BOOLEAN
    /\ isFlushing \in BOOLEAN
    /\ blocked \in BOOLEAN
    /\ outstanding \in Nat
    /\ phase \in Phases
    /\ dirty \in [Kinds -> SUBSET Nodes]

(* isFlushing_ is set exactly while FlushUpdateTasks is in a phase.        *)
FlushingInPhase == isFlushing <=> phase # "idle"

(* The vsync thread is blocked only on behalf of an attached callback.     *)
BlockedForCallback == blocked => outstanding # 0

(* After FlushStart the list it runs is empty until FlushFinish swaps:     *)
(* RegistryNextTick adds to the other list.                                *)
TicksDrained == phase \notin {"idle", "start"} => nextTickTasks = <<>>

IInv ==
    /\ FlagTypes
    /\ FlushingInPhase
    /\ BlockedForCallback
    /\ TicksDrained
    /\ RequestOutstanding
    /\ WorkRequested

(* Missed: MissedWork, kind by kind.                                       *)
Missed(p, d, adapter, update, ticks, pending) ==
    \/ p \in {"layout", "fixed", "paint", "adapter", "mount", "idle"} /\ d["style"] # {}
    \/ p \in {"layout", "fixed", "paint", "adapter", "mount", "idle"} /\ d["layout"] # {}
    \/ p \in {"paint", "adapter", "mount", "idle"} /\ d["fixed"] # {}
    \/ p \in {"adapter", "mount", "idle"} /\ d["paint"] # {}
    \/ p \in {"mount", "idle"} /\ adapter # <<>>
    \/ p \in {"mount", "idle"} /\ update # <<>>
    \/ p = "idle" /\ (ticks # <<>> \/ pending # <<>>)

(* MissedCases: the work no later phase takes, phase by phase.             *)
LEMMA MissedCases ==
    MissedWork <=> Missed(phase, dirty, adapterAttachTasks, pendingUpdateTasks,
                          nextTickTasks, nextTickPendingTasks)
  BY DEF MissedWork, Missed, After, Kinds

(* MissedCasesNext: the same of the next state.                            *)
LEMMA MissedCasesNext ==
    MissedWork' <=> Missed(phase', dirty', adapterAttachTasks', pendingUpdateTasks',
                           nextTickTasks', nextTickPendingTasks')
  BY DEF MissedWork, Missed, After, Kinds

-----------------------------------------------------------------------------
(* PositiveIsNonzero: the arithmetic of the frame counter.                 *)
LEMMA PositiveIsNonzero == \A n \in Nat : (n > 0 <=> n # 0) /\ n + 1 \in Nat /\ n + 1 # 0
  OBVIOUS

(* InitInvariant: nothing is queued and no frame is owed at the start.     *)
LEMMA InitInvariant == Init => IInv
  <1> SUFFICES ASSUME Init PROVE IInv
    OBVIOUS
  <1>1. FlagTypes
    BY DEF Init, FlagTypes, Phases
  <1>2. FlushingInPhase /\ BlockedForCallback /\ TicksDrained /\ RequestOutstanding
    BY Zenon DEF Init, FlushingInPhase, BlockedForCallback, TicksDrained, RequestOutstanding
  <1>3. ~MissedWork
    BY MissedCases DEF Init, Missed, Kinds
  <1> QED
    BY <1>1, <1>2, <1>3 DEF IInv, WorkRequested

(* RequestEffect: after RequestNextFrame the flag is set, and outside a    *)
(* flush a callback is attached: now, or by the request that set the flag. *)
LEMMA RequestEffect ==
    ASSUME IInv, RequestNextFrame
    PROVE  /\ isRequestVsync'
           /\ isFlushing' \in BOOLEAN /\ (isFlushing' <=> isFlushing)
           /\ blocked' \in BOOLEAN /\ (blocked' <=> blocked)
           /\ outstanding' \in Nat
           /\ outstanding # 0 => outstanding' # 0
           /\ ~isFlushing => outstanding' # 0
  <1>1. /\ isRequestVsync' = TRUE
        /\ isFlushing' \in BOOLEAN /\ (isFlushing' <=> isFlushing)
        /\ blocked' \in BOOLEAN /\ (blocked' <=> blocked)
    BY DEF RequestNextFrame, IInv, FlagTypes
  <1>2. outstanding \in Nat
    BY DEF IInv, FlagTypes
  <1>3. CASE ~isRequestVsync /\ ~isFlushing
    <2>1. outstanding' = outstanding + 1
      BY <1>3, Zenon DEF RequestNextFrame, attachOneVsync
    <2>2. outstanding' \in Nat /\ outstanding' # 0
      BY <1>2, <2>1
    <2> QED
      BY <1>1, <2>2, Zenon
  <1>4. CASE isRequestVsync \/ isFlushing
    <2>1. outstanding' = outstanding
      BY <1>4, Zenon DEF RequestNextFrame
    <2>2. isRequestVsync /\ ~isFlushing => outstanding # 0
      BY <1>2, PositiveIsNonzero, Zenon DEF IInv, RequestOutstanding
    <2>3. outstanding' \in Nat /\ (outstanding # 0 => outstanding' # 0)
      BY <1>2, <2>1, Zenon
    <2>4. ~isFlushing => outstanding' # 0
      BY <1>4, <2>1, <2>2, Zenon
    <2> QED
      BY <1>1, <2>3, <2>4, Zenon
  <1> QED
    BY <1>3, <1>4, Zenon

(* AfterRequest: a step that queues work and calls RequestNextFrame keeps  *)
(* the invariant, whatever it queued.                                      *)
LEMMA AfterRequest ==
    ASSUME IInv, RequestNextFrame, phase' = phase, nextTickTasks' = nextTickTasks,
           dirty' \in [Kinds -> SUBSET Nodes]
    PROVE  IInv'
  <1>1. outstanding' \in Nat /\ isRequestVsync' /\ isRequestVsync' \in BOOLEAN
    BY RequestEffect, Zenon DEF RequestNextFrame
  <1>2. FlagTypes'
    BY <1>1, RequestEffect, Zenon DEF IInv, FlagTypes
  <1>3. FlushingInPhase' /\ TicksDrained'
    BY RequestEffect, Zenon DEF IInv, FlushingInPhase, TicksDrained
  <1>4. BlockedForCallback'
    BY RequestEffect, Zenon DEF IInv, BlockedForCallback
  <1>5. RequestOutstanding'
    <2>1. ~isFlushing' => outstanding' > 0
      BY <1>1, RequestEffect, PositiveIsNonzero, Zenon
    <2> QED
      BY <2>1, Zenon DEF RequestOutstanding
  <1>6. WorkRequested'
    BY <1>1, Zenon DEF WorkRequested
  <1> QED
    BY <1>2, <1>3, <1>4, <1>5, <1>6, Zenon DEF IInv

(* QueueWorkKeeps: every way to queue work asks for a frame if a flush     *)
(* that would take the work is not coming.                                 *)
LEMMA QueueWorkKeeps == ASSUME IInv, QueueWork PROVE IInv'
  <1> USE DEF lists, place
  <1>1. ASSUME NEW k \in Kinds, NEW n \in Nodes, AddDirtyNode(k, n) PROVE IInv'
    <2>1. dirty' \in [Kinds -> SUBSET Nodes]
      BY <1>1 DEF AddDirtyNode, IInv, FlagTypes
    <2> QED
      BY <1>1, <2>1, AfterRequest, Zenon DEF AddDirtyNode
  <1>2. ASSUME NEW u \in Updates, AddUpdateTask(u) PROVE IInv'
    BY <1>2, AfterRequest, Zenon DEF AddUpdateTask, IInv, FlagTypes
  <1>3. ASSUME NEW a \in Attaches, RegistryAdapterAttach(a) PROVE IInv'
    BY <1>3, AfterRequest, Zenon DEF RegistryAdapterAttach, IInv, FlagTypes
  <1>4. ASSUME NEW t \in Ticks, RegistryNextTick(t) PROVE IInv'
    BY <1>4, AfterRequest, Zenon DEF RegistryNextTick, IInv, FlagTypes
  <1> QED
    BY <1>1, <1>2, <1>3, <1>4, Zenon DEF QueueWork
-----------------------------------------------------------------------------
(* StillRequested: a step that leaves the flags and the vsync alone keeps  *)
(* the invariant if it does not make MissedWork true.                      *)
LEMMA StillRequested ==
    ASSUME IInv, UNCHANGED <<isRequestVsync, isFlushing, blocked, outstanding>>,
           phase' \in Phases, phase' = "idle" <=> phase = "idle",
           dirty' \in [Kinds -> SUBSET Nodes],
           TicksDrained', MissedWork' => MissedWork
    PROVE  IInv'
  <1>1. FlagTypes' /\ FlushingInPhase' /\ BlockedForCallback' /\ RequestOutstanding'
    BY DEF IInv, FlagTypes, FlushingInPhase, BlockedForCallback, RequestOutstanding
  <1>2. WorkRequested'
    BY DEF IInv, WorkRequested
  <1> QED
    BY <1>1, <1>2, Zenon DEF IInv

(* The three ways nodes leave the queues without a flush, and destruction. *)
LEMMA MainKeeps ==
    ASSUME IInv, \/ FlushPaintLocalSync \/ CleanAllTasks
                 \/ \E n \in Nodes : NodeDies(n)
    PROVE  IInv'
  <1> USE DEF flags, lists, place, vsync
  <1>1. dirty \in [Kinds -> SUBSET Nodes] /\ phase \in Phases /\ TicksDrained
    BY DEF IInv, FlagTypes
  <1>2. CASE FlushPaintLocalSync
    <2>1. /\ dirty' \in [Kinds -> SUBSET Nodes]
          /\ \A k \in Kinds : dirty[k] = {} => dirty'[k] = {}
      BY <1>1, <1>2 DEF FlushPaintLocalSync
    <2>2. MissedWork' => MissedWork
      BY <1>2, <2>1, MissedCases, MissedCasesNext DEF FlushPaintLocalSync, Missed, Kinds
    <2> QED
      BY <1>1, <1>2, <2>1, <2>2, StillRequested DEF FlushPaintLocalSync, TicksDrained
  <1>3. CASE CleanAllTasks
    <2>1. dirty' \in [Kinds -> SUBSET Nodes] /\ \A k \in Kinds : dirty'[k] = {}
      BY <1>3 DEF CleanAllTasks
    <2>2. MissedWork' => MissedWork
      BY <1>3, <2>1, MissedCases, MissedCasesNext DEF CleanAllTasks, Missed, Kinds
    <2> QED
      BY <1>1, <1>3, <2>1, <2>2, StillRequested DEF CleanAllTasks, TicksDrained
  <1>4. ASSUME NEW n \in Nodes, NodeDies(n) PROVE IInv'
    <2>1. /\ dirty' \in [Kinds -> SUBSET Nodes]
          /\ \A k \in Kinds : dirty[k] = {} => dirty'[k] = {}
      BY <1>1, <1>4 DEF NodeDies
    <2>2. MissedWork' => MissedWork
      BY <1>4, <2>1, MissedCases, MissedCasesNext DEF NodeDies, Missed, Kinds
    <2> QED
      BY <1>1, <1>4, <2>1, <2>2, StillRequested DEF NodeDies, TicksDrained
  <1> QED
    BY <1>2, <1>3, <1>4

(* BeginKeeps: a flush begins.  It clears the request, and every queue is  *)
(* still ahead of it.                                                      *)
LEMMA BeginKeeps ==
    ASSUME IInv, BeginFlush, outstanding' \in Nat, blocked' \in BOOLEAN,
           blocked' => outstanding' # 0
    PROVE  IInv'
  <1>1. FlagTypes'
    BY DEF IInv, FlagTypes, BeginFlush, Phases
  <1>2. FlushingInPhase' /\ RequestOutstanding' /\ TicksDrained'
    BY DEF BeginFlush, FlushingInPhase, RequestOutstanding, TicksDrained
  <1>3. ~MissedWork'
    BY MissedCasesNext DEF BeginFlush, Missed
  <1> QED
    BY <1>1, <1>2, <1>3 DEF IInv, BlockedForCallback, WorkRequested

(* VsyncKeeps: a frame arriving, and the flush it starts.                  *)
LEMMA VsyncKeeps == ASSUME IInv, OnVsync \/ FlushOnVsync \/ UpdatePageSync PROVE IInv'
  <1>1. CASE OnVsync
    <2>1. outstanding # 0 /\ outstanding \in Nat
      BY <1>1 DEF OnVsync, IInv, FlagTypes
    <2>2. MissedWork' => MissedWork
      BY <1>1, MissedCases, MissedCasesNext DEF OnVsync, Missed, lists, place
    <2>3. FlagTypes' /\ BlockedForCallback'
      BY <1>1, <2>1 DEF OnVsync, IInv, FlagTypes, BlockedForCallback, flags, place
    <2>4. FlushingInPhase' /\ TicksDrained' /\ RequestOutstanding'
      BY <1>1 DEF OnVsync, IInv, FlushingInPhase, TicksDrained, RequestOutstanding,
                  flags, lists, place
    <2>5. WorkRequested'
      BY <1>1, <2>2 DEF OnVsync, IInv, WorkRequested, flags
    <2> QED
      BY <2>3, <2>4, <2>5 DEF IInv
  <1>2. CASE FlushOnVsync
    <2>1. outstanding - 1 \in Nat
      <3>1. outstanding # 0 /\ outstanding \in Nat
        BY <1>2, Zenon DEF FlushOnVsync, IInv, FlagTypes, BlockedForCallback
      <3> QED
        BY <3>1
    <2>2. blocked' = FALSE /\ outstanding' \in Nat
      BY <1>2, <2>1 DEF FlushOnVsync
    <2> QED
      BY <1>2, <2>2, BeginKeeps DEF FlushOnVsync
  <1>3. CASE UpdatePageSync
    <2>1. outstanding' = outstanding /\ blocked' = blocked
      BY <1>3 DEF UpdatePageSync, vsync
    <2>2. outstanding' \in Nat /\ blocked' \in BOOLEAN /\ (blocked' => outstanding' # 0)
      BY <2>1 DEF IInv, FlagTypes, BlockedForCallback
    <2> QED
      BY <1>3, <2>2, BeginKeeps DEF UpdatePageSync
  <1> QED
    BY <1>1, <1>2, <1>3

-----------------------------------------------------------------------------
(* CallKeeps: a phase takes the next item of its queue.  Only the queue of *)
(* the phase shrinks.                                                      *)
LEMMA CallKeeps ==
    ASSUME IInv, \/ FlushStart \/ FlushStyle \/ FlushLayout \/ FlushNotifyFixed
                 \/ FlushPaint \/ FlushAdapter \/ FlushMount
    PROVE  IInv'
  <1> USE DEF flags, lists, vsync, CallItem
  <1>1. dirty \in [Kinds -> SUBSET Nodes] /\ phase \in Phases /\ TicksDrained
    BY DEF IInv, FlagTypes
  <1>2. /\ UNCHANGED <<flags, lists, phase, vsync>>
        /\ dirty' \in [Kinds -> SUBSET Nodes]
        /\ \A k \in Kinds : dirty[k] = {} => dirty'[k] = {}
    <2>1. CASE FlushStart \/ FlushLayout \/ FlushAdapter \/ FlushMount
      BY <1>1, <2>1 DEF FlushStart, FlushLayout, FlushAdapter, FlushMount
    <2>2. ASSUME NEW k \in Kinds, FlushNodes(k)
          PROVE  /\ UNCHANGED <<flags, lists, phase, vsync>>
                 /\ dirty' \in [Kinds -> SUBSET Nodes]
                 /\ \A j \in Kinds : dirty[j] = {} => dirty'[j] = {}
      BY <1>1, <2>2 DEF FlushNodes
    <2> QED
      BY <2>1, <2>2 DEF FlushStyle, FlushNotifyFixed, FlushPaint, Kinds
  <1>3. MissedWork' => MissedWork
    BY <1>2, MissedCases, MissedCasesNext DEF Missed, Kinds
  <1> QED
    BY <1>1, <1>2, <1>3, StillRequested DEF TicksDrained

(* ReturnKeeps: FlushStart and FlushAdapter pop what they have run.        *)
LEMMA ReturnKeeps == ASSUME IInv, ItemReturns PROVE IInv'
  <1>1. /\ UNCHANGED <<isRequestVsync, isFlushing, blocked, outstanding, dirty, phase,
                       pendingUpdateTasks, nextTickPendingTasks>>
        /\ phase # "start" => nextTickTasks' = nextTickTasks
        /\ phase # "adapter" => adapterAttachTasks' = adapterAttachTasks
    BY DEF ItemReturns, flags, vsync
  <1>2. dirty \in [Kinds -> SUBSET Nodes] /\ phase \in Phases /\ TicksDrained
    BY DEF IInv, FlagTypes
  <1>3. MissedWork' => MissedWork
    BY <1>1, MissedCases, MissedCasesNext DEF Missed
  <1> QED
    BY <1>1, <1>2, <1>3, StillRequested DEF TicksDrained

(* AdvanceKeeps: a phase ends when its queue is empty, so ending it makes  *)
(* no work missed.                                                         *)
LEMMA AdvanceKeeps == ASSUME IInv, Advance PROVE IInv'
  <1>1. UNCHANGED <<isRequestVsync, isFlushing, blocked, outstanding, adapterAttachTasks,
                    nextTickTasks, nextTickPendingTasks>>
    BY DEF Advance, flags, vsync
  <1>2. dirty \in [Kinds -> SUBSET Nodes] /\ phase \in Phases /\ TicksDrained
    BY DEF IInv, FlagTypes
  <1>3. /\ phase' \in Phases
        /\ phase' # "idle" /\ phase # "idle"
        /\ phase = "start" => nextTickTasks = <<>>
        /\ dirty' \in [Kinds -> SUBSET Nodes]
    BY <1>2 DEF Advance, Phases
  <1>4. TicksDrained'
    BY <1>1, <1>2, <1>3 DEF TicksDrained, Phases
  <1>5. MissedWork' => MissedWork
    BY <1>1, <1>2, MissedCases, MissedCasesNext DEF Advance, Missed, Kinds
  <1> QED
    BY <1>1, <1>3, <1>4, <1>5, StillRequested

(* FinishKeeps: what is left at the end of a flush was requested while it  *)
(* ran, except the next ticks, which FlushFinish counts itself; and a      *)
(* request that is left attaches a callback.                               *)
LEMMA FinishKeeps == ASSUME IInv, FlushFinish PROVE IInv'
  <1>1. /\ phase = "mount" /\ phase' = "idle"
        /\ UNCHANGED <<dirty, adapterAttachTasks, pendingUpdateTasks, blocked>>
        /\ nextTickTasks' = nextTickPendingTasks
        /\ nextTickPendingTasks' = nextTickTasks
    BY DEF FlushFinish, Flush, SwapTicks
  <1>2. isRequestVsync' \in BOOLEAN /\ isFlushing' = FALSE
    BY DEF FlushFinish, NextRequested, StopFlushing, IInv, FlagTypes
  <1>3. isRequestVsync' <=> isRequestVsync \/ nextTickPendingTasks # <<>>
    BY Zenon DEF FlushFinish, NextRequested
  <1>4. /\ outstanding' \in Nat
        /\ isRequestVsync' => outstanding' # 0
        /\ outstanding # 0 => outstanding' # 0
    <2>1. outstanding \in Nat
      BY DEF IInv, FlagTypes
    <2>2. CASE isRequestVsync'
      <3>1. outstanding' = outstanding + 1
        BY <2>2, Zenon DEF FlushFinish, attachOneVsync
      <3> QED
        BY <2>1, <3>1
    <2>3. CASE ~isRequestVsync'
      BY <2>1, <2>3, Zenon DEF FlushFinish
    <2> QED
      BY <2>2, <2>3, Zenon
  <1>5. nextTickTasks = <<>>
    BY <1>1 DEF IInv, TicksDrained
  <1>6. FlagTypes'
    BY <1>1, <1>2, <1>4 DEF IInv, FlagTypes, Phases
  <1>7. FlushingInPhase' /\ TicksDrained' /\ BlockedForCallback'
    BY <1>1, <1>2, <1>4 DEF IInv, FlushingInPhase, TicksDrained, BlockedForCallback
  <1>8. RequestOutstanding'
    BY <1>4, PositiveIsNonzero, Zenon DEF RequestOutstanding
  <1>9. WorkRequested'
    <2>1. CASE isRequestVsync'
      BY <2>1, Zenon DEF WorkRequested
    <2>2. CASE ~isRequestVsync'
      <3>1. ~isRequestVsync /\ nextTickPendingTasks = <<>>
        BY <1>3, <2>2, Zenon
      <3>2. ~MissedWork
        BY <3>1, Zenon DEF IInv, WorkRequested
      <3>3. ~MissedWork'
        BY <1>1, <1>5, <3>1, <3>2, MissedCases, MissedCasesNext DEF Missed
      <3> QED
        BY <3>3, Zenon DEF WorkRequested
    <2> QED
      BY <2>1, <2>2, Zenon
  <1> QED
    BY <1>6, <1>7, <1>8, <1>9, Zenon DEF IInv

-----------------------------------------------------------------------------
(* Step: every step keeps the inductive invariant.                         *)
LEMMA Step == IInv /\ [Next]_vars => IInv'
  <1>1. IInv /\ Next => IInv'
    BY QueueWorkKeeps, MainKeeps, VsyncKeeps, CallKeeps, ReturnKeeps, AdvanceKeeps,
       FinishKeeps DEF Next, FlushStep
  <1>2. ASSUME IInv, UNCHANGED vars PROVE IInv'
    <2>1. dirty \in [Kinds -> SUBSET Nodes] /\ phase \in Phases /\ TicksDrained
      BY <1>2 DEF IInv, FlagTypes
    <2>2. MissedWork' => MissedWork
      BY <1>2, MissedCases, MissedCasesNext DEF vars, lists, place, Missed
    <2> QED
      BY <1>2, <2>1, <2>2, StillRequested DEF vars, flags, lists, place, vsync, TicksDrained
  <1> QED
    BY <1>1, <1>2

(* Invariant: the inductive invariant holds in every behaviour.            *)
LEMMA Invariant == Spec => []IInv
  BY InitInvariant, Step, PTL DEF Spec

(* AlwaysRequested: in every behaviour, work that no phase still to come   *)
(* will pick up has a frame requested, whichever handler of whichever      *)
(* phase queued it (dirty_vsync_task.cpp:31-42, 53-72, 230-240).           *)
THEOREM AlwaysRequested == Spec => []WorkRequested
  <1>1. IInv => WorkRequested
    BY DEF IInv
  <1> QED
    BY Invariant, <1>1, PTL

(* RequestIsReal: in every behaviour, updatePageSync included, a request   *)
(* outside a flush has a callback attached to the vsync, so it is not lost *)
(* on the way (dirty_vsync_task.cpp:32, 53, 65).                           *)
THEOREM RequestIsReal == Spec => []RequestOutstanding
  <1>1. IInv => RequestOutstanding
    BY DEF IInv
  <1> QED
    BY Invariant, <1>1, PTL

-----------------------------------------------------------------------------
(* The order of the mount tasks.  FlushMount has moved the queue away and  *)
(* runs it from there, while its tasks fill the queue again.               *)
Mounting == IF phase = "mount" THEN batch ELSE <<>>

(* What was given is what ran, what FlushMount has taken and what waits.   *)
MountInv ==
    /\ mounted \in Seq(Updates)
    /\ Mounting \in Seq(Updates)
    /\ pendingUpdateTasks \in Seq(Updates)
    /\ mountOrder = mounted \o (Mounting \o pendingUpdateTasks)

(* InitMount: nothing has been given.                                      *)
LEMMA InitMount == Init => MountInv
  BY DEF Init, MountInv, Mounting

(* MountUntouched: a step that leaves these lists alone.                   *)
LEMMA MountUntouched ==
  ASSUME MountInv, UNCHANGED <<mountOrder, mounted, pendingUpdateTasks>>, Mounting' = Mounting
  PROVE  MountInv'
  BY DEF MountInv

(* MountStep: the lists of mount tasks through every step.                 *)
LEMMA MountStep == MountInv /\ [Next]_vars => MountInv'
  <1> SUFFICES ASSUME MountInv, [Next]_vars PROVE MountInv'
    OBVIOUS
  <1> USE DEF flags, lists, place, vsync, history
  <1>1. ASSUME NEW u \in Updates, AddUpdateTask(u) PROVE MountInv'
    <2> DEFINE rest == Mounting \o pendingUpdateTasks
    <2>1. /\ pendingUpdateTasks' = Append(pendingUpdateTasks, u)
          /\ mountOrder' = Append(mountOrder, u)
          /\ mounted' = mounted /\ Mounting' = Mounting
      BY <1>1 DEF AddUpdateTask, Mounting
    <2>2. /\ mounted \in Seq(Updates) /\ Mounting \in Seq(Updates)
          /\ pendingUpdateTasks \in Seq(Updates)
      BY DEF MountInv
    <2>3. rest \in Seq(Updates) /\ Mounting \o pendingUpdateTasks' = Append(rest, u)
      BY <2>1, <2>2, ConcatProperties, PushBehind
    <2>4. mounted \o Append(rest, u) = Append(mounted \o rest, u)
      <3> HIDE DEF rest
      <3>1. mounted \in Seq(Updates) /\ rest \in Seq(Updates)
        BY <2>2, <2>3
      <3> QED
        BY <3>1, PushBehind
    <2>5. mountOrder = mounted \o rest
      BY DEF MountInv
    <2>6. pendingUpdateTasks' \in Seq(Updates)
      BY <2>1, <2>2
    <2> HIDE DEF rest
    <2> QED
      BY <2>1, <2>2, <2>3, <2>4, <2>5, <2>6 DEF MountInv
  <1>2. CASE CleanAllTasks
    <2>1. /\ phase = "idle" /\ phase' = "idle" /\ pendingUpdateTasks' = <<>>
          /\ mounted' = mounted /\ mountOrder' = mounted /\ mounted \in Seq(Updates)
      BY <1>2 DEF CleanAllTasks, MountInv
    <2>2. Mounting' = <<>> /\ <<>> \in Seq(Updates) /\ <<>> \o <<>> = <<>>
      BY <2>1 DEF Mounting
    <2>3. mounted \o <<>> = mounted
      BY <2>1, ConcatEmptySeq
    <2> QED
      BY <2>1, <2>2, <2>3, Zenon DEF MountInv
  <1>3. ASSUME NEW n \in Nodes, NodeDies(n) PROVE MountInv'
    <2>1. CASE phase = "mount"
      <3>1. batch \in Seq(Updates) /\ batch' = Without(batch, {n}) /\ phase' = phase
        BY <1>3, <2>1 DEF NodeDies, MountInv, Mounting
      <3>2. ToSet(batch) \cap {n} = {}
        <4>1. \A i \in DOMAIN batch : batch[i] \in Updates
          BY <3>1
        <4> QED
          BY <4>1, ConstantsAssumption DEF ToSet
      <3>3. batch' = batch
        BY <3>1, <3>2, WithoutKeeps
      <3> QED
        BY <1>3, <3>1, <3>3, MountUntouched DEF NodeDies, Mounting
    <2>2. CASE phase # "mount"
      BY <1>3, <2>2, MountUntouched DEF NodeDies, Mounting
    <2> QED
      BY <2>1, <2>2
  <1>4. CASE FlushMount
    <2>1. /\ phase = "mount" /\ phase' = phase /\ batch # <<>>
          /\ batch' = Tail(batch) /\ mounted' = Append(mounted, Head(batch))
          /\ mountOrder' = mountOrder /\ pendingUpdateTasks' = pendingUpdateTasks
      BY <1>4 DEF FlushMount, Flush, CallItem
    <2>2. /\ mounted \in Seq(Updates) /\ batch \in Seq(Updates)
          /\ pendingUpdateTasks \in Seq(Updates)
          /\ mountOrder = mounted \o (batch \o pendingUpdateTasks)
      BY <2>1 DEF MountInv, Mounting
    <2>3. Head(batch) \in Updates /\ Tail(batch) \in Seq(Updates)
      BY <2>1, <2>2, TailWithin
    <2>4. mounted' \in Seq(Updates)
      BY <2>1, <2>2, <2>3
    <2>5. mounted' \o (Tail(batch) \o pendingUpdateTasks)
             = mounted \o (batch \o pendingUpdateTasks)
      <3>1. SameRow(mounted, batch, pendingUpdateTasks)
        BY <2>1, <2>2, MoveAcross
      <3> QED
        BY <2>1, <3>1, Zenon DEF SameRow
    <2>6. Mounting' = Tail(batch)
      BY <2>1 DEF Mounting
    <2> QED
      BY <2>1, <2>2, <2>3, <2>4, <2>5, <2>6 DEF MountInv
  <1>5. CASE Advance
    <2>1. CASE phase = "adapter"
      <3>1. /\ phase' = "mount" /\ batch' = pendingUpdateTasks /\ pendingUpdateTasks' = <<>>
            /\ mounted' = mounted /\ mountOrder' = mountOrder
        BY <1>5, <2>1 DEF Advance
      <3>2. /\ Mounting = <<>> /\ Mounting' = pendingUpdateTasks
            /\ mounted \in Seq(Updates) /\ pendingUpdateTasks \in Seq(Updates)
            /\ mountOrder = mounted \o (<<>> \o pendingUpdateTasks)
        BY <2>1, <3>1 DEF Mounting, MountInv
      <3>3. <<>> \o pendingUpdateTasks = pendingUpdateTasks \o <<>>
        BY <3>2, ConcatEmptySeq
      <3>4. <<>> \in Seq(Updates)
        OBVIOUS
      <3> QED
        BY <3>1, <3>2, <3>3, <3>4, Zenon DEF MountInv
    <2>2. CASE phase # "adapter"
      <3>1. /\ phase # "mount" /\ phase' # "mount"
            /\ UNCHANGED <<mountOrder, mounted, pendingUpdateTasks>>
        BY <1>5, <2>2 DEF Advance
      <3> QED
        BY <3>1, MountUntouched DEF Mounting
    <2> QED
      BY <2>1, <2>2
  <1>6. CASE FlushFinish
    <2>1. /\ batch = <<>> /\ phase' = "idle"
          /\ UNCHANGED <<mountOrder, mounted, pendingUpdateTasks>>
      BY <1>6 DEF FlushFinish
    <2> QED
      BY <2>1, MountUntouched DEF Mounting
  <1>7. CASE FlushLayout
    BY <1>7, MountUntouched DEF FlushLayout, Flush, CallItem, Mounting
  <1>8. ASSUME BeginFlush PROVE MountInv'
    BY <1>8, MountUntouched DEF BeginFlush, Mounting
  <1>9. ASSUME NEW k \in Kinds, NEW n \in Nodes, AddDirtyNode(k, n) PROVE MountInv'
    BY <1>9, MountUntouched DEF AddDirtyNode, Mounting
  <1>10. ASSUME NEW a \in Attaches, RegistryAdapterAttach(a) PROVE MountInv'
    BY <1>10, MountUntouched DEF RegistryAdapterAttach, Mounting
  <1>11. ASSUME NEW t \in Ticks, RegistryNextTick(t) PROVE MountInv'
    BY <1>11, MountUntouched DEF RegistryNextTick, Mounting
  <1>12. ASSUME NEW k \in Kinds, FlushNodes(k) PROVE MountInv'
    BY <1>12, MountUntouched DEF FlushNodes, CallItem, Mounting
  <1>13. CASE FlushPaintLocalSync \/ OnVsync
    BY <1>13, MountUntouched DEF FlushPaintLocalSync, OnVsync, Mounting
  <1>14. CASE FlushStart \/ FlushAdapter
    BY <1>14, MountUntouched DEF FlushStart, FlushAdapter, CallItem, Mounting
  <1>15. CASE ItemReturns
    BY <1>15, MountUntouched DEF ItemReturns, Mounting
  <1>16. CASE UNCHANGED vars
    BY <1>16, MountUntouched DEF vars, Mounting
  <1>17. CASE QueueWork
    BY <1>1, <1>9, <1>10, <1>11, <1>17, Zenon DEF QueueWork
  <1>18. CASE FlushStep
    BY <1>4, <1>5, <1>6, <1>7, <1>12, <1>14, <1>15, <1>18
       DEF FlushStep, FlushStyle, FlushNotifyFixed, FlushPaint, Kinds
  <1> QED
    BY <1>2, <1>3, <1>8, <1>13, <1>16, <1>17, <1>18 DEF Next, FlushOnVsync, UpdatePageSync

(* MountsInOrder: in every behaviour mount tasks run in the order they     *)
(* were given, across flushes, and although FlushMount runs its queue from *)
(* a copy while the tasks it runs queue more                               *)
(* (dirty_vsync_task.cpp:26-29, 218-228).                                  *)
THEOREM MountsInOrder == Spec => []MountOrder
  <1>1. MountInv => MountOrder
    <2> SUFFICES ASSUME MountInv PROVE MountOrder
      OBVIOUS
    <2>1. mounted \in Seq(Updates) /\ Mounting \o pendingUpdateTasks \in Seq(Updates)
      BY ConcatProperties DEF MountInv
    <2> QED
      BY <2>1, PrefixOfConcat DEF MountInv, MountOrder
  <1> QED
    BY InitMount, MountStep, <1>1, PTL DEF Spec

-----------------------------------------------------------------------------
(* The age of the next ticks.  One flush runs nextTickTasks, and gives the *)
(* other list to the next flush, so a tick is at most one flush old when   *)
(* its list is given over.                                                 *)
TickTypes ==
    /\ nextTickTasks \in Seq(Ticks)
    /\ nextTickPendingTasks \in Seq(Ticks)
    /\ WaitingTicks \subseteq offered
    /\ age \in [Ticks -> Nat]
    /\ \A t \in Ticks : t \notin offered => age[t] = 0

(* What a phase is running; FlushStart pops it only when it returns.       *)
Running ==
    item # None => phase # "idle" /\ (phase = "start" => nextTickTasks # <<>>)

TickAges ==
    /\ phase = "idle" => /\ \A t \in ToSet(nextTickTasks) : age[t] < 2
                         /\ \A t \in ToSet(nextTickPendingTasks) : age[t] = 0
    /\ phase # "idle" => \A t \in ToSet(nextTickPendingTasks) : age[t] < 2

TickInv == TickTypes /\ Running /\ TickAges

(* InitTicks: no tick has been given.                                      *)
LEMMA InitTicks == Init => TickInv
  <1> SUFFICES ASSUME Init PROVE TickInv
    OBVIOUS
  <1>1. ToSet(<<>>) = {}
    BY DEF ToSet
  <1> QED
    BY <1>1 DEF Init, TickInv, TickTypes, Running, TickAges, WaitingTicks

(* TicksUntouched: a step that leaves the ticks alone, inside or outside a *)
(* flush.                                                                  *)
LEMMA TicksUntouched ==
  ASSUME TickInv, UNCHANGED <<nextTickTasks, nextTickPendingTasks, age>>,
         offered \subseteq offered', phase' = "idle" <=> phase = "idle", Running'
  PROVE  TickInv'
  BY DEF TickInv, TickTypes, TickAges, WaitingTicks

(* TickStep: the ticks and their ages through every step.                  *)
LEMMA TickStep == TickInv /\ IInv /\ [Next]_vars => TickInv'
  <1> SUFFICES ASSUME TickInv, IInv, [Next]_vars PROVE TickInv'
    OBVIOUS
  <1> USE DEF flags, lists, place, vsync, history
  <1>1. ASSUME NEW t \in Ticks, RegistryNextTick(t) PROVE TickInv'
    <2>1. /\ t \notin offered /\ offered' = offered \cup {t}
          /\ nextTickPendingTasks' = Append(nextTickPendingTasks, t)
          /\ UNCHANGED <<nextTickTasks, age, phase, item>>
      BY <1>1 DEF RegistryNextTick
    <2>2. nextTickPendingTasks \in Seq(Ticks) /\ age[t] = 0 /\ 0 < 2
      BY <2>1 DEF TickInv, TickTypes
    <2>3. ToSet(nextTickPendingTasks') = ToSet(nextTickPendingTasks) \cup {t}
      BY <2>1, <2>2, AppendedSet
    <2>4. nextTickPendingTasks' \in Seq(Ticks)
      BY <2>1, <2>2
    <2>5. TickTypes'
      BY <2>1, <2>3, <2>4 DEF TickInv, TickTypes, WaitingTicks
    <2>6. Running' /\ TickAges'
      BY <2>1, <2>2, <2>3 DEF TickInv, Running, TickAges
    <2> QED
      BY <2>5, <2>6 DEF TickInv
  <1>2. CASE CleanAllTasks
    <2>1. /\ nextTickTasks' = <<>> /\ phase = "idle"
          /\ UNCHANGED <<nextTickPendingTasks, age, offered, phase, item>>
      BY <1>2 DEF CleanAllTasks
    <2>2. ToSet(<<>>) = {} /\ <<>> \in Seq(Ticks)
      BY DEF ToSet
    <2> QED
      BY <2>1, <2>2 DEF TickInv, TickTypes, Running, TickAges, WaitingTicks
  <1>3. ASSUME BeginFlush PROVE TickInv'
    <2> DEFINE waits(t) == t \in ToSet(nextTickTasks) \/ t \in ToSet(nextTickPendingTasks)
    <2>1. /\ phase = "idle" /\ phase' = "start"
          /\ age' = [t \in Ticks |-> age[t] + IF waits(t) THEN 1 ELSE 0]
          /\ UNCHANGED <<nextTickTasks, nextTickPendingTasks, offered, item>>
      BY <1>3 DEF BeginFlush
    <2>2. \A t \in Ticks : age[t] \in Nat
      BY DEF TickInv, TickTypes
    <2>3. WaitingTicks = {t \in WaitingTicks : waits(t)} /\ \A t : waits(t) => t \in offered
      BY DEF TickInv, TickTypes, WaitingTicks
    <2>4. item = None
      BY <2>1 DEF TickInv, Running
    <2> HIDE DEF waits
    <2>5. TickTypes'
      BY <2>1, <2>2, <2>3 DEF TickInv, TickTypes, WaitingTicks
    <2>6. Running'
      BY <2>1, <2>4 DEF Running
    <2>7. TickAges'
      <3> SUFFICES ASSUME NEW t \in ToSet(nextTickPendingTasks) PROVE age'[t] < 2
        BY <2>1 DEF TickAges
      <3>1. age[t] = 0
        BY <2>1 DEF TickInv, TickAges
      <3>2. t \in Ticks
        BY DEF TickInv, TickTypes, ToSet
      <3> QED
        BY <2>1, <3>1, <3>2
    <2> QED
      BY <2>5, <2>6, <2>7 DEF TickInv
  <1>4. CASE ItemReturns
    <2>1. /\ item # None /\ item' = None
          /\ UNCHANGED <<phase, nextTickPendingTasks, age, offered>>
          /\ nextTickTasks' = IF phase = "start" THEN Tail(nextTickTasks) ELSE nextTickTasks
      BY <1>4 DEF ItemReturns
    <2>2. phase # "idle" /\ (phase = "start" => nextTickTasks # <<>>)
      BY <2>1 DEF TickInv, Running
    <2>3. nextTickTasks' \in Seq(Ticks) /\ ToSet(nextTickTasks') \subseteq ToSet(nextTickTasks)
      <3>1. nextTickTasks \in Seq(Ticks)
        BY DEF TickInv, TickTypes
      <3>2. CASE phase = "start"
        BY <2>1, <2>2, <3>1, <3>2, TailWithin
      <3>3. CASE phase # "start"
        BY <2>1, <3>1, <3>3
      <3> QED
        BY <3>2, <3>3
    <2> QED
      BY <2>1, <2>2, <2>3 DEF TickInv, TickTypes, Running, TickAges, WaitingTicks
  <1>5. CASE FlushFinish
    <2>1. /\ phase = "mount" /\ phase' = "idle"
          /\ nextTickTasks' = nextTickPendingTasks /\ nextTickPendingTasks' = nextTickTasks
          /\ item = None /\ UNCHANGED <<age, offered, item>>
      BY <1>5 DEF FlushFinish, Flush, SwapTicks
    <2>2. nextTickTasks = <<>> /\ ToSet(nextTickTasks) = {}
      BY <2>1 DEF IInv, TicksDrained, ToSet
    <2> QED
      BY <2>1, <2>2 DEF TickInv, TickTypes, Running, TickAges, WaitingTicks
  <1>6. CASE Advance
    <2>1. phase # "idle" /\ phase' # "idle" /\ item' = None
      BY <1>6 DEF Advance
    <2> QED
      BY <1>6, <2>1, TicksUntouched DEF Advance, Running
  <1>7. CASE FlushStart
    <2>1. Running'
      BY <1>7 DEF FlushStart, Flush, CallItem, Running
    <2> QED
      BY <1>7, <2>1, TicksUntouched DEF FlushStart, CallItem
  <1>8. CASE FlushLayout \/ FlushAdapter \/ FlushMount
    <2>1. Running'
      BY <1>8 DEF FlushLayout, FlushAdapter, FlushMount, Flush, CallItem, Running
    <2> QED
      BY <1>8, <2>1, TicksUntouched DEF FlushLayout, FlushAdapter, FlushMount, CallItem
  <1>9. ASSUME NEW k \in Kinds, FlushNodes(k) PROVE TickInv'
    <2>1. Running'
      BY <1>9 DEF FlushNodes, Flush, CallItem, Running, Kinds
    <2> QED
      BY <1>9, <2>1, TicksUntouched DEF FlushNodes, CallItem
  <1>10. ASSUME NEW k \in Kinds, NEW n \in Nodes, AddDirtyNode(k, n) PROVE TickInv'
    BY <1>10, TicksUntouched DEF AddDirtyNode, TickInv, Running
  <1>11. ASSUME NEW u \in Updates, AddUpdateTask(u) PROVE TickInv'
    BY <1>11, TicksUntouched DEF AddUpdateTask, TickInv, Running
  <1>12. ASSUME NEW a \in Attaches, RegistryAdapterAttach(a) PROVE TickInv'
    BY <1>12, TicksUntouched DEF RegistryAdapterAttach, TickInv, Running
  <1>13. ASSUME NEW n \in Nodes, NodeDies(n) PROVE TickInv'
    BY <1>13, TicksUntouched DEF NodeDies, TickInv, Running
  <1>14. CASE FlushPaintLocalSync \/ OnVsync
    BY <1>14, TicksUntouched DEF FlushPaintLocalSync, OnVsync, TickInv, Running
  <1>15. CASE UNCHANGED vars
    BY <1>15, TicksUntouched DEF vars, TickInv, Running
  <1>16. CASE QueueWork
    BY <1>1, <1>10, <1>11, <1>12, <1>16, Zenon DEF QueueWork
  <1>17. CASE FlushStep
    BY <1>4, <1>5, <1>6, <1>7, <1>8, <1>9, <1>17
       DEF FlushStep, FlushStyle, FlushNotifyFixed, FlushPaint, Kinds
  <1> QED
    BY <1>2, <1>3, <1>13, <1>14, <1>15, <1>16, <1>17 DEF Next, FlushOnVsync, UpdatePageSync

(* TicksRunInTwo: in every behaviour, destruction included, a next-tick    *)
(* callback still waiting after a flush has seen at most one flush begin,  *)
(* so the second one runs it (dirty_vsync_task.cpp:105-113, 230-240).      *)
THEOREM TicksRunInTwo == Spec => []NextTickInTwo
  <1>1. TickInv => NextTickInTwo
    <2> SUFFICES ASSUME TickInv, phase = "idle", NEW t \in WaitingTicks PROVE age[t] < 2
      BY DEF NextTickInTwo
    <2>1. age[t] < 2 \/ age[t] = 0
      BY DEF TickInv, TickAges, WaitingTicks
    <2> QED
      BY <2>1
  <1>2. TickInv /\ IInv /\ [Next]_vars => TickInv'
    BY TickStep
  <1> QED
    BY InitTicks, Invariant, <1>1, <1>2, PTL DEF Spec
=============================================================================
