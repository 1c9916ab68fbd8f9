---------------------------- MODULE FramePipeline ----------------------------
(***************************************************************************)
(* DirtyTaskPipeline on top of KeyframeVsync("dirty"), as                  *)
(* runtime/dirty_vsync_task.cpp wires them: RequestNextFrame and the end   *)
(* of a flush call attachOneVsync, and the callback OnVsync, run by the    *)
(* vsync thread inside onFrame, blocks that thread until MAIN has run      *)
(* FlushUpdateTasks.                                                       *)
(***************************************************************************)
EXTENDS Naturals, Sequences, FiniteSets, SequencesExt

CONSTANTS
    MaxIds,         \* ids that genId may hand out; a run needs one per request
    MaxFailures,
    Nodes, Ticks, Updates, Attaches, None, MaxDirty, MayUpdateSync, MayClean

VARIABLES
    (* KeyframeVsync("dirty"). *)
    vsync_fun, tmp_vsync_fun, tmp_delete_id, has_vsync, requests, frame, next,
    failures, bindFailed, attachOrder, ran, removed,
    (* DirtyTaskPipeline. *)
    isRequestVsync, isFlushing, dirty, adapterAttachTasks, pendingUpdateTasks,
    nextTickTasks, nextTickPendingTasks, phase, item, batch, dirtied, offered,
    mountOrder, mounted, age,
    (* runSyncTask(MAIN) of the vsync thread. *)
    served      \* callbacks whose FlushUpdateTasks has begun

ASSUME ConstantsAssumption ==
    /\ MaxIds \in Nat
    /\ MaxFailures \in Nat
    /\ None \notin Nodes \cup Ticks \cup Updates \cup Attaches
    /\ Nodes \cap Updates = {}
    /\ MaxDirty \in Nat
    /\ MayUpdateSync \in BOOLEAN
    /\ MayClean \in BOOLEAN

Callbacks == 1 .. MaxIds

Keyframe == INSTANCE KeyframeVsync WITH
    OneShot <- Callbacks, Priority <- [c \in Callbacks |-> 0]

(* The vsync thread waits for the flush of the callback it is in.          *)
InOnVsync == frame = "call"
Waiting == InOnVsync /\ vsync_fun[next] \notin served

Pipeline == INSTANCE DirtyTaskPipeline WITH
    outstanding <- Cardinality(ToSet(attachOrder) \ served),
    blocked <- Waiting

keyframeVars == <<vsync_fun, tmp_vsync_fun, tmp_delete_id, has_vsync, requests,
                  frame, next, failures, bindFailed, attachOrder, ran, removed>>
pipelineVars == <<isRequestVsync, isFlushing, dirty, adapterAttachTasks,
                  pendingUpdateTasks, nextTickTasks, nextTickPendingTasks, phase,
                  item, batch, dirtied, offered, mountOrder, mounted, age>>
vars == <<keyframeVars, pipelineVars, served>>

Init == Keyframe!Init /\ served = {} /\ Pipeline!Init

-----------------------------------------------------------------------------
(* attachOneVsync happens in the steps of MAIN whose step of the pipeline  *)
(* raises `outstanding', and in no other.  genId counts from one.          *)
MayAttach ==
    /\ UNCHANGED served
    /\ \/ UNCHANGED keyframeVars
       \/ Len(attachOrder) < MaxIds /\ Keyframe!Attach(Len(attachOrder) + 1)

(* Work queued by MAIN, or by what a flush is running.                     *)
QueueWork == MayAttach /\ Pipeline!QueueWork

(* The rest of MAIN's steps outside a flush.                               *)
MainOnly ==
    /\ UNCHANGED <<keyframeVars, served>>
    /\ \/ Pipeline!FlushPaintLocalSync
       \/ \E n \in Nodes : Pipeline!NodeDies(n)
       \/ Pipeline!CleanAllTasks
       \/ Pipeline!UpdatePageSync

FlushStep == MayAttach /\ Pipeline!FlushStep

(* The task of OnVsync begins on MAIN.                                     *)
FlushOnVsync ==
    /\ Waiting
    /\ served' = served \cup {vsync_fun[next]}
    /\ UNCHANGED keyframeVars
    /\ Pipeline!FlushOnVsync

ReturnEarly ==  \* variant: OnVsync does not wait for MAIN
    /\ InOnVsync
    /\ Keyframe!ReturnFun
    /\ UNCHANGED <<pipelineVars, served>>

(* runSyncTask returns to onFrame when the flush has ended.                *)
ReturnFromOnVsync ==
    /\ InOnVsync
    /\ ~Waiting
    /\ ~isFlushing
    /\ Keyframe!ReturnFun
    /\ UNCHANGED <<pipelineVars, served>>

VsyncThread ==
    /\ \/ Keyframe!BeginFrame \/ Keyframe!CallFun \/ Keyframe!EndLoop
       \/ Keyframe!RebindUnlocked \/ Keyframe!ClearAfterFailure \/ Keyframe!RebindLocked
    /\ UNCHANGED <<pipelineVars, served>>

Next ==
    \/ QueueWork \/ MainOnly \/ FlushStep \/ FlushOnVsync
    \/ ReturnFromOnVsync \/ VsyncThread

Spec == Init /\ [][Next]_vars

Fairness ==
    /\ WF_vars(VsyncThread)
    /\ WF_vars(FlushOnVsync)
    /\ WF_vars(FlushStep)
    /\ WF_vars(ReturnFromOnVsync)

FairSpec == Spec /\ Fairness

-----------------------------------------------------------------------------
(* ImplementsPipeline: with the real vsync underneath the pipeline still   *)
(* is the one DirtyTaskPipeline specifies (dirty_vsync_task.cpp:35-48).    *)
ImplementsPipeline == Pipeline!Spec

(* WorkGetsDone: whatever is queued leaves the queues, through the flushes *)
(* it waits for or because it was cleaned, unless RequestFrame fails: the  *)
(* flush that MAIN runs for the vsync thread may ask for the next frame    *)
(* while that thread is still in onFrame (dirty_vsync_task.cpp:31-72,      *)
(* keyframe_vsync.cpp:112-130).  The work of an instance is finite, so the *)
(* queues are all empty in the end.                                        *)
NothingQueued ==
    /\ \A k \in Pipeline!Kinds : dirty[k] = {}
    /\ adapterAttachTasks = <<>>
    /\ pendingUpdateTasks = <<>>
    /\ Pipeline!WaitingTicks = {}

WorkGetsDone == ~NothingQueued ~> NothingQueued \/ bindFailed

(* NothingForgotten: when the vsync thread is at rest and no frame is owed,*)
(* nothing is queued, unless RequestFrame failed.                          *)
NothingForgotten ==
    Pipeline!MissedWork /\ ~isFlushing /\ ~bindFailed => has_vsync

(* LaterBindRecovers: after a failed RequestFrame has_vsync is cleared "in *)
(* the hope that another bind triggers" (keyframe_vsync.cpp:152): a task   *)
(* queued then, outside a flush, asks for a frame again.                   *)
LaterBindRecovers ==
    [][bindFailed /\ ~has_vsync /\ ~isFlushing /\ QueueWork
          => has_vsync' \/ failures' > failures]_vars
=============================================================================
