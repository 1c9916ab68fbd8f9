-------------------------- MODULE DirtyTaskPipeline --------------------------
(***************************************************************************)
(* runtime/dirty_vsync_task.{h,cpp}: the rendering pipeline of the MAIN    *)
(* thread.  Work is queued by kind; the first request attaches a one-shot  *)
(* callback to the "dirty" vsync, whose thread calls FlushUpdateTasks on   *)
(* MAIN through runSyncTask.  A flush goes through its phases in order,    *)
(* and what a phase runs may queue more work of every kind.                *)
(*                                                                         *)
(* Style, layout, fixed and paint nodes are UniqueWeakPtrQueues, of which  *)
(* only membership matters here; the others are lists of closures.  JS     *)
(* calls FlushUpdateTasks directly through updatePageSync, here only       *)
(* outside a flush.                                                        *)
(***************************************************************************)
EXTENDS Lists

CONSTANTS
    Nodes,          \* elements or render nodes
    Ticks,          \* callbacks given to RegistryNextTick, once each
    Updates,        \* mount tasks given to AddUpdateTask, once each
    Attaches,       \* tasks given to RegistryAdapterAttach, once each
    None,           \* no handler is running
    MaxDirty,       \* bound on the calls of the four AddDirty functions
    MayUpdateSync,  \* whether JS calls updatePageSync
    MayClean        \* whether the ability is destroyed (CleanAllTasks)

ASSUME ConstantsAssumption ==
    /\ None \notin Nodes \cup Ticks \cup Updates \cup Attaches
    /\ Nodes \cap Updates = {}
    /\ MaxDirty \in Nat
    /\ MayUpdateSync \in BOOLEAN
    /\ MayClean \in BOOLEAN

VARIABLES
    isRequestVsync,        \* isRequestVsync_
    isFlushing,            \* isFlushing_
    dirty,                 \* dirty[k]: dirtyStyleNodes_, dirtyLayoutNodes_,
                           \* notifyFixedRootNodes_, dirtyPaintNodes_
    adapterAttachTasks,
    pendingUpdateTasks,
    nextTickTasks,
    nextTickPendingTasks,
    phase,                 \* the Flush function in progress
    item,                  \* what that function is running
    batch,                 \* the queue FlushLayout or FlushMount moved out
    outstanding,           \* one-shot callbacks attached to the dirty vsync
                           \* whose flush has not begun
    blocked,               \* the vsync thread is in runSyncTask(MAIN)
    dirtied,               \* calls of the AddDirty functions so far
    offered,               \* all ticks, updates and attaches given so far
    mountOrder,            \* updates in the order given, cleaned ones left out
    mounted,               \* updates in the order run (history)
    age                    \* age[t]: flushes begun since tick t was given

flags == <<isRequestVsync, isFlushing>>
lists == <<adapterAttachTasks, pendingUpdateTasks, nextTickTasks, nextTickPendingTasks>>
place == <<phase, item, batch>>
vsync == <<outstanding, blocked>>
history == <<mountOrder, mounted, age>>
vars == <<flags, dirty, lists, place, vsync, dirtied, offered, history>>

-----------------------------------------------------------------------------
Kinds == {"style", "layout", "fixed", "paint"}
Phases == {"idle", "start", "style", "layout", "fixed", "paint", "adapter",
           "mount"}

TypeOK ==
    /\ isRequestVsync \in BOOLEAN
    /\ isFlushing \in BOOLEAN
    /\ dirty \in [Kinds -> SUBSET Nodes]
    /\ adapterAttachTasks \in Seq(Attaches)
    /\ pendingUpdateTasks \in Seq(Updates)
    /\ nextTickTasks \in Seq(Ticks)
    /\ nextTickPendingTasks \in Seq(Ticks)
    /\ phase \in Phases
    /\ item \in Nodes \cup Ticks \cup Updates \cup Attaches \cup {None}
    /\ batch \in Seq(Nodes \cup Updates)
    /\ isFlushing <=> phase # "idle"
    /\ item # None => isFlushing
    /\ batch # <<>> => phase \in {"layout", "mount"}
    /\ outstanding \in Nat
    /\ blocked \in BOOLEAN
    /\ dirtied \in 0 .. MaxDirty
    /\ offered \in SUBSET (Ticks \cup Updates \cup Attaches)
    /\ mountOrder \in Seq(Updates)
    /\ mounted \in Seq(Updates)
    /\ age \in [Ticks -> Nat]

Init ==
    /\ isRequestVsync = FALSE
    /\ isFlushing = FALSE
    /\ dirty = [k \in Kinds |-> {}]
    /\ adapterAttachTasks = <<>>
    /\ pendingUpdateTasks = <<>>
    /\ nextTickTasks = <<>>
    /\ nextTickPendingTasks = <<>>
    /\ phase = "idle"
    /\ item = None
    /\ batch = <<>>
    /\ outstanding = 0
    /\ blocked = FALSE
    /\ dirtied = 0
    /\ offered = {}
    /\ mountOrder = <<>>
    /\ mounted = <<>>
    /\ age = [t \in Ticks |-> 0]

-----------------------------------------------------------------------------
(* Code that queues work runs on MAIN: outside a flush, or in what a phase *)
(* is running.                                                             *)
MainRunsCode == phase = "idle" \/ item # None

attachOneVsync == outstanding' = outstanding + 1

RequestOnly ==  \* variant: nothing is attached
    /\ isRequestVsync' = TRUE
    /\ UNCHANGED <<isFlushing, blocked, outstanding>>

RequestNextFrame ==
    /\ isRequestVsync' = TRUE
    /\ IF ~isRequestVsync /\ ~isFlushing
       THEN attachOneVsync
       ELSE UNCHANGED outstanding
    /\ UNCHANGED <<isFlushing, blocked>>

(* AddDirtyStyleNode, AddDirtyLayoutNode, AddNotifyFixedRootNodes and      *)
(* AddDirtyPaintNode.                                                      *)
AddDirtyNode(k, n) ==
    /\ MainRunsCode
    /\ dirtied < MaxDirty
    /\ dirtied' = dirtied + 1
    /\ dirty' = [dirty EXCEPT ![k] = @ \cup {n}]
    /\ RequestNextFrame
    /\ UNCHANGED <<lists, place, offered, history>>

AddUpdateTask(u) ==
    /\ MainRunsCode
    /\ u \notin offered
    /\ offered' = offered \cup {u}
    /\ pendingUpdateTasks' = Append(pendingUpdateTasks, u)
    /\ mountOrder' = Append(mountOrder, u)
    /\ RequestNextFrame
    /\ UNCHANGED <<dirty, adapterAttachTasks, nextTickTasks, nextTickPendingTasks,
                   place, dirtied, mounted, age>>

RegistryAdapterAttach(a) ==
    /\ MainRunsCode
    /\ a \notin offered
    /\ offered' = offered \cup {a}
    /\ adapterAttachTasks' = Append(adapterAttachTasks, a)
    /\ RequestNextFrame
    /\ UNCHANGED <<dirty, pendingUpdateTasks, nextTickTasks, nextTickPendingTasks,
                   place, dirtied, history>>

RegistryNextTick(t) ==
    /\ MainRunsCode
    /\ t \notin offered
    /\ offered' = offered \cup {t}
    /\ nextTickPendingTasks' = Append(nextTickPendingTasks, t)
    /\ RequestNextFrame
    /\ UNCHANGED <<dirty, adapterAttachTasks, pendingUpdateTasks, nextTickTasks,
                   place, dirtied, history>>

(* FlushPaintLocalSync, called while a lazy container attaches a row: the  *)
(* paint nodes of one subtree are painted at once.                         *)
FlushPaintLocalSync ==
    /\ MainRunsCode
    /\ \E painted \in SUBSET dirty["paint"] \ {{}} :
          dirty' = [dirty EXCEPT !["paint"] = @ \ painted]
    /\ UNCHANGED <<flags, lists, place, vsync, dirtied, offered, history>>

(* A node dies: its weak_ptr expires and the queues will skip it.          *)
NodeDies(n) ==
    /\ MainRunsCode
    /\ \E k \in Kinds : n \in dirty[k]
    /\ dirty' = [k \in Kinds |-> dirty[k] \ {n}]
    /\ batch' = Without(batch, {n})
    /\ UNCHANGED <<flags, lists, phase, item, vsync, dirtied, offered, history>>

(* onEntryAbilityEvent("destroy").  nextTickPendingTasks_ is not cleared.  *)
CleanAllTasks ==
    /\ MayClean
    /\ phase = "idle"
    /\ dirty' = [k \in Kinds |-> {}]
    /\ pendingUpdateTasks' = <<>>
    /\ adapterAttachTasks' = <<>>
    /\ nextTickTasks' = <<>>
    /\ mountOrder' = mounted
    /\ UNCHANGED <<flags, nextTickPendingTasks, place, vsync, dirtied, offered, mounted, age>>

-----------------------------------------------------------------------------
(* The vsync thread runs the one-shot callbacks of a frame one after       *)
(* another; OnVsync blocks it until MAIN has run FlushUpdateTasks.         *)
OnVsync ==
    /\ outstanding > 0
    /\ ~blocked
    /\ blocked' = TRUE
    /\ UNCHANGED <<flags, dirty, lists, place, outstanding, dirtied, offered, history>>

(* FlushUpdateTasks, called by OnVsync's task or by updatePageSync.        *)
BeginFlush ==
    /\ phase = "idle"
    /\ isRequestVsync' = FALSE
    /\ isFlushing' = TRUE
    /\ phase' = "start"
    /\ age' = [t \in Ticks |-> age[t] + IF \/ t \in ToSet(nextTickTasks)
                                           \/ t \in ToSet(nextTickPendingTasks)
                                        THEN 1 ELSE 0]
    /\ UNCHANGED <<dirty, lists, item, batch, dirtied, offered, mountOrder, mounted>>

FlushOnVsync ==
    /\ blocked
    /\ BeginFlush
    /\ blocked' = FALSE
    /\ outstanding' = outstanding - 1

UpdatePageSync ==
    /\ MayUpdateSync
    /\ BeginFlush
    /\ UNCHANGED vsync

(* The Flush functions.  FlushStart and FlushAdapter call the front of     *)
(* their list and pop it afterwards; FlushStyle, FlushNotifyFixed and      *)
(* FlushPaint pop until nothing is left; FlushLayout and FlushMount moved  *)
(* their queue to `batch' on entry.                                        *)
Flush(p) == phase = p /\ item = None

CallItem(i) ==
    /\ item' = i
    /\ UNCHANGED <<flags, lists, phase, vsync, dirtied, offered, mountOrder, age>>

FlushStart ==
    /\ Flush("start")
    /\ nextTickTasks # <<>>
    /\ CallItem(Head(nextTickTasks))
    /\ UNCHANGED <<dirty, batch, mounted>>

FlushNodes(k) ==
    /\ Flush(k)
    /\ \E n \in dirty[k] :
          /\ CallItem(n)
          /\ dirty' = [dirty EXCEPT ![k] = @ \ {n}]
    /\ UNCHANGED <<batch, mounted>>

FlushStyle == FlushNodes("style")
FlushNotifyFixed == FlushNodes("fixed")
FlushPaint == FlushNodes("paint")

FlushLayout ==
    /\ Flush("layout")
    /\ batch # <<>>
    /\ CallItem(Head(batch))
    /\ batch' = Tail(batch)
    /\ UNCHANGED <<dirty, mounted>>

FlushAdapter ==
    /\ Flush("adapter")
    /\ adapterAttachTasks # <<>>
    /\ CallItem(Head(adapterAttachTasks))
    /\ UNCHANGED <<dirty, batch, mounted>>

FlushMountLast ==  \* variant: a stack for a queue
    /\ Flush("mount")
    /\ batch # <<>>
    /\ CallItem(Last(batch))
    /\ batch' = Front(batch)
    /\ mounted' = Append(mounted, Last(batch))
    /\ UNCHANGED dirty

FlushMount ==
    /\ Flush("mount")
    /\ batch # <<>>
    /\ CallItem(Head(batch))
    /\ batch' = Tail(batch)
    /\ mounted' = Append(mounted, Head(batch))
    /\ UNCHANGED dirty

ItemReturns ==
    /\ item # None
    /\ item' = None
    /\ nextTickTasks' = IF phase = "start" THEN Tail(nextTickTasks) ELSE nextTickTasks
    /\ adapterAttachTasks' = IF phase = "adapter" THEN Tail(adapterAttachTasks)
                                                  ELSE adapterAttachTasks
    /\ UNCHANGED <<flags, dirty, pendingUpdateTasks, nextTickPendingTasks, phase,
                   batch, vsync, dirtied, offered, history>>

(* A Flush function with nothing left hands over to the next one.          *)
Advance ==
    /\ item = None
    /\ \/ /\ phase = "start" /\ nextTickTasks = <<>>
          /\ phase' = "style"
          /\ UNCHANGED <<dirty, pendingUpdateTasks, batch>>
       \/ /\ phase = "style" /\ dirty["style"] = {}
          /\ phase' = "layout"
          /\ batch' = SetToSeq(dirty["layout"])
          /\ dirty' = [dirty EXCEPT !["layout"] = {}]
          /\ UNCHANGED pendingUpdateTasks
       \/ /\ phase = "layout" /\ batch = <<>>
          /\ phase' = "fixed"
          /\ UNCHANGED <<dirty, pendingUpdateTasks, batch>>
       \/ /\ phase = "fixed" /\ dirty["fixed"] = {}
          /\ phase' = "paint"
          /\ UNCHANGED <<dirty, pendingUpdateTasks, batch>>
       \/ /\ phase = "paint" /\ dirty["paint"] = {}
          /\ phase' = "adapter"
          /\ UNCHANGED <<dirty, pendingUpdateTasks, batch>>
       \/ /\ phase = "adapter" /\ adapterAttachTasks = <<>>
          /\ phase' = "mount"
          /\ batch' = pendingUpdateTasks
          /\ pendingUpdateTasks' = <<>>
          /\ UNCHANGED dirty
    /\ UNCHANGED <<flags, adapterAttachTasks, nextTickTasks, nextTickPendingTasks,
                   item, vsync, dirtied, offered, history>>

TicksNotCounted == isRequestVsync  \* variant: FlushFinish requests nothing

NextRequested == isRequestVsync \/ nextTickPendingTasks # <<>>

SwapIfIdle ==  \* variant: the swap waits for a flush that requests nothing
    IF isRequestVsync
    THEN UNCHANGED <<nextTickTasks, nextTickPendingTasks>>
    ELSE /\ nextTickTasks' = nextTickPendingTasks
         /\ nextTickPendingTasks' = nextTickTasks

SwapTicks ==
    /\ nextTickTasks' = nextTickPendingTasks
    /\ nextTickPendingTasks' = nextTickTasks

StayFlushing ==  \* variant: isFlushing_ is not cleared
    UNCHANGED isFlushing

StopFlushing == isFlushing' = FALSE

(* FlushFinish, and the end of FlushUpdateTasks.                           *)
FlushFinish ==
    /\ Flush("mount")
    /\ batch = <<>>
    /\ SwapTicks
    /\ isRequestVsync' = NextRequested
    /\ StopFlushing
    /\ IF isRequestVsync' THEN attachOneVsync ELSE UNCHANGED outstanding
    /\ phase' = "idle"
    /\ UNCHANGED <<dirty, adapterAttachTasks, pendingUpdateTasks, item, batch,
                   blocked, dirtied, offered, history>>

FlushStep ==
    \/ FlushStart \/ FlushStyle \/ FlushLayout \/ FlushNotifyFixed \/ FlushPaint
    \/ FlushAdapter \/ FlushMount \/ ItemReturns \/ Advance \/ FlushFinish

-----------------------------------------------------------------------------
QueueWork ==
    \/ \E k \in Kinds, n \in Nodes : AddDirtyNode(k, n)
    \/ \E u \in Updates : AddUpdateTask(u)
    \/ \E a \in Attaches : RegistryAdapterAttach(a)
    \/ \E t \in Ticks : RegistryNextTick(t)

Next ==
    \/ QueueWork
    \/ FlushPaintLocalSync
    \/ \E n \in Nodes : NodeDies(n)
    \/ CleanAllTasks
    \/ OnVsync \/ FlushOnVsync \/ UpdatePageSync
    \/ FlushStep

Spec == Init /\ [][Next]_vars

-----------------------------------------------------------------------------
(* Work the rest of the current flush will not look at any more.           *)
After(p) == CASE p = "style"   -> {"layout", "fixed", "paint", "adapter", "mount", "idle"}
              [] p = "layout"  -> {"layout", "fixed", "paint", "adapter", "mount", "idle"}
              [] p = "fixed"   -> {"paint", "adapter", "mount", "idle"}
              [] p = "paint"   -> {"adapter", "mount", "idle"}
              [] p = "adapter" -> {"mount", "idle"}
              [] p = "mount"   -> {"mount", "idle"}

MissedWork ==
    \/ \E k \in Kinds : phase \in After(k) /\ dirty[k] # {}
    \/ phase \in After("adapter") /\ adapterAttachTasks # <<>>
    \/ phase \in After("mount") /\ pendingUpdateTasks # <<>>
    \/ phase = "idle" /\ nextTickTasks # <<>>
    \/ phase = "idle" /\ nextTickPendingTasks # <<>>

(* WorkRequested: work that no phase still to come will pick up has a      *)
(* frame requested, whichever handler of whichever phase queued it         *)
(* (dirty_vsync_task.cpp:31-42, 53-72, 230-240).                           *)
WorkRequested == MissedWork => isRequestVsync

(* RequestOutstanding: outside a flush a set flag means that a callback is *)
(* attached; otherwise no later request would attach one and rendering     *)
(* would stop (dirty_vsync_task.cpp:32, 65).                               *)
RequestOutstanding == isRequestVsync /\ ~isFlushing => outstanding > 0

(* FlagMeansRequested: outside a flush isRequestVsync_ tells whether a     *)
(* frame is already requested, as its comment says ("是否已经请求了Vsync",   *)
(* dirty_vsync_task.h:187).                                                *)
FlagMeansRequested == outstanding > 0 => isRequestVsync \/ isFlushing

(* MountOrder: mount tasks, which add and remove native children, run in   *)
(* the order they were given, across flushes and whatever a mount task     *)
(* itself queues (dirty_vsync_task.cpp:26-29, 218-228).                    *)
MountOrder == IsPrefix(mounted, mountOrder)

(* NextTickInTwo: a next-tick callback runs at the latest in the second    *)
(* flush after it was given (dirty_vsync_task.cpp:105-113, 230-240).       *)
WaitingTicks == ToSet(nextTickTasks) \cup ToSet(nextTickPendingTasks)
NextTickInTwo == phase = "idle" => \A t \in WaitingTicks : age[t] < 2
=============================================================================
