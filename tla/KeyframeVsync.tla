---------------------------- MODULE KeyframeVsync ----------------------------
(***************************************************************************)
(* runtime/keyframe_vsync.{h,cpp}: the callbacks attached to one native    *)
(* vsync connection.  Any thread attaches and deletes; the vsync thread    *)
(* runs onFrame, which merges the attached callbacks by priority, applies  *)
(* the deletions, runs what is left without any lock, and asks for another *)
(* frame unless there is nothing to run.                                   *)
(*                                                                         *)
(* OH_NativeVSync_RequestFrame (external) asks for one call of onSync; it  *)
(* may fail, at most MaxFailures times.  A callback is named by its id,    *)
(* which genId makes unique, so each is attached at most once.             *)
(***************************************************************************)
EXTENDS Lists

CONSTANTS
    Callbacks,    \* ids given out by genId
    OneShot,      \* ids of attachOneVsync; the others are of attachVsync
    Priority,     \* priority of each id
    MaxFailures   \* how many times RequestFrame may fail

ASSUME ConstantsAssumption ==
    /\ OneShot \subseteq Callbacks
    /\ Priority \in [Callbacks -> Nat]
    /\ MaxFailures \in Nat

VARIABLES
    vsync_fun,       \* callbacks of the vsync thread, in the order they run
    tmp_vsync_fun,   \* callbacks attached since the last merge
    tmp_delete_id,   \* ids deleted since the last merge
    has_vsync,       \* a frame was asked for, or is being run
    requests,        \* calls of onSync the system still owes
    frame,           \* where the vsync thread is in onFrame
    next,            \* index in vsync_fun of the callback to run, or running
    failures,        \* calls of RequestFrame that failed
    bindFailed,      \* the last call of RequestFrame failed
    attachOrder,     \* ids in the order of attachInner (history)
    ran,             \* callbacks that have run (history)
    removed          \* ids whose deletion was applied by a merge (history)

vars == <<vsync_fun, tmp_vsync_fun, tmp_delete_id, has_vsync, requests, frame,
          next, failures, bindFailed, attachOrder, ran, removed>>

history == <<attachOrder, ran, removed>>

-----------------------------------------------------------------------------
(* "run": about to run vsync_fun[next]; "call": inside it; "rebind": the   *)
(* loop is over; "failed": RequestFrame failed and the flag is not yet     *)
(* cleared.                                                                *)
FrameStates == {"idle", "run", "call", "rebind", "failed"}

Init ==
    /\ vsync_fun = <<>>
    /\ tmp_vsync_fun = <<>>
    /\ tmp_delete_id = {}
    /\ has_vsync = FALSE
    /\ requests = 0
    /\ frame = "idle"
    /\ next = 1
    /\ failures = 0
    /\ bindFailed = FALSE
    /\ attachOrder = <<>>
    /\ ran = {}
    /\ removed = {}

-----------------------------------------------------------------------------
(* bindHMSync, up to the test of the result of RequestFrame.               *)
RequestFrame(succeeds) ==
    IF succeeds
    THEN /\ requests' = requests + 1
         /\ bindFailed' = FALSE
         /\ UNCHANGED failures
    ELSE /\ failures < MaxFailures
         /\ failures' = failures + 1
         /\ bindFailed' = TRUE
         /\ UNCHANGED requests

(* attachInner, under tmp_vsync_fun_lock_ and has_vsync_lock_.             *)
Attach(c) ==
    /\ c \notin ToSet(attachOrder)
    /\ attachOrder' = Append(attachOrder, c)
    /\ tmp_vsync_fun' = Append(tmp_vsync_fun, c)
    /\ IF has_vsync
       THEN UNCHANGED <<has_vsync, requests, failures, bindFailed>>
       ELSE \E succeeds \in BOOLEAN :
               /\ RequestFrame(succeeds)
               /\ has_vsync' = succeeds
    /\ UNCHANGED <<vsync_fun, tmp_delete_id, frame, next, ran, removed>>

deleteVsync(c) ==
    /\ c \in ToSet(attachOrder)
    /\ tmp_delete_id' = tmp_delete_id \cup {c}
    /\ UNCHANGED <<vsync_fun, tmp_vsync_fun, has_vsync, requests, frame, next,
                   failures, bindFailed, history>>

-----------------------------------------------------------------------------
(* list::insert after the elements of the same or a higher priority.       *)
InsertBeforeEqual(s, c) ==  \* variant: > for >=
    LET n == CHOOSE n \in 0 .. Len(s) :
                 /\ \A i \in 1 .. n : Priority[s[i]] > Priority[c]
                 /\ n < Len(s) => Priority[s[n + 1]] <= Priority[c]
    IN  InsertAt(s, n + 1, c)

InsertByPriority(s, c) ==
    LET n == CHOOSE n \in 0 .. Len(s) :
                 /\ \A i \in 1 .. n : Priority[s[i]] >= Priority[c]
                 /\ n < Len(s) => Priority[s[n + 1]] < Priority[c]
    IN  InsertAt(s, n + 1, c)

DeleteThenMerge ==  \* variant: deletions before attachments
    vsync_fun' = FoldLeft(InsertByPriority, Without(vsync_fun, tmp_delete_id), tmp_vsync_fun)

MergeThenDelete ==
    \E merged \in {FoldLeft(InsertByPriority, vsync_fun, tmp_vsync_fun)} :
        vsync_fun' = Without(merged, tmp_delete_id)

(* onSync, and onFrame up to the loop: attached callbacks first, then      *)
(* deletions, in one critical section.                                     *)
BeginFrame ==
    /\ frame = "idle"
    /\ requests > 0
    /\ requests' = requests - 1
    /\ MergeThenDelete
    /\ tmp_vsync_fun' = <<>>
    /\ tmp_delete_id' = {}
    /\ removed' = removed \cup tmp_delete_id
    /\ frame' = "run"
    /\ next' = 1
    /\ UNCHANGED <<has_vsync, failures, bindFailed, attachOrder, ran>>

CallFun ==
    /\ frame = "run"
    /\ next <= Len(vsync_fun)
    /\ ran' = ran \cup {vsync_fun[next]}
    /\ frame' = "call"
    /\ UNCHANGED <<vsync_fun, tmp_vsync_fun, tmp_delete_id, has_vsync, requests,
                   next, failures, bindFailed, attachOrder, removed>>

(* The callback returns; a one-shot callback is marked for deletion.       *)
ReturnFun ==
    /\ frame = "call"
    /\ tmp_delete_id' = tmp_delete_id \cup ({vsync_fun[next]} \cap OneShot)
    /\ next' = next + 1
    /\ frame' = "run"
    /\ UNCHANGED <<vsync_fun, tmp_vsync_fun, has_vsync, requests, failures,
                   bindFailed, history>>

EndLoop ==
    /\ frame = "run"
    /\ next > Len(vsync_fun)
    /\ frame' = "rebind"
    /\ UNCHANGED <<vsync_fun, tmp_vsync_fun, tmp_delete_id, has_vsync, requests,
                   next, failures, bindFailed, history>>

RestAfterLoop ==  \* variant: no frame is asked for
    /\ frame = "rebind"
    /\ vsync_fun # <<>>
    /\ frame' = "idle"
    /\ UNCHANGED <<vsync_fun, tmp_vsync_fun, tmp_delete_id, has_vsync, requests,
                   next, failures, bindFailed, history>>

(* The end of onFrame.  With callbacks left, RequestFrame is called        *)
(* without a lock and a failure clears has_vsync in a step of its own.     *)
RebindUnlocked ==
    /\ frame = "rebind"
    /\ vsync_fun # <<>>
    /\ \E succeeds \in BOOLEAN :
          /\ RequestFrame(succeeds)
          /\ frame' = IF succeeds THEN "idle" ELSE "failed"
    /\ UNCHANGED <<vsync_fun, tmp_vsync_fun, tmp_delete_id, has_vsync, next, history>>

KeepAfterFailure ==  \* variant: the flag survives the failure
    /\ frame = "failed"
    /\ frame' = "idle"
    /\ UNCHANGED <<vsync_fun, tmp_vsync_fun, tmp_delete_id, has_vsync, requests,
                   next, failures, bindFailed, history>>

ClearAfterFailure ==
    /\ frame = "failed"
    /\ has_vsync' = FALSE
    /\ frame' = "idle"
    /\ UNCHANGED <<vsync_fun, tmp_vsync_fun, tmp_delete_id, requests, next,
                   failures, bindFailed, history>>

UnbindWithoutTest ==  \* variant: what was attached meanwhile is not looked at
    /\ frame = "rebind"
    /\ vsync_fun = <<>>
    /\ has_vsync' = FALSE
    /\ frame' = "idle"
    /\ UNCHANGED <<vsync_fun, tmp_vsync_fun, tmp_delete_id, requests, next,
                   failures, bindFailed, history>>

(* With none left, tmp_vsync_fun_lock_ is held for the test and the bind.  *)
RebindLocked ==
    /\ frame = "rebind"
    /\ vsync_fun = <<>>
    /\ IF tmp_vsync_fun = <<>>
       THEN /\ has_vsync' = FALSE
            /\ UNCHANGED <<requests, failures, bindFailed>>
       ELSE \E succeeds \in BOOLEAN :
               /\ RequestFrame(succeeds)
               /\ has_vsync' = (has_vsync /\ succeeds)
    /\ frame' = "idle"
    /\ UNCHANGED <<vsync_fun, tmp_vsync_fun, tmp_delete_id, next, history>>

-----------------------------------------------------------------------------
onFrame ==
    \/ BeginFrame \/ CallFun \/ ReturnFun \/ EndLoop
    \/ RebindUnlocked \/ ClearAfterFailure \/ RebindLocked

Next ==
    \/ \E c \in Callbacks : Attach(c) \/ deleteVsync(c)
    \/ onFrame

Spec == Init /\ [][Next]_vars

(* The system delivers the frames it owes, and callbacks return.           *)
FairSpec == Spec /\ WF_vars(onFrame)

-----------------------------------------------------------------------------
(* FlagTellsTheTruth: has_vsync is exactly "one frame is owed or one is    *)
(* being run", whatever attaches in between: the comments at               *)
(* keyframe_vsync.cpp:119 and 126 rely on it, and a frame is never asked   *)
(* for twice.                                                              *)
FlagTellsTheTruth ==
    /\ has_vsync <=> (frame # "idle" \/ requests = 1)
    /\ requests = IF has_vsync /\ frame = "idle" THEN 1 ELSE 0

(* PendingIsBound: callbacks wait without a frame asked for only after     *)
(* RequestFrame failed (keyframe_vsync.cpp:122-124 tests the list the      *)
(* attachers push to before it gives the connection up).                   *)
PendingIsBound ==
    tmp_vsync_fun # <<>> /\ ~bindFailed => has_vsync

(* OneShotOnce: a callback of attachOneVsync still to be run in this frame *)
(* has never run before ("只触发一次", keyframe_vsync.h:42).                *)
OneShotOnce ==
    /\ frame = "run" => \A i \in next .. Len(vsync_fun) :
                           vsync_fun[i] \in OneShot => vsync_fun[i] \notin ran
    /\ frame = "call" => \A i \in next + 1 .. Len(vsync_fun) :
                           vsync_fun[i] \in OneShot => vsync_fun[i] \notin ran

(* DeletedStaysOut: an id that was deleted before a frame began is neither *)
(* in the list that frame runs nor waiting to enter it, even if it was     *)
(* attached and deleted between two frames (keyframe_vsync.cpp:91-106).    *)
DeletedStaysOut ==
    removed \cap (ToSet(vsync_fun) \cup ToSet(tmp_vsync_fun)) = {}

(* PriorityOrder: the list runs in descending priority, and callbacks of   *)
(* one priority in the order they were attached (keyframe_vsync.cpp:91-97).*)
PriorityOrder ==
    \A i, j \in DOMAIN vsync_fun :
        LET before(a, b) == \E m, n \in DOMAIN attachOrder :
                               m < n /\ attachOrder[m] = a /\ attachOrder[n] = b
        IN  i < j => \/ Priority[vsync_fun[i]] > Priority[vsync_fun[j]]
                     \/ /\ Priority[vsync_fun[i]] = Priority[vsync_fun[j]]
                        /\ before(vsync_fun[i], vsync_fun[j])

(* AttachedRuns: an attached callback runs unless it is deleted or         *)
(* RequestFrame fails, whatever attaches and deletes around it             *)
(* (keyframe_vsync.cpp:52-63, 86-130).                                     *)
AttachedRuns ==
    \A c \in Callbacks :
        c \in ToSet(attachOrder) ~> c \in ran \cup removed \cup tmp_delete_id \/ bindFailed

(* PersistentKeepsRunning: a callback of attachVsync runs again and again  *)
(* until it is deleted ("一直触发", keyframe_vsync.h:39) or RequestFrame    *)
(* fails.                                                                  *)
PersistentKeepsRunning ==
    \A c \in Callbacks \ OneShot :
        c \in ToSet(attachOrder) ~>
            \/ c \in removed \cup tmp_delete_id
            \/ bindFailed
            \/ frame = "call" /\ vsync_fun[next] = c
=============================================================================
