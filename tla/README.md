# A verification project for taro-harmony-capi-library

TLA+ models of Taro's C-API runtime for HarmonyOS: its threads and its frame
pipeline, and what the pipeline works on, the DOM, the render tree, style
sheets, marks, events, images and animations. They are model-checked with TLC,
and the main safety properties of every module but `StyleSheet` are proved with
TLAPS. Paths
are relative to `src/`. `PROJECT.json` maps every definition to the lines it
translates, lists each run with its properties, a mutant that each property
catches, the hazards of the code, and the theorems.

How to run, in this directory:

    tlc -workers 2 -config Services.cfg MCServices
    tlapm Runners_proofs.tla

## 1. The system

JS code (React in Taro) changes a DOM; the runtime turns the changes into
style, layout and paint work on ArkUI native nodes and does that work once per
frame. Three kinds of threads take part: MAIN (the libuv loop of the NAPI
environment: DOM, layout, painting, next ticks), JS and BACKGROUND (a thread
with a queue each), and the threads on which the system delivers vsync
callbacks. The network library answers downloads on threads of its own.

    JS thread --runTask/runSyncTask--> TaskExecutor --> NapiTaskRunner (MAIN)
                                             |--------> ThreadTaskRunner (JS, BACKGROUND)
    MAIN: DOM change --> TaroDirtyTaskPipeline queues --> attachOneVsync
    vsync thread: KeyframeVsync.onFrame --> OnVsync --runSyncTask(MAIN)--> FlushUpdateTasks
                  KeyframeVsync.onFrame --> FrameTriggerMaster --> tick --runTask(MAIN)--> values

### Inventory

| Component | State | Operations | What is hard | What makes it correct |
|---|---|---|---|---|
| Task runner interface `thread/AbstractTaskRunner.h` | - | runAsyncTask, runSyncTask | - | lanes in order, one task at a time, a synchronous call returns only after its task or the stop |
| Thread task runner `thread/ThreadTaskRunner` | two queues, one mutex, one condition variable, `running`, a stack flag `done` per call | post, call, runLoop, destructor | stores and notifies outside the mutex; worker and callers on one condition variable | a task finds the worker awake; `done` outlives its task; a caller is released |
| NAPI task runner `thread/NapiTaskRunner` | queue, mutex, condition variable, `uv_async_t` | post, call, callback, destructor | coalesced signals; tasks posted while a batch drains | no task is forgotten; order kept |
| Task executor `thread/TaskExecutor` | wait table `m_waitsOnThread` (no lock) | runTask, runSyncTask | nesting, exceptions, calls in both directions | a call back to a blocked caller is refused; other calls return, but for the release that the runners below may lose |
| Keyframe vsync `runtime/keyframe_vsync` | list that runs, list of the newly attached, ids to delete, `has_vsync` | attach, attachOne, delete, onFrame, bind | attach and delete while a frame runs; a failed RequestFrame | no attachment is lost; one frame is owed at most; priorities; one-shots once |
| Dirty task pipeline `runtime/dirty_vsync_task` | four queues of nodes, mount and adapter tasks, two next-tick lists, `isRequestVsync_`, `isFlushing_` | AddDirty*, AddUpdateTask, RegistryNextTick, the phases of a flush, CleanAllTasks | work queued by the handlers of a flush; updatePageSync | nothing waits without a frame requested; mount order |
| Unique queue `UniqueWeakPtrQueue` in `runtime/dirty_vsync_task.h` | a deque of weak pointers, a set of ids | push, pop, empty, clear, partial paint | expired pointers leave their ids | the two agree on live nodes; loops end |
| DOM tree, registries `runtime/dom/node`, `document`, `class_list` | children, siblings, id and nid maps, classes | append, insert, replace, remove, classList | pointers updated by separate code; who keeps a node alive | the pointers describe the list; a removed subtree is gone |
| Elements `runtime/dom/element` | built or not, marks, fixed or static | build, move, restyle | render nodes inserted beside neighbours that may be fixed or unbuilt | the render tree is the DOM's, in its order |
| Style `runtime/cssom`, `element.cpp` | rules, invalidation marks, matched styles | match, cascade, invalidate, resolve | a matched style is kept until something marks the element | an element shows what the sheet says of it |
| Render nodes `runtime/dom/ark_nodes`, Yoga bridge | layout and paint marks, Yoga's dirty flags, native children, delayed calls | mark, measure, lay out, paint, mount | a mark that stays swallows later ones; delayed calls with indices of an earlier time | what changed waits for a layout and a paint that were asked for; ArkUI has the render tree |
| Node adapters `arkui_node_adapter`, `water_flow`, `swiper` | rows in sight, rows recycled | attach, reuse, recycle | rows pass native nodes on to each other | a row has one native node, and its own listeners on it |
| Events `event_emitter`, `event_generator_hm`, `event_adapter`, `event_center` | four tables of listeners and registrations | add, remove, dispatch, recycle | each table tells the next about first and last entries only | the tables agree; JS hears what it listens for, once |
| Animations `runtime/dom/animation` | animators, deletions and resets put off, triggers of a frame | start, cancel, tick, tasks for MAIN | MAIN and the vsync thread take turns; a tick's values arrive later | what is animated is ticked; in the end the value is the right one |
| Image loader `helper/ImageLoader`, downloads, files | LRU list, map, bytes used, files | load, cache, evict, download, write | concurrent loads of one image; failures in the middle | bytes used equals the sum; each load is answered |
| JS engine and bridge `engine`, `taro/instance`, `exports/napi_bridge` | message queues, instance registry, buffered calls | create, load, call, destroy | destruction while calls are queued | buffered calls in order; no call after destruction |
| Forms `form/group_manager` | groups | add, delete child | remove while iterating | a deleted child is not notified |
| Event task queue `event_hm/event_task` | task list, one-shot on a second vsync | add, flush on MAIN | - | without a caller: the only `pushHmEvent` is commented out (`event_generator_hm.cpp:164-165`) |

Everything down to the image loader is modelled, whole or in part; what is left
out of each is in `PROJECT.json` (components) and section 5. Gestures, the ArkUI
bridges, attribute code, parsers, statistics and logging are wrappers or data.

## 2. The modules

| Module | Models | How state and actions correspond |
|---|---|---|
| `TaskRunner` | the abstract promise of `AbstractTaskRunner.h` | `pending` lanes, the `current` task, the callers `blocked` and the tasks `completed`; no threads or locks |
| `ThreadTaskRunner` | `thread/ThreadTaskRunner.{h,cpp}` | variables carry the names of the members; an action is one critical section of `mutex` or one access outside it. "checked" and "waiting" are the two sides of the moment inside `cv.wait` between the failed test and the blocking |
| `NapiTaskRunner` | `thread/NapiTaskRunner.{h,cpp}` | `signalled` is the pending `uv_async_send`, external; `batch` is the queue swapped out by the callback |
| `TaskExecutor` | `thread/TaskExecutor.{h,cpp}` | each thread a stack of tasks and calls; the table is read in one step (`BeginCall`, `DetectDeadlock`) and written in another (`RecordWait`), as the code does without a lock. Of the runners below, their mutex, condition variable and release of a caller are here: `wait` is where a caller is in `cv.wait`, `EndTask` stores `done`, and `NotifyDone` is a step of its own; a NapiTaskRunner has in `swapped` how many it took from its queue. Their stop is not |
| `KeyframeVsync` | `runtime/keyframe_vsync.{h,cpp}` | variables carry the members' names; `frame` and `next` are the program counter of `onFrame`; `requests` are the frames the system owes. The merge by priority is the fold `InsertByPriority` |
| `UniqueWeakPtrQueue` | the class in `dirty_vsync_task.h` and the two places that reach into it | `queue` and `set` as in the code; `alive` are the nodes whose weak pointer does not expire; `dirty` is the history the properties compare with |
| `DirtyTaskPipeline` | `runtime/dirty_vsync_task.{h,cpp}`, `updatePageSync` and the ability's destruction in `exports/manager.cpp` | `phase`, `item` and `batch` are the program counter of a flush; while `item` runs it may queue work of every kind (`MainRunsCode`). The vsync below is only `outstanding` and `blocked` |
| `FramePipeline` | both together, as `dirty_vsync_task.cpp:35-48` wires them | instances of the two modules over shared variables; `attachOneVsync` is the joint step, `served` tells which callback's flush has begun |
| `Document` | `exports/document.cpp`, `dom/node.cpp`, the builds and marks of `element.cpp`, `StyleTreeResolver.cpp`, children and delayed calls of `arkui_node.cpp` | `doc` is everything MAIN keeps: child lists, sibling pointers, parents, who holds a node alive, render nodes and their children, marks, delayed calls; `native` is ArkUI's tree. A call of JS is one action, an operator from a document to a document per function it enters; a walk of the source is a recursive function over its steps, with the source's stack as an argument, and a way along pointers a least set |
| `StyleSheet` | matching and cascade in `CSSStyleSheet.cpp`, `StyleInvalidator.cpp`, `class_list.cpp`, the resolver, the calls of JS that move elements or change classes | `dom` is the tree with class lists, matched styles and marks; `classes` is what JS wants, which only the property reads. A style is the set of rules that the cascade may leave last |
| `RenderMarks` | `is_layout_dirty_`, `is_draw_dirty_` and the calls into Yoga of `arkui_base_node.cpp`, `arkui_node.cpp`, `element.cpp`, `text.cpp` | `page` holds the marks, the two queues, Yoga's flags (`dirty`, `fresh`, `cold`) and, as history, what is `stale` |
| `NodeEvents` | `event.cpp`, `event_emitter.cpp`, `event_generator_hm.cpp`, `event_adapter.cpp`, rows in `arkui_node_adapter.cpp` | `reg` has one set per layer: listeners, targets, keepers and ArkUI's registrations; `handle` and `cached` are the rows' native nodes and the pool |
| `ImageLoader` | `helper/ImageLoader.cpp` with the downloads and files it uses | a `request` is a load with its place in the code, which is on MAIN or on a thread of the network library; `file` and `fileWriteLock` the files, and any step that may fail does |
| `Lists` | the loops that drop some entries of a list and keep the others in order (`std::list`, `std::deque`) | `Without`, a fold; used by the vsync's deletions, the image cache and the unique queue |
| `NodeAnimations` | `runtime/dom/animation` for one property of a node, SetStyle, Layout and RemoveChild of `arkui_node.cpp` | `setting` is MAIN's place in SetStyle; a frame is one step under `AnimationLock`; `tasks` is what it leaves to MAIN, `operate_queue` and `triggered` the trigger master |

`<Module>_proofs` holds the theorems of section 4 about `<Module>`,
`Runners_proofs` those about the two runners and `TaskExecutor`,
`RenderOrder_proofs` one more about `Document`, and `ListTheorems`
what the folds that stand for list loops compute and what insertions and
removals do to a list. Modules
named `MC*` give instances to TLC. `MCFrames` (`DirtyTaskPipeline`,
`NodeAnimations` and `StyleSheet`) and `MCServices` (`NodeEvents`, `RenderMarks`,
`ImageLoader` and `UniqueWeakPtrQueue`) check modules that share no state
together: a behaviour chooses one of them in its initial state, and the others
keep theirs. `MCNapiTaskRunner` gives the constants and variables that
`NapiTaskRunner` has in common with `ThreadTaskRunner` names of their own, and its
properties the prefix `Main`, for `Runners_proofs` to hold both. An operator
commented `variant:` is
a plausible mistake in the definition before or after it; the mutants of
`PROJECT.json` put it in that definition's place to show that the property
notices.

Abstractions. A task, callback or node is a model value: what it does is the
work it may queue, call or throw. Logging, thread names, priorities of threads
and cost statistics are left out. `FlushPaintLocalSync` is one step. Node
queues are sets in `DirtyTaskPipeline`, because no property there depends on
their order; their own representation is checked in `UniqueWeakPtrQueue`. What
runs on MAIN from start to end without letting another thread in between is one
step (`Document`, `StyleSheet`, `RenderMarks`, `NodeEvents`). An element's style
is the part that the module's properties tell apart: `position` in `Document`,
`position` and `display` in `RenderMarks`, one property with its transition and
keyframes in `NodeAnimations`, the winning rules in `StyleSheet`.

Flaws. The code has sequences of calls that it does not get right. `Document`,
`StyleSheet`, `RenderMarks` and `NodeAnimations` give each a name, at the
top of the module and at the place where it happens. A run lists in `Avoided` (or
`AvoidedCalls`) those that do not occur in it, so that its properties say what holds of
all other sequences; taking a name off the list shows the violation. For
`NodeEvents` the constant `AvoidTwice` does the same. Section 5 describes them.

## 3. What is checked

| Run | Instance | What it shows |
|---|---|---|
| `ThreadTaskRunner` | two callers, one with a throwing task, two asynchronous tasks, destruction, spurious wakeups | a synchronous task never finds the worker asleep, `done` outlives its task, the runner refines `TaskRunner`, tasks are run |
| `ThreadTaskRunner_release` (violated) | two callers | a caller of runSyncTask may stay blocked although its task is done |
| `NapiTaskRunner` | the same | every queued task has a signal, a callback or a sender behind it; refinement; tasks are run |
| `TaskExecutor` | MAIN, JS and a vsync thread, four calls, stacks of four; any calls, and the repository's | refusal of a call back; where the call graph has no cycle, a call returns or a release was lost between a test and its blocking, and every call returns if no task ends there |
| `KeyframeVsync` | three callbacks, one persistent, two priorities, two failures of RequestFrame | five safety properties of the frame, and that callbacks run |
| `Frames` | pipeline: two ticks, two updates, one adapter task, one node, updatePageSync, destruction. Animations: three styles of two values, three tasks. Styles: a page and two views, two classes, two class changes, three sheets | nothing waits without a frame requested, a request has a callback, mount tasks run in order, next ticks in the second flush; whatever is animated is ticked, and what has settled has the value that belongs there; elements show what the sheet says of them |
| `DirtyTaskPipeline_request` (violated) | updatePageSync | `isRequestVsync_` is not "a vsync is requested" |
| `FramePipeline` | one node, one update, one tick, four ids, one failure, updatePageSync | refinement of `DirtyTaskPipeline` over the real vsync, nothing forgotten, everything flushed |
| `FramePipeline_fail` (violated) | two updates, one failure | after a failed RequestFrame no later bind comes |
| `Page` | a page and three elements, static or fixed, two builds each, three delayed calls, two restyles | sibling pointers, render tree, ArkUI's tree and resolved styles are those of the DOM |
| `RenderMarks_content` (violated) | an image in a text | the text's next content is never laid out |
| `Services` | events: three rows, two native nodes, two names of one type, a widget. Marks: two boxes, either of which may be hidden and one fixed, and a text. Images: three loads of two urls with one file name. Queue: three nodes, five pushes | the four event tables agree and JS hears what it listens for; what changed waits for a layout and a paint that were asked for; the cache counts right and loads are answered; deque and set agree through death, pop and partial paint |

The type invariants of the two runners are proved and not checked again.

### Bounds

Two callers are the smallest number with which a caller's wakeup can be lost or
taken by another one, and three threads (two callers and the worker) meet at
the condition variable. Three callbacks of which two share a priority and one
stands above give every relative order of insertion, and two failures a failure
during the recovery from one. Five pushes on three nodes let a node be pushed
again after each way out of the queue. Two ticks and two updates show order
within a list and a list that is refilled by its own handlers. Four ids are one
for each request that the work of the `FramePipeline` instance can make; the
ability's destruction is left to the `Frames` run, whose
specification the refinement reaches. In `TaskExecutor` a call back, a nested
call to the thread's own runner and a second wait over a stale entry fit in
four calls, and so do MAIN and the vsync thread both waiting for JS, where one
call's notify_all makes the other caller test again while its own task ends.

Three elements below a page are a parent, a child and a neighbour, the most
that any function of the tree looks at together; the second build is the first
one again, and three delayed calls are one that is dropped between two that
stay. For the marks, one of two boxes can be above the text or the other box
while the other one changes. Two class changes set and take back a class, with
any calls on the tree in between; three sheets hold every combinator and every
pseudo class, a child's parent's parent included. Three rows on two
native nodes keep one row waiting for a node to be free. Three loads
of two urls that share a file read it while it is written and find the cache
filled by another; of the two sizes one fits twice into the budget and one does
not at all. Three styles after the first start, replace and end an animation,
and three tasks are a value, a reset and a deletion on their way.

`CHECK_DEADLOCK FALSE` is set where the real system rests: a runner that was
destroyed, a vsync with nothing attached, a page whose elements are removed, an
instance that used up its work.

### Fairness

- Threads that can run, run (weak fairness of the worker's, the callers' and
  the vsync thread's steps), and a mutex that keeps becoming free is obtained
  by a thread that keeps asking (strong fairness where a step needs the mutex).
  Nobody is obliged to start a call, to destroy a runner or to mark a node.
- The system delivers the frames it has granted (weak fairness of `onFrame`);
  RequestFrame may fail, and the liveness properties say "or it failed".
- Tasks and handlers return: what JS does in them is not part of this code.
- In `TaskExecutor` the loop of MAIN comes to its callback, and a runner that is
  free obtains the mutex (strong fairness of `SwapQueue` and `TakeTask`). That a
  ThreadTaskRunner's worker is awake then is taken from the runner's own run
  (`SyncNeverStranded`). Nobody is owed a wakeup but by the notify_all of
  `GiveTask` and `NotifyDone`. In a NapiTaskRunner any other wakeup is a spurious one, and
  there are finitely many of them: between two such tests of a caller the loop
  could forever find the mutex taken whenever it is free itself.
- `FramePipeline` takes for granted that the call of the vsync thread to MAIN
  returns (weak fairness of `ReturnFromOnVsync`), so `WorkGetsDone` rests on it.
  It has one caller of MAIN. The caller first tests under the mutex that MAIN
  needs to take the task, so the release cannot be lost unless the caller is
  woken before its task ends: by a spurious wakeup, or by the notify_all after
  the task of a second caller. What may happen then is in `TaskExecutor`.
- `Frames`, `Page` and `Services` check safety only and assume no
  fairness. That a frame comes to what waits there is the subject of
  `KeyframeVsync` and `FramePipeline`.

### What the violated runs say

- `ThreadTaskRunner.cpp:66` promises that a caller is released by the
  notify_all after its task. `done` is stored and notified outside the mutex
  (63, 104), so both can fall between the caller's test and its blocking. It
  needs a second thread, whose call wakes the first caller at that moment.
  The same shape is in `NapiTaskRunner.cpp:71-72`. As a consequence the NOTE at
  `ThreadTaskRunner.cpp:40-45` does not hold either: notify_one may wake such a
  caller instead of the worker, and the asynchronous task stays queued;
  `TasksRun` excepts that case, and `CallReturns` the lost release itself: it
  shows that a call which does not return, where the calls form no cycle, has met
  it, its own or a runner's, and that nothing else keeps a call from returning:
  not the table, the nesting or the exceptions.
- `dirty_vsync_task.h:187` says that `isRequestVsync_` tells whether a vsync is
  requested. updatePageSync (`exports/manager.cpp:462`) clears it while the
  callback of an earlier request is attached, so a frame may flush twice.
- `keyframe_vsync.cpp:152` clears `has_vsync` so that another bind triggers. On
  the dirty vsync no other bind comes: `isRequestVsync_` stays set
  (`dirty_vsync_task.cpp:32-33`), and rendering waits for updatePageSync.
- `arkui_base_node.cpp:555` says that a mark is followed by a layout at the next
  vsync. A new mode for an image in a text (`image.cpp:346-348`) marks the
  text's node, but SetContent returns early (`text.cpp:239-240`) and Yoga's node
  stays clean: ApplyLayout stops above it and the mark stays. The next
  UpdateContent dirties Yoga, finds the mark (552) and queues no page: the new
  content is not laid out until something else changes. `element.cpp:336`
  knows the hazard ("有可能被标脏了，导致无法再次标上", it may have been marked
  already, so that it cannot be marked again) and takes the mark off first.

## 4. What is proved

`Runners_proofs` proves about `ThreadTaskRunner`, for any sets of callers and
tasks, any throwing callers, with or without destruction and spurious wakeups (assumption:
`ConstantsAssumption`, which only keeps the names of callers, tasks and `None`
apart and types the two flags):

- `TypeCorrect`: the type invariant, which also ties `task` to the worker's
  place. One case per action.
- `SyncAlwaysServed`: `SyncNeverStranded` is inductive together with `TypeOK`. A
  step that fills the queue notifies in the same critical section, and a step to
  "checked" tests the queue in the same one.
- `FlagOutlivesTask`: `NoDanglingDone`. It is not inductive: a caller that found
  `done` set could leave with its task still queued. The invariant `IInv` adds
  that, until destruction, a caller has at most one task queued or running, and
  that `done` is clear as long as it has one; a caller then leaves only after
  its task. `running` is cleared by the destructor only.
- `Refinement`: every step of the runner is a step of `TaskRunner` or changes
  nothing it sees, under the mapping `TR`. The guard of `TaskRunner`'s Return is
  the predicate of `cv.wait`; spurious wakeups and notifies are stutters.

`Runners_proofs`, about `NapiTaskRunner` (the instance `Napi` of
`MCNapiTaskRunner`), under the same assumption there:

- `MainTypeCorrect`, and `NeverForgotten` (`QueueSignalled`), inductive with the
  types: the step that clears the signal enters "callback", and SwapQueue, the
  only step out of it, empties the queue.
- `MainFlagOutlivesTask`: `MainNoDanglingDone`. The strengthening is the thread
  runner's, over two queues: a caller has one task, in the queue, in the batch
  or running, never in two of them, as the swap moves all and TakeTask one.
- `MainRefinement` of `TaskRunner`: the lane is `batch \o tasksQueue`. A push
  appends to it, TakeTask takes its head, and SwapQueue leaves it alone because
  the batch is empty in "callback" (a conjunct of the types).

`ListTheorems` is what the others rest on where a model folds over a list. The
library's induction theorems take an operator as their hypothesis and cannot be
used here; that `<` is well founded on `Nat` can, with a set as hypothesis. From
it come the least element of a set (`Least`), `Induction` over a set of numbers,
the partial results of a left fold (`FoldExists`), and with them that `Without`
keeps exactly the entries that are not dropped, in their order, and that a sum
over a list is additive. A fold is proved about where the library's `SelectSeq`
could not be, so those models say `Without`. For `Document` it has what InsertAt
and RemoveAt do to a list without repetition: its elements, position by
position, and the order of the others (`InsertedRow`, `RemovedRow`); and that two
lists with the same elements in the same order are the same (`SameOrder`).

`KeyframeVsync_proofs`, for any callbacks, priorities and number of failures:

- `OneFrameOwed`: `FlagTellsTheTruth`. onFrame clears the flag after a failure
  in a step of its own; `FailureOnRecord` says that until then `bindFailed` is
  set, which makes the property inductive.
- `NoAttachmentLost`: `PendingIsBound`, from the former: who attaches while the
  flag is set relies on a frame that is owed, or on onFrame binding again.
- `RunOnce`, `DeletionHolds`, `FrameOrder`: `OneShotOnce`, `DeletedStaysOut`,
  `PriorityOrder`, from one invariant (`LInv`) over the two lists: an id is
  attached once, the running list is sorted by priority and then by attachment,
  what waits for a merge was attached after all that is merged, what was deleted
  is in neither list, and a one-shot that has run is deleted or about to be. The
  merge is a fold of insertions; each keeps the list sorted because the new
  entries come in the order of attachment, later than all that are there.

`DirtyTaskPipeline_proofs`, for any nodes, ticks, updates and adapter tasks
(`ConstantsAssumption`: no node is an update task):

- `AlwaysRequested`: `WorkRequested`, from an invariant that adds the place of
  the flags: `isFlushing_` is set exactly in the phases, a vsync thread is
  blocked only for a callback it took, and the next ticks to run stay empty from
  the end of FlushStart to the swap of FlushFinish. `MissedWork` is first
  rewritten phase by phase (`MissedCases`), so that each step needs only the
  lists it touches.
- `RequestIsReal`: `RequestOutstanding`, a conjunct of the same invariant.
- `MountsInOrder`: `MountOrder`. `MountInv` says that what was mounted, what the
  flush still has in its copy and what was queued meanwhile are, in this order,
  the tasks as they were given.
- `TicksRunInTwo`: `NextTickInTwo`. `TickInv` adds the age of the callbacks in
  each of the two lists and that the one FlushStart is running has been taken
  off its list.

`FramePipeline_proofs`, for any nodes, ticks, updates, ids and failures
(`ConstantsAssumption` there, which implies those of the two parts):

- `Refinement`: `ImplementsPipeline`. A step of the joint system is a step of
  the pipeline in which the vsync's part is `outstanding`, the number of ids
  attached and not yet served, and `blocked`. The invariant adds which ids wait
  for their flush where: every id attached and unserved is in one of the vsync's
  two lists or is the one being run. The invariants of the two parts are used
  through instances of their proof modules.
- `NeverForgotten`: `NothingForgotten`, from the refinement (`WorkRequested` and
  `RequestOutstanding` hold of the mapped pipeline) and the vsync's
  `PendingIsBound`: requested work has an unserved id, and that id a frame.

`Runners_proofs`, about `TaskExecutor`, for any threads, call graphs and
depths:

- `CallBackAlwaysDetected`: `CallBackDetected`. The table is not enough by
  itself: the invariant says that it has an entry for every runner that is blocked
  or has just written its entry (`Recorded`), that a task is queued or at the bottom of a stack only while its
  caller is blocked on that runner (`Owed`), in one of the two places and once
  in a queue, and what a stack looks like (`Stacked`): a task for another thread
  is only ever at the bottom, as a runner takes one when it does nothing else.

`Document_proofs`, for any elements, bounds and trees however deep
(`TreesAssumption`: finitely many elements, the page none of them, `None` neither an
element nor a render node, `MaxBuilds` at least 1). Its first part says of every
operator which fields of the document it changes; the walks (`BuildElement`,
`Destroy`, `resolver`, `Replay`) are recursive functions over their steps, so what
holds of a walk follows by `Induction` from what one step keeps.

- `SiblingPointersAlways` (`SiblingPointers`), where "replace" is avoided. The
  invariant (`Sound`) is that child lists, parents and registry are a `Tree`, and
  that the pointers at every parent are those of its list (`PointersAt`). A handler
  cuts an element out of one list and links it into another, so there is one lemma
  for a list with an element less, one for a list with one more, and one for the
  lists beside them. `RemoveTaroNode` takes a subtree away: the lists of what stays
  have nothing of it but the element itself.
- `StyleFreshAlways` (`StyleFresh`), where "movemarked" is avoided. An element that
  shows another style than JS wants is marked, its parent has a descent mark, and
  that one's parent, up to the page or up to something not built (`MarksLead`);
  what is on that way while no resolution is queued would lead to a mark of the
  page, which has none. That the resolver leaves no such element behind is the long
  part: at each turn of its loop what still is stale has an ancestor on the stack
  or a mark that leads there (`OnItsWay`), and a push costs a mark, so that one turn
  more than there are marks is enough (`Work`).
- `NativeMirrorsAlways` (`NativeMirrors`), where "miscount" is avoided. The delayed
  calls are not made when they are noted, so nothing about `native` is inductive by
  itself. The invariant (`Mirrored`) says that there is a `History`: rows of render
  nodes from those of the native tree to those of the render tree, each got from
  the one before by one delayed call whose child hung nowhere (or was there, for a
  removal) and whose index was one of that time. To keep it, every insertion must be
  of a render node that hangs nowhere: `Firm` says which are (`Unhung`), that the
  render nodes of an element are numbered in the order they are built and none is
  there before its time (`Planted`), and who is built below whom (`Standing`,
  `DownwardBut`). The replay leaves out the insertion of a child that hangs nowhere
  at the end. It then runs behind the history by such children, which are pending
  until their removal (`Replayed`, `Thinned`); no index counts one of them, which is
  what "miscount" names, and at the end none is left.
- `RenderOrderAlways` (`RenderOrder`, in `RenderOrder_proofs`), where "replace",
  "rebuild", "movefixed" and "between" are avoided (`OrderAvoided`; "movemarked"
  and "miscount" may happen). The invariant (`Arranged`) is `Sound`, `Settling` of
  the native tree's proof without the native tree (`Settled`), and `InOrder`: the
  row of a built element has the render nodes of its static built children and no
  others, each child before those the child list has after it, and the fixed root
  has those of the fixed ones. Within a handler this holds for other sets: an
  element whose style has just changed is still where its old style put it, and
  one being built is nowhere yet. `Ordered` therefore takes the sets of those
  mounted as static and as fixed, and each part of a handler is said to lead from
  one pair of sets to another. The centre is AppendOrInsertIntoParent: the nearest
  static siblings are found along the pointers, which `Sound` says are the list;
  the row has a place right before the one or right behind the other, and whatever
  else is in the row is on the right side of it, because the row has the order of
  the list. With "between" there are mounted siblings beyond unmounted ones, and
  this fails. That a row in order is the list without the other children is then a
  fact about two lists with the same members and the same order.

`Services_proofs` has the four parts of `MCServices`, and `NodeAnimations`.

- `LayersAlwaysAgree` (`LayersAgree`), for any rows, native nodes, names and
  types (`NodeEventsAssumption`: every name has a type, `None` is no native
  node, the two parameters have their types). One lemma for each operator on the
  registry says that it keeps the four tables in agreement. The invariant `Ind`
  adds what makes them applicable: rows hold different native nodes, cached rows
  hold nodes that exist, and listeners are on nodes that were made.
- `AlwaysHeard` (`Heard`), where `AvoidTwice` holds. `HInd` adds that a callback
  JS has for a row has a listener on the row's own node and on no other one, and
  that no name is entered twice.
- `PaintAlwaysAwaited` (`PaintAwaited`), for any page, texts, styles and flaws
  (`MarksAssumption`: the page is none of its elements, and these are finitely
  many). Each operator gets a lemma that it leaves a page `Good` (of its type,
  paint marks and paint queue equal) if it found it so, and each action composes
  them.
- `LayoutAlwaysAwaited`, `MarksAlwaysQueued` (`LayoutAwaited`, `MarksQueued`), for
  any page, however deep, where JS runs into none of the four flaws of section 5
  (`AvoidsAll`). Both speak only of nodes that layout gets to, and a mark is left
  behind where it does not, so neither is inductive. The invariant (`Orderly`)
  says for every node why Yoga and ApplyLayout will come by, if only once it is
  shown: there is a set with all that is dirty or stale in which the parent of
  each is dirty, hides it, or is of the set as well while the node waits with a
  new layout; and the parent of a marked node hides it or is of the set. An
  operator that marks dirty keeps it whatever it marks (`Marking`); a node that
  is hung elsewhere is left out (`X`) until Yoga is told. That a flush leaves
  nothing stale or marked that is shown goes from the page downward. The ancestors
  of a node are a least set in the model, and the proof needs them as a tree: it
  has lemmas that they are what is reached from parent to parent, a chain, without
  the node itself (`AboveTrace`, `AboveLinear`, `AboveAcyclic`), by induction over
  the number of elements. The attempt to prove this without "detached" is how that
  flaw was found.
- `AlwaysTicked` (`Ticked`), for any values, bounds and flaws, inductive with
  the types. A frame takes the trigger away only from a node that has nothing
  running and owes nothing, and whatever starts anew puts an order at the end of
  the queue, where it is the last word (`LastOrder`). An animation that ends
  still is an animator, which keeps the trigger for the reset it is owed.
- `EachAnsweredOnce` (`AnsweredOnce`), for any requests, urls, files and sizes.
  `AnswersInv` counts: the answers given and the tasks posted to MAIN for a
  request are together what is due at its place in the code (`Due`), so a step
  that posts moves the request to a place where one more is due, and MAIN's step
  moves one from the posted to the given.
- `CacheAlwaysAccounted` (`CacheAccounted`), for any sizes and limit
  (`ImageAssumption`: natural numbers). `CacheInv` says that a url is in the
  list once, that the map has the urls of the list, and that the byte count is
  the sum over it. The sum is a fold: what is cut off, taken out or put in front
  changes it by exactly that. The eviction stops where the image fits or where
  nothing is left, hence the exception for a single image too large.
- `DequeAndSetAgree`, `PopAlwaysProgresses` (`DequeAndSet`, `PopMakesProgress`),
  for any nodes and bounds. `DequeAndSet` is inductive with the types once it is
  said without the list of live nodes (`Waiting`). A pop of a live node takes
  its id from the set, and one that finds none left empties a set that is not
  empty.

### What is only model-checked

- Liveness (`TasksRun`, `MainTasksRun`, `CallReturns`, `AttachedRuns`,
  `PersistentKeepsRunning`, `WorkGetsDone`): temporal reasoning under fairness and
  ENABLED are beyond the prover.
- `Settled` is not inductive: it needs the whole history of a transition, from
  the style that starts it over the ticks to the tasks that reach MAIN after the
  next style.
- `Styled`. `StyleSheet` matches along ancestors by RECURSIVE operators, as the
  source does, and about a module that declares one nothing can be proved.

## 5. Observations, and what is not modelled

### Named flaws

Sequences of calls after which a property fails; each is reproduced by taking
its name off a run's list. No text of the repository promises the opposite, so
they are not findings.

- `Document`. "replace": a child with a follower is replaced, and the follower's
  pointer is written twice, the stale value last (`node.cpp`, replaceChild).
  "rebuild": a built element with children goes under an unbuilt parent, is
  built again and leaves its children's render nodes behind. "movefixed": a fixed
  element is moved and not mounted again. "movemarked": an element is moved
  while something below it is marked; the marks no longer lead there. "miscount":
  a delayed insertion is dropped although the index of a later one counts it.
  "between": an element is built before the siblings on both sides of it, while
  one further on already has its place in the row (it was built under an unbuilt
  parent and not built again when that was linked). AppendOrInsertIntoParent
  looks at the two nearest siblings only, and the element comes last. This takes
  six elements, more than the run has: it is the proof attempt that asked for it.
- `StyleSheet`. "deep": in `.a > .b > .c` a change of `a` marks children only.
  "moved": an element with descendants gets another parent and only it is matched
  again. "siblings": positional pseudo classes of the others are not matched
  again after a child list changes. "emptied": a candidate for `:empty` loses its
  last child by a move. "forgotten": a move resets the class list to the class
  attribute, which classList calls do not change. "early": a classList call on an
  element that is not built is dropped. "doubled": replace with a class already
  there enters it twice. "toggle": toggle without force adds what is there and
  removes what is not (`class_list.cpp:108-110`). "movemarked" as above.
- `RenderMarks`. "clean": an element is moved whose Yoga node is clean, and
  nothing queues the page (this depends on the Yoga linked, `CMakeLists.txt:224`).
  "stranded": it is moved with a mark left behind while it was hidden. "marked":
  the finding of section 3. A recycled row that is scrolled back keeps its
  grandchildren's marks in the same way. "detached": a fixed element is removed
  whose parent is clean in Yoga. RemoveTaroNode marks the parent
  (`exports/document.cpp:158`), Yoga is told of the fixed root only, and below the
  page's children layout may not get as far as the mark. This takes four
  elements, more than the run has: it is the proof that asked for it.
- `NodeAnimations`. "zero": a transition's duration becomes 0 before it is
  deleted. "outlived": a transition ends before an earlier one of its property.
  "beneath": keyframes start while a transition runs. "late": a frame comes
  between the deletion of a transition and its last value. "leftover": a style
  drops the transition while keyframes hold the property. "unstarted": keyframes
  are dropped before a layout has started them. "moved": an element is moved
  while it is animated. "versioned": the first layout of a node, which sets
  `anim_version_` (`node_animations.cpp:257`, 264), comes while the last value of
  a transition is on its way; it carries version 0, and isValid refuses it (361).
- `NodeEvents`. Removing the last callback before a row has its native node
  leaves the name in `listeners_ref_`; the next addNodeEventListener doubles the
  listener (`AvoidTwice`).

### Other observations

- The wait table sees a call back only once the first call is recorded and
  served. Two runners that start calls to each other at the same time both read
  it before either writes it, and a cycle of three calls is not looked for
  (`TaskExecutor.cpp:43-50`): both end in a deadlock in the model with
  `CallsAll`. The repository's own calls form no cycle, so `CallReturns` is about
  call graphs without one, and no property catches these two.
- "Deadlock detected" (`TaskExecutor.cpp:45`) may be thrown when nothing is
  deadlocked: line 60 leaves before line 63 clears the entry.
- A callback of RegistryNextTick runs in the second flush after its
  registration, as FlushFinish only swaps it in (`dirty_vsync_task.cpp:237`);
  `NextTickInTwo` is the bound that holds.
- `DetachTaroNode(int32_t id)` (`document.cpp:269`) looks up the member `nid_`,
  not its argument. The recursion of onRemoveChild unmounts nothing for plain
  views.
- Selectors: after an ancestor combinator the nearest ancestor is taken and not
  given up again, so `.a > .b .c` may fail where a further ancestor would do.
  an+b with b > a also matches positions before b, and "-n+3" makes stoi throw.
  The cascade knows neither the weight of pseudo classes nor the order of the
  sheet: at equal length the class list's order or std::sort decides. The
  page's own style is never resolved again, as the resolver starts at its
  children, and `visitNode` ignores Skip (`node_visitor.h:23-30`).
- Images: files bear the last component of the url only, so two urls may share
  one; a write that fails leaves a partial file for ever. A load is answered
  twice when the file could not be written after the image was decoded, and never
  when the download is refused. `estimatedSize` is a 32-bit product
  (`ImageLoader.cpp:76`).
- Events: `registerEvent_Once` loses a second once listener; widgets' listeners
  are lost on recycling; targets go stale if the allocator reuses the address of
  a native node. `moveItem` (`arkui_node_adapter.cpp:105`) ends at newIndex - 1.
- Animations: a trigger that moves to another page leaves its id with the old
  page's master. An animation by JS is another matter: `stepCallBack` ignores its
  id and may step another animator, an interrupted one of several steps stays
  active without an animator (`js_animation.h:24`), and its callbacks on MAIN
  change without `AnimationLock` what the tick reads.

- Instances: `TaroInstance` inherits `enable_shared_from_this` privately
  (`taro/instance.h:27`), so `shared_from_this()` finds no owner and throws
  (`instance.cpp:69`); and no code of `src/` leads from its destructor to
  NativeToJsBridge::destroy, which `~NativeToJsBridge` CHECKs
  (`native_to_js_bridge.cpp:112`).
- `FormGroup::DeleteChild` (`form/group_manager.cpp:23`) calls std::remove without
  erase.

### Not modelled, and why

- uv_close and the memory of the closed handle, the construction of runners,
  `ensureRunOnMainTask` (a call in place or one of the two modelled).
- The registry of vsyncs by mark (`KeyframeVsync::getInstance`), a memoised
  constructor under a lock.
- updatePageSync from inside a flush (nested flush), and exceptions out of a
  flush's handler: planned.
- Animations by JS, pausing, reloading keyframes for another screen size.
- Once listeners, the event center, gestures; the order of a lazy list's items.
- Selector parsing, media queries, values of properties, inline styles in the
  cascade; inheritance of text styles.
- The event task queue and its thread: nothing calls them.
- The JS engine and its bridge, instances, ArkJS, conversions, system
  information, statistics: data, wrappers, or code that cannot be reached as
  it stands.

## 6. Plan

In this order, the most consequential first:

1. Done: the runners, the executor, the vsync, the pipeline, their composition;
   the DOM and its render tree, style sheets, marks, events, images, animations.
2. `NestedFlush`: updatePageSync inside a next tick, the re-entrance of
   FlushStart and FlushAdapter, and what an exception leaves.
3. JS animations: the callbacks on MAIN against the tick.
4. `Instances`: the registry and its release on the cleanup thread; scripts and
   calls behind it only once `loadScript` can run (see above).
5. The order of a lazy list's items against the calls that move, add and remove
   them; `FormGroup`.
6. Compositions on MAIN: `StyleSheet` with `Document` (one set of marks),
   `RenderMarks` with the pipeline's queues.

A violated run stays the exception: only where the code contradicts its own text.

Proofs next, in this order. (1) `Settled`, with the order of the tasks and frames as
part of the invariant. (2) `Styled`, once the ancestors of `StyleSheet` are a least
set as those of `Document` are. (3) That the layers of `NodeEvents` are one table to
JS: an abstract specification of addEventListener and dispatch, and its refinement.
