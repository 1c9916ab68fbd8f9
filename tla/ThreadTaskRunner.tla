-------------------------- MODULE ThreadTaskRunner --------------------------
(***************************************************************************)
(* thread/ThreadTaskRunner.{h,cpp}: one worker thread with a queue of      *)
(* asynchronous tasks and a queue of synchronous tasks, one mutex, and ONE *)
(* condition variable shared by the worker and by every thread blocked in  *)
(* runSyncTask.                                                            *)
(*                                                                         *)
(* A step is a critical section of `mutex', or an access made without it:  *)
(* the stores to `running' and `done' and the notify calls that follow     *)
(* them are outside the mutex, so the interval between a waiter's test of  *)
(* its predicate and its blocking is two steps ("checked", then            *)
(* "waiting") during which the waiter holds the mutex.                     *)
(*                                                                         *)
(* A synchronous task is named by its caller (a thread has one in flight); *)
(* an asynchronous task by an element of AsyncTasks, posted once.          *)
(***************************************************************************)
EXTENDS Naturals, Sequences

CONSTANTS
    Callers,          \* threads other than the worker that use the runner
    AsyncTasks,       \* tasks given to runAsyncTask
    None,             \* "the worker runs no task"
    Throwing,         \* callers whose synchronous task ends by an exception
    MayDestroy,       \* whether the runner is destroyed
    SpuriousWakeups   \* whether cv.wait may return without a notify

ASSUME ConstantsAssumption ==
    /\ Callers \cap AsyncTasks = {}
    /\ None \notin Callers \cup AsyncTasks
    /\ Throwing \subseteq Callers
    /\ MayDestroy \in BOOLEAN
    /\ SpuriousWakeups \in BOOLEAN

VARIABLES
    running,          \* std::atomic_bool running
    asyncTaskQueue,   \* std::queue of asynchronous tasks
    syncTaskQueue,    \* std::queue of synchronous tasks, named by caller
    done,             \* done[c]: the flag on the stack of c's runSyncTask
    posted,           \* asynchronous tasks given to the runner so far
    caller,           \* where each caller is
    worker,           \* where the worker is in runLoop
    task,             \* the task the worker took from a queue
    destructor        \* progress of ~ThreadTaskRunner

vars == <<running, asyncTaskQueue, syncTaskQueue, done, posted, caller,
          worker, task, destructor>>

-----------------------------------------------------------------------------
(* `enqueued' and `checked' are inside the mutex, the others outside.      *)
CallerStates == {"idle", "notifying", "enqueued", "checked", "waiting", "woken"}
WorkerStates == {"loop", "lock", "checked", "waiting", "task", "notify", "exited"}

(* The caller is between the push of its task and the return of cv.wait.   *)
InSyncCall(c) == caller[c] \in {"enqueued", "checked", "waiting", "woken"}

MutexFree ==
    /\ worker # "checked"
    /\ \A c \in Callers : caller[c] \notin {"enqueued", "checked"}

(* Membership in a queue, written so that the provers see the index.       *)
QueuedSync(c) == \E i \in 1 .. Len(syncTaskQueue) : syncTaskQueue[i] = c

TypeOK ==
    /\ running \in BOOLEAN
    /\ asyncTaskQueue \in Seq(AsyncTasks)
    /\ syncTaskQueue \in Seq(Callers)
    /\ done \in [Callers -> BOOLEAN]
    /\ posted \in SUBSET AsyncTasks
    /\ caller \in [Callers -> CallerStates]
    /\ worker \in WorkerStates
    /\ task \in Callers \cup AsyncTasks \cup {None}
    /\ task # None <=> worker = "task"
    /\ destructor \in {"none", "stopped", "notified", "joined"}

Init ==
    /\ running = TRUE
    /\ asyncTaskQueue = <<>>
    /\ syncTaskQueue = <<>>
    /\ done = [c \in Callers |-> FALSE]
    /\ posted = {}
    /\ caller = [c \in Callers |-> "idle"]
    /\ worker = "loop"
    /\ task = None
    /\ destructor = "none"

-----------------------------------------------------------------------------
(* The condition variable.  A notified thread still has to take the mutex: *)
(* the worker is then at "lock", a caller at "woken".                      *)
NotifiedCallers == [c \in Callers |-> IF caller[c] = "waiting" THEN "woken" ELSE caller[c]]
NotifiedWorker == IF worker = "waiting" THEN "lock" ELSE worker

NobodyWaits == worker # "waiting" /\ \A c \in Callers : caller[c] # "waiting"

SpuriousWakeup ==
    /\ SpuriousWakeups
    /\ \/ /\ worker = "waiting"
          /\ worker' = "lock"
          /\ UNCHANGED caller
       \/ \E c \in Callers :
             /\ caller[c] = "waiting"
             /\ caller' = [caller EXCEPT ![c] = "woken"]
             /\ UNCHANGED worker
    /\ UNCHANGED <<running, asyncTaskQueue, syncTaskQueue, done, posted, task, destructor>>

-----------------------------------------------------------------------------
(* runAsyncTask called by another thread: push under the mutex, then       *)
(* notify_one without it.  A call may start only before the destructor.    *)
PostAsync(c, a) ==
    /\ destructor = "none"
    /\ caller[c] = "idle"
    /\ MutexFree
    /\ a \notin posted
    /\ posted' = posted \cup {a}
    /\ asyncTaskQueue' = Append(asyncTaskQueue, a)
    /\ caller' = [caller EXCEPT ![c] = "notifying"]
    /\ UNCHANGED <<running, syncTaskQueue, done, worker, task, destructor>>

NotifyOne(c) ==
    /\ caller[c] = "notifying"
    /\ \/ /\ worker = "waiting"
          /\ worker' = "lock"
          /\ caller' = [caller EXCEPT ![c] = "idle"]
       \/ \E w \in Callers :
             /\ caller[w] = "waiting"
             /\ caller' = [caller EXCEPT ![c] = "idle", ![w] = "woken"]
             /\ UNCHANGED worker
       \/ /\ NobodyWaits
          /\ caller' = [caller EXCEPT ![c] = "idle"]
          /\ UNCHANGED worker
    /\ UNCHANGED <<running, asyncTaskQueue, syncTaskQueue, done, posted, task, destructor>>

(* runAsyncTask called by a task that runs on the worker: no notify.       *)
PostFromWorker(a) ==
    /\ worker = "task"
    /\ MutexFree
    /\ a \notin posted
    /\ posted' = posted \cup {a}
    /\ asyncTaskQueue' = Append(asyncTaskQueue, a)
    /\ UNCHANGED <<running, syncTaskQueue, done, caller, worker, task, destructor>>

-----------------------------------------------------------------------------
(* runSyncTask called by another thread (on the worker it calls the task   *)
(* in place, which changes nothing here): push and notify_all under the    *)
(* mutex, then cv.wait on !running || done.                                *)
EnqueueSync(c) ==
    /\ destructor = "none"
    /\ caller[c] = "idle"
    /\ MutexFree
    /\ syncTaskQueue' = Append(syncTaskQueue, c)
    /\ done' = [done EXCEPT ![c] = FALSE]
    /\ caller' = [NotifiedCallers EXCEPT ![c] = "enqueued"]
    /\ worker' = NotifiedWorker
    /\ UNCHANGED <<running, asyncTaskQueue, posted, task, destructor>>

ReturnsOnWakeup(c) ==  \* variant: cv.wait without a predicate
    ~running \/ done[c] \/ caller[c] = "woken"

CallerMayReturn(c) == ~running \/ done[c]

(* The predicate is tested with the mutex held: on entry to cv.wait and    *)
(* each time the caller has taken the mutex back after a wakeup.           *)
TestSync(c) ==
    /\ \/ caller[c] = "enqueued"
       \/ caller[c] = "woken" /\ MutexFree
    /\ caller' = [caller EXCEPT ![c] = IF CallerMayReturn(c) THEN "idle" ELSE "checked"]
    /\ UNCHANGED <<running, asyncTaskQueue, syncTaskQueue, done, posted, worker, task, destructor>>

BlockSync(c) ==
    /\ caller[c] = "checked"
    /\ caller' = [caller EXCEPT ![c] = "waiting"]
    /\ UNCHANGED <<running, asyncTaskQueue, syncTaskQueue, done, posted, worker, task, destructor>>

-----------------------------------------------------------------------------
(* runLoop.                                                                *)
LoopTest ==
    /\ worker = "loop"
    /\ worker' = IF running THEN "lock" ELSE "exited"
    /\ UNCHANGED <<running, asyncTaskQueue, syncTaskQueue, done, posted, caller, task, destructor>>

PendingSyncOnly == syncTaskQueue # <<>>    \* variants: one queue is forgotten
PendingAsyncOnly == asyncTaskQueue # <<>>

hasPendingTasks == asyncTaskQueue # <<>> \/ syncTaskQueue # <<>>

(* The worker holds the mutex: it tests hasPendingTasks() || !running, and *)
(* either returns, takes a task (synchronous tasks first) or will block.   *)
WorkerReturn ==
    /\ worker = "lock"
    /\ MutexFree
    /\ ~running
    /\ worker' = "exited"
    /\ UNCHANGED <<running, asyncTaskQueue, syncTaskQueue, done, posted, caller, task, destructor>>

TakeSync ==
    /\ worker = "lock"
    /\ MutexFree
    /\ running
    /\ syncTaskQueue # <<>>
    /\ task' = Head(syncTaskQueue)
    /\ syncTaskQueue' = Tail(syncTaskQueue)
    /\ worker' = "task"
    /\ UNCHANGED <<running, asyncTaskQueue, done, posted, caller, destructor>>

TakeAsync ==
    /\ worker = "lock"
    /\ MutexFree
    /\ running
    /\ syncTaskQueue = <<>>
    /\ asyncTaskQueue # <<>>
    /\ task' = Head(asyncTaskQueue)
    /\ asyncTaskQueue' = Tail(asyncTaskQueue)
    /\ worker' = "task"
    /\ UNCHANGED <<running, syncTaskQueue, done, posted, caller, destructor>>

WorkerCheck ==
    /\ worker = "lock"
    /\ MutexFree
    /\ running
    /\ ~hasPendingTasks
    /\ worker' = "checked"
    /\ UNCHANGED <<running, asyncTaskQueue, syncTaskQueue, done, posted, caller, task, destructor>>

WorkerBlock ==
    /\ worker = "checked"
    /\ worker' = "waiting"
    /\ UNCHANGED <<running, asyncTaskQueue, syncTaskQueue, done, posted, caller, task, destructor>>

(* The synchronous wrapper runs the task, then stores done; an exception   *)
(* skips the store and goes to exceptionHandler.                           *)
FinishSync ==
    /\ worker = "task"
    /\ task \in Callers
    /\ done' = IF task \in Throwing THEN done ELSE [done EXCEPT ![task] = TRUE]
    /\ worker' = "notify"
    /\ task' = None
    /\ UNCHANGED <<running, asyncTaskQueue, syncTaskQueue, posted, caller, destructor>>

NotifyAfterSync ==
    /\ worker = "notify"
    /\ worker' = "loop"
    /\ caller' = NotifiedCallers
    /\ UNCHANGED <<running, asyncTaskQueue, syncTaskQueue, done, posted, task, destructor>>

FinishAsync ==
    /\ worker = "task"
    /\ task \in AsyncTasks
    /\ worker' = "loop"
    /\ task' = None
    /\ UNCHANGED <<running, asyncTaskQueue, syncTaskQueue, done, posted, caller, destructor>>

-----------------------------------------------------------------------------
(* ~ThreadTaskRunner: running = false; cv.notify_all(); thread.join().     *)
StopRunning ==
    /\ MayDestroy
    /\ destructor = "none"
    /\ running' = FALSE
    /\ destructor' = "stopped"
    /\ UNCHANGED <<asyncTaskQueue, syncTaskQueue, done, posted, caller, worker, task>>

NotifyStopped ==
    /\ destructor = "stopped"
    /\ destructor' = "notified"
    /\ caller' = NotifiedCallers
    /\ worker' = NotifiedWorker
    /\ UNCHANGED <<running, asyncTaskQueue, syncTaskQueue, done, posted, task>>

Join ==
    /\ destructor = "notified"
    /\ worker = "exited"
    /\ destructor' = "joined"
    /\ UNCHANGED <<running, asyncTaskQueue, syncTaskQueue, done, posted, caller, worker, task>>

-----------------------------------------------------------------------------
CallerStep(c) == EnqueueSync(c) \/ TestSync(c) \/ BlockSync(c) \/ NotifyOne(c)

WorkerStep ==
    \/ LoopTest \/ WorkerReturn \/ TakeSync \/ TakeAsync \/ WorkerCheck
    \/ WorkerBlock \/ FinishSync \/ NotifyAfterSync \/ FinishAsync

DestructorStep == StopRunning \/ NotifyStopped \/ Join

Next ==
    \/ \E c \in Callers : CallerStep(c)
    \/ \E c \in Callers, a \in AsyncTasks : PostAsync(c, a)
    \/ \E a \in AsyncTasks : PostFromWorker(a)
    \/ WorkerStep
    \/ DestructorStep
    \/ SpuriousWakeup

Spec == Init /\ [][Next]_vars

(* A thread that can run runs, and a thread that keeps finding the mutex   *)
(* free gets it; nobody is obliged to start a call or to destroy the       *)
(* runner, and no wakeup is spurious unless SpuriousWakeups says so.       *)
Fairness ==
    /\ SF_vars(WorkerStep)
    /\ \A c \in Callers : /\ SF_vars(TestSync(c))
                          /\ WF_vars(BlockSync(c))
                          /\ WF_vars(NotifyOne(c))
    /\ WF_vars(NotifyStopped)

FairSpec == Spec /\ Fairness

-----------------------------------------------------------------------------
(* SyncNeverStranded: a synchronous task in the queue always finds the     *)
(* worker awake: runSyncTask pushes and notifies inside the mutex, and the *)
(* worker tests and blocks inside it (ThreadTaskRunner.cpp:59-65, 82-85).  *)
SyncNeverStranded ==
    syncTaskQueue # <<>> => worker \notin {"checked", "waiting"}

(* NoDanglingDone: until the destructor clears `running', the caller of a  *)
(* synchronous task that is queued or executing is still inside            *)
(* runSyncTask, so the reference to its stack flag `done' that the task    *)
(* captured (ThreadTaskRunner.cpp:60-64) is valid.                         *)
NoDanglingDone ==
    running =>
        \A c \in Callers :
            QueuedSync(c) \/ (worker = "task" /\ task = c) => InSyncCall(c)

(* ImplementsTaskRunner: the worker and its callers, with their mutex and  *)
(* condition variable, do what TaskRunner promises: each queue is served   *)
(* in order, one task at a time, and runSyncTask returns only after its    *)
(* task ran or `running' was cleared (ThreadTaskRunner.cpp:67-69, 80-117). *)
TR == INSTANCE TaskRunner WITH
    Lanes <- {"sync", "async"},
    stopped <- ~running,
    pending <- [l \in {"sync", "async"} |->
                   IF l = "sync" THEN syncTaskQueue ELSE asyncTaskQueue],
    current <- task,
    completed <- {c \in Callers : done[c]},
    blocked <- {c \in Callers : InSyncCall(c)}

ImplementsTaskRunner == TR!AbstractSpec

(* SyncCallReturns: a thread that entered runSyncTask leaves it, as the    *)
(* comment before its cv.wait promises (ThreadTaskRunner.cpp:66).          *)
SyncCallReturns == \A c \in Callers : caller[c] = "enqueued" ~> caller[c] = "idle"

(* TasksRun: a synchronous task given to the runner is run, unless the     *)
(* runner is destroyed, and so is an asynchronous one, with two more       *)
(* exceptions: runLoop serves the synchronous queue first, so it may wait  *)
(* as long as some thread is in runSyncTask; and notify_one may wake a     *)
(* caller for the worker when two threads are in the runner at once        *)
(* (ThreadTaskRunner.cpp:48, 83, 89, 107).                                 *)
AsyncWaits(a) == task = a \/ \E i \in 1 .. Len(asyncTaskQueue) : asyncTaskQueue[i] = a

TwoAtOnce == \E c, d \in Callers : c # d /\ caller[c] # "idle" /\ caller[d] # "idle"

TasksRun ==
    /\ \A c \in Callers : QueuedSync(c) ~> ~running \/ ~(QueuedSync(c) \/ task = c)
    /\ \/ []<>(\E c \in Callers : InSyncCall(c))
       \/ <>TwoAtOnce
       \/ \A a \in AsyncTasks : a \in posted ~> ~running \/ ~AsyncWaits(a)
=============================================================================
