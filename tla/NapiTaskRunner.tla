--------------------------- MODULE NapiTaskRunner ---------------------------
(***************************************************************************)
(* thread/NapiTaskRunner.{h,cpp}: the runner of the MAIN thread.  Tasks    *)
(* are queued under tasksMutex and the libuv loop is poked with            *)
(* uv_async_send; the loop's callback swaps the whole queue into a local   *)
(* batch and runs it without the mutex.  A thread blocked in runSyncTask   *)
(* waits on `cv' for the flag `done' on its stack.                         *)
(*                                                                         *)
(* libuv (external, libuv's uv_async_t): sends between two callbacks are   *)
(* coalesced into one pending signal, which the loop clears before it      *)
(* calls the callback; a closed handle calls nothing.                      *)
(***************************************************************************)
EXTENDS Naturals, Sequences

CONSTANTS
    Callers,          \* threads other than MAIN that use the runner
    AsyncTasks,       \* tasks given to runAsyncTask
    None,             \* MAIN runs no task of the runner
    Throwing,         \* callers whose task ends by a std::exception
    MayDestroy,       \* whether the runner is destroyed
    SpuriousWakeups   \* whether cv.wait may return without a notify

ConstantsAssumption ==
    /\ Callers \cap AsyncTasks = {}
    /\ None \notin Callers \cup AsyncTasks
    /\ Throwing \subseteq Callers
    /\ MayDestroy \in BOOLEAN
    /\ SpuriousWakeups \in BOOLEAN

VARIABLES
    running,      \* *running
    tasksQueue,   \* the queue the mutex protects
    signalled,    \* asyncHandle has a pending uv_async_send
    closed,       \* asyncHandle is closed
    batch,        \* the local queue of the callback in progress
    task,         \* the task of the batch being run
    main,         \* where the MAIN thread is
    done,         \* done[c]: the flag on the stack of c's runSyncTask
    caller,       \* where each caller is
    posted,       \* asynchronous tasks given to the runner so far
    destructor    \* progress of ~NapiTaskRunner

vars == <<running, tasksQueue, signalled, closed, batch, task, main, done,
          caller, posted, destructor>>

Tasks == Callers \cup AsyncTasks

-----------------------------------------------------------------------------
(* A caller holds tasksMutex in "posting" and "calling" (its task is       *)
(* pushed, uv_async_send is next), in "sent" and in "checked" (it found    *)
(* the predicate of cv.wait false and is about to block).                  *)
CallerStates == {"idle", "posting", "calling", "sent", "checked", "waiting", "woken"}
Holding == {"posting", "calling", "sent", "checked"}

(* "loop": outside the runner; "callback": entered, before the swap;       *)
(* "draining": between two tasks; "done": the task of a synchronous call   *)
(* has stored done and is about to notify.                                 *)
MainStates == {"loop", "callback", "draining", "task", "done"}

InSyncCall(c) == caller[c] \in {"calling", "sent", "checked", "waiting", "woken"}

MutexFree == \A c \in Callers : caller[c] \notin Holding

Queued(t) ==
    \/ \E i \in 1 .. Len(tasksQueue) : tasksQueue[i] = t
    \/ \E i \in 1 .. Len(batch) : batch[i] = t

TypeOK ==
    /\ running \in BOOLEAN
    /\ tasksQueue \in Seq(Tasks)
    /\ signalled \in BOOLEAN
    /\ closed \in BOOLEAN
    /\ batch \in Seq(Tasks)
    /\ task \in Tasks \cup {None}
    /\ main \in MainStates
    /\ task # None <=> main = "task"
    /\ main \in {"loop", "callback"} => batch = <<>>
    /\ done \in [Callers -> BOOLEAN]
    /\ caller \in [Callers -> CallerStates]
    /\ posted \in SUBSET AsyncTasks
    /\ destructor \in {"none", "stopped", "notified", "closed"}

Init ==
    /\ running = TRUE
    /\ tasksQueue = <<>>
    /\ signalled = FALSE
    /\ closed = FALSE
    /\ batch = <<>>
    /\ task = None
    /\ main = "loop"
    /\ done = [c \in Callers |-> FALSE]
    /\ caller = [c \in Callers |-> "idle"]
    /\ posted = {}
    /\ destructor = "none"

-----------------------------------------------------------------------------
uv_async_send == signalled' = ~closed

NotifiedCallers == [c \in Callers |-> IF caller[c] = "waiting" THEN "woken" ELSE caller[c]]

(* runAsyncTask and runSyncTask from another thread: lock and push, then   *)
(* send.  A call starts only before the destructor.                        *)
PushAsync(c, a) ==
    /\ destructor = "none"
    /\ caller[c] = "idle"
    /\ MutexFree
    /\ a \notin posted
    /\ posted' = posted \cup {a}
    /\ tasksQueue' = Append(tasksQueue, a)
    /\ caller' = [caller EXCEPT ![c] = "posting"]
    /\ UNCHANGED <<running, signalled, closed, batch, task, main, done, destructor>>

PushSync(c) ==
    /\ destructor = "none"
    /\ caller[c] = "idle"
    /\ MutexFree
    /\ tasksQueue' = Append(tasksQueue, c)
    /\ done' = [done EXCEPT ![c] = FALSE]
    /\ caller' = [caller EXCEPT ![c] = "calling"]
    /\ UNCHANGED <<running, signalled, closed, batch, task, main, posted, destructor>>

SendSyncOnly(c) ==  \* variant: runAsyncTask does not send
    /\ caller[c] \in {"posting", "calling"}
    /\ IF caller[c] = "calling" THEN uv_async_send ELSE UNCHANGED signalled
    /\ caller' = [caller EXCEPT ![c] = IF @ = "posting" THEN "idle" ELSE "sent"]
    /\ UNCHANGED <<running, tasksQueue, closed, batch, task, main, done, posted, destructor>>

Send(c) ==
    /\ uv_async_send
    /\ \/ /\ caller[c] = "posting"
          /\ caller' = [caller EXCEPT ![c] = "idle"]
       \/ /\ caller[c] = "calling"
          /\ caller' = [caller EXCEPT ![c] = "sent"]
    /\ UNCHANGED <<running, tasksQueue, closed, batch, task, main, done, posted, destructor>>

(* runAsyncTask on MAIN, from a task or from anything else the loop runs.  *)
(* Only MAIN clears the signal, so push and send are one step there.       *)
(* runSyncTask on MAIN calls the task in place.                            *)
PostFromMain(a) ==
    /\ destructor = "none"
    /\ main \in {"loop", "task"}
    /\ MutexFree
    /\ a \notin posted
    /\ posted' = posted \cup {a}
    /\ tasksQueue' = Append(tasksQueue, a)
    /\ uv_async_send
    /\ UNCHANGED <<running, closed, batch, task, main, done, caller, destructor>>

ReturnsOnWakeup(c) ==  \* variant: cv.wait without a predicate
    ~running \/ done[c] \/ caller[c] = "woken"

CallerMayReturn(c) == ~running \/ done[c]

TestSync(c) ==
    /\ \/ caller[c] = "sent"
       \/ caller[c] = "woken" /\ MutexFree
    /\ caller' = [caller EXCEPT ![c] = IF CallerMayReturn(c) THEN "idle" ELSE "checked"]
    /\ UNCHANGED <<running, tasksQueue, signalled, closed, batch, task, main, done, posted, destructor>>

BlockSync(c) ==
    /\ caller[c] = "checked"
    /\ caller' = [caller EXCEPT ![c] = "waiting"]
    /\ UNCHANGED <<running, tasksQueue, signalled, closed, batch, task, main, done, posted, destructor>>

SpuriousWakeup ==
    /\ SpuriousWakeups
    /\ \E c \in Callers :
          /\ caller[c] = "waiting"
          /\ caller' = [caller EXCEPT ![c] = "woken"]
    /\ UNCHANGED <<running, tasksQueue, signalled, closed, batch, task, main, done, posted, destructor>>

-----------------------------------------------------------------------------
(* The loop clears the signal and enters the callback of the constructor.  *)
EnterCallback ==
    /\ main = "loop"
    /\ signalled
    /\ ~closed
    /\ signalled' = FALSE
    /\ main' = "callback"
    /\ UNCHANGED <<running, tasksQueue, closed, batch, task, done, caller, posted, destructor>>

CopyQueue ==  \* variant: the queue is copied, not swapped
    /\ main = "callback"
    /\ MutexFree
    /\ batch' = tasksQueue
    /\ main' = "draining"
    /\ UNCHANGED <<running, tasksQueue, signalled, closed, task, done, caller, posted, destructor>>

SwapQueue ==
    /\ main = "callback"
    /\ MutexFree
    /\ batch' = tasksQueue
    /\ tasksQueue' = batch
    /\ main' = "draining"
    /\ UNCHANGED <<running, signalled, closed, task, done, caller, posted, destructor>>

TakeTask ==
    /\ main = "draining"
    /\ batch # <<>>
    /\ task' = Head(batch)
    /\ batch' = Tail(batch)
    /\ main' = "task"
    /\ UNCHANGED <<running, tasksQueue, signalled, closed, done, caller, posted, destructor>>

LeaveCallback ==
    /\ main = "draining"
    /\ batch = <<>>
    /\ main' = "loop"
    /\ UNCHANGED <<running, tasksQueue, signalled, closed, batch, task, done, caller, posted, destructor>>

(* An asynchronous task, or one that throws, just ends; the wrapper of a   *)
(* synchronous task then stores done and notifies.                         *)
FinishTask ==
    /\ main = "task"
    /\ task' = None
    /\ IF task \in Callers \ Throwing
       THEN /\ done' = [done EXCEPT ![task] = TRUE]
            /\ main' = "done"
       ELSE /\ main' = "draining"
            /\ UNCHANGED done
    /\ UNCHANGED <<running, tasksQueue, signalled, closed, batch, caller, posted, destructor>>

NotifyDone ==
    /\ main = "done"
    /\ main' = "draining"
    /\ caller' = NotifiedCallers
    /\ UNCHANGED <<running, tasksQueue, signalled, closed, batch, task, done, posted, destructor>>

-----------------------------------------------------------------------------
(* ~NapiTaskRunner, on another thread: running, notify_all, uv_close.      *)
StopRunning ==
    /\ MayDestroy
    /\ destructor = "none"
    /\ running' = FALSE
    /\ destructor' = "stopped"
    /\ UNCHANGED <<tasksQueue, signalled, closed, batch, task, main, done, caller, posted>>

NotifyStopped ==
    /\ destructor = "stopped"
    /\ caller' = NotifiedCallers
    /\ destructor' = "notified"
    /\ UNCHANGED <<running, tasksQueue, signalled, closed, batch, task, main, done, posted>>

Close ==
    /\ destructor = "notified"
    /\ closed' = TRUE
    /\ signalled' = FALSE
    /\ destructor' = "closed"
    /\ UNCHANGED <<running, tasksQueue, batch, task, main, done, caller, posted>>

-----------------------------------------------------------------------------
CallerStep(c) == PushSync(c) \/ Send(c) \/ TestSync(c) \/ BlockSync(c)

MainStep ==
    \/ EnterCallback \/ SwapQueue \/ TakeTask \/ LeaveCallback
    \/ FinishTask \/ NotifyDone

DestructorStep == StopRunning \/ NotifyStopped \/ Close

Next ==
    \/ \E c \in Callers : CallerStep(c)
    \/ \E c \in Callers, a \in AsyncTasks : PushAsync(c, a)
    \/ \E a \in AsyncTasks : PostFromMain(a)
    \/ MainStep
    \/ DestructorStep
    \/ SpuriousWakeup

Spec == Init /\ [][Next]_vars

(* The MAIN loop keeps turning and gets the mutex when it keeps coming     *)
(* free; a caller goes on with a call it has begun.                        *)
Fairness ==
    /\ SF_vars(MainStep)
    /\ \A c \in Callers : /\ WF_vars(Send(c))
                          /\ SF_vars(TestSync(c))
                          /\ WF_vars(BlockSync(c))

FairSpec == Spec /\ Fairness

-----------------------------------------------------------------------------
(* QueueSignalled: a task left in tasksQueue is never forgotten: the loop  *)
(* has been signalled, or is about to swap the queue, or its producer is   *)
(* about to signal.  The push and the send are in one critical section,    *)
(* the clearing of the signal and the swap are not (NapiTaskRunner.cpp:    *)
(* 33-37, 57-59, 67-74).                                                   *)
QueueSignalled ==
    tasksQueue # <<>> /\ ~closed =>
        \/ signalled
        \/ main = "callback"
        \/ \E c \in Callers : caller[c] \in {"posting", "calling"}

(* NoDanglingDone: until the destructor clears `running', whoever queued a *)
(* synchronous task that is not finished is still inside runSyncTask, so   *)
(* the `done' the task refers to exists (NapiTaskRunner.cpp:68-77).        *)
NoDanglingDone ==
    running =>
        \A c \in Callers : Queued(c) \/ task = c => InSyncCall(c)

(* ImplementsTaskRunner: the swapped batch and the queue together are one  *)
(* first-in first-out lane, and runSyncTask returns only after its task    *)
(* ran or the runner stopped (NapiTaskRunner.cpp:33-46, 75-77).            *)
TR == INSTANCE TaskRunner WITH
    Lanes <- {"main"},
    stopped <- ~running,
    pending <- [main |-> batch \o tasksQueue],
    current <- task,
    completed <- {c \in Callers : done[c]},
    blocked <- {c \in Callers : InSyncCall(c)}

ImplementsTaskRunner == TR!AbstractSpec

(* TasksRun: a task given to the runner is run, unless the runner is       *)
(* destroyed, however sends and callbacks overlap (NapiTaskRunner.cpp:     *)
(* 33-46, 59, 74).                                                         *)
TasksRun ==
    \A t \in Tasks : Queued(t) ~> ~running \/ ~(Queued(t) \/ task = t)
=============================================================================
