--------------------------- MODULE Runners_proofs ---------------------------
(***************************************************************************)
(* Proofs about the runners, for any callers, tasks and constants.  First  *)
(* ThreadTaskRunner: its type invariant, that a synchronous task never     *)
(* finds the worker asleep, that the flag `done' a task refers to is       *)
(* alive, and that every step is a step of TaskRunner or a stutter.  Then  *)
(* TaskExecutor, for any threads, calls and depths.  Last NapiTaskRunner,  *)
(* as the first, with no queued task forgotten by the loop.                *)
(***************************************************************************)
EXTENDS ThreadTaskRunner, MCTaskExecutor, MCNapiTaskRunner, SequenceTheorems, TLAPS

-----------------------------------------------------------------------------
(* PushedElements: what std::queue::push leaves in the queue.              *)
LEMMA PushedElements ==
    ASSUME NEW S, NEW q \in Seq(S), NEW e \in S
    PROVE  /\ Append(q, e) \in Seq(S)
           /\ Len(q) \in Nat
           /\ Len(Append(q, e)) = Len(q) + 1
           /\ \A i \in 1 .. Len(q) : Append(q, e)[i] = q[i]
           /\ Append(q, e)[Len(q) + 1] = e
  OBVIOUS

(* PoppedElements: what std::queue::front and pop return and leave.        *)
LEMMA PoppedElements ==
    ASSUME NEW S, NEW q \in Seq(S), q # <<>>
    PROVE  /\ Head(q) \in S
           /\ Head(q) = q[1]
           /\ Tail(q) \in Seq(S)
           /\ Len(q) \in Nat \ {0}
           /\ Len(Tail(q)) = Len(q) - 1
           /\ \A i \in 1 .. Len(q) - 1 : Tail(q)[i] = q[i + 1]
  OBVIOUS

-----------------------------------------------------------------------------
(* TypeStep: every step keeps the types.                                   *)
LEMMA TypeStep == TypeOK /\ [Next]_vars => TypeOK'
  <1> SUFFICES ASSUME TypeOK, [Next]_vars PROVE TypeOK'
    OBVIOUS
  <1> USE ConstantsAssumption DEF TypeOK, CallerStates, WorkerStates
  <1>1. ASSUME NEW c \in Callers, NEW a \in AsyncTasks, PostAsync(c, a) PROVE TypeOK'
    BY <1>1, PushedElements DEF PostAsync
  <1>2. ASSUME NEW c \in Callers, NotifyOne(c) PROVE TypeOK'
    BY <1>2 DEF NotifyOne
  <1>3. ASSUME NEW a \in AsyncTasks, PostFromWorker(a) PROVE TypeOK'
    BY <1>3, PushedElements DEF PostFromWorker
  <1>4. ASSUME NEW c \in Callers, EnqueueSync(c) PROVE TypeOK'
    BY <1>4, PushedElements DEF EnqueueSync, NotifiedCallers, NotifiedWorker
  <1>5. ASSUME NEW c \in Callers, TestSync(c) PROVE TypeOK'
    BY <1>5 DEF TestSync
  <1>6. ASSUME NEW c \in Callers, BlockSync(c) PROVE TypeOK'
    BY <1>6 DEF BlockSync
  <1>7. CASE TakeSync
    BY <1>7, PoppedElements DEF TakeSync
  <1>8. CASE TakeAsync
    BY <1>8, PoppedElements DEF TakeAsync
  <1>9. CASE LoopTest \/ WorkerReturn \/ WorkerCheck \/ WorkerBlock
    BY <1>9 DEF LoopTest, WorkerReturn, WorkerCheck, WorkerBlock
  <1>10. CASE FinishSync \/ FinishAsync
    BY <1>10 DEF FinishSync, FinishAsync
  <1>11. CASE NotifyAfterSync
    BY <1>11 DEF NotifyAfterSync, NotifiedCallers
  <1>12. CASE DestructorStep
    BY <1>12 DEF DestructorStep, StopRunning, NotifyStopped, Join,
                 NotifiedCallers, NotifiedWorker
  <1>13. CASE SpuriousWakeup
    BY <1>13 DEF SpuriousWakeup
  <1>14. CASE UNCHANGED vars
    BY <1>14 DEF vars
  <1> QED
    BY <1>1, <1>2, <1>3, <1>4, <1>5, <1>6, <1>7, <1>8, <1>9, <1>10, <1>11,
       <1>12, <1>13, <1>14 DEF Next, CallerStep, WorkerStep

(* TypeCorrect: in every behaviour, each variable of the runner keeps its  *)
(* type and the worker holds a task exactly while it runs one              *)
(* (ThreadTaskRunner.cpp:80-117).                                          *)
THEOREM TypeCorrect == Spec => []TypeOK
  <1>1. Init => TypeOK
    BY ConstantsAssumption DEF Init, TypeOK, CallerStates, WorkerStates
  <1> QED
    BY <1>1, TypeStep, PTL DEF Spec

-----------------------------------------------------------------------------
(* SyncAlwaysServed: in every behaviour a queued synchronous task finds    *)
(* the worker awake (ThreadTaskRunner.cpp:59-65, 82-85).  The push and the *)
(* notify are one critical section, and the worker's test and its blocking *)
(* are another, so the invariant is inductive as it stands.                *)
THEOREM SyncAlwaysServed == Spec => []SyncNeverStranded
  <1>1. Init => SyncNeverStranded
    BY DEF Init, SyncNeverStranded
  <1>2. ASSUME TypeOK, SyncNeverStranded, [Next]_vars PROVE SyncNeverStranded'
    <2> USE <1>2 DEF SyncNeverStranded
    <2>1. ASSUME NEW c \in Callers, CallerStep(c) PROVE SyncNeverStranded'
      BY <2>1 DEF CallerStep, EnqueueSync, TestSync, BlockSync, NotifyOne,
                  NotifiedWorker, MutexFree
    <2>2. ASSUME NEW c \in Callers, NEW a \in AsyncTasks, PostAsync(c, a)
          PROVE SyncNeverStranded'
      BY <2>2 DEF PostAsync
    <2>3. ASSUME NEW a \in AsyncTasks, PostFromWorker(a) PROVE SyncNeverStranded'
      BY <2>3 DEF PostFromWorker
    <2>4. CASE WorkerStep
      BY <2>4 DEF WorkerStep, LoopTest, WorkerReturn, TakeSync, TakeAsync,
                  WorkerCheck, WorkerBlock, FinishSync, NotifyAfterSync,
                  FinishAsync, hasPendingTasks
    <2>5. CASE DestructorStep
      BY <2>5 DEF DestructorStep, StopRunning, NotifyStopped, Join, NotifiedWorker
    <2>6. CASE SpuriousWakeup
      BY <2>6 DEF SpuriousWakeup
    <2>7. CASE UNCHANGED vars
      BY <2>7 DEF vars
    <2> QED
      BY <2>1, <2>2, <2>3, <2>4, <2>5, <2>6, <2>7 DEF Next
  <1> QED
    BY <1>1, <1>2, TypeCorrect, PTL DEF Spec

-----------------------------------------------------------------------------
(* The inductive invariant behind NoDanglingDone.  Besides NoDanglingDone  *)
(* it says that a caller has one task at a time, in the queue or running,  *)
(* and that `done' is false as long as that task exists: so a caller that  *)
(* leaves runSyncTask because of `done' leaves no task behind.             *)
Unfinished(c) == QueuedSync(c) \/ (worker = "task" /\ task = c)

OneTaskEach ==
    /\ \A i, j \in 1 .. Len(syncTaskQueue) :
          syncTaskQueue[i] = syncTaskQueue[j] => i = j
    /\ worker = "task" => ~QueuedSync(task)

NotDoneYet == \A c \in Callers : Unfinished(c) => ~done[c] /\ InSyncCall(c)

RunningUntilDestroyed == running <=> destructor = "none"

IInv ==
    /\ RunningUntilDestroyed
    /\ running => OneTaskEach /\ NotDoneYet

(* IInvInit, IInvStep, IInvAlways: IInv holds initially, every step keeps  *)
(* it, and so it holds in every state of every behaviour.                  *)
LEMMA IInvInit == Init => IInv
  BY DEF Init, IInv, RunningUntilDestroyed, OneTaskEach, NotDoneYet, Unfinished, QueuedSync

(* IInvStep: most steps leave the queue, `done' and the calls alone        *)
(* ("Kept"); the other five are taken one by one.                          *)
LEMMA IInvStep == TypeOK /\ TypeOK' /\ IInv /\ [Next]_vars => IInv'
  <1> SUFFICES ASSUME TypeOK, TypeOK', IInv, [Next]_vars PROVE IInv'
    OBVIOUS
  <1> USE ConstantsAssumption
  <1>1. RunningUntilDestroyed'
    BY DEF IInv, RunningUntilDestroyed, Next, vars, CallerStep, WorkerStep, DestructorStep,
           EnqueueSync, TestSync, BlockSync, NotifyOne, PostAsync, PostFromWorker, LoopTest,
           WorkerReturn, TakeSync, TakeAsync, WorkerCheck, WorkerBlock, FinishSync,
           NotifyAfterSync, FinishAsync, StopRunning, NotifyStopped, Join, SpuriousWakeup
  <1>2. SUFFICES ASSUME running' PROVE OneTaskEach' /\ NotDoneYet'
    BY <1>1 DEF IInv
  <1>3. running /\ OneTaskEach /\ NotDoneYet
    BY <1>2, <1>1 DEF IInv, RunningUntilDestroyed, Next, vars, CallerStep, WorkerStep, DestructorStep,
           EnqueueSync, TestSync, BlockSync, NotifyOne, PostAsync, PostFromWorker, LoopTest,
           WorkerReturn, TakeSync, TakeAsync, WorkerCheck, WorkerBlock, FinishSync,
           NotifyAfterSync, FinishAsync, StopRunning, NotifyStopped, Join, SpuriousWakeup
  <1> USE <1>3
  <1> DEFINE Kept == /\ syncTaskQueue' = syncTaskQueue
                     /\ done' = done
                     /\ worker' = "task" => worker = "task" /\ task' = task
                     /\ \A c \in Callers : InSyncCall(c) => InSyncCall(c)'
  <1>4. Kept => OneTaskEach' /\ NotDoneYet'
    BY DEF OneTaskEach, NotDoneYet, Unfinished, QueuedSync
  <1> HIDE DEF Kept
  <1>5. ASSUME NEW c \in Callers, NEW a \in AsyncTasks, PostAsync(c, a) PROVE Kept
    BY <1>5 DEF PostAsync, Kept, TypeOK, InSyncCall
  <1>6. ASSUME NEW c \in Callers, NotifyOne(c) PROVE Kept
    BY <1>6 DEF NotifyOne, Kept, TypeOK, InSyncCall
  <1>7. ASSUME NEW a \in AsyncTasks, PostFromWorker(a) PROVE Kept
    BY <1>7 DEF PostFromWorker, Kept, InSyncCall
  <1>8. ASSUME NEW c \in Callers, BlockSync(c) PROVE Kept
    BY <1>8 DEF BlockSync, Kept, TypeOK, InSyncCall
  <1>9. ASSUME LoopTest \/ WorkerReturn \/ WorkerCheck \/ WorkerBlock \/ FinishAsync PROVE Kept
    BY <1>9 DEF LoopTest, WorkerReturn, WorkerCheck, WorkerBlock, FinishAsync, Kept, InSyncCall
  <1>10. ASSUME NotifyAfterSync PROVE Kept
    BY <1>10 DEF NotifyAfterSync, NotifiedCallers, Kept, TypeOK, InSyncCall
  <1>11. ASSUME DestructorStep PROVE Kept
    BY <1>11 DEF DestructorStep, StopRunning, NotifyStopped, Join, NotifiedCallers,
                 NotifiedWorker, Kept, TypeOK, InSyncCall
  <1>12. ASSUME SpuriousWakeup PROVE Kept
    BY <1>12 DEF SpuriousWakeup, Kept, TypeOK, InSyncCall
  <1>13. ASSUME UNCHANGED vars PROVE Kept
    BY <1>13 DEF vars, Kept, InSyncCall
  <1>14. ASSUME NEW c \in Callers, EnqueueSync(c) PROVE OneTaskEach' /\ NotDoneYet'
    <2>1. ~Unfinished(c)
      BY <1>14 DEF EnqueueSync, NotDoneYet, InSyncCall
    <2>2. /\ syncTaskQueue' = Append(syncTaskQueue, c)
          /\ done' = [done EXCEPT ![c] = FALSE]
          /\ worker' = "task" => worker = "task"
          /\ task' = task
          /\ \A d \in Callers : InSyncCall(d) \/ d = c => InSyncCall(d)'
      BY <1>14 DEF EnqueueSync, NotifiedCallers, NotifiedWorker, TypeOK, InSyncCall
    <2>3. /\ Len(syncTaskQueue') = Len(syncTaskQueue) + 1
          /\ Len(syncTaskQueue) \in Nat
          /\ \A i \in 1 .. Len(syncTaskQueue) : syncTaskQueue'[i] = syncTaskQueue[i]
          /\ syncTaskQueue'[Len(syncTaskQueue) + 1] = c
      BY <2>2, PushedElements DEF TypeOK
    <2>4. OneTaskEach'
      BY <2>1, <2>2, <2>3 DEF OneTaskEach, Unfinished, QueuedSync
    <2>5. NotDoneYet'
      BY <2>1, <2>2, <2>3 DEF NotDoneYet, Unfinished, QueuedSync, TypeOK
    <2> QED
      BY <2>4, <2>5
  <1>15. ASSUME NEW c \in Callers, TestSync(c) PROVE OneTaskEach' /\ NotDoneYet'
    <2>1. /\ UNCHANGED <<syncTaskQueue, done, worker, task>>
          /\ \A d \in Callers : InSyncCall(d) /\ ~InSyncCall(d)' => done[d]
      BY <1>15 DEF TestSync, CallerMayReturn, InSyncCall, TypeOK
    <2> QED
      BY <2>1 DEF OneTaskEach, NotDoneYet, Unfinished, QueuedSync
  <1>16. CASE TakeSync
    <2>1. /\ task' = syncTaskQueue[1]
          /\ Len(syncTaskQueue) \in Nat \ {0}
          /\ Len(syncTaskQueue') = Len(syncTaskQueue) - 1
          /\ \A i \in 1 .. Len(syncTaskQueue) - 1 : syncTaskQueue'[i] = syncTaskQueue[i + 1]
      BY <1>16, PoppedElements DEF TakeSync, TypeOK
    <2>2. OneTaskEach'
      <3>1. \A i, j \in 1 .. Len(syncTaskQueue') :
               syncTaskQueue'[i] = syncTaskQueue'[j] => i = j
        <4> SUFFICES ASSUME NEW i \in 1 .. Len(syncTaskQueue'), NEW j \in 1 .. Len(syncTaskQueue'),
                            syncTaskQueue'[i] = syncTaskQueue'[j]
                     PROVE  i = j
          OBVIOUS
        <4>1. syncTaskQueue[i + 1] = syncTaskQueue[j + 1]
          BY <2>1
        <4>2. i + 1 = j + 1
          BY <2>1, <4>1 DEF OneTaskEach
        <4> QED
          BY <4>2
      <3>2. \A i \in 1 .. Len(syncTaskQueue') : syncTaskQueue'[i] # task'
        <4> SUFFICES ASSUME NEW i \in 1 .. Len(syncTaskQueue'), syncTaskQueue'[i] = task'
                     PROVE  FALSE
          OBVIOUS
        <4>1. syncTaskQueue[i + 1] = syncTaskQueue[1] /\ i + 1 # 1
          BY <2>1
        <4> QED
          BY <2>1, <4>1 DEF OneTaskEach
      <3> QED
        BY <3>1, <3>2 DEF OneTaskEach, QueuedSync
    <2>3. \A c \in Callers : Unfinished(c)' => Unfinished(c)
      BY <2>1 DEF Unfinished, QueuedSync
    <2> QED
      BY <1>16, <2>2, <2>3 DEF NotDoneYet, TakeSync, InSyncCall
  <1>17. CASE TakeAsync
    <2>1. /\ syncTaskQueue = <<>>
          /\ syncTaskQueue' = syncTaskQueue
          /\ task' \in AsyncTasks
      BY <1>17, PoppedElements DEF TakeAsync, TypeOK
    <2> QED
      BY <2>1 DEF OneTaskEach, NotDoneYet, Unfinished, QueuedSync
  <1>18. CASE FinishSync
    <2>1. /\ worker = "task" /\ worker' = "notify"
          /\ UNCHANGED <<syncTaskQueue, caller>>
          /\ \A c \in Callers : c # task => done'[c] = done[c]
      BY <1>18 DEF FinishSync, TypeOK
    <2> QED
      BY <2>1 DEF OneTaskEach, NotDoneYet, Unfinished, QueuedSync, InSyncCall
  <1> QED
    BY <1>4, <1>5, <1>6, <1>7, <1>8, <1>9, <1>10, <1>11, <1>12, <1>13, <1>14, <1>15,
       <1>16, <1>17, <1>18 DEF Next, CallerStep, WorkerStep

(* IInvAlways: see above.                                                  *)
LEMMA IInvAlways == Spec => []IInv
  BY IInvInit, IInvStep, TypeCorrect, PTL DEF Spec

(* FlagOutlivesTask: in every behaviour, until the destructor clears       *)
(* `running', the `done' flag a synchronous task refers to is on the stack *)
(* of a caller still in runSyncTask (ThreadTaskRunner.cpp:57-69).          *)
THEOREM FlagOutlivesTask == Spec => []NoDanglingDone
  <1>1. IInv => NoDanglingDone
    BY DEF IInv, NotDoneYet, Unfinished, NoDanglingDone
  <1> QED
    BY <1>1, IInvAlways, PTL

-----------------------------------------------------------------------------
(* MappedStep: under the mapping of TR each step is a step of TaskRunner   *)
(* or changes nothing it sees ("Stutter": locking, testing, blocking and   *)
(* waking up).                                                             *)
LEMMA MappedStep ==
  TypeOK /\ TypeOK' /\ RunningUntilDestroyed /\ [Next]_vars => [TR!AbstractNext]_TR!aVars
  <1> SUFFICES ASSUME TypeOK, TypeOK', RunningUntilDestroyed, [Next]_vars PROVE [TR!AbstractNext]_TR!aVars
    OBVIOUS
  <1> USE ConstantsAssumption
  <1> DEFINE pending == [l \in {"sync", "async"} |->
                           IF l = "sync" THEN syncTaskQueue ELSE asyncTaskQueue]
             completed == {c \in Callers : done[c]}
             blocked == {c \in Callers : InSyncCall(c)}
  <1> DEFINE SameQueues == UNCHANGED <<syncTaskQueue, asyncTaskQueue>>
             SameCalls == \A c \in Callers : InSyncCall(c)' <=> InSyncCall(c)
             Stutter == SameQueues /\ SameCalls /\ UNCHANGED <<running, task, done>>
  <1>1. Stutter => UNCHANGED TR!aVars
    BY DEF TR!aVars
  <1>2. SameCalls => blocked' = blocked
    OBVIOUS
  <1>3. ASSUME NEW c \in Callers, NEW a \in AsyncTasks, PostAsync(c, a) PROVE TR!Post
    <2>1. SameCalls
      BY <1>3 DEF PostAsync, InSyncCall, TypeOK
    <2>2. pending' = [pending EXCEPT !["async"] = Append(@, a)]
      BY <1>3 DEF PostAsync
    <2> QED
      BY <1>2, <1>3, <2>1, <2>2 DEF TR!Post, PostAsync
  <1>4. ASSUME NEW a \in AsyncTasks, PostFromWorker(a) PROVE TR!Post
    <2>1. SameCalls
      BY <1>4 DEF PostFromWorker, InSyncCall
    <2>2. pending' = [pending EXCEPT !["async"] = Append(@, a)]
      BY <1>4 DEF PostFromWorker
    <2> QED
      BY <1>2, <1>4, <2>1, <2>2 DEF TR!Post, PostFromWorker
  <1>5. ASSUME NEW c \in Callers, EnqueueSync(c) PROVE TR!Call
    <2>1. pending' = [pending EXCEPT !["sync"] = Append(@, c)]
      BY <1>5 DEF EnqueueSync
    <2>2. c \notin blocked /\ blocked' = blocked \cup {c}
      BY <1>5 DEF EnqueueSync, NotifiedCallers, InSyncCall, TypeOK
    <2>3. completed' = completed \ {c}
      BY <1>5 DEF EnqueueSync, TypeOK
    <2> QED
      BY <1>5, <2>1, <2>2, <2>3 DEF TR!Call, EnqueueSync
  <1>6. ASSUME NEW c \in Callers, TestSync(c) PROVE TR!Return \/ Stutter
    <2>1. CASE CallerMayReturn(c)
      <3>1. c \in blocked /\ blocked' = blocked \ {c}
        BY <1>6, <2>1 DEF TestSync, InSyncCall, TypeOK
      <3> QED
        BY <1>6, <2>1, <3>1 DEF TR!Return, TestSync, CallerMayReturn
    <2>2. CASE ~CallerMayReturn(c)
      BY <1>6, <2>2 DEF TestSync, InSyncCall, TypeOK
    <2> QED
      BY <2>1, <2>2
  <1>7. ASSUME NEW c \in Callers, BlockSync(c) \/ NotifyOne(c) PROVE Stutter
    BY <1>7 DEF BlockSync, NotifyOne, InSyncCall, TypeOK
  <1>8. CASE TakeSync
    <2>1. task = None /\ pending["sync"] # <<>>
      BY <1>8 DEF TakeSync, TypeOK
    <2>2. pending' = [pending EXCEPT !["sync"] = Tail(@)] /\ task' = Head(pending["sync"])
      BY <1>8 DEF TakeSync
    <2>3. SameCalls
      BY <1>8 DEF TakeSync, InSyncCall
    <2> QED
      BY <1>2, <1>8, <2>1, <2>2, <2>3 DEF TR!AbstractNext, TR!Take, TakeSync
  <1>9. CASE TakeAsync
    <2>1. task = None /\ pending["async"] # <<>>
      BY <1>9 DEF TakeAsync, TypeOK
    <2>2. pending' = [pending EXCEPT !["async"] = Tail(@)] /\ task' = Head(pending["async"])
      BY <1>9 DEF TakeAsync
    <2>3. SameCalls
      BY <1>9 DEF TakeAsync, InSyncCall
    <2> QED
      BY <1>2, <1>9, <2>1, <2>2, <2>3 DEF TR!AbstractNext, TR!Take, TakeAsync
  <1>10. CASE FinishSync
    <2>1. completed' \in {completed, completed \cup ({task} \cap Callers)}
      BY <1>10 DEF FinishSync, TypeOK
    <2>2. task # None /\ SameQueues /\ SameCalls
      BY <1>10 DEF FinishSync, InSyncCall
    <2> QED
      BY <1>2, <1>10, <2>1, <2>2 DEF TR!AbstractNext, TR!Finish, FinishSync
  <1>11. CASE FinishAsync
    <2>1. task # None /\ SameCalls
      BY <1>11 DEF FinishAsync, InSyncCall
    <2> QED
      BY <1>2, <1>11, <2>1 DEF TR!AbstractNext, TR!Finish, FinishAsync
  <1>12. ASSUME LoopTest \/ WorkerReturn \/ WorkerCheck \/ WorkerBlock PROVE Stutter
    BY <1>12 DEF LoopTest, WorkerReturn, WorkerCheck, WorkerBlock, InSyncCall
  <1>13. ASSUME NotifyAfterSync \/ NotifyStopped \/ Join PROVE Stutter
    BY <1>13 DEF NotifyAfterSync, NotifyStopped, Join, NotifiedCallers, InSyncCall, TypeOK
  <1>14. CASE StopRunning
    <2>1. SameCalls
      BY <1>14 DEF StopRunning, InSyncCall
    <2>2. running
      BY <1>14 DEF StopRunning, RunningUntilDestroyed
    <2> QED
      BY <1>2, <1>14, <2>1, <2>2 DEF TR!AbstractNext, TR!Stop, StopRunning
  <1>15. ASSUME SpuriousWakeup PROVE Stutter
    BY <1>15 DEF SpuriousWakeup, InSyncCall, TypeOK
  <1>16. ASSUME UNCHANGED vars PROVE Stutter
    BY <1>16 DEF vars, InSyncCall
  <1> QED
    BY <1>1, <1>3, <1>4, <1>5, <1>6, <1>7, <1>8, <1>9, <1>10, <1>11, <1>12, <1>13, <1>14,
       <1>15, <1>16 DEF TR!AbstractNext, Next, CallerStep, WorkerStep, DestructorStep

(* Refinement: every behaviour of the worker, its callers and the          *)
(* destructor is a behaviour of TaskRunner, so runSyncTask returns only    *)
(* after its task has run or the runner was stopped, and each queue is     *)
(* served in order (ThreadTaskRunner.cpp:35-117).                          *)
THEOREM Refinement == Spec => ImplementsTaskRunner
  <1>1. Init => TR!AbstractInit
    <2> SUFFICES ASSUME Init PROVE TR!AbstractInit
      OBVIOUS
    <2> QED
      BY DEF Init, TR!AbstractInit, InSyncCall
  <1>2. IInv => RunningUntilDestroyed
    BY DEF IInv
  <1> QED
    BY <1>1, <1>2, MappedStep, TypeCorrect, IInvAlways, PTL
    DEF Spec, ImplementsTaskRunner, TR!AbstractSpec

-----------------------------------------------------------------------------
(* TaskExecutor.                                                           *)
(*                                                                         *)
(* CallBackDetected for any threads, any calls between them and any        *)
(* nesting.  CallBackDetected is not inductive: that a runner with a call  *)
(* under way to another does not serve it rests on the table, which has    *)
(* the entry of every runner that is blocked (Recorded), on a task being   *)
(* owed only while its caller is blocked (Owed), and on the shape of a     *)
(* stack, where a task for another thread is only ever at the bottom       *)
(* (Stacked): a runner takes it when it does nothing else.                 *)

Ended == {"done", "thrown"}
Tasks == {Exec!Task(c) : c \in Exec!Threads \cup {Nobody}}
CallFrames == {Exec!Call(r, s) : r \in Runners, s \in Exec!CallStates}

(* A stack of thread t: at its bottom a task for another thread or for     *)
(* nobody; above it calls, each made by a task, and tasks that t runs in   *)
(* place for a call of its own.                                            *)
Stacked(t, s) ==
    /\ s \in Seq(Exec!Frames)
    /\ s # <<>> => s[1] \in Tasks \ {Exec!Task(t)}
    /\ \A i \in 2 .. Len(s) :
          \/ s[i] \in CallFrames /\ s[i - 1] \in Tasks
          \/ s[i] = Exec!Task(t) /\ s[i - 1] = Exec!Call(t, "waiting")

Queued(t, r) == \E i \in DOMAIN queue[r] : queue[r][i] = t
AtBottom(t, r) == stack[r] # <<>> /\ stack[r][1] = Exec!Task(t)

CallTypes ==
    /\ m_waitsOnThread \in [Runners -> Runners \cup {Nobody}]
    /\ queue \in [Runners -> Seq(Exec!Threads)]
    /\ mayCall \in [Exec!Threads -> SUBSET Runners]
    /\ stack = [t \in Exec!Threads |-> stack[t]]
    /\ \A t \in Exec!Threads : Stacked(t, stack[t])

(* Whose task waits for a runner, or is being run by it, is blocked on it. *)
Owed ==
    \A t \in Exec!Threads, r \in Runners :
        /\ Queued(t, r) \/ AtBottom(t, r) => t # r /\ Exec!BlockedOn(t, r)
        /\ ~(Queued(t, r) /\ AtBottom(t, r))

ServedByRunners == \A t, u \in Exec!Threads : AtBottom(t, u) => u \in Runners

QueuedOnce == \A r \in Runners : Exec!IsInjective(queue[r])

(* The table knows of every runner that is blocked or about to be, and     *)
(* none is on itself.                                                      *)
Noted(t, r) == Exec!IsAt(t, "recorded") /\ Exec!Top(t).to = r
Recorded ==
    \A t, r \in Runners :
        /\ Exec!BlockedOn(t, r) => m_waitsOnThread[t] = r /\ t # r
        /\ Noted(t, r) => m_waitsOnThread[t] = r

(* Nobody calls whom it serves.                                            *)
Calling(r, t) == (Exec!IsAt(r, "begun") /\ Exec!Top(r).to = t) \/ Noted(r, t)
NoCallBack ==
    \A t, r \in Runners : Calling(r, t) \/ Exec!BlockedOn(r, t) => ~AtBottom(t, r)

CallInv == CallTypes /\ Owed /\ ServedByRunners /\ QueuedOnce /\ Recorded /\ NoCallBack

-----------------------------------------------------------------------------
(* Frames and stacks.                                                      *)

LEMMA Kinds ==
    /\ \A f \in Exec!Frames : f \in Tasks \/ f \in CallFrames
    /\ \A f \in Tasks : f.op = "task" /\ f.for \in Exec!Threads \cup {Nobody} /\ f = Exec!Task(f.for)
    /\ \A f \in CallFrames : f.op = "call" /\ f.to \in Runners
    /\ \A c : Exec!Task(c).op = "task" /\ Exec!Task(c).for = c /\ Exec!Task(c) \notin CallFrames
    /\ \A r, x : /\ Exec!Call(r, x).op = "call" /\ Exec!Call(r, x).to = r /\ Exec!Call(r, x).at = x
                 /\ Exec!Call(r, x) \notin Tasks
<1>1. \A c : Exec!Task(c).op = "task" /\ Exec!Task(c).for = c
  BY DEF Exec!Task
<1>2. \A r, x : Exec!Call(r, x).op = "call" /\ Exec!Call(r, x).to = r /\ Exec!Call(r, x).at = x
  BY DEF Exec!Call
<1>3. \A f \in Exec!Frames : f \in Tasks \/ f \in CallFrames
  BY DEF Exec!Frames, Tasks, CallFrames
<1>4. \A f \in Tasks : f.op = "task" /\ f.for \in Exec!Threads \cup {Nobody} /\ f = Exec!Task(f.for)
  BY <1>1 DEF Tasks
<1>5. \A f \in CallFrames : f.op = "call" /\ f.to \in Runners
  BY <1>2 DEF CallFrames
<1> QED BY <1>1, <1>2, <1>3, <1>4, <1>5

LEMMA FrontIs ==
    ASSUME NEW s \in Seq(Exec!Frames), s # <<>>
    PROVE  /\ Len(s) \in Nat \ {0} /\ Exec!Last(s) = s[Len(s)]
           /\ Exec!Front(s) \in Seq(Exec!Frames) /\ Len(Exec!Front(s)) = Len(s) - 1
           /\ \A i \in 1 .. Len(s) - 1 : Exec!Front(s)[i] = s[i]
<1>1. Len(s) \in Nat \ {0}
  OBVIOUS
<1>2. Exec!Front(s) = SubSeq(s, 1, Len(s) - 1)
  BY DEF Exec!Front
<1>3. /\ SubSeq(s, 1, Len(s) - 1) \in Seq(Exec!Frames)
      /\ Len(SubSeq(s, 1, Len(s) - 1)) = Len(s) - 1
      /\ \A i \in 1 .. Len(s) - 1 : SubSeq(s, 1, Len(s) - 1)[i] = s[i]
  <2> DEFINE m == Len(s) - 1
  <2>1. /\ m \in Int /\ m - 1 + 1 = m /\ (1 <= m \/ m = 0)
        /\ \A i \in 1 .. m : s[i] \in Exec!Frames
    <3>1. \A k \in Nat \ {0} : k - 1 \in Nat /\ (k - 1) - 1 + 1 = k - 1
      OBVIOUS
    <3>2. m \in Nat /\ m - 1 + 1 = m
      BY <1>1, <3>1
    <3>3. 1 <= m \/ m = 0
      BY <3>2
    <3>4. 1 .. m \subseteq 1 .. Len(s)
      BY <1>1
    <3>5. \A i \in 1 .. Len(s) : s[i] \in Exec!Frames
      OBVIOUS
    <3> HIDE DEF m
    <3> QED BY <3>2, <3>3, <3>4, <3>5
  <2>2. \A i \in 1 .. m : 1 + i - 1 = i
    OBVIOUS
  <2> HIDE DEF m
  <2>3. /\ SubSeq(s, 1, m) \in Seq(Exec!Frames)
        /\ Len(SubSeq(s, 1, m)) = IF 1 <= m THEN m - 1 + 1 ELSE 0
        /\ \A i \in 1 .. m - 1 + 1 : SubSeq(s, 1, m)[i] = s[1 + i - 1]
    BY <2>1, SubSeqProperties
  <2> QED BY <2>1, <2>2, <2>3 DEF m
<1> QED BY <1>1, <1>2, <1>3 DEF Exec!Last

LEMMA EmptyStack == ASSUME NEW t PROVE Stacked(t, <<>>)
BY DEF Stacked

(* A runner takes a task, or a thread starts to run code.                  *)
LEMMA Started ==
    ASSUME NEW t \in Exec!Threads, NEW c \in (Exec!Threads \cup {Nobody}) \ {t}
    PROVE  /\ Stacked(t, Append(<<>>, Exec!Task(c)))
           /\ Append(<<>>, Exec!Task(c)) # <<>> /\ Append(<<>>, Exec!Task(c))[1] = Exec!Task(c)
           /\ Exec!Last(Append(<<>>, Exec!Task(c))) = Exec!Task(c)
<1>1. Exec!Task(c) \in Tasks \ {Exec!Task(t)} /\ Exec!Task(c) \in Exec!Frames
  BY Kinds DEF Tasks, Exec!Frames
<1> QED BY <1>1 DEF Stacked, Exec!Last

(* A task calls a runner.                                                  *)
LEMMA Called ==
    ASSUME NEW t \in Exec!Threads, NEW s, Stacked(t, s), s # <<>>, Exec!Last(s).op = "task",
           NEW r \in Runners, NEW x \in Exec!CallStates
    PROVE  LET n == Append(s, Exec!Call(r, x))
           IN  Stacked(t, n) /\ n # <<>> /\ n[1] = s[1] /\ Exec!Last(n) = Exec!Call(r, x)
<1> DEFINE n == Append(s, Exec!Call(r, x))
<1>1. Exec!Call(r, x) \in CallFrames /\ Exec!Call(r, x) \in Exec!Frames
  BY DEF CallFrames, Exec!Frames
<1>2. Exec!Last(s) \in Tasks
  <2>1. Exec!Last(s) \in Exec!Frames BY FrontIs DEF Stacked
  <2> QED BY <2>1, Kinds
<1>3. Len(n) = Len(s) + 1 /\ n \in Seq(Exec!Frames) /\ n[Len(n)] = Exec!Call(r, x) /\ Len(s) >= 1
      /\ \A i \in 1 .. Len(s) : n[i] = s[i]
  BY <1>1, FrontIs DEF Stacked
<1>4. ASSUME NEW i \in 2 .. Len(n)
      PROVE  \/ n[i] \in CallFrames /\ n[i - 1] \in Tasks
             \/ n[i] = Exec!Task(t) /\ n[i - 1] = Exec!Call(t, "waiting")
  <2>1. CASE i = Len(n)
    <3>1. n[i - 1] = Exec!Last(s) BY <2>1, <1>3, FrontIs DEF Stacked
    <3> QED BY <2>1, <1>1, <1>2, <1>3, <3>1
  <2>2. CASE i \in 2 .. Len(s)
    <3> HIDE DEF n
    <3>1. i - 1 \in 1 .. Len(s) /\ i \in 1 .. Len(s) BY <2>2, <1>3
    <3> QED BY <2>2, <1>3, <3>1 DEF Stacked
  <2> QED BY <2>1, <2>2, <1>3
<1>5. n[1] = s[1] /\ n # <<>> /\ Exec!Last(n) = Exec!Call(r, x)
  BY <1>3 DEF Exec!Last
<1> HIDE DEF n
<1>6. Stacked(t, n) BY <1>3, <1>4, <1>5 DEF Stacked
<1> QED BY <1>5, <1>6 DEF n

(* What is under a call, and under a task run in place for one.            *)
LEMMA UnderCall ==
    ASSUME NEW t \in Exec!Threads, NEW s, Stacked(t, s), s # <<>>, Exec!Last(s).op = "call"
    PROVE  /\ Stacked(t, Exec!Front(s)) /\ Exec!Front(s) # <<>> /\ Exec!Front(s)[1] = s[1]
           /\ Exec!Last(Exec!Front(s)).op = "task"
<1>1. Len(s) >= 2 /\ s[Len(s) - 1] \in Tasks
  <2>1. s[Len(s)].op = "call" /\ Len(s) \in Nat \ {0}
    BY FrontIs DEF Stacked
  <2>2. s[1].op = "task" /\ Exec!Task(t).op = "task"
    BY Kinds DEF Stacked, Exec!Task
  <2> QED BY <2>1, <2>2 DEF Stacked
<1>2. /\ Exec!Front(s) \in Seq(Exec!Frames) /\ Len(Exec!Front(s)) = Len(s) - 1
      /\ \A i \in 1 .. Len(s) - 1 : Exec!Front(s)[i] = s[i]
  BY FrontIs DEF Stacked
<1>3. Exec!Front(s) # <<>> /\ Exec!Front(s)[1] = s[1]
  BY <1>1, <1>2
<1>4. Exec!Last(Exec!Front(s)) = s[Len(s) - 1]
  BY <1>1, <1>2 DEF Exec!Last
<1>5. ASSUME NEW i \in 2 .. Len(Exec!Front(s))
      PROVE  Exec!Front(s)[i] = s[i] /\ Exec!Front(s)[i - 1] = s[i - 1] /\ i \in 2 .. Len(s)
  BY <1>1, <1>2
<1>6. Stacked(t, Exec!Front(s))
  BY <1>2, <1>3, <1>5 DEF Stacked
<1> QED BY <1>1, <1>3, <1>4, <1>6, Kinds

LEMMA UnderOwnTask ==
    ASSUME NEW t \in Exec!Threads, NEW s, Stacked(t, s), s # <<>>, Exec!Last(s) = Exec!Task(t)
    PROVE  /\ Stacked(t, Exec!Front(s)) /\ Exec!Front(s) # <<>> /\ Exec!Front(s)[1] = s[1]
           /\ Exec!Last(Exec!Front(s)) = Exec!Call(t, "waiting") /\ t \in Runners
<1>1. Len(s) >= 2 /\ s[Len(s) - 1] = Exec!Call(t, "waiting")
  <2>1. s[Len(s)] = Exec!Task(t) /\ Len(s) \in Nat \ {0}
    BY FrontIs DEF Stacked
  <2>2. Exec!Task(t) \notin CallFrames
    BY Kinds
  <2> QED BY <2>1, <2>2 DEF Stacked
<1>2. /\ Exec!Front(s) \in Seq(Exec!Frames) /\ Len(Exec!Front(s)) = Len(s) - 1
      /\ \A i \in 1 .. Len(s) - 1 : Exec!Front(s)[i] = s[i]
  BY FrontIs DEF Stacked
<1>3. Exec!Front(s) # <<>> /\ Exec!Front(s)[1] = s[1]
  BY <1>1, <1>2
<1>4. Exec!Last(Exec!Front(s)) = s[Len(s) - 1]
  BY <1>1, <1>2 DEF Exec!Last
<1>5. ASSUME NEW i \in 2 .. Len(Exec!Front(s))
      PROVE  Exec!Front(s)[i] = s[i] /\ Exec!Front(s)[i - 1] = s[i - 1] /\ i \in 2 .. Len(s)
  BY <1>1, <1>2
<1>6. Stacked(t, Exec!Front(s))
  BY <1>2, <1>3, <1>5 DEF Stacked
<1>7. t \in Runners
  <2>1. Exec!Call(t, "waiting") \in Exec!Frames BY <1>1 DEF Stacked
  <2>2. Exec!Call(t, "waiting") \in CallFrames BY <2>1, Kinds
  <2> QED BY <2>2, Kinds
<1> QED BY <1>1, <1>3, <1>4, <1>6, <1>7

(* A call gets on.                                                         *)
LEMMA Moved ==
    ASSUME NEW t \in Exec!Threads, NEW s, Stacked(t, s), s # <<>>, Exec!Last(s).op = "call",
           NEW r \in Runners, NEW x \in Exec!CallStates
    PROVE  LET n == Append(Exec!Front(s), Exec!Call(r, x))
           IN  Stacked(t, n) /\ n # <<>> /\ n[1] = s[1] /\ Exec!Last(n) = Exec!Call(r, x)
BY UnderCall, Called

(* The runner runs the task in place.                                      *)
LEMMA InPlace ==
    ASSUME NEW t \in Runners, NEW s, Stacked(t, s), s # <<>>, Exec!Last(s).op = "call"
    PROVE  LET n == Exec!Front(s) \o <<Exec!Call(t, "waiting"), Exec!Task(t)>>
           IN  Stacked(t, n) /\ n # <<>> /\ n[1] = s[1] /\ Exec!Last(n) = Exec!Task(t)
<1> DEFINE m == Append(Exec!Front(s), Exec!Call(t, "waiting"))
           n == Exec!Front(s) \o <<Exec!Call(t, "waiting"), Exec!Task(t)>>
<1>1. Stacked(t, m) /\ m # <<>> /\ m[1] = s[1] /\ Exec!Last(m) = Exec!Call(t, "waiting")
  BY Moved DEF Exec!Threads, Exec!CallStates
<1>2. Exec!Front(s) \in Seq(Exec!Frames) /\ Exec!Call(t, "waiting") \in Exec!Frames /\ Exec!Task(t) \in Exec!Frames
  BY FrontIs DEF Stacked, Exec!Frames, Exec!CallStates, Exec!Threads
<1>3. n = Append(m, Exec!Task(t))
  BY <1>2
<1> HIDE DEF m, n
<1>4. /\ n \in Seq(Exec!Frames) /\ Len(n) = Len(m) + 1 /\ n[Len(n)] = Exec!Task(t)
      /\ \A i \in 1 .. Len(m) : n[i] = m[i]
  BY <1>1, <1>2, <1>3 DEF Stacked
<1>5. Len(m) \in Nat \ {0} /\ m[Len(m)] = Exec!Call(t, "waiting")
  BY <1>1, FrontIs DEF Stacked
<1>6. ASSUME NEW i \in 2 .. Len(n)
      PROVE  \/ n[i] \in CallFrames /\ n[i - 1] \in Tasks
             \/ n[i] = Exec!Task(t) /\ n[i - 1] = Exec!Call(t, "waiting")
  <2>1. CASE i = Len(n)
    BY <2>1, <1>4, <1>5
  <2>2. CASE i \in 2 .. Len(m)
    <3>1. i - 1 \in 1 .. Len(m) /\ i \in 1 .. Len(m) BY <2>2, <1>5
    <3> QED BY <2>2, <1>1, <1>4, <3>1 DEF Stacked
  <2> QED BY <2>1, <2>2, <1>4, <1>5
<1>7. n # <<>> /\ n[1] = s[1] /\ Exec!Last(n) = Exec!Task(t)
  BY <1>1, <1>4, <1>5 DEF Exec!Last
<1>8. Stacked(t, n)
  BY <1>1, <1>4, <1>5, <1>6, <1>7 DEF Stacked
<1> QED BY <1>7, <1>8 DEF n

(* A task run in place ends: its call learns how.                          *)
LEMMA EndedInPlace ==
    ASSUME NEW t \in Exec!Threads, NEW s, Stacked(t, s), s # <<>>, Exec!Last(s) = Exec!Task(t),
           NEW x \in Exec!CallStates
    PROVE  LET n == Append(Exec!Front(Exec!Front(s)), Exec!Call(t, x))
           IN  Stacked(t, n) /\ n # <<>> /\ n[1] = s[1] /\ Exec!Last(n) = Exec!Call(t, x)
<1>1. /\ Stacked(t, Exec!Front(s)) /\ Exec!Front(s) # <<>> /\ Exec!Front(s)[1] = s[1] /\ t \in Runners
      /\ Exec!Last(Exec!Front(s)).op = "call"
  BY UnderOwnTask, Kinds
<1> HIDE DEF Exec!Front
<1> QED BY <1>1, Moved

(* Another thread's task, or nobody's, is alone on its stack when it ends. *)
LEMMA Alone ==
    ASSUME NEW t \in Exec!Threads, NEW s, Stacked(t, s), s # <<>>, NEW c, Exec!Last(s) = Exec!Task(c),
           c # t
    PROVE  s[1] = Exec!Task(c) /\ Exec!Front(s) = <<>> /\ c \in Exec!Threads \cup {Nobody}
<1>1. s[Len(s)] = Exec!Task(c) /\ Len(s) \in Nat \ {0}
  BY FrontIs DEF Stacked
<1>2. Exec!Task(c) \notin CallFrames /\ Exec!Task(c) # Exec!Task(t)
  BY Kinds
<1>3. Len(s) = 1
  <2>1. Len(s) \notin 2 .. Len(s) BY <1>1, <1>2 DEF Stacked
  <2> QED BY <1>1, <2>1
<1>4. Exec!Front(s) = <<>>
  <2>1. Exec!Front(s) \in Seq(Exec!Frames) /\ Len(Exec!Front(s)) = 0
    BY <1>3, FrontIs DEF Stacked
  <2> QED BY <2>1
<1>5. s[1] = Exec!Task(c) /\ Exec!Task(c) \in Tasks
  BY <1>1, <1>3 DEF Stacked
<1> QED BY <1>4, <1>5, Kinds

LEMMA OnlyAtBottom ==
    ASSUME NEW r \in Exec!Threads, NEW s, Stacked(r, s), NEW t, t # r,
           NEW i \in DOMAIN s, s[i] = Exec!Task(t)
    PROVE  s # <<>> /\ s[1] = Exec!Task(t)
<1>1. Exec!Task(t) \notin CallFrames /\ Exec!Task(t) # Exec!Task(r)
  BY Kinds
<1>2. i \in 1 .. Len(s) /\ Len(s) \in Nat
  BY DEF Stacked
<1> QED BY <1>1, <1>2 DEF Stacked

-----------------------------------------------------------------------------
(* A step of thread t that nobody waits for, and which leaves t neither    *)
(* blocked nor calling whom it serves.                                     *)
LEMMA Own ==
    ASSUME CallInv, NEW t \in Exec!Threads, NEW n, stack' = [stack EXCEPT ![t] = n],
           Stacked(t, n),
           \A c \in Exec!Threads : n # <<>> /\ n[1] = Exec!Task(c) <=> AtBottom(c, t),
           \A r \in Runners : ~Exec!BlockedOn(t, r),
           n # <<>> /\ Exec!Last(n).op = "call" =>
               /\ Exec!Last(n).at # "waiting"
               /\ Exec!Last(n).at \in {"begun", "recorded"} /\ t \in Runners =>
                      ~AtBottom(Exec!Last(n).to, t)
               /\ Exec!Last(n).at = "recorded" /\ t \in Runners =>
                      m_waitsOnThread'[t] = Exec!Last(n).to,
           m_waitsOnThread' \in [Runners -> Runners \cup {Nobody}],
           \A r \in Runners : r # t => m_waitsOnThread'[r] = m_waitsOnThread[r],
           UNCHANGED <<queue, mayCall>>
    PROVE  CallInv'
<1>1. /\ stack'[t] = n /\ \A u \in Exec!Threads \ {t} : stack'[u] = stack[u]
      /\ stack' = [u \in Exec!Threads |-> stack'[u]]
  BY DEF CallInv, CallTypes
<1>2. CallTypes'
  BY <1>1 DEF CallInv, CallTypes
<1>3. \A u \in Exec!Threads, r \in Runners : Queued(u, r)' = Queued(u, r)
  BY DEF Queued
<1>4. \A u, r \in Exec!Threads : AtBottom(u, r)' <=> AtBottom(u, r)
  BY <1>1 DEF AtBottom
<1>5. \A u \in Exec!Threads, r \in Runners : Exec!BlockedOn(u, r)' <=> Exec!BlockedOn(u, r)
  <2> TAKE u \in Exec!Threads, r \in Runners
  <2>1. CASE u = t
    <3>1. ~Exec!BlockedOn(t, r)' BY <1>1 DEF Exec!BlockedOn, Exec!IsAt, Exec!Top
    <3> QED BY <2>1, <3>1
  <2>2. CASE u # t
    BY <1>1, <2>2 DEF Exec!BlockedOn, Exec!IsAt, Exec!Top
  <2> QED BY <2>1, <2>2
<1>6. Owed' /\ ServedByRunners'
  BY <1>3, <1>4, <1>5 DEF CallInv, Owed, ServedByRunners, Exec!Threads
<1>7. QueuedOnce'
  BY DEF CallInv, QueuedOnce
<1>8. Recorded'
  <2> SUFFICES ASSUME NEW q \in Runners, NEW r \in Runners
               PROVE  /\ Exec!BlockedOn(q, r)' => m_waitsOnThread'[q] = r /\ q # r
                      /\ Noted(q, r)' => m_waitsOnThread'[q] = r
    BY DEF Recorded
  <2>1. CASE q = t
    BY <1>1, <1>5, <2>1 DEF Noted, Exec!IsAt, Exec!Top, Exec!Threads
  <2>2. CASE q # t
    <3>1. Noted(q, r)' <=> Noted(q, r)
      BY <1>1, <2>2 DEF Noted, Exec!IsAt, Exec!Top, Exec!Threads
    <3> QED BY <1>5, <2>2, <3>1 DEF CallInv, Recorded, Exec!Threads
  <2> QED BY <2>1, <2>2
<1>9. NoCallBack'
  <2> SUFFICES ASSUME NEW q \in Runners, NEW r \in Runners, Calling(r, q)' \/ Exec!BlockedOn(r, q)'
               PROVE  ~AtBottom(q, r)'
    BY DEF NoCallBack
  <2>1. CASE r = t
    BY <1>1, <1>4, <1>5, <2>1 DEF Calling, Noted, Exec!IsAt, Exec!Top, Exec!Threads
  <2>2. CASE r # t
    <3>1. Calling(r, q)' <=> Calling(r, q)
      BY <1>1, <2>2 DEF Calling, Noted, Exec!IsAt, Exec!Top, Exec!Threads
    <3> QED BY <1>4, <1>5, <3>1 DEF CallInv, NoCallBack, Exec!Threads
  <2> QED BY <2>1, <2>2
<1> QED BY <1>2, <1>6, <1>7, <1>8, <1>9 DEF CallInv

-----------------------------------------------------------------------------
LEMMA CallInitInv == Exec!Init => CallInv
<1> SUFFICES ASSUME Exec!Init PROVE CallInv
  OBVIOUS
<1>1. \A t \in Exec!Threads : stack[t] = <<>>
  BY DEF Exec!Init
<1>2. CallTypes
  <2>1. /\ m_waitsOnThread \in [Runners -> Runners \cup {Nobody}]
        /\ queue \in [Runners -> Seq(Exec!Threads)]
    BY DEF Exec!Init
  <2>2. mayCall \in [Exec!Threads -> SUBSET Runners]
    BY CallsAssumption DEF Exec!ConstantsAssumption, Exec!Init, Exec!Threads
  <2>3. stack = [t \in Exec!Threads |-> stack[t]]
    BY DEF Exec!Init
  <2> QED BY <1>1, <2>1, <2>2, <2>3, EmptyStack DEF CallTypes
<1>3. /\ \A t \in Exec!Threads, r \in Runners :
            ~Queued(t, r) /\ ~Exec!BlockedOn(t, r) /\ ~Calling(t, r) /\ ~Noted(t, r)
      /\ \A t, u \in Exec!Threads : ~AtBottom(t, u)
  BY <1>1 DEF Exec!Init, Queued, AtBottom, Exec!BlockedOn, Exec!IsAt, Calling, Noted, Exec!Threads
<1>4. QueuedOnce
  BY DEF Exec!Init, QueuedOnce, Exec!IsInjective
<1> QED BY <1>2, <1>3, <1>4 DEF CallInv, Owed, ServedByRunners, Recorded, NoCallBack, Exec!Threads

LEMMA StartCodeInv ==
    ASSUME CallInv, NEW t \in Exec!Threads, Exec!StartCode(t)
    PROVE  CallInv'
<1> DEFINE n == Append(<<>>, Exec!Task(Nobody))
<1>1. Nobody \in (Exec!Threads \cup {Nobody}) \ {t}
  BY CallsAssumption DEF Exec!ConstantsAssumption, Exec!Threads
<1>2. Stacked(t, n) /\ n # <<>> /\ n[1] = Exec!Task(Nobody) /\ Exec!Last(n) = Exec!Task(Nobody)
  BY <1>1, Started
<1>3. stack' = [stack EXCEPT ![t] = n] /\ stack[t] = <<>>
  BY DEF Exec!StartCode, Exec!Push
<1> HIDE DEF n
<1>4. \A c \in Exec!Threads : n[1] # Exec!Task(c) /\ ~AtBottom(c, t)
  BY <1>2, <1>3, Kinds, CallsAssumption DEF Exec!ConstantsAssumption, AtBottom, Exec!Threads
<1>5. \A r \in Runners : ~Exec!BlockedOn(t, r)
  BY <1>3 DEF Exec!BlockedOn, Exec!IsAt
<1>6. Exec!Last(n).op = "task"
  BY <1>2, Kinds
<1>7. m_waitsOnThread' = m_waitsOnThread /\ queue' = queue /\ mayCall' = mayCall
  BY DEF Exec!StartCode
<1>8. m_waitsOnThread \in [Runners -> Runners \cup {Nobody}]
  BY DEF CallInv, CallTypes
<1> QED BY <1>2, <1>3, <1>4, <1>5, <1>6, <1>7, <1>8, Own

(* What a thread that runs code has on top.                                *)
LEMMA Code ==
    ASSUME CallInv, NEW t \in Exec!Threads, Exec!RunsCode(t)
    PROVE  /\ Stacked(t, stack[t]) /\ stack[t] # <<>> /\ Exec!Last(stack[t]).op = "task"
           /\ \A r \in Runners : ~Exec!BlockedOn(t, r)
BY DEF CallInv, CallTypes, Exec!RunsCode, Exec!Top, Exec!BlockedOn, Exec!IsAt

LEMMA BeginCallInv ==
    ASSUME CallInv, NEW t \in Exec!Threads, NEW r \in Runners, Exec!BeginCall(t, r)
    PROVE  CallInv'
<1> DEFINE n == Append(stack[t], Exec!Call(r, "begun"))
<1>1. /\ Stacked(t, stack[t]) /\ stack[t] # <<>> /\ Exec!Last(stack[t]).op = "task"
      /\ \A q \in Runners : ~Exec!BlockedOn(t, q)
  BY Code DEF Exec!BeginCall
<1>2. Stacked(t, n) /\ n # <<>> /\ n[1] = stack[t][1] /\ Exec!Last(n) = Exec!Call(r, "begun")
  BY <1>1, Called DEF Exec!CallStates
<1>3. stack' = [stack EXCEPT ![t] = n]
  BY DEF Exec!BeginCall, Exec!Push
<1> HIDE DEF n
<1>4. \A c \in Exec!Threads : n # <<>> /\ n[1] = Exec!Task(c) <=> AtBottom(c, t)
  BY <1>1, <1>2 DEF AtBottom
<1>5. Exec!Last(n).at = "begun" /\ Exec!Last(n).to = r
  BY <1>2, Kinds
(* Whom t serves is recorded to wait for t, and such a call is refused.    *)
<1>6. t \in Runners => ~AtBottom(r, t)
  <2> SUFFICES ASSUME t \in Runners, AtBottom(r, t) PROVE FALSE
    OBVIOUS
  <2>1. r # t /\ Exec!BlockedOn(r, t)
    BY DEF CallInv, Owed, Exec!Threads
  <2>2. m_waitsOnThread[r] = t
    BY <2>1 DEF CallInv, Recorded
  <2> QED BY <2>2 DEF Exec!BeginCall, Exec!RefusesCall
<1>7. m_waitsOnThread' = m_waitsOnThread /\ queue' = queue /\ mayCall' = mayCall
  BY DEF Exec!BeginCall
<1>8. m_waitsOnThread \in [Runners -> Runners \cup {Nobody}]
  BY DEF CallInv, CallTypes
<1> QED BY <1>1, <1>2, <1>3, <1>4, <1>5, <1>6, <1>7, <1>8, Own

LEMMA RecordWaitInv ==
    ASSUME CallInv, NEW t \in Exec!Threads, Exec!RecordWait(t)
    PROVE  CallInv'
<1> DEFINE s == stack[t]
           r == Exec!Top(t).to
           n == Append(Exec!Front(s), Exec!Call(r, "recorded"))
<1>1. Stacked(t, s) /\ s # <<>> /\ Exec!Last(s).op = "call" /\ Exec!Last(s).at = "begun"
  BY DEF Exec!RecordWait, Exec!IsAt, Exec!Top, CallInv, CallTypes
<1>2. r \in Runners /\ Calling(t, r)
  BY <1>1, FrontIs, Kinds DEF Exec!Top, Stacked, Calling, Exec!IsAt
<1>3. \A q \in Runners : ~Exec!BlockedOn(t, q)
  BY <1>1 DEF Exec!BlockedOn, Exec!IsAt, Exec!Top
<1>4. Stacked(t, n) /\ n # <<>> /\ n[1] = s[1] /\ Exec!Last(n) = Exec!Call(r, "recorded")
  BY <1>1, <1>2, Moved DEF Exec!CallStates
<1>5. /\ stack' = [stack EXCEPT ![t] = n] /\ queue' = queue /\ mayCall' = mayCall
      /\ m_waitsOnThread' = Exec!RecordedWait(t, r)
  BY DEF Exec!RecordWait, Exec!Replace
<1> HIDE DEF n, r
<1>6. /\ m_waitsOnThread' \in [Runners -> Runners \cup {Nobody}]
      /\ \A q \in Runners : q # t => m_waitsOnThread'[q] = m_waitsOnThread[q]
      /\ t \in Runners => m_waitsOnThread'[t] = r
  BY <1>2, <1>5 DEF Exec!RecordedWait, CallInv, CallTypes
<1>7. \A c \in Exec!Threads : n # <<>> /\ n[1] = Exec!Task(c) <=> AtBottom(c, t)
  BY <1>1, <1>4 DEF AtBottom
<1>8. Exec!Last(n).at = "recorded" /\ Exec!Last(n).to = r
  BY <1>4, Kinds
<1>9. t \in Runners => ~AtBottom(r, t)
  BY <1>2 DEF CallInv, NoCallBack
<1> QED BY <1>3, <1>4, <1>5, <1>6, <1>7, <1>8, <1>9, Own

(* The wait is in the table: in place nobody waits, and otherwise the task *)
(* now is owed.                                                            *)
LEMMA GiveTaskInv ==
    ASSUME CallInv, NEW t \in Exec!Threads, Exec!GiveTask(t)
    PROVE  CallInv'
<1> DEFINE s == stack[t]
           r == Exec!Top(t).to
<1>1. Stacked(t, s) /\ s # <<>> /\ Exec!Last(s).op = "call" /\ Exec!Last(s).at = "recorded"
  BY DEF Exec!GiveTask, Exec!IsAt, Exec!Top, CallInv, CallTypes
<1>2. r \in Runners /\ Noted(t, r)
  BY <1>1, FrontIs, Kinds DEF Exec!Top, Stacked, Noted, Exec!IsAt
<1>3. \A q \in Runners : ~Exec!BlockedOn(t, q)
  BY <1>1 DEF Exec!BlockedOn, Exec!IsAt, Exec!Top
<1>4. mayCall' = mayCall /\ m_waitsOnThread' = m_waitsOnThread
  BY DEF Exec!GiveTask
<1>5. /\ m_waitsOnThread' \in [Runners -> Runners \cup {Nobody}]
      /\ \A q \in Runners : q # t => m_waitsOnThread'[q] = m_waitsOnThread[q]
      /\ t \in Runners => m_waitsOnThread'[t] = r
  <2> HIDE DEF r
  <2> QED BY <1>2, <1>4 DEF Recorded, CallInv, CallTypes
<1>6. CASE r = t
  <2> DEFINE n == Exec!Front(s) \o <<Exec!Call(t, "waiting"), Exec!Task(t)>>
  <2>1. Stacked(t, n) /\ n # <<>> /\ n[1] = s[1] /\ Exec!Last(n) = Exec!Task(t)
    BY <1>1, <1>2, <1>6, InPlace
  <2>2. stack' = [stack EXCEPT ![t] = n] /\ queue' = queue
    BY <1>6 DEF Exec!GiveTask, Exec!RunsInPlace
  <2> HIDE DEF n
  <2>3. \A c \in Exec!Threads : n # <<>> /\ n[1] = Exec!Task(c) <=> AtBottom(c, t)
    BY <1>1, <2>1 DEF AtBottom
  <2>4. Exec!Last(n).op = "task"
    BY <2>1, Kinds
  <2> HIDE DEF r, s
  <2> QED BY <1>3, <1>4, <1>5, <2>1, <2>2, <2>3, <2>4, Own
<1>7. CASE r # t
  <2> DEFINE n == Append(Exec!Front(s), Exec!Call(r, "waiting"))
  <2>1. Stacked(t, n) /\ n # <<>> /\ n[1] = s[1] /\ Exec!Last(n) = Exec!Call(r, "waiting")
    BY <1>1, <1>2, Moved DEF Exec!CallStates
  <2>2. stack' = [stack EXCEPT ![t] = n] /\ queue' = [queue EXCEPT ![r] = Append(@, t)]
    BY <1>7 DEF Exec!GiveTask, Exec!RunsInPlace, Exec!Replace
  <2> HIDE DEF n
  <2>3. /\ stack'[t] = n /\ \A u \in Exec!Threads \ {t} : stack'[u] = stack[u]
        /\ stack' = [u \in Exec!Threads |-> stack'[u]]
    BY <2>2 DEF CallInv, CallTypes
  <2>4. /\ queue' \in [Runners -> Seq(Exec!Threads)]
        /\ queue[r] \in Seq(Exec!Threads) /\ queue'[r] = Append(queue[r], t)
        /\ \A q \in Runners \ {r} : queue'[q] = queue[q]
    <3> HIDE DEF r
    <3> QED BY <1>2, <2>2 DEF CallInv, CallTypes
  <2>5. CallTypes'
    BY <1>4, <1>5, <2>1, <2>3, <2>4 DEF CallInv, CallTypes
  <2> HIDE DEF r
  <2>6. \A u \in Exec!Threads, q \in Runners : Queued(u, q)' <=> Queued(u, q) \/ (u = t /\ q = r)
    <3> TAKE u \in Exec!Threads, q \in Runners
    <3>1. CASE q # r
      BY <3>1, <2>4 DEF Queued
    <3>2. CASE q = r
      BY <3>2, <2>4 DEF Queued
    <3> QED BY <3>1, <3>2
  <2>7. \A u, q \in Exec!Threads : AtBottom(u, q)' <=> AtBottom(u, q)
    BY <1>1, <2>1, <2>3 DEF AtBottom
  <2>8. /\ \A q \in Runners : Exec!BlockedOn(t, q)' <=> q = r
        /\ \A u \in Exec!Threads \ {t}, q \in Runners : Exec!BlockedOn(u, q)' <=> Exec!BlockedOn(u, q)
    <3>1. Exec!Last(n).op = "call" /\ Exec!Last(n).at = "waiting" /\ Exec!Last(n).to = r
      BY <2>1, Kinds
    <3> QED BY <2>1, <2>3, <3>1 DEF Exec!BlockedOn, Exec!IsAt, Exec!Top
  <2>9. ~Queued(t, r) /\ ~AtBottom(t, r)
    BY <1>2, <1>3 DEF CallInv, Owed
  <2>10. Owed' /\ ServedByRunners'
    BY <1>7, <1>3, <2>6, <2>7, <2>8, <2>9 DEF CallInv, Owed, ServedByRunners, Exec!Threads
  <2>11. QueuedOnce'
    <3> SUFFICES ASSUME NEW q \in Runners PROVE Exec!IsInjective(queue'[q])
      BY DEF QueuedOnce
    <3>1. CASE q # r
      BY <3>1, <2>4 DEF CallInv, QueuedOnce
    <3>2. CASE q = r
      <4>1. Exec!IsInjective(queue[r])
        BY <1>2 DEF CallInv, QueuedOnce
      <4> QED BY <3>2, <4>1, <2>4, <2>9 DEF Queued, Exec!IsInjective
    <3> QED BY <3>1, <3>2
  <2>12. Recorded'
    <3>1. \A q \in Runners : ~Noted(t, q)'
      BY <2>1, <2>3, Kinds DEF Noted, Exec!IsAt, Exec!Top
    <3>2. \A u \in Exec!Threads \ {t}, q \in Runners : Noted(u, q)' <=> Noted(u, q)
      BY <2>3 DEF Noted, Exec!IsAt, Exec!Top
    <3> QED BY <1>4, <1>5, <1>7, <2>8, <3>1, <3>2 DEF CallInv, Recorded, Exec!Threads
  <2>13. NoCallBack'
    <3> SUFFICES ASSUME NEW q \in Runners, NEW u \in Runners,
                        Calling(u, q)' \/ Exec!BlockedOn(u, q)'
                 PROVE  ~AtBottom(q, u)'
      BY DEF NoCallBack
    <3>1. CASE u = t
      <4>1. q = r
        <5>1. Exec!Last(n).at = "waiting" /\ Exec!Last(n).to = r
          BY <2>1, Kinds
        <5> QED BY <3>1, <5>1, <2>3, <2>8 DEF Calling, Noted, Exec!IsAt, Exec!Top
      <4>2. Calling(t, r)
        BY <1>2 DEF Calling
      <4> QED BY <1>2, <3>1, <4>1, <4>2, <2>7 DEF CallInv, NoCallBack, Exec!Threads
    <3>2. CASE u # t
      <4>1. Calling(u, q)' <=> Calling(u, q)
        BY <2>3, <3>2 DEF Calling, Noted, Exec!IsAt, Exec!Top, Exec!Threads
      <4> QED BY <2>7, <2>8, <3>2, <4>1 DEF CallInv, NoCallBack, Exec!Threads
    <3> QED BY <3>1, <3>2
  <2> QED BY <2>5, <2>10, <2>11, <2>12, <2>13 DEF CallInv
<1> QED BY <1>6, <1>7

LEMMA ReturnInv ==
    ASSUME CallInv, NEW t \in Exec!Threads, Exec!Return(t)
    PROVE  CallInv'
<1> DEFINE s == stack[t]
           n == Exec!Front(s)
<1>1. Stacked(t, s) /\ s # <<>> /\ Exec!Last(s).op = "call" /\ Exec!Last(s).at \in Ended
  BY DEF Exec!Return, Exec!HasEnded, Exec!IsAt, Exec!Top, CallInv, CallTypes, Ended
<1>2. Stacked(t, n) /\ n # <<>> /\ n[1] = s[1] /\ Exec!Last(n).op = "task"
  BY <1>1, UnderCall
<1>3. \A q \in Runners : ~Exec!BlockedOn(t, q)
  BY <1>1 DEF Exec!BlockedOn, Exec!IsAt, Exec!Top, Ended
<1>4. stack' = [stack EXCEPT ![t] = n] /\ queue' = queue /\ mayCall' = mayCall
  BY DEF Exec!Return, Exec!Pop
<1>5. \A c \in Exec!Threads : n # <<>> /\ n[1] = Exec!Task(c) <=> AtBottom(c, t)
  BY <1>1, <1>2 DEF AtBottom
<1>6. /\ m_waitsOnThread' \in [Runners -> Runners \cup {Nobody}]
      /\ \A q \in Runners : q # t => m_waitsOnThread'[q] = m_waitsOnThread[q]
  BY DEF Exec!Return, Exec!WaitAfterReturn, CallInv, CallTypes
<1> HIDE DEF n, s
<1> QED BY <1>2, <1>3, <1>4, <1>5, <1>6, Own

(* The runner is free, so the task of a caller in the queue is not at its  *)
(* bottom yet; now it is, and is in the queue no more.                     *)
LEMMA TakeTaskInv ==
    ASSUME CallInv, NEW r \in Runners, Exec!TakeTask(r)
    PROVE  CallInv'
<1> DEFINE c == Head(queue[r])
           n == Append(<<>>, Exec!Task(c))
<1>1. /\ stack[r] = <<>> /\ queue[r] # <<>> /\ queue[r] \in Seq(Exec!Threads)
      /\ UNCHANGED <<m_waitsOnThread, mayCall>>
  BY DEF Exec!TakeTask, CallInv, CallTypes
<1>2. c \in Exec!Threads /\ Queued(c, r)
  <2>1. 1 \in DOMAIN queue[r] /\ c = queue[r][1] /\ c \in Exec!Threads
    BY <1>1
  <2> QED BY <2>1 DEF Queued
<1>3. c # r /\ Exec!BlockedOn(c, r)
  BY <1>2 DEF CallInv, Owed
<1>4. Stacked(r, n) /\ n # <<>> /\ n[1] = Exec!Task(c) /\ Exec!Last(n) = Exec!Task(c)
  BY <1>2, <1>3, Started DEF Exec!Threads
<1>5. stack' = [stack EXCEPT ![r] = n] /\ queue' = [queue EXCEPT ![r] = Tail(@)]
  BY <1>1 DEF Exec!TakeTask, Exec!Push
<1> HIDE DEF n
<1>6. /\ stack'[r] = n /\ \A u \in Exec!Threads \ {r} : stack'[u] = stack[u]
      /\ stack' = [u \in Exec!Threads |-> stack'[u]]
  BY <1>5 DEF CallInv, CallTypes, Exec!Threads
<1>7. /\ queue' \in [Runners -> Seq(Exec!Threads)] /\ queue'[r] = Tail(queue[r])
      /\ \A q \in Runners \ {r} : queue'[q] = queue[q]
  BY <1>1, <1>5 DEF CallInv, CallTypes
<1>8. /\ Len(queue[r]) \in Nat \ {0} /\ queue[r][1] = c
      /\ Len(Tail(queue[r])) = Len(queue[r]) - 1
      /\ \A i \in 1 .. Len(queue[r]) - 1 : Tail(queue[r])[i] = queue[r][i + 1]
  BY <1>1
<1> HIDE DEF c
<1>9. Exec!IsInjective(queue[r])
  BY DEF CallInv, QueuedOnce
<1>10. \A u \in Exec!Threads, q \in Runners : Queued(u, q)' => Queued(u, q) /\ ~(u = c /\ q = r)
  <2> SUFFICES ASSUME NEW u \in Exec!Threads, NEW q \in Runners, Queued(u, q)'
               PROVE  Queued(u, q) /\ ~(u = c /\ q = r)
    OBVIOUS
  <2>1. CASE q # r
    BY <2>1, <1>7 DEF Queued
  <2>2. CASE q = r
    <3>1. PICK i \in DOMAIN Tail(queue[r]) : Tail(queue[r])[i] = u
      BY <2>2, <1>7 DEF Queued
    <3>2. i \in 1 .. Len(queue[r]) - 1
      BY <1>1, <1>8, <3>1
    <3>3. i + 1 \in DOMAIN queue[r] /\ 1 \in DOMAIN queue[r] /\ i + 1 # 1
      BY <1>1, <1>8, <3>2
    <3>4. queue[r][i + 1] = u
      BY <1>8, <3>1, <3>2
    <3>5. u # c
      BY <1>8, <1>9, <3>3, <3>4 DEF Exec!IsInjective
    <3> QED BY <2>2, <3>3, <3>4, <3>5 DEF Queued
  <2> QED BY <2>1, <2>2
<1>11. \A u, q \in Exec!Threads : AtBottom(u, q)' <=> AtBottom(u, q) \/ (u = c /\ q = r)
  <2> TAKE u, q \in Exec!Threads
  <2>1. CASE q # r
    BY <2>1, <1>6 DEF AtBottom
  <2>2. CASE q = r
    <3>1. ~AtBottom(u, r)
      BY <1>1 DEF AtBottom
    <3>2. AtBottom(u, r)' <=> u = c
      BY <1>4, <1>6, Kinds DEF AtBottom
    <3> QED BY <2>2, <3>1, <3>2
  <2> QED BY <2>1, <2>2
<1>12. \A u \in Exec!Threads, q \in Runners : Exec!BlockedOn(u, q)' <=> Exec!BlockedOn(u, q)
  <2> TAKE u \in Exec!Threads, q \in Runners
  <2>1. CASE u # r
    BY <2>1, <1>6 DEF Exec!BlockedOn, Exec!IsAt, Exec!Top
  <2>2. CASE u = r
    <3>1. Exec!Last(n).op = "task"
      BY <1>4, Kinds
    <3> QED BY <2>2, <3>1, <1>1, <1>6 DEF Exec!BlockedOn, Exec!IsAt, Exec!Top
  <2> QED BY <2>1, <2>2
<1>13. CallTypes'
  BY <1>1, <1>4, <1>6, <1>7 DEF CallInv, CallTypes
<1>14. Owed'
  <2> SUFFICES ASSUME NEW u \in Exec!Threads, NEW q \in Runners
               PROVE  /\ Queued(u, q)' \/ AtBottom(u, q)' => u # q /\ Exec!BlockedOn(u, q)'
                      /\ ~(Queued(u, q)' /\ AtBottom(u, q)')
    BY DEF Owed
  <2> QED BY <1>2, <1>3, <1>10, <1>11, <1>12 DEF CallInv, Owed, Exec!Threads
<1>15. QueuedOnce'
  <2> SUFFICES ASSUME NEW q \in Runners PROVE Exec!IsInjective(queue'[q])
    BY DEF QueuedOnce
  <2>1. CASE q # r
    BY <2>1, <1>7 DEF CallInv, QueuedOnce
  <2>2. CASE q = r
    <3> SUFFICES ASSUME NEW i \in DOMAIN Tail(queue[r]), NEW j \in DOMAIN Tail(queue[r]),
                        Tail(queue[r])[i] = Tail(queue[r])[j]
                 PROVE  i = j
      BY <2>2, <1>7 DEF Exec!IsInjective
    <3>1. i \in 1 .. Len(queue[r]) - 1 /\ j \in 1 .. Len(queue[r]) - 1
      BY <1>1, <1>8
    <3>2. i + 1 \in DOMAIN queue[r] /\ j + 1 \in DOMAIN queue[r]
      BY <1>1, <1>8, <3>1
    <3>3. queue[r][i + 1] = queue[r][j + 1]
      BY <1>8, <3>1
    <3>4. i + 1 = j + 1
      BY <1>9, <3>2, <3>3 DEF Exec!IsInjective
    <3> QED BY <3>1, <3>4
  <2> QED BY <2>1, <2>2
<1>16. Recorded'
  <2>1. Exec!Last(n).op = "task"
    BY <1>4, Kinds
  <2>2. \A q \in Runners : ~Noted(r, q)'
    BY <2>1, <1>6 DEF Noted, Exec!IsAt, Exec!Top
  <2>3. \A u \in Runners \ {r}, q \in Runners : Noted(u, q)' <=> Noted(u, q)
    BY <1>6 DEF Noted, Exec!IsAt, Exec!Top, Exec!Threads
  <2> QED BY <1>1, <1>12, <2>2, <2>3 DEF CallInv, Recorded, Exec!Threads
<1>17. NoCallBack'
  <2> SUFFICES ASSUME NEW q \in Runners, NEW u \in Runners,
                      Calling(u, q)' \/ Exec!BlockedOn(u, q)'
               PROVE  ~AtBottom(q, u)'
    BY DEF NoCallBack
  <2>1. CASE u = r
    <3>1. Exec!Last(n).op = "task"
      BY <1>4, Kinds
    <3> QED BY <2>1, <3>1, <1>6 DEF Calling, Noted, Exec!BlockedOn, Exec!IsAt, Exec!Top
  <2>2. CASE u # r
    <3>1. Calling(u, q)' <=> Calling(u, q)
      BY <2>2, <1>6 DEF Calling, Noted, Exec!IsAt, Exec!Top, Exec!Threads
    <3> QED BY <2>2, <3>1, <1>11, <1>12 DEF CallInv, NoCallBack, Exec!Threads
  <2> QED BY <2>1, <2>2
<1>18. ServedByRunners'
  BY <1>11 DEF CallInv, ServedByRunners
<1> QED BY <1>13, <1>14, <1>15, <1>16, <1>17, <1>18 DEF CallInv

(* A task ends that another thread waits for: it was alone on its stack,   *)
(* and its caller is blocked no more and owed nothing.                     *)
LEMMA Served ==
    ASSUME CallInv, NEW t \in Exec!Threads, NEW c \in Exec!Threads \ {t}, AtBottom(c, t),
           Exec!Last(stack[t]) = Exec!Task(c), NEW x \in Ended,
           stack' = [[stack EXCEPT ![t] = Exec!Front(@)]
                        EXCEPT ![c] = Append(Exec!Front(@), Exec!Call(Exec!Top(c).to, x))],
           UNCHANGED <<m_waitsOnThread, queue, mayCall>>
    PROVE  CallInv'
<1> DEFINE n == Append(Exec!Front(stack[c]), Exec!Call(Exec!Top(c).to, x))
<1>1. t \in Runners /\ Exec!BlockedOn(c, t)
  BY DEF CallInv, Owed, ServedByRunners
<1>2. /\ Stacked(c, stack[c]) /\ stack[c] # <<>> /\ Exec!Last(stack[c]).op = "call"
      /\ Exec!Last(stack[c]).at = "waiting" /\ Exec!Top(c).to = t
  BY <1>1 DEF Exec!BlockedOn, Exec!IsAt, Exec!Top, CallInv, CallTypes
<1>3. Stacked(c, n) /\ n # <<>> /\ n[1] = stack[c][1] /\ Exec!Last(n) = Exec!Call(t, x)
  BY <1>1, <1>2, Moved DEF Ended, Exec!CallStates
<1>4. Stacked(t, stack[t]) /\ stack[t] # <<>> /\ Exec!Front(stack[t]) = <<>>
  <2>1. Stacked(t, stack[t]) /\ stack[t] # <<>>
    BY DEF CallInv, CallTypes, AtBottom
  <2> QED BY <2>1, Alone
<1>5. Exec!Last(n).op = "call" /\ Exec!Last(n).at \in Ended
  BY <1>3, Kinds
<1>6. /\ stack' = [u \in Exec!Threads |-> stack'[u]]
      /\ stack'[t] = <<>> /\ stack'[c] = n
      /\ \A u \in Exec!Threads \ {t, c} : stack'[u] = stack[u]
  BY <1>4 DEF CallInv, CallTypes
<1> HIDE DEF n
<1>7. CallTypes'
  <2>1. \A u \in Exec!Threads : Stacked(u, stack[u])
    BY DEF CallInv, CallTypes
  <2>2. \A u \in Exec!Threads : Stacked(u, stack'[u])
    <3> TAKE u \in Exec!Threads
    <3>1. CASE u = t
      BY <1>6, <3>1, EmptyStack
    <3>2. CASE u = c
      BY <1>3, <1>6, <3>2
    <3>3. CASE u \notin {t, c}
      BY <1>6, <2>1, <3>3
    <3> QED BY <3>1, <3>2, <3>3
  <2>3. /\ m_waitsOnThread' \in [Runners -> Runners \cup {Nobody}]
        /\ queue' \in [Runners -> Seq(Exec!Threads)]
        /\ mayCall' \in [Exec!Threads -> SUBSET Runners]
    BY DEF CallInv, CallTypes
  <2> QED BY <1>6, <2>2, <2>3 DEF CallTypes
<1>8. \A u, r \in Exec!Threads : AtBottom(u, r)' <=> AtBottom(u, r) /\ r # t
  <2> TAKE u, r \in Exec!Threads
  <2>1. CASE r = t
    BY <1>6, <2>1 DEF AtBottom
  <2>2. CASE r = c
    BY <1>2, <1>3, <1>6, <2>2 DEF AtBottom
  <2>3. CASE r \notin {t, c}
    BY <1>6, <2>3 DEF AtBottom
  <2> QED BY <2>1, <2>2, <2>3
<1>9. \A u, r \in Exec!Threads : Exec!BlockedOn(u, r)' <=> Exec!BlockedOn(u, r) /\ u # c
  <2> TAKE u, r \in Exec!Threads
  <2>1. CASE u = c
    BY <2>1, <1>5, <1>6 DEF Exec!BlockedOn, Exec!IsAt, Exec!Top, Ended
  <2>2. CASE u = t
    <3>1. Exec!Last(stack[t]).op = "task" BY Kinds
    <3> QED BY <2>2, <3>1, <1>6 DEF Exec!BlockedOn, Exec!IsAt, Exec!Top
  <2>3. CASE u \notin {c, t}
    BY <2>3, <1>6 DEF Exec!BlockedOn, Exec!IsAt, Exec!Top
  <2> QED BY <2>1, <2>2, <2>3
<1>10. \A u, r \in Exec!Threads : Queued(u, r)' = Queued(u, r)
  BY DEF Queued
<1>11. \A r \in Runners : ~Queued(c, r) /\ (AtBottom(c, r) => r = t)
  <2> SUFFICES ASSUME NEW r \in Runners, Queued(c, r) \/ AtBottom(c, r)
               PROVE  ~Queued(c, r) /\ r = t
    OBVIOUS
  <2>1. Exec!BlockedOn(c, r)
    BY DEF CallInv, Owed
  <2>2. r = t
    BY <1>2, <2>1 DEF Exec!BlockedOn
  <2> QED BY <1>1, <2>2 DEF CallInv, Owed
<1>12. Owed' /\ ServedByRunners'
  BY <1>8, <1>9, <1>10, <1>11 DEF CallInv, Owed, ServedByRunners, Exec!Threads
<1>13. \A u, r \in Exec!Threads : (Calling(u, r)' => Calling(u, r)) /\ (Noted(u, r)' => Noted(u, r))
  <2> TAKE u, r \in Exec!Threads
  <2>1. CASE u = c
    BY <2>1, <1>5, <1>6 DEF Calling, Noted, Exec!IsAt, Exec!Top, Ended
  <2>2. CASE u = t
    BY <2>2, <1>6 DEF Calling, Noted, Exec!IsAt, Exec!Top
  <2>3. CASE u \notin {c, t}
    BY <2>3, <1>6 DEF Calling, Noted, Exec!IsAt, Exec!Top
  <2> QED BY <2>1, <2>2, <2>3
<1>14. QueuedOnce' /\ Recorded'
  BY <1>9, <1>13 DEF CallInv, QueuedOnce, Recorded, Exec!Threads
<1>15. NoCallBack'
  BY <1>8, <1>9, <1>13 DEF CallInv, NoCallBack, Exec!Threads
<1> QED BY <1>7, <1>12, <1>14, <1>15 DEF CallInv

LEMMA EndTaskInv ==
    ASSUME CallInv, NEW t \in Exec!Threads, Exec!EndTask(t)
    PROVE  CallInv'
<1> DEFINE s == stack[t]
           c == Exec!Top(t).for
<1>1. /\ Stacked(t, s) /\ s # <<>> /\ Exec!Last(s).op = "task"
      /\ \A r \in Runners : ~Exec!BlockedOn(t, r)
      /\ Exec!Top(t) = Exec!Last(s)
  BY Code DEF Exec!EndTask, Exec!Top
<1>2. Exec!Last(s) = Exec!Task(c) /\ c \in Exec!Threads \cup {Nobody}
  <2>1. Exec!Last(s) \in Exec!Frames BY <1>1, FrontIs DEF Stacked
  <2>2. Exec!Last(s) \in Tasks BY <1>1, <2>1, Kinds
  <2> QED BY <1>1, <2>2, Kinds
<1>3. PICK x \in Ended :
          stack' = CASE c = Nobody -> Exec!Pop(t)
                     [] c = t    -> [stack EXCEPT ![t] = Append(Exec!Front(Exec!Front(@)), Exec!Call(t, x))]
                     [] OTHER    -> [Exec!Pop(t) EXCEPT ![c] = Append(Exec!Front(@), Exec!Call(Exec!Top(c).to, x))]
  BY DEF Exec!EndTask, Ended
<1>4. UNCHANGED <<m_waitsOnThread, queue, mayCall>>
  BY DEF Exec!EndTask
<1>5. m_waitsOnThread \in [Runners -> Runners \cup {Nobody}] /\ Nobody \notin Exec!Threads
  BY CallsAssumption DEF Exec!ConstantsAssumption, CallInv, CallTypes, Exec!Threads
<1> HIDE DEF c
<1>6. CASE c = Nobody
  <2>1. stack' = [stack EXCEPT ![t] = <<>>] /\ s[1] = Exec!Task(Nobody)
    <3>1. c # t BY <1>5, <1>6
    <3>2. s[1] = Exec!Task(c) /\ Exec!Front(s) = <<>> BY <1>1, <1>2, <3>1, Alone
    <3>3. stack' = Exec!Pop(t) BY <1>3, <1>6, <3>1
    <3> QED BY <1>6, <3>2, <3>3 DEF Exec!Pop
  <2>2. \A u \in Exec!Threads : ~AtBottom(u, t)
    <3>1. \A u \in Exec!Threads : Exec!Task(u) # Exec!Task(Nobody)
      BY <1>5, Kinds
    <3> QED BY <2>1, <3>1 DEF AtBottom
  <2> QED BY <1>1, <1>4, <1>5, <2>1, <2>2, EmptyStack, Own
<1>7. CASE c = t
  <2> DEFINE n == Append(Exec!Front(Exec!Front(s)), Exec!Call(t, x))
  <2>1. Stacked(t, n) /\ n # <<>> /\ n[1] = s[1] /\ Exec!Last(n) = Exec!Call(t, x)
    BY <1>1, <1>2, <1>7, EndedInPlace DEF Ended, Exec!CallStates
  <2>2. stack' = [stack EXCEPT ![t] = n]
    BY <1>3, <1>5, <1>7
  <2> HIDE DEF n
  <2>3. \A u \in Exec!Threads : n # <<>> /\ n[1] = Exec!Task(u) <=> AtBottom(u, t)
    BY <1>1, <2>1 DEF AtBottom
  <2>4. Exec!Last(n).at \in Ended
    BY <2>1, Kinds
  <2> HIDE DEF s
  <2> QED BY <1>1, <1>4, <1>5, <2>1, <2>2, <2>3, <2>4, Own DEF Ended
<1>8. CASE c \in Exec!Threads \ {t}
  <2>1. s[1] = Exec!Task(c)
    BY <1>1, <1>2, <1>8, Alone
  <2>2. AtBottom(c, t)
    BY <1>1, <2>1 DEF AtBottom
  <2>3. stack' = [[stack EXCEPT ![t] = Exec!Front(@)]
                     EXCEPT ![c] = Append(Exec!Front(@), Exec!Call(Exec!Top(c).to, x))]
    BY <1>3, <1>5, <1>8 DEF Exec!Pop
  <2> QED BY <1>2, <1>4, <1>8, <2>2, <2>3, Served
<1> QED BY <1>2, <1>6, <1>7, <1>8

LEMMA CallStepInv == CallInv /\ [Exec!Next]_Exec!vars => CallInv'
<1> SUFFICES ASSUME CallInv, [Exec!Next]_Exec!vars PROVE CallInv'
  OBVIOUS
<1>1. ASSUME NEW t \in Exec!Threads, Exec!StartCode(t) PROVE CallInv'
  BY <1>1, StartCodeInv
<1>2. ASSUME UNCHANGED <<m_waitsOnThread, stack, queue, mayCall>> PROVE CallInv'
  <2>1. CallTypes' /\ QueuedOnce'
    BY <1>2 DEF CallInv, CallTypes, QueuedOnce
  <2>2. \A t, r : /\ Queued(t, r)' <=> Queued(t, r)
                  /\ AtBottom(t, r)' <=> AtBottom(t, r)
                  /\ Exec!BlockedOn(t, r)' <=> Exec!BlockedOn(t, r)
                  /\ Calling(t, r)' <=> Calling(t, r)
                  /\ Noted(t, r)' <=> Noted(t, r)
    BY <1>2 DEF Queued, AtBottom, Exec!BlockedOn, Calling, Noted, Exec!IsAt, Exec!Top
  <2>3. Owed' /\ ServedByRunners' /\ Recorded' /\ NoCallBack'
    BY <1>2, <2>2 DEF CallInv, Owed, ServedByRunners, Recorded, NoCallBack
  <2> QED BY <2>1, <2>3 DEF CallInv
<1>3. ASSUME NEW t \in Exec!Threads, Exec!Progress(t) PROVE CallInv'
  <2>1. CASE t \in Runners /\ (Exec!SwapQueue(t) \/ Exec!NotifyDone(t))
    BY <1>2, <2>1 DEF Exec!SwapQueue, Exec!NotifyDone
  <2>2. CASE Exec!Block(t) \/ Exec!Test(t)
    BY <1>2, <2>2 DEF Exec!Block, Exec!Test
  <2> QED
    BY <1>3, <2>1, <2>2, RecordWaitInv, TakeTaskInv, GiveTaskInv, EndTaskInv, ReturnInv
    DEF Exec!Progress
<1>4. ASSUME NEW t \in Exec!Threads, Exec!Wake(t) PROVE CallInv'
  BY <1>2, <1>4 DEF Exec!Wake
<1>5. ASSUME NEW t \in Exec!Threads, NEW r \in Runners, Exec!BeginCall(t, r) PROVE CallInv'
  BY <1>5, BeginCallInv
<1>6. ASSUME NEW t \in Exec!Threads, NEW r \in Runners, Exec!DetectDeadlock(t, r) PROVE CallInv'
  BY <1>2, <1>6 DEF Exec!DetectDeadlock
<1>7. CASE UNCHANGED Exec!vars
  BY <1>2, <1>7 DEF Exec!vars
<1> QED BY <1>1, <1>3, <1>4, <1>5, <1>6, <1>7 DEF Exec!Next

(* CallBackAlwaysDetected: for any threads and any calls between them,     *)
(* code that a runner runs for a blocked caller never blocks on that       *)
(* caller, whatever stale entries the table has (TaskExecutor.cpp:43-46).  *)
THEOREM CallBackAlwaysDetected == Exec!Spec => []CallBackDetected
<1>1. CallInv => CallBackDetected
  <2> SUFFICES ASSUME CallInv, NEW t \in Runners, NEW r \in Runners,
                      Exec!BlockedOn(t, r), Exec!Serves(r, t), Exec!BlockedOn(r, t)
               PROVE  FALSE
    BY DEF CallBackDetected, Exec!CallBackDetected
  <2>1. t # r
    BY DEF CallInv, Recorded
  <2>2. Stacked(r, stack[r]) /\ r \in Exec!Threads
    BY DEF CallInv, CallTypes, Exec!Threads
  <2>3. AtBottom(t, r)
    BY <2>1, <2>2, OnlyAtBottom DEF Exec!Serves, AtBottom
  <2> QED BY <2>3 DEF CallInv, NoCallBack
<1> QED BY CallInitInv, CallStepInv, <1>1, PTL DEF Exec!Spec

-----------------------------------------------------------------------------
(* The runner of the MAIN thread.                                          *)

(* MainTypeStep: every step keeps the types.                               *)
LEMMA MainTypeStep == Napi!TypeOK /\ [Napi!Next]_Napi!vars => Napi!TypeOK'
  <1> SUFFICES ASSUME Napi!TypeOK, [Napi!Next]_Napi!vars PROVE Napi!TypeOK'
    OBVIOUS
  <1> USE MainAssumption
      DEF Napi!ConstantsAssumption, Napi!TypeOK, Napi!CallerStates, Napi!MainStates, Napi!Tasks
  <1>1. ASSUME NEW c \in Posters, NEW a \in MainTasks, Napi!PushAsync(c, a) PROVE Napi!TypeOK'
    BY <1>1, PushedElements DEF Napi!PushAsync
  <1>2. ASSUME NEW c \in Posters, Napi!PushSync(c) PROVE Napi!TypeOK'
    BY <1>2, PushedElements DEF Napi!PushSync
  <1>3. ASSUME NEW c \in Posters, Napi!Send(c) PROVE Napi!TypeOK'
    BY <1>3 DEF Napi!Send, Napi!uv_async_send
  <1>4. ASSUME NEW c \in Posters, Napi!TestSync(c) PROVE Napi!TypeOK'
    BY <1>4 DEF Napi!TestSync
  <1>5. ASSUME NEW c \in Posters, Napi!BlockSync(c) PROVE Napi!TypeOK'
    BY <1>5 DEF Napi!BlockSync
  <1>6. ASSUME NEW a \in MainTasks, Napi!PostFromMain(a) PROVE Napi!TypeOK'
    BY <1>6, PushedElements DEF Napi!PostFromMain, Napi!uv_async_send
  <1>7. CASE Napi!EnterCallback
    BY <1>7 DEF Napi!EnterCallback
  <1>8. CASE Napi!SwapQueue
    BY <1>8 DEF Napi!SwapQueue
  <1>9. CASE Napi!TakeTask
    BY <1>9, PoppedElements DEF Napi!TakeTask
  <1>10. CASE Napi!LeaveCallback
    BY <1>10 DEF Napi!LeaveCallback
  <1>11. CASE Napi!FinishTask
    BY <1>11 DEF Napi!FinishTask
  <1>12. CASE Napi!NotifyDone
    BY <1>12 DEF Napi!NotifyDone, Napi!NotifiedCallers
  <1>13. CASE Napi!DestructorStep
    BY <1>13 DEF Napi!DestructorStep, Napi!StopRunning, Napi!NotifyStopped, Napi!Close,
                 Napi!NotifiedCallers
  <1>14. CASE Napi!SpuriousWakeup
    BY <1>14 DEF Napi!SpuriousWakeup
  <1>15. CASE UNCHANGED Napi!vars
    BY <1>15 DEF Napi!vars
  <1> QED
    BY <1>1, <1>2, <1>3, <1>4, <1>5, <1>6, <1>7, <1>8, <1>9, <1>10, <1>11,
       <1>12, <1>13, <1>14, <1>15 DEF Napi!Next, Napi!CallerStep, Napi!MainStep

(* MainTypeCorrect: in every behaviour each variable keeps its type, MAIN  *)
(* holds a task exactly while it runs one, and the local batch is empty    *)
(* outside the callback (NapiTaskRunner.cpp:11-46).                        *)
THEOREM MainTypeCorrect == Napi!Spec => []Napi!TypeOK
  <1>1. ASSUME Napi!Init PROVE Napi!TypeOK
    <2> USE <1>1 DEF Napi!Init
    <2>1. /\ mainDone \in [Posters -> BOOLEAN]
          /\ mainCaller \in [Posters -> Napi!CallerStates]
          /\ mainPosted \in SUBSET MainTasks
      BY DEF Napi!CallerStates
    <2>2. mainRunning \in BOOLEAN /\ signalled \in BOOLEAN /\ closed \in BOOLEAN
      OBVIOUS
    <2>3. /\ tasksQueue \in Seq(Napi!Tasks)
          /\ batch \in Seq(Napi!Tasks)
          /\ mainTask \in Napi!Tasks \cup {Nothing}
          /\ main \in Napi!MainStates
          /\ mainDestructor \in {"none", "stopped", "notified", "closed"}
      BY DEF Napi!MainStates
    <2>4. /\ mainTask # Nothing <=> main = "task"
          /\ main \in {"loop", "callback"} => batch = <<>>
      OBVIOUS
    <2> QED
      BY <2>1, <2>2, <2>3, <2>4 DEF Napi!TypeOK
  <1> QED
    BY <1>1, MainTypeStep, PTL DEF Napi!Spec

-----------------------------------------------------------------------------
(* NeverForgotten: in every behaviour a task in the queue has a signal, a  *)
(* callback about to swap the queue, or a producer about to signal         *)
(* (NapiTaskRunner.cpp:33-37, 57-59, 67-74).  Inductive as it stands: the  *)
(* signal is cleared by the step that enters the callback.                 *)
THEOREM NeverForgotten == Napi!Spec => []QueueSignalled
  <1>1. Napi!Init => Napi!QueueSignalled
    BY DEF Napi!Init, Napi!QueueSignalled
  <1>2. ASSUME Napi!TypeOK, Napi!QueueSignalled, [Napi!Next]_Napi!vars PROVE Napi!QueueSignalled'
    <2> USE <1>2 DEF Napi!QueueSignalled, Napi!TypeOK
    <2>1. ASSUME NEW c \in Posters, NEW a \in MainTasks, Napi!PushAsync(c, a)
          PROVE  Napi!QueueSignalled'
      BY <2>1 DEF Napi!PushAsync
    <2>2. ASSUME NEW c \in Posters, Napi!PushSync(c) PROVE Napi!QueueSignalled'
      BY <2>2 DEF Napi!PushSync
    <2>3. ASSUME NEW c \in Posters, Napi!Send(c) PROVE Napi!QueueSignalled'
      BY <2>3 DEF Napi!Send, Napi!uv_async_send
    <2>4. ASSUME NEW c \in Posters,
    Napi!TestSync(c) \/ Napi!BlockSync(c) PROVE Napi!QueueSignalled'
      BY <2>4 DEF Napi!TestSync, Napi!BlockSync
    <2>5. ASSUME NEW a \in MainTasks, Napi!PostFromMain(a) PROVE Napi!QueueSignalled'
      BY <2>5 DEF Napi!PostFromMain, Napi!uv_async_send
    <2>6. CASE Napi!EnterCallback
      BY <2>6 DEF Napi!EnterCallback
    <2>7. CASE Napi!SwapQueue
      BY <2>7 DEF Napi!SwapQueue
    <2>8. CASE Napi!TakeTask \/ Napi!LeaveCallback \/ Napi!FinishTask
      BY <2>8 DEF Napi!TakeTask, Napi!LeaveCallback, Napi!FinishTask
    <2>9. CASE Napi!NotifyDone
      BY <2>9 DEF Napi!NotifyDone, Napi!NotifiedCallers
    <2>10. CASE Napi!DestructorStep
      BY <2>10 DEF Napi!DestructorStep, Napi!StopRunning, Napi!NotifyStopped, Napi!Close,
                   Napi!NotifiedCallers
    <2>11. CASE Napi!SpuriousWakeup
      BY <2>11 DEF Napi!SpuriousWakeup
    <2>12. CASE UNCHANGED Napi!vars
      BY <2>12 DEF Napi!vars
    <2> QED
      BY <2>1, <2>2, <2>3, <2>4, <2>5, <2>6, <2>7, <2>8, <2>9, <2>10, <2>11, <2>12
      DEF Napi!Next, Napi!CallerStep, Napi!MainStep
  <1> QED
    BY <1>1, <1>2, MainTypeCorrect, PTL DEF Napi!Spec, QueueSignalled

-----------------------------------------------------------------------------
(* The inductive invariant behind NoDanglingDone: until destruction a      *)
(* caller has one task at a time, in the queue, in the batch or running,   *)
(* and `done' is false as long as that task exists.                        *)
InQueue(c) == \E i \in 1 .. Len(tasksQueue) : tasksQueue[i] = c
InBatch(c) == \E i \in 1 .. Len(batch) : batch[i] = c

MainUnfinished(c) == InQueue(c) \/ InBatch(c) \/ mainTask = c

OnceIn(q, c) == \A i, j \in 1 .. Len(q) : q[i] = c /\ q[j] = c => i = j

MainOneTaskEach ==
    \A c \in Posters : /\ OnceIn(tasksQueue, c)
                       /\ OnceIn(batch, c)
                       /\ ~(InQueue(c) /\ InBatch(c))
                       /\ mainTask = c => ~InQueue(c) /\ ~InBatch(c)

MainNotDoneYet == \A c \in Posters : MainUnfinished(c) => ~mainDone[c] /\ Napi!InSyncCall(c)

MainRunningUntilDestroyed == mainRunning <=> mainDestructor = "none"

MainIInv ==
    /\ MainRunningUntilDestroyed
    /\ mainRunning => MainOneTaskEach /\ MainNotDoneYet

(* MainIInvInit: the runner starts without tasks and with the flag set.    *)
LEMMA MainIInvInit == Napi!Init => MainIInv
  <1> SUFFICES ASSUME Napi!Init PROVE MainIInv
    OBVIOUS
  <1>1. Len(tasksQueue) = 0 /\ Len(batch) = 0
    BY DEF Napi!Init
  <1>2. \A c \in Posters : ~InQueue(c) /\ ~InBatch(c)
    BY <1>1 DEF InQueue, InBatch
  <1>3. \A c \in Posters : mainTask # c
    BY MainAssumption DEF Napi!ConstantsAssumption, Napi!Init
  <1>4. \A c \in Posters : ~MainUnfinished(c) /\ ~InQueue(c) /\ ~InBatch(c)
    BY <1>2, <1>3 DEF MainUnfinished
  <1> QED
    BY <1>4 DEF Napi!Init, MainIInv, MainRunningUntilDestroyed, MainOneTaskEach, OnceIn,
                MainNotDoneYet, MainUnfinished

(* MainIInvStep: most steps leave the queue, the batch, `done' and the     *)
(* calls alone, as far as callers go ("Kept"); the others one by one.      *)
LEMMA MainIInvStep ==
    Napi!TypeOK /\ Napi!TypeOK' /\ MainIInv /\ [Napi!Next]_Napi!vars => MainIInv'
  <1> SUFFICES ASSUME Napi!TypeOK, Napi!TypeOK', MainIInv, [Napi!Next]_Napi!vars PROVE MainIInv'
    OBVIOUS
  <1> USE MainAssumption DEF Napi!ConstantsAssumption
  <1>1. MainRunningUntilDestroyed' /\ (mainRunning' => mainRunning)
    BY DEF MainIInv, MainRunningUntilDestroyed, Napi!TypeOK, Napi!Next, Napi!vars,
           Napi!CallerStep, Napi!MainStep, Napi!DestructorStep,
           Napi!PushAsync, Napi!PushSync, Napi!Send, Napi!TestSync, Napi!BlockSync,
           Napi!PostFromMain, Napi!EnterCallback,
           Napi!SwapQueue, Napi!TakeTask, Napi!LeaveCallback, Napi!FinishTask, Napi!NotifyDone,
           Napi!StopRunning,
           Napi!NotifyStopped, Napi!Close, Napi!SpuriousWakeup
  <1>2. SUFFICES ASSUME mainRunning' PROVE MainOneTaskEach' /\ MainNotDoneYet'
    BY <1>1 DEF MainIInv
  <1>3. mainRunning /\ MainOneTaskEach /\ MainNotDoneYet
    BY <1>1, <1>2 DEF MainIInv
  <1> USE <1>3
  <1> DEFINE Kept == /\ UNCHANGED <<tasksQueue, batch, mainTask, mainDone>>
                     /\ \A c \in Posters : Napi!InSyncCall(c) => Napi!InSyncCall(c)'
             KeptPost == /\ \E a \in MainTasks : tasksQueue' = Append(tasksQueue, a)
                         /\ UNCHANGED <<batch, mainTask, mainDone>>
                         /\ \A c \in Posters : Napi!InSyncCall(c) => Napi!InSyncCall(c)'
  <1>4. Kept => MainOneTaskEach' /\ MainNotDoneYet'
    BY DEF MainOneTaskEach, OnceIn, MainNotDoneYet, MainUnfinished, InQueue, InBatch
  <1>5. ASSUME KeptPost PROVE MainOneTaskEach' /\ MainNotDoneYet'
    <2>1. PICK a \in MainTasks : tasksQueue' = Append(tasksQueue, a)
      BY <1>5
    <2>2. /\ Len(tasksQueue') = Len(tasksQueue) + 1
          /\ Len(tasksQueue) \in Nat
          /\ \A i \in 1 .. Len(tasksQueue) : tasksQueue'[i] = tasksQueue[i]
          /\ tasksQueue'[Len(tasksQueue) + 1] = a
      BY <2>1, PushedElements DEF Napi!TypeOK, Napi!Tasks
    <2>3. \A c \in Posters : /\ InQueue(c)' <=> InQueue(c)
                             /\ OnceIn(tasksQueue, c) => OnceIn(tasksQueue, c)'
      BY <2>2 DEF InQueue, OnceIn
    <2>4. UNCHANGED <<batch, mainTask, mainDone>>
      BY <1>5
    <2>5. MainOneTaskEach'
      BY <2>3, <2>4 DEF MainOneTaskEach, InBatch, OnceIn
    <2>6. MainNotDoneYet'
      BY <1>5, <2>3, <2>4 DEF MainNotDoneYet, MainUnfinished, InBatch
    <2> QED
      BY <2>5, <2>6
  <1> HIDE DEF Kept, KeptPost
  <1>6. ASSUME NEW c \in Posters, NEW a \in MainTasks, Napi!PushAsync(c, a) PROVE KeptPost
    BY <1>6 DEF Napi!PushAsync, KeptPost, Napi!InSyncCall, Napi!TypeOK
  <1>7. ASSUME NEW a \in MainTasks, Napi!PostFromMain(a) PROVE KeptPost
    BY <1>7 DEF Napi!PostFromMain, KeptPost, Napi!InSyncCall
  <1>8. ASSUME NEW c \in Posters, Napi!Send(c) \/ Napi!BlockSync(c) PROVE Kept
    BY <1>8 DEF Napi!Send, Napi!BlockSync, Kept, Napi!InSyncCall, Napi!TypeOK
  <1>9. ASSUME Napi!EnterCallback \/ Napi!LeaveCallback PROVE Kept
    BY <1>9 DEF Napi!EnterCallback, Napi!LeaveCallback, Kept, Napi!InSyncCall
  <1>10. ASSUME Napi!NotifyDone PROVE Kept
    BY <1>10 DEF Napi!NotifyDone, Napi!NotifiedCallers, Kept, Napi!InSyncCall, Napi!TypeOK
  <1>11. ASSUME Napi!DestructorStep PROVE Kept
    BY <1>11 DEF Napi!DestructorStep, Napi!StopRunning, Napi!NotifyStopped, Napi!Close,
                 Napi!NotifiedCallers, Kept,
                 Napi!InSyncCall, Napi!TypeOK
  <1>12. ASSUME Napi!SpuriousWakeup PROVE Kept
    BY <1>12 DEF Napi!SpuriousWakeup, Kept, Napi!InSyncCall, Napi!TypeOK
  <1>13. ASSUME UNCHANGED Napi!vars PROVE Kept
    BY <1>13 DEF Napi!vars, Kept, Napi!InSyncCall
  <1>14. ASSUME NEW c \in Posters, Napi!TestSync(c) PROVE MainOneTaskEach' /\ MainNotDoneYet'
    <2>1. /\ UNCHANGED <<tasksQueue, batch, mainTask, mainDone>>
          /\ \A d \in Posters : Napi!InSyncCall(d) /\ ~Napi!InSyncCall(d)' => mainDone[d]
      BY <1>14 DEF Napi!TestSync, Napi!CallerMayReturn, Napi!InSyncCall, Napi!TypeOK
    <2> QED
      BY <2>1 DEF MainOneTaskEach, OnceIn, MainNotDoneYet, MainUnfinished, InQueue, InBatch
  <1>15. ASSUME NEW c \in Posters, Napi!PushSync(c) PROVE MainOneTaskEach' /\ MainNotDoneYet'
    <2>1. ~MainUnfinished(c)
      BY <1>15 DEF Napi!PushSync, MainNotDoneYet, Napi!InSyncCall
    <2>2. /\ tasksQueue' = Append(tasksQueue, c)
          /\ mainDone' = [mainDone EXCEPT ![c] = FALSE]
          /\ UNCHANGED <<batch, mainTask>>
          /\ \A d \in Posters : Napi!InSyncCall(d) \/ d = c => Napi!InSyncCall(d)'
      BY <1>15 DEF Napi!PushSync, Napi!InSyncCall, Napi!TypeOK
    <2>3. /\ Len(tasksQueue') = Len(tasksQueue) + 1
          /\ Len(tasksQueue) \in Nat
          /\ \A i \in 1 .. Len(tasksQueue) : tasksQueue'[i] = tasksQueue[i]
          /\ tasksQueue'[Len(tasksQueue) + 1] = c
      BY <2>2, PushedElements DEF Napi!TypeOK, Napi!Tasks
    <2>4. \A d \in Posters : InQueue(d)' <=> InQueue(d) \/ d = c
      BY <2>3 DEF InQueue
    <2>5. \A d \in Posters : OnceIn(tasksQueue, d)'
      BY <2>1, <2>3 DEF MainOneTaskEach, OnceIn, MainUnfinished, InQueue
    <2>6. MainOneTaskEach'
      BY <2>1, <2>2, <2>4, <2>5 DEF MainOneTaskEach, MainUnfinished, InBatch, OnceIn
    <2>7. MainNotDoneYet'
      BY <2>1, <2>2, <2>4 DEF MainNotDoneYet, MainUnfinished, InBatch, Napi!TypeOK
    <2> QED
      BY <2>6, <2>7
  <1>16. CASE Napi!SwapQueue
    <2>1. batch = <<>> /\ batch' = tasksQueue /\ tasksQueue' = <<>>
      BY <1>16 DEF Napi!SwapQueue, Napi!TypeOK
    <2>2. UNCHANGED <<mainTask, mainDone, mainCaller>>
      BY <1>16 DEF Napi!SwapQueue
    <2>3. \A c \in Posters : /\ ~InQueue(c)'
                             /\ InBatch(c)' <=> InQueue(c)
                             /\ OnceIn(tasksQueue, c)'
                             /\ OnceIn(batch, c)' <=> OnceIn(tasksQueue, c)
      BY <2>1 DEF InQueue, InBatch, OnceIn
    <2> QED
      BY <2>2, <2>3 DEF MainOneTaskEach, MainNotDoneYet, MainUnfinished, Napi!InSyncCall
  <1>17. CASE Napi!TakeTask
    <2>1. /\ mainTask = Nothing
          /\ mainTask' = batch[1]
          /\ Len(batch) \in Nat \ {0}
          /\ Len(batch') = Len(batch) - 1
          /\ \A i \in 1 .. Len(batch) - 1 : batch'[i] = batch[i + 1]
      BY <1>17, PoppedElements DEF Napi!TakeTask, Napi!TypeOK
    <2>2. UNCHANGED <<tasksQueue, mainDone, mainCaller>>
      BY <1>17 DEF Napi!TakeTask
    <2>3. \A c \in Posters : /\ InBatch(c)' => InBatch(c)
                             /\ mainTask' = c => InBatch(c)
                             /\ OnceIn(batch, c) => OnceIn(batch, c)'
                             /\ OnceIn(batch, c) /\ mainTask' = c => ~InBatch(c)'
      BY <2>1 DEF InBatch, OnceIn
    <2> QED
      BY <2>2, <2>3 DEF MainOneTaskEach, MainNotDoneYet, MainUnfinished, InQueue, OnceIn,
                        Napi!InSyncCall
  <1>18. CASE Napi!FinishTask
    <2>1. /\ mainTask' = Nothing
          /\ UNCHANGED <<tasksQueue, batch, mainCaller>>
          /\ \A c \in Posters : c # mainTask => mainDone'[c] = mainDone[c]
      BY <1>18 DEF Napi!FinishTask, Napi!TypeOK
    <2> QED
      BY <2>1 DEF MainOneTaskEach, MainNotDoneYet, MainUnfinished, InQueue, InBatch, OnceIn,
                  Napi!InSyncCall
  <1> QED
    BY <1>4, <1>5, <1>6, <1>7, <1>8, <1>9, <1>10, <1>11, <1>12, <1>13, <1>14, <1>15,
       <1>16, <1>17, <1>18 DEF Napi!Next, Napi!CallerStep, Napi!MainStep

(* MainIInvAlways: the strengthened invariant holds in every behaviour.    *)
LEMMA MainIInvAlways == Napi!Spec => []MainIInv
  BY MainIInvInit, MainIInvStep, MainTypeCorrect, PTL DEF Napi!Spec

(* MainFlagOutlivesTask: in every behaviour, until the destructor clears   *)
(* `running', the `done' flag a queued, swapped or running synchronous     *)
(* task refers to is on the stack of a caller still in runSyncTask         *)
(* (NapiTaskRunner.cpp:68-77).                                             *)
THEOREM MainFlagOutlivesTask == Napi!Spec => []MainNoDanglingDone
  <1>1. MainIInv => MainNoDanglingDone
    BY DEF MainIInv, MainNotDoneYet, MainUnfinished, InQueue, InBatch, Napi!Queued,
       Napi!NoDanglingDone, MainNoDanglingDone
  <1> QED
    BY <1>1, MainIInvAlways, PTL

-----------------------------------------------------------------------------
(* ConcatAppend: the lane batch \o tasksQueue under a push to the queue.   *)
LEMMA ConcatAppend ==
    ASSUME NEW S, NEW p \in Seq(S), NEW q \in Seq(S), NEW e \in S
    PROVE  p \o Append(q, e) = Append(p \o q, e)
  OBVIOUS

(* ConcatHeadTail: the lane under a pop of the batch.                      *)
LEMMA ConcatHeadTail ==
    ASSUME NEW S, NEW p \in Seq(S), NEW q \in Seq(S), p # <<>>
    PROVE  /\ p \o q # <<>>
           /\ Head(p \o q) = Head(p)
           /\ Tail(p \o q) = Tail(p) \o q
  OBVIOUS

(* ConcatEmpty: the lane under the swap, which finds the batch empty.      *)
LEMMA ConcatEmpty ==
    ASSUME NEW S, NEW q \in Seq(S)
    PROVE  q \o <<>> = <<>> \o q
  OBVIOUS

(* OneLane: the runner's only lane, assigned.                              *)
LEMMA OneLane ==
    ASSUME NEW x, NEW y
    PROVE  /\ [main |-> x]["main"] = x
           /\ [[main |-> x] EXCEPT !["main"] = y] = [main |-> y]
  OBVIOUS

(* MainMappedStep: every step of the code is a step of TaskRunner or       *)
(* leaves its variables unchanged under the mapping of `TR'.               *)
LEMMA MainMappedStep ==
    ASSUME Napi!TypeOK, Napi!TypeOK', MainRunningUntilDestroyed, [Napi!Next]_Napi!vars
    PROVE  [Napi!TR!AbstractNext]_Napi!TR!aVars
  <1> USE MainAssumption DEF Napi!ConstantsAssumption
  <1> DEFINE lane == batch \o tasksQueue
             pending == [main |-> lane]
             completed == {c \in Posters : mainDone[c]}
             blocked == {c \in Posters : Napi!InSyncCall(c)}
             SameCalls == \A c \in Posters : Napi!InSyncCall(c)' <=> Napi!InSyncCall(c)
             SameQueues == UNCHANGED <<batch, tasksQueue>>
             Stutter == SameQueues /\ SameCalls /\ UNCHANGED <<mainRunning, mainTask, mainDone>>
  <1>1. Stutter => UNCHANGED Napi!TR!aVars
    BY DEF Napi!TR!aVars
  <1>2. SameCalls => blocked' = blocked
    OBVIOUS
  <1>3. ASSUME NEW t \in Napi!Tasks, tasksQueue' = Append(tasksQueue, t), batch' = batch
        PROVE  pending' = [pending EXCEPT !["main"] = Append(@, t)]
    <2>1. lane' = Append(lane, t)
      BY <1>3, ConcatAppend DEF Napi!TypeOK
    <2> HIDE DEF lane
    <2> QED
      BY <2>1, OneLane
  <1>4. ASSUME NEW c \in Posters, NEW a \in MainTasks, Napi!PushAsync(c, a) PROVE Napi!TR!Post
    <2>1. SameCalls
      BY <1>4 DEF Napi!PushAsync, Napi!InSyncCall, Napi!TypeOK
    <2>2. pending' = [pending EXCEPT !["main"] = Append(@, a)]
      BY <1>3, <1>4 DEF Napi!PushAsync, Napi!Tasks
    <2> QED
      BY <1>2, <1>4, <2>1, <2>2 DEF Napi!TR!Post, Napi!PushAsync
  <1>5. ASSUME NEW a \in MainTasks, Napi!PostFromMain(a) PROVE Napi!TR!Post
    <2>1. SameCalls
      BY <1>5 DEF Napi!PostFromMain, Napi!InSyncCall
    <2>2. pending' = [pending EXCEPT !["main"] = Append(@, a)]
      BY <1>3, <1>5 DEF Napi!PostFromMain, Napi!Tasks
    <2> QED
      BY <1>2, <1>5, <2>1, <2>2 DEF Napi!TR!Post, Napi!PostFromMain
  <1>6. ASSUME NEW c \in Posters, Napi!PushSync(c) PROVE Napi!TR!Call
    <2>1. pending' = [pending EXCEPT !["main"] = Append(@, c)]
      BY <1>3, <1>6 DEF Napi!PushSync, Napi!Tasks
    <2>2. c \notin blocked /\ blocked' = blocked \cup {c}
      BY <1>6 DEF Napi!PushSync, Napi!InSyncCall, Napi!TypeOK
    <2>3. completed' = completed \ {c}
      BY <1>6 DEF Napi!PushSync, Napi!TypeOK
    <2> QED
      BY <1>6, <2>1, <2>2, <2>3 DEF Napi!TR!Call, Napi!PushSync
  <1>7. ASSUME NEW c \in Posters, Napi!TestSync(c) PROVE Napi!TR!Return \/ Stutter
    <2>1. CASE Napi!CallerMayReturn(c)
      <3>1. c \in blocked /\ blocked' = blocked \ {c}
        BY <1>7, <2>1 DEF Napi!TestSync, Napi!InSyncCall, Napi!TypeOK
      <3> QED
        BY <1>7, <2>1, <3>1 DEF Napi!TR!Return, Napi!TestSync, Napi!CallerMayReturn
    <2>2. CASE ~Napi!CallerMayReturn(c)
      BY <1>7, <2>2 DEF Napi!TestSync, Napi!InSyncCall, Napi!TypeOK
    <2> QED
      BY <2>1, <2>2
  <1>8. ASSUME NEW c \in Posters, Napi!Send(c) \/ Napi!BlockSync(c) PROVE Stutter
    BY <1>8 DEF Napi!Send, Napi!BlockSync, Napi!InSyncCall, Napi!TypeOK
  <1>9. ASSUME Napi!EnterCallback \/ Napi!LeaveCallback PROVE Stutter
    BY <1>9 DEF Napi!EnterCallback, Napi!LeaveCallback, Napi!InSyncCall
  <1>10. CASE Napi!SwapQueue
    <2>1. batch = <<>> /\ batch' = tasksQueue /\ tasksQueue' = <<>>
      BY <1>10 DEF Napi!SwapQueue, Napi!TypeOK
    <2>2. lane' = lane
      BY <2>1, ConcatEmpty DEF Napi!TypeOK
    <2>3. SameCalls /\ UNCHANGED <<mainRunning, mainTask, mainDone>>
      BY <1>10 DEF Napi!SwapQueue, Napi!InSyncCall
    <2> QED
      BY <1>2, <2>2, <2>3 DEF Napi!TR!aVars
  <1>11. CASE Napi!TakeTask
    <2>0. /\ batch # <<>> /\ mainTask' = Head(batch) /\ batch' = Tail(batch)
          /\ tasksQueue' = tasksQueue /\ mainTask = Nothing
          /\ batch \in Seq(Napi!Tasks) /\ tasksQueue \in Seq(Napi!Tasks)
      BY <1>11 DEF Napi!TakeTask, Napi!TypeOK
    <2>1. mainTask = Nothing /\ lane # <<>> /\ mainTask' = Head(lane) /\ lane' = Tail(lane)
      BY <2>0, ConcatHeadTail
    <2>2. SameCalls
      BY <1>11 DEF Napi!TakeTask, Napi!InSyncCall
    <2>3. UNCHANGED <<mainRunning, mainDone>>
      BY <1>11 DEF Napi!TakeTask
    <2>4. Napi!TR!Take
      <3> SUFFICES /\ pending["main"] # <<>>
                   /\ mainTask' = Head(pending["main"])
                   /\ pending' = [pending EXCEPT !["main"] = Tail(@)]
        BY <1>2, <2>1, <2>2, <2>3 DEF Napi!TR!Take
      <3> HIDE DEF lane
      <3> QED
        BY <2>1, OneLane
    <2> QED
      BY <2>4 DEF Napi!TR!AbstractNext
  <1>12. CASE Napi!FinishTask
    <2>1. completed' \in {completed, completed \cup ({mainTask} \cap Posters)}
      BY <1>12 DEF Napi!FinishTask, Napi!TypeOK
    <2>2. mainTask # Nothing /\ mainTask' = Nothing /\ SameQueues /\ SameCalls /\ mainRunning' = mainRunning
      BY <1>12 DEF Napi!FinishTask, Napi!InSyncCall, Napi!TypeOK
    <2> QED
      BY <1>2, <2>1, <2>2 DEF Napi!TR!AbstractNext, Napi!TR!Finish
  <1>13. ASSUME Napi!NotifyDone \/ Napi!NotifyStopped \/ Napi!Close PROVE Stutter
    BY <1>13 DEF Napi!NotifyDone, Napi!NotifyStopped, Napi!Close, Napi!NotifiedCallers,
                 Napi!InSyncCall, Napi!TypeOK
  <1>14. CASE Napi!StopRunning
    <2>1. SameCalls
      BY <1>14 DEF Napi!StopRunning, Napi!InSyncCall
    <2>2. mainRunning
      BY <1>14 DEF Napi!StopRunning, MainRunningUntilDestroyed
    <2> QED
      BY <1>2, <1>14, <2>1, <2>2 DEF Napi!TR!AbstractNext, Napi!TR!Stop, Napi!StopRunning
  <1>15. ASSUME Napi!SpuriousWakeup PROVE Stutter
    BY <1>15 DEF Napi!SpuriousWakeup, Napi!InSyncCall, Napi!TypeOK
  <1>16. ASSUME UNCHANGED Napi!vars PROVE Stutter
    BY <1>16 DEF Napi!vars, Napi!InSyncCall
  <1> HIDE DEF lane, pending, completed, blocked
  <1> QED
    BY <1>1, <1>4, <1>5, <1>6, <1>7, <1>8, <1>9, <1>10, <1>11, <1>12, <1>13, <1>14,
       <1>15, <1>16 DEF Napi!TR!AbstractNext, Napi!Next, Napi!CallerStep, Napi!MainStep,
                        Napi!DestructorStep

(* MainRefinement: every behaviour of the loop, its callers and the        *)
(* destructor is a behaviour of TaskRunner: swapping the queue out keeps   *)
(* the order of the tasks, and runSyncTask returns only after its task has *)
(* run or the runner was stopped (NapiTaskRunner.cpp:25-46, 61-84).        *)
THEOREM MainRefinement == Napi!Spec => MainImplementsTaskRunner
  <1>1. Napi!Init => Napi!TR!AbstractInit
    <2> SUFFICES ASSUME Napi!Init PROVE Napi!TR!AbstractInit
      OBVIOUS
    <2>1. batch \o tasksQueue = <<>>
      BY DEF Napi!Init
    <2> QED
      BY <2>1 DEF Napi!Init, Napi!TR!AbstractInit, Napi!InSyncCall
  <1>2. MainIInv => MainRunningUntilDestroyed
    BY DEF MainIInv
  <1> QED
    BY <1>1, <1>2, MainMappedStep, MainTypeCorrect, MainIInvAlways, PTL
    DEF Napi!Spec, MainImplementsTaskRunner, Napi!ImplementsTaskRunner, Napi!TR!AbstractSpec
=============================================================================
