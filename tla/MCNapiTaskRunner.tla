-------------------------- MODULE MCNapiTaskRunner --------------------------
(* Small instances of NapiTaskRunner for TLC.  What the runner has in      *)
(* common with ThreadTaskRunner bears a name of its own here, so that the  *)
(* proofs about both can be in one module.                                 *)
CONSTANTS Posters, MainTasks, Nothing, Failing, MainEnds, MainWakes
VARIABLES tasksQueue, signalled, closed, batch, main,
          mainRunning, mainTask, mainDone, mainCaller, mainPosted, mainDestructor

Napi == INSTANCE NapiTaskRunner WITH
    Callers <- Posters, AsyncTasks <- MainTasks, None <- Nothing,
    Throwing <- Failing, MayDestroy <- MainEnds, SpuriousWakeups <- MainWakes,
    running <- mainRunning, task <- mainTask, done <- mainDone, caller <- mainCaller,
    posted <- mainPosted, destructor <- mainDestructor

ASSUME MainAssumption == Napi!ConstantsAssumption

QueueSignalled == Napi!QueueSignalled
MainNoDanglingDone == Napi!NoDanglingDone
MainImplementsTaskRunner == Napi!ImplementsTaskRunner
MainTasksRun == Napi!TasksRun
FairMain == Napi!FairSpec
=============================================================================
