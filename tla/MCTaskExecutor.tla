--------------------------- MODULE MCTaskExecutor ---------------------------
(* Small instances of TaskExecutor for TLC: who calls whom.                *)
CONSTANTS Runners, Others, Nobody, CallGraphs, MayThrow, MaxCalls, MaxDepth,
          MAIN, JS
VARIABLES m_waitsOnThread, stack, queue, swapped, wait, notifying, calls, mayCall

Exec == INSTANCE TaskExecutor WITH None <- Nobody, LoopRunners <- Runners \cap {MAIN}

ASSUME CallsAssumption == Exec!ConstantsAssumption

(* Every thread may call every runner.                                     *)
CallsAll == [t \in Runners \cup Others |-> Runners]

(* The calls of this repository: the vsync threads call MAIN               *)
(* (dirty_vsync_task.cpp:46, event_task.cpp:33), and the bridge's message  *)
(* queue calls JS (message_queue_thread.cpp:18) from any thread.           *)
CallsOfRepository ==
    [t \in Runners \cup Others |->
        CASE t = JS   -> {JS}
          [] t = MAIN -> {JS}
          [] OTHER    -> {MAIN, JS}]

Graphs == {CallsAll, CallsOfRepository}

CallBackDetected == Exec!CallBackDetected
CallReturns == Exec!CallReturns
FairCalls == Exec!FairSpec
=============================================================================
