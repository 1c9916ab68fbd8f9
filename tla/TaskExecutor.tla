---------------------------- MODULE TaskExecutor ----------------------------
(***************************************************************************)
(* thread/TaskExecutor.{h,cpp}: synchronous calls between the runner       *)
(* threads, and the table m_waitsOnThread with which runSyncTask refuses a *)
(* call that would deadlock.  Each runner (a NapiTaskRunner or a           *)
(* ThreadTaskRunner) serves a thread; the table is read and written        *)
(* without a lock, by any thread, at any time.                             *)
(*                                                                         *)
(* A thread is a stack: tasks that run code, and the runSyncTask calls     *)
(* that code makes.  A call to the thread's own runner runs in place; in   *)
(* any other the caller is in cv.wait of that runner, whose end of a task  *)
(* (the store of `done') and notify_all are two steps without the mutex.   *)
(* The runners are not destroyed here.                                     *)
(***************************************************************************)
EXTENDS Naturals, Sequences, FiniteSets, SequencesExt

CONSTANTS
    Runners,    \* threads of a runner: MAIN, JS, BACKGROUND
    LoopRunners,\* those of a NapiTaskRunner: MAIN
    Others,     \* threads without a runner, such as the vsync threads
    None,       \* std::nullopt; nobody waits for the task
    CallGraphs, \* who calls whom: functions from threads to sets of runners
    MayThrow,   \* whether a task may end by a std::exception
    MaxCalls,   \* bound on the calls made
    MaxDepth    \* bound on the height of a stack

ConstantsAssumption ==
    /\ Runners \cap Others = {}
    /\ LoopRunners \subseteq Runners
    /\ None \notin Runners \cup Others
    /\ CallGraphs \subseteq [Runners \cup Others -> SUBSET Runners]
    /\ MayThrow \in BOOLEAN
    /\ MaxCalls \in Nat
    /\ MaxDepth \in Nat

VARIABLES
    m_waitsOnThread,   \* [Runners -> Runners \cup {None}]
    stack,             \* stack[t]: what thread t is doing, newest last
    queue,             \* queue[r]: callers whose tasks wait for runner r,
    swapped,           \* and how many of them a NapiTaskRunner swapped out
    wait,              \* wait[t]: where thread t is in cv.wait
    notifying,         \* runners that ended a task and not yet notified
    calls,             \* calls made so far
    mayCall            \* the call graph of this behaviour

vars == <<m_waitsOnThread, stack, queue, swapped, wait, notifying, calls, mayCall>>

-----------------------------------------------------------------------------
Threads == Runners \cup Others

Task(c) == [op |-> "task", for |-> c]

(* "begun": the table was read; "recorded": it was written; "waiting": in  *)
(* the runner's runSyncTask; "done", "thrown": the task has ended, the     *)
(* caller may not know.                                                    *)
CallStates == {"begun", "recorded", "waiting", "done", "thrown"}
Call(r, s) == [op |-> "call", to |-> r, at |-> s]

Frames == {Task(c) : c \in Threads \cup {None}}
              \cup {Call(r, s) : r \in Runners, s \in CallStates}

(* "tested": holds the mutex, found the task not ended and will block.     *)
WaitStates == {"no", "tested", "blocked", "woken"}

TypeOK ==
    /\ m_waitsOnThread \in [Runners -> Runners \cup {None}]
    /\ stack \in [Threads -> Seq(Frames)]
    /\ \A t \in Threads : Len(stack[t]) <= MaxDepth + 1
    /\ queue \in [Runners -> Seq(Threads)]
    /\ \A r \in Runners : IsInjective(queue[r])
    /\ swapped \in [LoopRunners -> Nat]
    /\ wait \in [Threads -> WaitStates]
    /\ notifying \subseteq Runners
    /\ calls \in 0 .. MaxCalls
    /\ mayCall \in CallGraphs

Init ==
    /\ m_waitsOnThread = [r \in Runners |-> None]
    /\ stack = [t \in Threads |-> <<>>]
    /\ queue = [r \in Runners |-> <<>>]
    /\ swapped = [r \in LoopRunners |-> 0]
    /\ wait = [t \in Threads |-> "no"]
    /\ notifying = {}
    /\ calls = 0
    /\ mayCall \in CallGraphs

Top(t) == Last(stack[t])
RunsCode(t) == stack[t] # <<>> /\ Top(t).op = "task"
IsAt(t, s) == stack[t] # <<>> /\ Top(t).op = "call" /\ Top(t).at = s
BlockedOn(t, r) == IsAt(t, "waiting") /\ Top(t).to = r

Push(t, f) == [stack EXCEPT ![t] = Append(@, f)]
Pop(t) == [stack EXCEPT ![t] = Front(@)]
Replace(t, f) == [stack EXCEPT ![t] = Append(Front(@), f)]

HasEnded(t) == IsAt(t, "done") \/ IsAt(t, "thrown")

(* The mutex and the condition variable of runner r.                       *)
MutexFree(r) == \A t \in Threads : wait[t] = "tested" => Top(t).to # r
Notified(r) ==
    [t \in Threads |-> IF wait[t] = "blocked" /\ Top(t).to = r THEN "woken" ELSE wait[t]]

-----------------------------------------------------------------------------
(* A thread runs code nobody waits for: an asynchronous task on a runner,  *)
(* ArkUI's on MAIN, a vsync callback on another thread.  runLoop takes     *)
(* synchronous tasks first, and any task under the mutex.                  *)
StartCode(t) ==
    /\ stack[t] = <<>> /\ t \notin notifying
    /\ t \in Runners \ LoopRunners => queue[t] = <<>> /\ MutexFree(t)
    /\ stack' = Push(t, Task(None))
    /\ UNCHANGED <<m_waitsOnThread, queue, swapped, wait, notifying, calls, mayCall>>

(* The callback of a NapiTaskRunner swaps the queue under the mutex and    *)
(* runs what it got without it.                                            *)
SwapQueue(r) ==
    /\ r \in LoopRunners
    /\ stack[r] = <<>> /\ r \notin notifying
    /\ queue[r] # <<>> /\ swapped[r] = 0 /\ MutexFree(r)
    /\ swapped' = [swapped EXCEPT ![r] = Len(queue[r])]
    /\ UNCHANGED <<m_waitsOnThread, stack, queue, wait, notifying, calls, mayCall>>

(* The runner takes the next synchronous task.                             *)
TakeTask(r) ==
    /\ stack[r] = <<>> /\ r \notin notifying
    /\ queue[r] # <<>>
    /\ IF r \in LoopRunners
       THEN swapped[r] > 0 /\ swapped' = [swapped EXCEPT ![r] = @ - 1]
       ELSE MutexFree(r) /\ UNCHANGED swapped
    /\ stack' = Push(r, Task(Head(queue[r])))
    /\ queue' = [queue EXCEPT ![r] = Tail(@)]
    /\ UNCHANGED <<m_waitsOnThread, wait, notifying, calls, mayCall>>

-----------------------------------------------------------------------------
(* runSyncTask(r) on thread t.  It reads the entry of r first.             *)
RefusesCall(t, r) == m_waitsOnThread[r] = t

BeginCall(t, r) ==
    /\ RunsCode(t)
    /\ r \in mayCall[t]
    /\ calls < MaxCalls
    /\ Len(stack[t]) < MaxDepth
    /\ ~RefusesCall(t, r)
    /\ calls' = calls + 1
    /\ stack' = Push(t, Call(r, "begun"))
    /\ UNCHANGED <<m_waitsOnThread, queue, swapped, wait, notifying, mayCall>>

(* throw std::runtime_error("Deadlock detected"), handled in the caller's  *)
(* code or ending its task (EndTask).                                      *)
DetectDeadlock(t, r) ==
    /\ RunsCode(t)
    /\ r \in mayCall[t]
    /\ calls < MaxCalls
    /\ RefusesCall(t, r)
    /\ calls' = calls + 1
    /\ UNCHANGED <<m_waitsOnThread, stack, queue, swapped, wait, notifying, mayCall>>

NotRecorded(t, r) == m_waitsOnThread  \* variant: the wait is not recorded

RecordedWait(t, r) ==
    IF t \in Runners THEN [m_waitsOnThread EXCEPT ![t] = r] ELSE m_waitsOnThread

RunsInPlace(t, r) == r = t

RecordWait(t) ==
    /\ IsAt(t, "begun")
    /\ m_waitsOnThread' = RecordedWait(t, Top(t).to)
    /\ stack' = Replace(t, Call(Top(t).to, "recorded"))
    /\ UNCHANGED <<queue, swapped, wait, notifying, calls, mayCall>>

(* The caller gives the task to the runner, which runs it in place on its  *)
(* own thread.  On another one it pushes the task, signals the loop or     *)
(* notifies all, and tests for the first time, all under the mutex that    *)
(* the runner needs to take the task.                                      *)
GiveTask(t) ==
    /\ IsAt(t, "recorded")
    /\ LET r == Top(t).to IN
       IF RunsInPlace(t, r)
       THEN /\ stack' = [stack EXCEPT ![t] = Front(@) \o <<Call(r, "waiting"), Task(t)>>]
            /\ UNCHANGED <<queue, wait>>
       ELSE /\ MutexFree(r)
            /\ stack' = Replace(t, Call(r, "waiting"))
            /\ queue' = [queue EXCEPT ![r] = Append(@, t)]
            /\ wait' = [(IF r \in LoopRunners THEN wait ELSE Notified(r))
                            EXCEPT ![t] = "tested"]
    /\ UNCHANGED <<m_waitsOnThread, swapped, notifying, calls, mayCall>>

Block(t) ==
    /\ wait[t] = "tested"
    /\ wait' = [wait EXCEPT ![t] = "blocked"]
    /\ UNCHANGED <<m_waitsOnThread, stack, queue, swapped, notifying, calls, mayCall>>

(* A wakeup by nothing above: notify_one of runAsyncTask, or a spurious    *)
(* one.                                                                    *)
Wake(t) ==
    /\ wait[t] = "blocked"
    /\ wait' = [wait EXCEPT ![t] = "woken"]
    /\ UNCHANGED <<m_waitsOnThread, stack, queue, swapped, notifying, calls, mayCall>>

(* A woken caller takes the mutex back and tests again.                    *)
Test(t) ==
    /\ wait[t] = "woken" /\ MutexFree(Top(t).to)
    /\ wait' = [wait EXCEPT ![t] = IF HasEnded(t) THEN "no" ELSE "tested"]
    /\ UNCHANGED <<m_waitsOnThread, stack, queue, swapped, notifying, calls, mayCall>>

(* A task ends.  Whoever waits for it in runSyncTask finds out when it     *)
(* tests: `done' is stored without the mutex, and notified in a step more. *)
EndTask(t) ==
    /\ RunsCode(t)
    /\ LET c == Top(t).for IN
       \E s \in {"done"} \cup (IF MayThrow THEN {"thrown"} ELSE {}) :
          stack' = CASE c = None -> Pop(t)
                     [] c = t    -> [stack EXCEPT ![t] =
                                        Append(Front(Front(@)), Call(t, s))]
                     [] OTHER    -> [Pop(t) EXCEPT ![c] =
                                        Append(Front(@), Call(Top(c).to, s))]
    /\ notifying' = IF Top(t).for \in {None, t} THEN notifying ELSE notifying \cup {t}
    /\ UNCHANGED <<m_waitsOnThread, queue, swapped, wait, calls, mayCall>>

NotifyOneDone(r) ==  \* variant: notify_one
    /\ r \in notifying
    /\ notifying' = notifying \ {r}
    /\ LET waiting == {t \in Threads : Notified(r)[t] # wait[t]} IN
       wait' \in {[wait EXCEPT ![t] = "woken"] : t \in waiting}
                   \cup (IF waiting = {} THEN {wait} ELSE {})
    /\ UNCHANGED <<m_waitsOnThread, stack, queue, swapped, calls, mayCall>>

NotifyDone(r) ==
    /\ r \in notifying
    /\ notifying' = notifying \ {r}
    /\ wait' = Notified(r)
    /\ UNCHANGED <<m_waitsOnThread, stack, queue, swapped, calls, mayCall>>

(* An exception of the task is thrown again before the entry is cleared.   *)
WaitAfterReturn(t) ==
    IF t \in Runners /\ IsAt(t, "done")
    THEN [m_waitsOnThread EXCEPT ![t] = None]
    ELSE m_waitsOnThread

(* The runner's runSyncTask has returned.                                  *)
Return(t) ==
    /\ HasEnded(t) /\ wait[t] = "no"
    /\ m_waitsOnThread' = WaitAfterReturn(t)
    /\ stack' = Pop(t)
    /\ UNCHANGED <<queue, swapped, wait, notifying, calls, mayCall>>

-----------------------------------------------------------------------------
Progress(t) ==
    \/ t \in Runners /\ (SwapQueue(t) \/ TakeTask(t) \/ NotifyDone(t))
    \/ RecordWait(t) \/ GiveTask(t) \/ Block(t) \/ Test(t) \/ EndTask(t) \/ Return(t)

Next ==
    \/ \E t \in Threads : StartCode(t) \/ Progress(t) \/ Wake(t)
    \/ \E t \in Threads, r \in Runners : BeginCall(t, r) \/ DetectDeadlock(t, r)

Spec == Init /\ [][Next]_vars

(* A thread that can go on goes on, tasks end, a mutex that keeps becoming *)
(* free is obtained, and the loop of MAIN comes to its callback.  Nobody   *)
(* is owed a Wake, and for a NapiTaskRunner, where it is spurious, there   *)
(* are not infinitely many.                                                *)
Fairness ==
    \A t \in Threads :
        /\ WF_vars(RecordWait(t) \/ Block(t) \/ EndTask(t) \/ Return(t) \/ NotifyDone(t))
        /\ SF_vars(GiveTask(t) \/ Test(t))
        /\ t \in Runners => SF_vars(SwapQueue(t) \/ TakeTask(t))
        /\ <>[][Wake(t) => Top(t).to \notin LoopRunners]_vars

FairSpec == Spec /\ Fairness

-----------------------------------------------------------------------------
(* Runner r runs, at some level, the task thread t waits for.              *)
Serves(r, t) == \E i \in DOMAIN stack[r] : stack[r][i] = Task(t)

(* CallBackDetected: code that a runner runs for a blocked caller cannot   *)
(* block on that caller: the table refuses it (TaskExecutor.cpp:43-46),    *)
(* whatever the table went through before.                                 *)
CallBackDetected ==
    \A t, r \in Runners : BlockedOn(t, r) /\ Serves(r, t) => ~BlockedOn(r, t)

(* `done' is stored and notified without the mutex (NapiTaskRunner.cpp:    *)
(* 71-72, ThreadTaskRunner.cpp:63, 104).  A caller that was woken for      *)
(* another one's task and has tested again may not have blocked when its   *)
(* own task ends (InGap), and then sleep on when that was notified         *)
(* (ReleaseLost), until something else wakes it.                           *)
InGap(t) == HasEnded(t) /\ wait[t] = "tested"
ReleaseLost(t) == HasEnded(t) /\ wait[t] = "blocked" /\ Top(t).to \notin notifying

(* CallReturns: when the calls between runners form no cycle, as in this   *)
(* repository, a call of runSyncTask returns, with any nesting, with       *)
(* exceptions and with the entries they leave behind (TaskExecutor.cpp:    *)
(* 42-65), or a release is lost, the caller's or a runner's; and if no     *)
(* task ever ends in the gap, every call returns.                          *)
Calls(t) == mayCall[t] \ {t}
NoCycle ==
    \E rank \in [Runners -> 1 .. Cardinality(Runners)] :
        \A t \in Runners : \A r \in Calls(t) : rank[r] > rank[t]

Returns(t) == IsAt(t, "begun") ~> RunsCode(t)
ReturnsOrLost(t) ==
    IsAt(t, "begun") ~> RunsCode(t) \/ \E u \in Runners \cup {t} : ReleaseLost(u)

CallReturns ==
    NoCycle =>
        /\ \A t \in Threads : ReturnsOrLost(t)
        /\ <>(\E t \in Threads : InGap(t)) \/ \A t \in Threads : Returns(t)
=============================================================================
