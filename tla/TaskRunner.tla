----------------------------- MODULE TaskRunner -----------------------------
(***************************************************************************)
(* What an AbstractTaskRunner (thread/AbstractTaskRunner.h) promises its   *)
(* users, without threads, locks or condition variables: tasks wait in     *)
(* lanes, each lane is served in order, one task runs at a time, and the   *)
(* thread blocked in runSyncTask is let go only when its task has run to   *)
(* its end or the runner has stopped.  NapiTaskRunner has one lane,        *)
(* ThreadTaskRunner one for synchronous and one for asynchronous tasks.    *)
(***************************************************************************)
EXTENDS Naturals, Sequences

CONSTANTS
    Callers,      \* threads that call runSyncTask; each names its task
    AsyncTasks,   \* tasks given to runAsyncTask
    None,         \* no task is running
    Lanes         \* the queues of the runner

VARIABLES
    stopped,      \* the destructor has begun
    pending,      \* pending[l]: tasks of lane l not yet taken, oldest first
    current,      \* the task being run
    completed,    \* callers whose task ran to its end since their call
    blocked       \* callers that are inside runSyncTask

aVars == <<stopped, pending, current, completed, blocked>>

AbstractInit ==
    /\ stopped = FALSE
    /\ pending = [l \in Lanes |-> <<>>]
    /\ current = None
    /\ completed = {}
    /\ blocked = {}

Post ==
    \E l \in Lanes, a \in AsyncTasks :
        /\ pending' = [pending EXCEPT ![l] = Append(@, a)]
        /\ UNCHANGED <<stopped, current, completed, blocked>>

Call ==
    \E l \in Lanes, c \in Callers \ blocked :
        /\ pending' = [pending EXCEPT ![l] = Append(@, c)]
        /\ blocked' = blocked \cup {c}
        /\ completed' = completed \ {c}
        /\ UNCHANGED <<stopped, current>>

Take ==
    \E l \in Lanes :
        /\ current = None
        /\ pending[l] # <<>>
        /\ current' = Head(pending[l])
        /\ pending' = [pending EXCEPT ![l] = Tail(@)]
        /\ UNCHANGED <<stopped, completed, blocked>>

(* A task that throws ends without completing.                             *)
Finish ==
    /\ current # None
    /\ current' = None
    /\ completed' \in {completed, completed \cup ({current} \cap Callers)}
    /\ UNCHANGED <<stopped, pending, blocked>>

Return ==
    \E c \in blocked :
        /\ stopped \/ c \in completed
        /\ blocked' = blocked \ {c}
        /\ UNCHANGED <<stopped, pending, current, completed>>

Stop ==
    /\ ~stopped
    /\ stopped' = TRUE
    /\ UNCHANGED <<pending, current, completed, blocked>>

AbstractNext == Post \/ Call \/ Take \/ Finish \/ Return \/ Stop

AbstractSpec == AbstractInit /\ [][AbstractNext]_aVars
=============================================================================
