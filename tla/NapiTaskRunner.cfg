\* Two callers, one of them with a task that throws, destruction at any
\* moment, spurious wakeups.
SPECIFICATION FairMain
CONSTANTS
    Posters = {c1, c2}
    MainTasks = {a1, a2}
    Nothing = Nothing
    Failing = {c2}
    MainEnds = TRUE
    MainWakes = TRUE
INVARIANTS
    QueueSignalled
    MainNoDanglingDone
PROPERTIES
    MainImplementsTaskRunner
    MainTasksRun
\* The system stops once the runner is closed.
CHECK_DEADLOCK FALSE
