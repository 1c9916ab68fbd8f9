\* Two runners and a vsync thread: all calling each other, or one way as in
\* the repository; tasks that throw.
SPECIFICATION FairCalls
CONSTANTS
    MAIN = MAIN
    JS = JS
    Runners = {MAIN, JS}
    Others = {Vsync}
    Nobody = Nobody
    CallGraphs <- Graphs
    MayThrow = TRUE
    MaxCalls = 4
    MaxDepth = 4
INVARIANTS
    CallBackDetected
PROPERTIES
    CallReturns
\* Threads that block on each other stay blocked.
CHECK_DEADLOCK FALSE
