SPECIFICATION Spec
CONSTANTS
    MaxTicks = 6
    Interruptible = TRUE
INVARIANTS
    NeverBothRun
    TicksAreCycles
PROPERTIES
    TickReturnsAtLast
    CloseEndsTheWorker
    FailureReachesTheHost
    BrokenTickStillCloses
