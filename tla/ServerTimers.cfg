SPECIFICATION Spec
CONSTANTS
    Fds <- MCFds
    Timers <- MCTimers
    NULL = NULL
    SetTimers <- MCSetTimers
    MaxClosed = 2
INVARIANTS
    TypeOK
    WatchesOpen
    HeapOrder
PROPERTIES
    KeepsPromise
CHECK_DEADLOCK FALSE
