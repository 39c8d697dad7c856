SPECIFICATION PoolSpec
CONSTANTS
    NumItems      = 3
    DataDeps      <- NoDeps
    OrderDeps     <- NoDeps
    Retries       <- OneTry
    Backoff       <- NoBackoff
    MaxItems      = 4
    MaxWidth      = 2
    PoolSize      = 2
    Calls         <- OneCall
    MaxWorkers    = 5
    Estimates     <- Light
    MaxCrashes    = 0
    MaxErrors     = 0
    WaitingMayDie = FALSE
    LateTimeouts  = FALSE
    SpawnMayFail  = FALSE
    MayCancel     = FALSE
INVARIANTS
    NeverDoubleRun
CHECK_DEADLOCK FALSE
