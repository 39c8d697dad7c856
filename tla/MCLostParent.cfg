SPECIFICATION FairPoolSpec
CONSTANTS
    NumItems      = 3
    DataDeps      <- NoDeps
    OrderDeps     <- NoDeps
    Retries       <- OneTry
    Backoff       <- NoBackoff
    MaxItems      = 5
    MaxWidth      = 2
    PoolSize      = 2
    Calls         <- Callers0And2
    MaxWorkers    = 5
    Estimates     <- LightAndHeavy
    MaxCrashes    = 0
    MaxErrors     = 0
    WaitingMayDie = FALSE
    LateTimeouts  = FALSE
    SpawnMayFail  = FALSE
    MayCancel     = FALSE
PROPERTIES
    EveryStepTerminal
CHECK_DEADLOCK FALSE
