SPECIFICATION FairPoolSpec
CONSTANTS
    NumItems      = 1
    DataDeps      <- NoDeps
    OrderDeps     <- NoDeps
    Retries       <- TwoTries
    Backoff       <- NoBackoff
    MaxItems      = 2
    MaxWidth      = 2
    PoolSize      = 1
    Calls         <- OneCall
    MaxWorkers    = 5
    Estimates     <- LightAndHeavy
    MaxCrashes    = 1
    MaxErrors     = 0
    WaitingMayDie = TRUE
    LateTimeouts  = FALSE
    SpawnMayFail  = FALSE
    MayCancel     = FALSE
PROPERTIES
    EveryStepTerminal
CHECK_DEADLOCK FALSE
