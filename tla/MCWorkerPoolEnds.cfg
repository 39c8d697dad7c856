SPECIFICATION FairPoolSpec
CONSTANTS
    NumItems      = 3
    DataDeps      <- NoDeps
    OrderDeps     <- NoDeps
    Retries       <- TwoTries
    Backoff       <- BackoffOf0
    MaxItems      = 5
    MaxWidth      = 2
    PoolSize      = 2
    Calls         <- TwoCalls
    MaxWorkers    = 6
    Estimates     <- Light
    MaxCrashes    = 1
    MaxErrors     = 1
    WaitingMayDie = FALSE
    LateTimeouts  = FALSE
    SpawnMayFail  = FALSE
    MayCancel     = FALSE
PROPERTIES
    EveryStepTerminal
