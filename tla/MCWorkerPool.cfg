SPECIFICATION PoolSpec
CONSTANTS
    NumItems      = 4
    DataDeps      <- Reads0
    OrderDeps     <- NoDeps
    Retries       <- TwoTries
    Backoff       <- BackoffOf0
    MaxItems      = 6
    MaxWidth      = 2
    PoolSize      = 2
    Calls         <- WideCall
    MaxWorkers    = 6
    Estimates     <- LightAndHeavy
    MaxCrashes    = 1
    MaxErrors     = 1
    WaitingMayDie = TRUE
    LateTimeouts  = TRUE
    SpawnMayFail  = TRUE
    MayCancel     = TRUE
INVARIANTS
    LeasesMatchExecuting
    NothingLost
    OneLiveExecution
    AnsweredWhenComplete
    EveryProcessTracked
PROPERTIES
    UnstartedUncharged
    ImplementsContract
