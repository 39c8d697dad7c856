SPECIFICATION Spec
CONSTANTS
    NumItems  <- MCNumItems
    DataDeps  <- MCDataDeps
    OrderDeps <- MCOrderDeps
    Retries   <- MCRetries
    Backoff   <- MCBackoff
    MaxItems  <- MCMaxItems
    MaxWidth  <- MCMaxWidth
INVARIANTS
    ItemsAccountedFor
    DispatchedAfterUpstreams
    FailurePropagates
    PendingIsUnsatisfied
    AttemptsWithinBudget
    WalksAgree
PROPERTIES
    ImplementsContract
