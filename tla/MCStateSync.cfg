SPECIFICATION FairSpec
CONSTANTS
    a = a
    b = b
    Run          = {1, 2, 3}
    Machine      = {a, b}
    On           <- TwoOnA
    PushRetries  = 1
    Overlap      = FALSE
    KilledAt     <- WalEmpty
    NetworkFails = TRUE
    None         = None
INVARIANTS
    RecordedOnce
    ConflictsPaidFor
PROPERTIES
    ImplementsLedger
    EveryRunEnds
CHECK_DEADLOCK FALSE
