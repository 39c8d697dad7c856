SPECIFICATION Spec
CONSTANTS
    a = a
    b = b
    Run          = {1, 2}
    Machine      = {a}
    On           <- AllOnA
    PushRetries  = 1
    Overlap      = TRUE
    KilledAt     <- Nowhere
    NetworkFails = FALSE
    None         = None
INVARIANTS
    PushedIsShared
CHECK_DEADLOCK FALSE
