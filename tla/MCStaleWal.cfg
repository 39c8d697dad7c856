SPECIFICATION Spec
CONSTANTS
    a = a
    b = b
    Run          = {1, 2, 3}
    Machine      = {a, b}
    On           <- TwoOnA
    PushRetries  = 1
    Overlap      = FALSE
    KilledAt     <- Anywhere
    NetworkFails = FALSE
    None         = None
PROPERTIES
    NothingDropped
CHECK_DEADLOCK FALSE
