SPECIFICATION Spec
CONSTANTS
    Pipelines <- Mixed
    Lists <- MCLongLists
    Pool = 1
    MaxRuns = 2
INVARIANT NoWaitCycle
CHECK_DEADLOCK FALSE
