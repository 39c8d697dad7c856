SPECIFICATION Spec
CONSTANTS
    Pipelines <- Mixed
    Lists <- MCLongLists
    Pool = 2
    MaxRuns = 2
INVARIANT AsFromScratch
CHECK_DEADLOCK FALSE
