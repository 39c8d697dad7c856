SPECIFICATION Spec
CONSTANTS
    Pipelines <- HandedOn
    Lists <- MCLongLists
    Pool = 2
    MaxRuns = 2
INVARIANT OnlyWhatChanged
CHECK_DEADLOCK FALSE
