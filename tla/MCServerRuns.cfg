SPECIFICATION FairSpec
CONSTANTS
    j1 = j1
    Jobs = {j1}
    Due <- MCDue
    Slots = 1
    PromptTicks = TRUE
    None = None
    MaxRuns = 3
    MaxPosts = 1
    MaxStarts = 2
    Horizon = 2
INVARIANTS JobsNeverOverlap DueIsFired
PROPERTIES EndsAsCaused EveryRunEnds
CHECK_DEADLOCK FALSE
