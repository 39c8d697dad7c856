SPECIFICATION FairSpec
CONSTANTS
    Items <- SmallItems
    Node <- SmallNode
    Key <- SmallKey
    NoKey = "none"
    Inputs <- SmallInputs
    OrderOnly <- SmallOrderOnly
    Timed = {"slow", "caller"}
    Calls <- SmallCalls
    Hangs = {"slow"}
    Direct = {"w"}
    BatchFile <- FileOrder
    Batches <- SmallBatches
    MaxBatches = 2
    Modes = {"daemon", "batch"}
    PromptStop = TRUE
INVARIANTS AnsweredInOrder BlockedExactly
PROPERTIES StepsAnswered EndsWithExecutor
CHECK_DEADLOCK FALSE
