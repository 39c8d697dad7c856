SPECIFICATION Spec
CONSTANTS
    Steps <- PairSteps
    Params <- PairParams
    Frame <- PairFrame
    Result <- PairResult
    Serializer <- PairSerializer
    Sinks <- PairSinks
    Workers = {w1, w2}
    Sensors = {}
    Large = {}
    Stores = {TRUE, FALSE}
    RemoteSinks = {}
    LruEntries = 2
    CollectThreads = 2
    MaxTemps = 5
    MaxFaults = 0
    Executions <- PairExecutions
INVARIANTS HandedAsStored
CHECK_DEADLOCK FALSE
