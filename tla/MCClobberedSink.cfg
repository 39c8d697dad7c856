SPECIFICATION Spec
CONSTANTS
    Steps <- PartSteps
    Params <- PartParams
    Frame <- PartFrame
    Result <- PartResult
    Serializer <- PartSerializer
    Sinks <- PartSinks
    Workers = {w1, w2}
    Sensors = {}
    Large = {}
    Stores = {TRUE, FALSE}
    RemoteSinks = {}
    LruEntries = 2
    CollectThreads = 2
    MaxTemps = 5
    MaxFaults = 0
    Executions <- PartExecutions
INVARIANTS ReportedIsStored
CHECK_DEADLOCK FALSE
