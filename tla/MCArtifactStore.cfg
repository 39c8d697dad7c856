SPECIFICATION Spec
CONSTANTS
    Steps <- SmallSteps
    Params <- SmallParams
    Frame <- SmallFrame
    Result <- SmallResult
    Serializer <- SmallSerializer
    Sinks <- SmallSinks
    Workers = {w1, w2}
    Sensors = {"raw"}
    Large = {"raw"}
    Stores = {TRUE, FALSE}
    RemoteSinks = {"out"}
    LruEntries = 2
    CollectThreads = 2
    MaxTemps = 5
    MaxFaults = 1
    Executions <- SmallExecutions
SYMMETRY Symmetric
INVARIANTS HandedAsStored ReportedIsStored
PROPERTY LeftByCrashesOnly
CHECK_DEADLOCK FALSE
