CONSTANTS
    MaxTasks = 2
    MaxOutput = 3
    BufferSize = 1
    MaxGet = 4
    MaxConnect = 1
    MaxQuery = 6
SPECIFICATION ScriptsSpec
INVARIANTS
    OutputIsComplete
    FaultNeedsACause
    TransactionIsServers
    ConnectIsToldOnce
PROPERTIES
    ResponseMatchesRequest
    NoRequestOverwritten
    EveryCallEnds
CHECK_DEADLOCK FALSE
