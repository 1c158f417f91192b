CONSTANTS
    MaxConnect = 2
    Env <- EnvHostile
SPECIFICATION FairSpec
INVARIANTS
    TypeOK
    HandlersFindTheirObject
    ReferencesBalance
    SocketIsCurrent
PROPERTIES
    KeepsPromise
    EveryClientIsReleased
CHECK_DEADLOCK FALSE
