CONSTANTS
    MaxGet = 4
    Env <- EnvHostile
SPECIFICATION FairSpec
INVARIANTS
    TypeOK
    AnsweredAtMostOnce
    HandlersFindTheirObject
    TimerGuardsRequest
    ShutdownIsSilent
PROPERTIES
    KeepsPromise
    SentRequestAnswered
CHECK_DEADLOCK FALSE
