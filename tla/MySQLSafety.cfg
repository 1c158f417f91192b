CONSTANTS
    MaxConnect = 2
    MaxQuery = 2
    Env <- EnvHostile
SPECIFICATION Spec
INVARIANTS
    TypeOK
    AnsweredAtMostOnce
    HandlersFindTheirClient
    ConnectedIsEstablished
    NoQueryIsForgotten
PROPERTY
    ResponseMatchesQuery
CHECK_DEADLOCK FALSE
