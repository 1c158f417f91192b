CONSTANTS
    MaxConnect = 2
    MaxQuery = 2
    Env <- EnvReconnecting
SPECIFICATION Spec
INVARIANT
    BusyMeansAsked
CHECK_DEADLOCK FALSE
