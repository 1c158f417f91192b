CONSTANTS
    MaxGet = 2
    Env <- EnvHostile
SPECIFICATION Spec
INVARIANT
    HttpHasTransport
CHECK_DEADLOCK FALSE
