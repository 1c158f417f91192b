CONSTANTS
    MaxGet = 2
    Env <- EnvPolite
SPECIFICATION Spec
PROPERTY
    TimeoutIsReported
CHECK_DEADLOCK FALSE
