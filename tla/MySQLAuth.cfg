CONSTANTS
    MaxConnect = 1
    MaxQuery = 1
    Env <- EnvRefusing
SPECIFICATION Spec
INVARIANT
    ToldTrueMeansAuthenticated
CHECK_DEADLOCK FALSE
