CONSTANTS
    f1 = f1
    f2 = f2
    NoFile = NoFile
    Files = {f1}
    MaxFd = 3
    MaxRequests = 3
    Offsets <- OffsetsNone
    Sizes = {0}
    Chunk = 2
    Calls <- WriteOnly
    Env <- EnvPolite
SPECIFICATION Spec
INVARIANT
    AppendsConcatenate
CHECK_DEADLOCK FALSE
