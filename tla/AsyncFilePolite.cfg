CONSTANTS
    f1 = f1
    f2 = f2
    NoFile = NoFile
    Files = {f1}
    MaxFd = 3
    MaxRequests = 3
    Offsets <- OffsetsDefault
    Sizes = {0, 3}
    Chunk = 2
    Calls <- AllCalls
    Env <- EnvPolite
SPECIFICATION FairSpec
INVARIANTS
    DescriptorsAreReleased
    NothingFollowsTheEnd
    ChunksAreContiguous
PROPERTY
    EveryRequestEnds
CHECK_DEADLOCK FALSE
