CONSTANTS
    f1 = f1
    f2 = f2
    NoFile = NoFile
    Files = {f1, f2}
    MaxFd = 3
    MaxRequests = 3
    Offsets <- OffsetsDefault
    Sizes = {3}
    Chunk = 2
    Calls <- AllCalls
    Env <- EnvHostile
SPECIFICATION Spec
SYMMETRY FileSymmetry
INVARIANTS
    TypeOK
    DescriptorIsTheirs
    DescriptorIsShared
    WritesAreCounted
CHECK_DEADLOCK FALSE
