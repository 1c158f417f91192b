CONSTANTS
    v1 = v1
    v2 = v2
    v3 = v3
    Values = {v1, v2, v3}
    Null = Null
    Size = 3
    s1 = s1
    s2 = s2
    s3 = s3
    Slices = {s1, s2, s3}
    MaxCount = 4
    a = a
    b = b
    Bytes = {a, b}
    MaxLength = 3
    MaxSize = 4
    GarbageMin = 1
    Ratio = 2
    Strings <- SomeStrings
    Offsets <- SomeOffsets
    Lengths <- SomeLengths
    MaxMapped = 3
    MaxArg = 3
SPECIFICATION StructuresSpec
INVARIANTS
    TypeOK
    SlotsAreWritten
    PoolLastsAsLongAsNeeded
    CopiesStayInside
PROPERTIES
    IsBoundedQueue
    IsByteBuffer
CHECK_DEADLOCK FALSE
