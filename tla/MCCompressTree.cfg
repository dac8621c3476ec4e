SPECIFICATION FairSpec
CONSTANTS
    a = a
    b = b
    c = c
    pa = pa
    pb = pb
    bb = bb
    None = None
    Tasks <- SmallTasks
    RangeOf <- SmallRange
    BatchSize = 4
    Failing = {}
    ReduceMayFail = FALSE
    FastShards = {b, pa}
INVARIANTS
    TypeOK
    PendingAccounted
    EntriesApart
    EachProofOnce
    NeverWedged
    EntriesAreRuns
    ShardsAccounted
    OutputComplete
PROPERTIES
    FullRangeIsFinal
    ImplementsAggregation
    Succeeds
CHECK_DEADLOCK FALSE
