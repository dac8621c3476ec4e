SPECIFICATION FairSpec
CONSTANTS
    a = a
    b = b
    c = c
    pa = pa
    pb = pb
    bb = bb
    None = None
    Tasks <- OverlapTasks
    RangeOf <- OverlapRange
    BatchSize = 2
    Failing = {c}
    ReduceMayFail = TRUE
    FastShards = {}
PROPERTIES
    FailsFast
