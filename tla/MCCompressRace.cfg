SPECIFICATION FairSpec
CONSTANTS
    a = a
    b = b
    c = c
    pa = pa
    pb = pb
    bb = bb
    None = None
    Tasks <- RaceTasks
    RangeOf <- RaceRange
    BatchSize = 2
    Failing = {}
    ReduceMayFail = FALSE
    FastShards = {a, b}
PROPERTIES
    Terminates
CHECK_DEADLOCK FALSE
