SPECIFICATION FairSpec
CONSTANTS
    Capacity = 2
    NumChunks = 2
    MayDie = FALSE
INVARIANTS
    TraceComplete
