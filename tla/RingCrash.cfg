SPECIFICATION FairSpec
CONSTANTS
    Capacity = 3
    NumChunks = 6
    MayDie = TRUE
INVARIANTS
    TypeOK
    HeldIntact
    PermitsAccounted
    FinishedIsComplete
    WakeFindsWork
    SpilledTraceComplete
PROPERTIES
    EndReported
