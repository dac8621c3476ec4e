SPECIFICATION FairSpec
CONSTANTS
    ChunkEnds <- MCChunkEnds
    TouchedBy <- MCTouchedBy
    MemoryPlans <- MCMemoryPlans
    PagePlans <- MCPagePlans
    ShardLength = 2
    ChannelSize = 2
    SendWorkers = 2
    MemoryBuffer = 1
    MemoryThreshold = 2
    Faults = {"kill", "error", "splice", "send", "input"}
INVARIANTS
    TypeOK
    ShardsAsOneChunk
    OkIsComplete
    KillIsRetried
    MemoryShardsPartition
PROPERTIES
    ExecuteReturns
CHECK_DEADLOCK FALSE
