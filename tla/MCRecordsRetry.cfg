SPECIFICATION FairSpec
CONSTANTS
    s1 = s1
    s2 = s2
    None = None
    Shards = {s1, s2}
    NumEvents <- TwoShards
    Threshold = 3
    Permits = 2
    MaxRetries = 1
    MaxFaults = 1
INVARIANTS
    TypeOK
    EachEventOnce
    SlicesStored
    ShardsFull
    RecordGoesLast
    RecordsBounded
    EventsFreed
PROPERTIES
    EmitterEnds
CHECK_DEADLOCK FALSE
