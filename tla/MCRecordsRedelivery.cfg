SPECIFICATION FairSpec
CONSTANTS
    s1 = s1
    s2 = s2
    None = None
    Shards = {s1}
    NumEvents <- OneShard
    Threshold = 2
    Permits = 1
    MaxRetries = 1
    MaxFaults = 1
PROPERTIES
    RedeliveryRecovered
CHECK_DEADLOCK FALSE
