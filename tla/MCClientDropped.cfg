SPECIFICATION FairSpec
CONSTANTS
    x = x
    s = s
    u = u
    P = P
    Q = Q
    Tasks <- ShardTasks
    ProofOf <- ShardProofOf
    KindOf <- ShardKindOf
    Proofs = {P}
    QueueCapacity = 1
    MaxRetries = 1
    MayDrop = TRUE
PROPERTIES
    WaitersAnswered
