SPECIFICATION FairSpec
CONSTANTS
    x = x
    s = s
    u = u
    P = P
    Q = Q
    Tasks <- StreamTasks
    ProofOf <- StreamProofOf
    KindOf <- StreamKindOf
    Proofs = {P}
    QueueCapacity = 1
    MaxRetries = 1
    MayDrop = FALSE
PROPERTIES
    StreamEnds
