SPECIFICATION FairSpec
CONSTANTS
    x = x
    s = s
    u = u
    P = P
    Q = Q
    Tasks <- TwinTasks
    ProofOf <- TwinProofOf
    KindOf <- TwinKindOf
    Proofs = {P}
    QueueCapacity = 1
    MaxRetries = 1
    MayDrop = FALSE
INVARIANTS
    BookkeepingReleased
    OneCopy
    AttemptsBounded
PROPERTIES
    StatusIsFinal
    WaitersAnswered
