SPECIFICATION Spec
CONSTANTS
    x = x
    s = s
    u = u
    P = P
    Q = Q
    Tasks <- MixedTasks
    ProofOf <- MixedProofOf
    KindOf <- MixedKindOf
    Proofs = {P, Q}
    QueueCapacity = 1
    MaxRetries = 1
    MayDrop = TRUE
INVARIANTS
    TypeOK
    AnswerIsOutcome
