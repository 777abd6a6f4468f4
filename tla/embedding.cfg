SPECIFICATION FairSpec
CONSTANTS
    N = 3
    MaxConcurrent = 2
    MaxRetries = 3
INVARIANTS
    EmbeddingInv
PROPERTIES
    KeepsPromise
    CallEnds
