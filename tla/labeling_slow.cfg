SPECIFICATION FairSpec
CONSTANTS
    s1 = s1
    s2 = s2
    h1 = h1
    h2 = h2
    h3 = h3
    None = None
    Sources = {s1}
    Hashes = {h1, h2}
    Near <- MCNear2
    Workers = {w1, w2}
    Ids = {1, 2}
    SlowWorkers = TRUE
    BatchSize = 1
    Retries = 1
    FastRestart = FALSE
    MaxRuns = 2
    MaxEdits = 1
    MaxWorkerCrashes = 0
INVARIANTS
    BarrierInv
PROPERTIES
    RunEnds
CHECK_DEADLOCK FALSE
