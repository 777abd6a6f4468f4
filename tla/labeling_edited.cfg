SPECIFICATION Spec
CONSTANTS
    s1 = s1
    s2 = s2
    h1 = h1
    h2 = h2
    h3 = h3
    None = None
    Sources = {s1}
    Hashes = {h1, h2}
    Near <- MCNear2
    Workers = {w1}
    Ids = {1, 2}
    SlowWorkers = FALSE
    BatchSize = 1
    Retries = 1
    FastRestart = FALSE
    MaxRuns = 2
    MaxEdits = 1
    MaxWorkerCrashes = 0
INVARIANTS
    CompletedIsLabeled
CHECK_DEADLOCK FALSE
