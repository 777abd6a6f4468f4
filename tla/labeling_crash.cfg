SPECIFICATION Spec
CONSTANTS
    s1 = s1
    s2 = s2
    h1 = h1
    h2 = h2
    h3 = h3
    None = None
    Sources = {s1, s2}
    Hashes = {h1, h2, h3}
    Near <- MCNear
    Workers = {w1}
    Ids = {1, 2, 3}
    SlowWorkers = FALSE
    BatchSize = 2
    Retries = 1
    FastRestart = FALSE
    MaxRuns = 2
    MaxEdits = 0
    MaxWorkerCrashes = 1
INVARIANTS
    AccountingInv
    LabelingInv
    CompletedIsLabeled
    NoNearDuplicateAccepted
    BarrierInv
    RejectionEarned
    RunAccountsForEverySource
PROPERTIES
    AcceptedIsFinal
    ImplementsLedger
CHECK_DEADLOCK FALSE
