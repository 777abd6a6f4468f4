SPECIFICATION MCSpec
CONSTANTS
    bootstrap = bootstrap
    production = production
    d1 = d1
    d2 = d2
    h1 = h1
    h2 = h2
    h3 = h3
    None = None
    Documents = {d1, d2}
    Pipelines = {bootstrap, production}
    Sources <- MCSources
    Hashes = {h1, h2, h3}
    Near <- MCNear
    Bootstraps = {bootstrap}
    Repairs = {bootstrap}
    Wrapping = {bootstrap, production}
    Slots = 1
    EmptyRetries = 1
    BatchSize = 2
    Retries = 1
    Target = 2
    Overlap = FALSE
    MaxRuns = 3
INVARIANTS
    BatchInv
    NoNearDuplicateLabels
PROPERTIES
    RunLeavesNothingOut
    BatchImplementsLedger
    BatchRunEnds
CHECK_DEADLOCK FALSE
