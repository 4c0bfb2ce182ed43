SPECIFICATION Spec
CONSTANTS
    r1 = r1
    alice = alice
    Run = {r1}
    Principal = {alice}
    NoOwner = NoOwner
    Missing = Missing
    NoRow = NoRow
    MaxNow = 4
    Served = TRUE
    FirstStep = "windows"
    Window = 1
    DueDelay = 1
    Batch = 4
    MaxStart = 3
    MinSamples = 1
    DriftHigh = 8
    DriftLow = 3
    HighWindows = 2
    LowWindows = 2
    Counts <- Drifting
    RateLimit = 1
    ReviewTtl = 2
    Unlinked = FALSE
INVARIANTS SuppliedIsReviewed
