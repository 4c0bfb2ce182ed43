SPECIFICATION FairSpec
CONSTANTS
    c1 = c1
    r1 = r1
    alice = alice
    CheckId = {c1}
    Run = {r1}
    Principal = {alice}
    NoOwner = NoOwner
    None = None
    Unknown = Unknown
    Intent <- ReadAndWrite
    Snapshot <- PlainAndReserved
    Policies <- TwoEven
    Events <- AllEvents
    MaxNow = 3
    Served = TRUE
    FirstStep = "timers"
    MaxObs = 2
    MaxRevision = 3
    CheckTotal = 1
    CheckPerRun = 1
INVARIANTS TypeOK NothingDueWhenIdle EvaluatingIsLive
PROPERTIES DecidedOnce ClearOnLatest EventuallyDecided
