SPECIFICATION Spec
CONSTANTS
    c1 = c1
    c2 = c2
    c3 = c3
    r1 = r1
    alice = alice
    CheckId = {c1, c2, c3}
    Run = {r1}
    Principal = {alice}
    NoOwner = NoOwner
    None = None
    Unknown = Unknown
    Intent <- WriteAndGrow
    Snapshot <- OnlyPlain
    Policies <- OneRoomy
    Events <- ReviewEvents
    MaxNow = 3
    Served = FALSE
    FirstStep = "timers"
    MaxObs = 1
    MaxRevision = 3
    CheckTotal = 2
    CheckPerRun = 2
SYMMETRY Interchangeable
INVARIANTS OneCardPerBasis ClearIsVouched
PROPERTIES KeepsPromise KeepsLife
