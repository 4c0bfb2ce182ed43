SPECIFICATION Spec
CONSTANTS
    c1 = c1
    c2 = c2
    r1 = r1
    r2 = r2
    alice = alice
    CheckId = {c1, c2}
    Run = {r1, r2}
    Principal = {alice}
    NoOwner = NoOwner
    None = None
    Unknown = Unknown
    Intent <- OnlyWrite
    Snapshot <- OnlyPlain
    Policies <- TwoBrief
    Events <- RunEvents
    MaxNow = 2
    Served = FALSE
    FirstStep = "timers"
    MaxObs = 1
    MaxRevision = 3
    CheckTotal = 2
    CheckPerRun = 2
SYMMETRY Interchangeable
INVARIANTS QueueBounded HeldHasCard
