SPECIFICATION Spec
CONSTANTS
    c1 = c1
    r1 = r1
    alice = alice
    CheckId = {c1}
    Run = {r1}
    Principal = {alice}
    NoOwner = NoOwner
    None = None
    Unknown = Unknown
    Intent <- OnlyWrite
    Snapshot <- Telemetry
    Policies <- OneUneven
    Events <- ReviewEvents
    MaxNow = 3
    Served = TRUE
    FirstStep = "timers"
    MaxObs = 1
    MaxRevision = 3
    CheckTotal = 1
    CheckPerRun = 1
PROPERTIES FlagDenies
