SPECIFICATION Spec
CONSTANTS
    alert = alert
    all = all
    orphan = orphan
    None = None
    Rows = {r1, r2}
    Direct = {alert}
    Subs = {all, orphan}
    Skews = {0, 1}
    Capacity = 1
    BatchLimit = 2
    MaxRetries = 1
    Severity <- MCSeverity
    MinRank <- MCMinRank
    Accepts <- MCAccepts
    Adapted <- MCAdapted
    MaxDowns = 2
    MaxCrashes = 1
    MaxFaults = 1
    MaxAdmin = 1
SYMMETRY Symmetric
INVARIANTS
    TypeOK
    OnePlace
    InOrder
    OutcomeLaw
    EveryMatchServed
