SPECIFICATION Spec
CONSTANTS
    alert = alert
    all = all
    orphan = orphan
    None = None
    Rows = {r1, r2}
    Direct = {alert}
    Subs = {all}
    Skews = {0}
    Capacity = 2
    BatchLimit = 2
    MaxRetries = 1
    Severity <- MCSeverity
    MinRank <- MCMinRank
    Accepts <- MCAccepts
    Adapted <- MCAdapted
    MaxDowns = 1
    MaxCrashes = 0
    MaxFaults = 0
    MaxAdmin = 0
INVARIANTS
    CleanStopLosesNothing
