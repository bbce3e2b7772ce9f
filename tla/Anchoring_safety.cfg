SPECIFICATION Spec
CONSTANTS
    Records = {r1, r2}
    Signers = {s1}
    Capacity = 1
    MaxRetries = 1
    DbFaults = TRUE
    MaxSubs = 2
    MaxTx = 2
    MaxDowns = 1
    MaxFaults = 1
    MaxAdmin = 1
SYMMETRY Symmetric
INVARIANTS
    TypeOK
    CountersAgree
    InFlightReleased
    LedgerAgrees
    HmacFresh
    SingleFlight
CHECK_DEADLOCK FALSE
