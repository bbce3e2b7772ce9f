SPECIFICATION Spec
CONSTANTS
    Records = {r1}
    Signers = {s1}
    Capacity = 1
    MaxRetries = 0
    DbFaults = FALSE
    MaxSubs = 2
    MaxTx = 2
    MaxDowns = 0
    MaxFaults = 0
    MaxAdmin = 1
INVARIANT AnchoredOnce
CHECK_DEADLOCK FALSE
