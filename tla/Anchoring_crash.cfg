SPECIFICATION Spec
CONSTANTS
    Records = {r1}
    Signers = {s1}
    Capacity = 1
    MaxRetries = 0
    DbFaults = FALSE
    MaxSubs = 1
    MaxTx = 2
    MaxDowns = 1
    MaxFaults = 0
    MaxAdmin = 0
INVARIANT NoReanchor
CHECK_DEADLOCK FALSE
