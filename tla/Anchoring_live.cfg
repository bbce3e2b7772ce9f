SPECIFICATION FairSpec
CONSTANTS
    Records = {r1, r2}
    Signers = {s1}
    Capacity = 1
    MaxRetries = 1
    DbFaults = FALSE
    MaxSubs = 2
    MaxTx = 6
    MaxDowns = 1
    MaxFaults = 0
    MaxAdmin = 0
PROPERTY EventuallyCommitted
CHECK_DEADLOCK FALSE
