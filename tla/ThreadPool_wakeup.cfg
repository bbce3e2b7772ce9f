SPECIFICATION FairSpec
CONSTANTS
    Tasks = {t1}
    Producers = {p1}
    Workers = {w1}
    Capacity = 1
    MaxBatch = 1
    None = None
PROPERTY LostWakeupFree
CHECK_DEADLOCK FALSE
