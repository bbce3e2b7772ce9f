SPECIFICATION FairSpec
CONSTANTS
    Tasks = {t1, t2}
    Producers = {p1}
    Workers = {w1, w2}
    Capacity = 1
    MaxBatch = 2
    None = None
PROPERTIES
    ShutdownTerminates
    ImplementsTaskPool
CHECK_DEADLOCK FALSE
