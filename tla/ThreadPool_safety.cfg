SPECIFICATION Spec
CONSTANTS
    Tasks = {t1, t2, t3}
    Producers = {p1, p2}
    Workers = {w1, w2}
    Capacity = 1
    MaxBatch = 2
    None = None
SYMMETRY Symmetric
INVARIANTS
    TypeOK
    Accounting
    RunsOnce
    OverflowCounted
    DrainInv
    QuietShutdownDrains
CHECK_DEADLOCK FALSE
