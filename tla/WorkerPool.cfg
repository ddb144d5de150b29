SPECIFICATION Spec
CONSTANTS
    Submitters = {s1, s2}
    Threads = {t1, t2}
    MaxJobs = 2
    MaxBatches = 1
INVARIANTS
    PoolInv
    BorrowsLive
CHECK_DEADLOCK FALSE
PROPERTIES
    BatchReturns
