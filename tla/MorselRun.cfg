SPECIFICATION RunSpec
CONSTANTS
    Submitters = {s1}
    Threads = {t1, t2}
    MaxJobs = 2
    MaxBatches = 1
    Shapes <- MCShapes
    Quotas <- MCQuotas
INVARIANTS
    AnswerIsSequential
CHECK_DEADLOCK FALSE
SYMMETRY Symmetry
