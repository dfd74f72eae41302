CONSTANTS
    t1 = t1
    t2 = t2
    t3 = t3
    None = None
    Threads = {t1, t2, t3}
    Tids = {0, 1}
    ParallelThreads = 1
    CleanupPeriod = 2
    PhaseWrap = 2
    Garbage = {1}
    SchedQuantum = 1
    MaxSleep = 1
    MaxDead = 2
    Mask <- TwoPinned
SPECIFICATION KillSpec
INVARIANTS
    CleanupKeeps
CHECK_DEADLOCK FALSE
SYMMETRY Symmetry
