CONSTANTS
    t1 = t1
    t2 = t2
    t3 = t3
    None = None
    Threads = {t1, t2, t3}
    Tids = {0, 1}
    ParallelThreads = 2
    CleanupPeriod = 2
    PhaseWrap = 2
    Garbage = {1}
    SchedQuantum = 1
    MaxSleep = 2
    MaxDead = 0
    Mask <- OnePinned
SPECIFICATION OrderlySpec
INVARIANTS
    ThreadsInPlace
    NoPanic
SYMMETRY Symmetry
PROPERTIES
    PhaseWaitsForRunners
