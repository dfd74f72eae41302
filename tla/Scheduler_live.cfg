CONSTANTS
    t1 = t1
    t2 = t2
    t3 = t3
    None = None
    Threads = {t1, t2, t3}
    Tids = {0}
    ParallelThreads = 1
    CleanupPeriod = 2
    PhaseWrap = 2
    Garbage = {1}
    SchedQuantum = 1
    MaxSleep = 2
    MaxDead = 0
    Mask <- AnyCore
SPECIFICATION FairSpec
PROPERTIES
    ThreadsGoOn
