CONSTANTS
    Tids = {t1, t2, t3, t4}
    Users = {t1, t2, t3}
    ParallelThreads = 1
    CleanupPeriod = 2
    PhaseWrap = 4
    Garbage = {1}
    Inputs <- AllInputs
SPECIFICATION MCSpec
INVARIANTS
    NoPanic
    Bookkeeping
    NoLostWakeup
    LoopsAsModelled
PROPERTIES
    PhaseBarrierSpec
    JoinersRun
