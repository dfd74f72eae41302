CONSTANTS
    c1 = c1
    c2 = c2
    Blocks = 4
    BlockCycles = 2
    None = None
    Cores = {c1, c2}
    NumDomains = 2
    PhaseLength = 4
    AccLat = 1
    NetLat = 1
    ZeroLoadLat = 2
    ExtraLats = {0, 3}
    NumMSHRs = 1
    Ways = 2
    TagLat = 1
    Setups <- AllSetups
    BblLens = {2, 5}
SPECIFICATION FairSpec
INVARIANTS
    NoPanic
    Causal
    QueuesExact
    MSHRsExact
PROPERTIES
    PhaseEnds
