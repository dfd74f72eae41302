CONSTANTS
    p1 = p1
    p2 = p2
    Procs = {p1, p2}
    Free = Free
    LateInserts = FALSE
    Setups <- Orderly
SPECIFICATION FairSpec
INVARIANTS
    NoPanic
    HeardToggles
PROPERTIES
    EntersAtPhaseEnd
    EverybodyReturns
