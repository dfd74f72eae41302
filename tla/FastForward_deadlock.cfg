CONSTANTS
    p1 = p1
    p2 = p2
    Procs = {p1, p2}
    Free = Free
    LateInserts = FALSE
    Setups <- TwoToggled
SPECIFICATION Spec
INVARIANTS
    SafeWithEndOfPhase
