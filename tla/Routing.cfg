CONSTANT Nets <- AllNets
SPECIFICATION FairSpec
INVARIANTS
    Delivered
    DeadlockFree
PROPERTIES
    Arrives
