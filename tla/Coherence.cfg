SPECIFICATION Spec
CONSTANTS
    l1a = l1a
    l1b = l1b
    l2a = l2a
    l2b = l2b
    l3 = l3
    x = x
    y = y
    None = None
    Ways <- OneWay
    Caches = {l1a, l1b, l2a, l2b, l3}
    Leaves = {l1a, l1b}
    Root = l3
    Parent <- PrivateL2
    Process <- OneProcess
    Lines = {x, y}
SYMMETRY SwapLines
INVARIANTS
    NoPanic
    NoLockCycle
    SingleWriter
    InclusiveDirectories
    FilterCoherent
    WritebackNotLost
