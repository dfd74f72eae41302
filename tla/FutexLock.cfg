CONSTANTS
    Threads = {t1, t2, t3}
    Nobody = Nobody
SPECIFICATION FairSpec
INVARIANTS
    NoLostWakeup
PROPERTIES
    IsMutex
    SomeoneGetsIn
