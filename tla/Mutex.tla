-------------------------------- MODULE Mutex --------------------------------
(* What a lock promises: one holder at a time.                             *)

CONSTANTS Threads, Nobody

VARIABLE holder

Init == holder = Nobody

Acquire(t) ==
    /\ holder = Nobody
    /\ holder' = t

Release(t) ==
    /\ holder = t
    /\ holder' = Nobody

Next == \E t \in Threads : Acquire(t) \/ Release(t)

Spec == Init /\ [][Next]_holder
=============================================================================
