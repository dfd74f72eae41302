---------------------------- MODULE MCFastForward ----------------------------
(* Instances of FastForward for TLC.                                       *)
EXTENDS FastForward, TLC

CONSTANTS p1, p2

Setup(ffi, magic, synced, startFF, toggles1, toggles2) ==
    [ffi |-> ffi, magic |-> magic, synced |-> synced, startFF |-> startFF,
     toggles |-> (p1 :> toggles1 @@ p2 :> toggles2)]

\* FFI beside magic ops, and in both processes; toggles of one process, alone
\* with magic ops and with a process that pauses the other.
Orderly ==
    {Setup({p2}, {p1}, {}, {p2}, 0, 0),
     Setup({p1, p2}, {}, {p1}, {}, 0, 0),
     Setup({}, {p1, p2}, {p2}, {p2}, 2, 0),
     Setup({}, {p1}, {p1}, {}, 2, 0)}

\* One toggle for each of two processes.
TwoToggled == {Setup({}, {}, {}, {}, 1, 1)}
=============================================================================
