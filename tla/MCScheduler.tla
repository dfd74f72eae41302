----------------------------- MODULE MCScheduler -----------------------------
(* Instances of Scheduler for TLC.                                         *)
EXTENDS Scheduler, TLC

CONSTANTS t1, t2, t3

\* Every thread may run anywhere.
AnyCore == [t \in Threads |-> Cores]

\* t1 may only run on core 0, so that masks overlap in part.
OnePinned == [t \in Threads |-> IF t = t1 THEN {0} ELSE Cores]

\* t2 and t3 share core 0 with t1, which may run anywhere.
TwoPinned == [t \in Threads |-> IF t = t1 THEN Cores ELSE {0}]

\* Both masks treat t2 and t3 alike.
Symmetry == Permutations({t2, t3})
=============================================================================
