------------------------------ MODULE MCBarrier ------------------------------
(***************************************************************************)
(* The instance of Barrier and of BarrierLoops for TLC, in one run: a call  *)
(* of tryWakeNext on an object of its own goes through its loops, and after *)
(* it the cores use a barrier.                                              *)
(***************************************************************************)
EXTENDS Barrier, BarrierLoops, SequencesExt

CONSTANT Users         \* the cores that use the barrier

\* Barrier objects with a run list: cores in every state that a listed core
\* may be in, examined up to any position, before the end of a phase that
\* compacts the list and of one that does not.
InputsWith(list) ==
    {[state |-> [t \in Tids |-> IF t \in Range(list) THEN state[t] ELSE "OFFLINE"],
      futexWord |-> [t \in Tids |-> IF state[t] = "WAITING" THEN 1 ELSE 0],
      lastIdx |-> [t \in Tids |-> Len(list) + 9],
      runList |-> list,
      curThreadIdx |-> examined,
      runningThreads |-> Cardinality({i \in DOMAIN list : state[list[i]] = "RUNNING"}),
      leftThreads |-> Cardinality({i \in DOMAIN list : state[list[i]] = "LEFT"}),
      phaseCount |-> count] :
        examined \in 0..Len(list), count \in {0, 1},
        state \in [Tids -> {"WAITING", "RUNNING", "LEFT"}]}

\* The loops do not tell cores apart, so one list of each length will do.
AllInputs ==
    {b \in UNION {InputsWith(SubSeq(SetToSeq(Tids), 1, n)) : n \in 0..Cardinality(Tids)} :
        b.runningThreads <= ParallelThreads}

\* The call returns and leaves nothing behind.
Return ==
    /\ loop = "done"
    /\ loop' = "none"
    /\ input' = [runList |-> <<>>] /\ object' = input'
    /\ idx' = 0 /\ newSize' = 0 /\ callFailed' = FALSE

MCInit == Init /\ CallInit

MCNext ==
    \/ CallNext /\ UNCHANGED vars
    \/ Return /\ UNCHANGED vars
    \/ /\ loop = "none"
       /\ OrderlyNext
       /\ \A t \in Tids \ Users : pc'[t] = "out"
       /\ UNCHANGED callVars

MCSpec == MCInit /\ [][MCNext]_<<vars, callVars>> /\ Fairness
=============================================================================
