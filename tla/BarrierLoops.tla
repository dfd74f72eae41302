---------------------------- MODULE BarrierLoops ----------------------------
(***************************************************************************)
(* One call of tryWakeNext (zsim/src/barrier.h), iteration by iteration of  *)
(* its loops: the walk over the run list, the compaction and the shuffle at *)
(* the end of a phase, and the walk again.  Module BarrierOps has closed    *)
(* forms of the loops in their place; BarrierLoopsProofs shows that they    *)
(* are what the loops compute.                                              *)
(***************************************************************************)
EXTENDS BarrierOps

CONSTANT Inputs        \* the objects that tryWakeNext is called on

\* The operations of the barrier hand it no others (module BarrierProofs).
ASSUME InputsAssumption == \A b \in Inputs : WF(b)

VARIABLES
    input,        \* the Barrier object at the call
    object,       \* the Barrier object
    loop,         \* the loop it is in
    idx,          \* the compaction's idx and the shuffle's i, from 1
    newSize,      \* the compaction's newSize
    callFailed    \* an assert or panic has fired

callVars == <<input, object, loop, idx, newSize, callFailed>>

Asserts(holds) == callFailed' = (callFailed \/ ~holds)

CallInit ==
    /\ input \in Inputs
    /\ object = input
    /\ loop = "walk"
    /\ idx = 1
    /\ newSize = 0
    /\ callFailed = FALSE

-----------------------------------------------------------------------------
(* checkRunList                                                            *)

MoreToWake ==
    /\ object.runningThreads < ParallelThreads
    /\ object.curThreadIdx < Len(object.runList)

Examined(b) == [b EXCEPT !.curThreadIdx = @ + 1]

\* The core wtid at position i is woken.
Woken(b, wtid, i) ==
    [b EXCEPT !.state[wtid] = "RUNNING",
              !.lastIdx[wtid] = i,
              !.futexWord[wtid] = 0,
              !.runningThreads = @ + 1]

Examine ==
    LET i    == object.curThreadIdx + 1
        wtid == object.runList[i]
    IN  /\ loop \in {"walk", "walkAgain"}
        /\ MoreToWake
        /\ IF object.state[wtid] = "WAITING"
           THEN /\ object' = Woken(Examined(object), wtid, i)
                /\ Asserts(object.futexWord[wtid] = 1)
           ELSE object' = Examined(object) /\ UNCHANGED callFailed
        /\ UNCHANGED <<input, loop, idx, newSize>>

EndWalk ==
    /\ loop \in {"walk", "walkAgain"}
    /\ ~MoreToWake
    /\ loop' = IF loop = "walk" THEN "phase" ELSE "done"
    /\ UNCHANGED <<input, object, idx, newSize, callFailed>>

-----------------------------------------------------------------------------
(* checkEndPhase                                                           *)

\* The loop that follows the compaction, or its absence; the shuffle starts
\* at the end of the list.
ThenShuffle(b) ==
    /\ loop' = IF ParallelThreads < Len(b.runList) THEN "shuffle" ELSE "walkAgain"
    /\ idx' = Len(b.runList)

SamePhase ==
    /\ loop = "phase"
    /\ ~PhaseEnds(object)
    /\ loop' = "walkAgain"
    /\ UNCHANGED <<input, object, idx, newSize, callFailed>>

\* The next phase's walk is to start at the head of the list.
Rewound(b) == [b EXCEPT !.curThreadIdx = 0, !.phaseCount = (@ + 1) % PhaseWrap]

EndPhase ==
    /\ loop = "phase"
    /\ PhaseEnds(object)
    /\ object' = Rewound(object)
    /\ IF object.phaseCount % CleanupPeriod = 0
       THEN /\ loop' = "compact" /\ idx' = 1 /\ newSize' = Len(object.runList)
            /\ Asserts(Len(object.runList) > 0)
       ELSE ThenShuffle(object) /\ UNCHANGED <<newSize, callFailed>>
    /\ UNCHANGED input

\* Mutant of Drops: a core that waits for the next phase is dropped as well.
DropsWaiting(b, i) == b.state[b.runList[i]] \in {"LEFT", "WAITING"}

Drops(b, i) == b.state[b.runList[i]] = "LEFT"

\* The core at position i is dropped and the one at the end put in its place.
Dropped(b, i, end) ==
    LET wtid == b.runList[i]
        stid == b.runList[end]
    IN  [b EXCEPT !.state[wtid] = "OFFLINE", !.runList[i] = stid, !.lastIdx[stid] = i]

Compact ==
    /\ loop = "compact"
    /\ idx <= newSize
    /\ IF Drops(object, idx)
       THEN object' = Dropped(object, idx, newSize) /\ newSize' = newSize - 1 /\ UNCHANGED idx
       ELSE idx' = idx + 1 /\ UNCHANGED <<object, newSize>>
    /\ UNCHANGED <<input, loop, callFailed>>

EndCompaction ==
    /\ loop = "compact"
    /\ idx > newSize
    /\ object' = [object EXCEPT !.runList = SubSeq(@, 1, newSize), !.leftThreads = 0]
    /\ Asserts(Len(object.runList) - newSize = object.leftThreads)
    /\ ThenShuffle(object')
    /\ UNCHANGED <<input, newSize>>

\* rnd.randInt
Draws(i) == 1..i

\* The cores at i and j trade places.
Swapped(b, i, j) ==
    LET itid == b.runList[i]
        jtid == b.runList[j]
    IN  [b EXCEPT !.runList = [[@ EXCEPT ![i] = jtid] EXCEPT ![j] = itid],
                  !.lastIdx = [[@ EXCEPT ![itid] = j] EXCEPT ![jtid] = i]]

Shuffling ==
    /\ loop = "shuffle"
    /\ idx > 1
    /\ \E j \in Draws(idx) : object' = Swapped(object, idx, j)
    /\ idx' = idx - 1
    /\ UNCHANGED <<input, loop, newSize, callFailed>>

EndShuffle ==
    /\ loop = "shuffle"
    /\ idx <= 1
    /\ loop' = "walkAgain"
    /\ UNCHANGED <<input, object, idx, newSize, callFailed>>

-----------------------------------------------------------------------------

CallNext ==
    \/ Examine \/ EndWalk
    \/ SamePhase \/ EndPhase
    \/ Compact \/ EndCompaction
    \/ Shuffling \/ EndShuffle

CallSpec == CallInit /\ [][CallNext]_callVars

-----------------------------------------------------------------------------
(* Properties                                                              *)

\* When tryWakeNext returns, the loops have left what BarrierOps says, and no
\* assertion in them has failed.
LoopsAsModelled ==
    /\ ~callFailed
    /\ loop = "done" => object \in TryWakeNext(input)

\* The iterations that are left to the loop.
Remaining ==
    CASE loop \in {"walk", "walkAgain"} -> Len(object.runList) - object.curThreadIdx
      [] loop = "compact" -> newSize - idx + 1
      [] loop = "shuffle" -> idx - 1
      [] OTHER -> 0

\* The loops that may follow each.
Follows ==
    {<<"walk", "phase">>,
     <<"phase", "compact">>, <<"phase", "shuffle">>, <<"phase", "walkAgain">>,
     <<"compact", "shuffle">>, <<"compact", "walkAgain">>,
     <<"shuffle", "walkAgain">>,
     <<"walkAgain", "done">>}

\* Every step takes one iteration off those left to its loop, or goes on to
\* a later loop: tryWakeNext returns.
CountsDown ==
    \/ loop' = loop /\ Remaining > 0 /\ Remaining' = Remaining - 1
    \/ <<loop, loop'>> \in Follows

LoopsEnd == [][CountsDown]_callVars
=============================================================================
