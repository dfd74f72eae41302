----------------------------- MODULE BarrierOps -----------------------------
(***************************************************************************)
(* The phase barrier of zsim (zsim/src/barrier.h) as operators on the      *)
(* Barrier object: a record b with the fields of the class.  Module        *)
(* Barrier makes them the actions of the barrier's callers; module         *)
(* Scheduler composes them with the scheduler, whose lock protects them.   *)
(*                                                                         *)
(* Positions in runList are 1-based here and 0-based in the code:          *)
(* lastIdx is the code's lastIdx + 1, and curThreadIdx, the code's index   *)
(* of the first entry not yet examined, is the number of entries examined. *)
(***************************************************************************)
EXTENDS Integers, Sequences, FiniteSets, Functions

CONSTANTS
    Tids,             \* core ids
    ParallelThreads,  \* sim.maxParallelThreads
    CleanupPeriod,    \* 32 in the code: one phase end in so many compacts the list
    PhaseWrap,        \* 2^32 in the code: phaseCount is a uint32_t
    Garbage           \* what lastIdx may hold before its first write

ASSUME BarrierAssumption ==
    /\ IsFiniteSet(Tids)
    /\ ParallelThreads \in Nat \ {0}
    /\ CleanupPeriod \in Nat \ {0}
    /\ PhaseWrap \in Nat \ {0}
    /\ PhaseWrap > 1
    /\ PhaseWrap % CleanupPeriod = 0
    /\ Garbage \subseteq Nat \ {0}

States == {"OFFLINE", "WAITING", "RUNNING", "LEFT"}

Barriers ==
    [state : [Tids -> States],
     futexWord : [Tids -> {0, 1}],
     lastIdx : [Tids -> Nat \ {0}],
     runList : Seq(Tids),
     curThreadIdx : Nat,
     runningThreads : 0..ParallelThreads,
     leftThreads : Nat,
     phaseCount : 0..(PhaseWrap - 1)]

-----------------------------------------------------------------------------
(* Pure operators on the Barrier object b                                  *)

OnList(b) == {b.runList[i] : i \in 1..Len(b.runList)}

WaitingBetween(b, lo, hi) ==
    {i \in (lo + 1)..hi : b.state[b.runList[i]] = "WAITING"}

\* Mutant of ScanEnd: the loop forgets the limit on running threads.
ScanEndUnlimited(b) == Len(b.runList)

\* Where checkRunList's loop stops: at the entry that fills the last free
\* slot, or at the end of the list.
ScanEnd(b) ==
    CHOOSE c \in b.curThreadIdx..Len(b.runList) :
        /\ \/ c = Len(b.runList)
           \/ b.runningThreads + Cardinality(WaitingBetween(b, b.curThreadIdx, c))
                >= ParallelThreads
        /\ \A d \in b.curThreadIdx..(c - 1) :
             b.runningThreads + Cardinality(WaitingBetween(b, b.curThreadIdx, d))
                < ParallelThreads

\* The tids that checkRunList wakes.
ToWake(b) == {b.runList[i] : i \in WaitingBetween(b, b.curThreadIdx, ScanEnd(b))}

PositionOf(b, t) == CHOOSE i \in 1..Len(b.runList) : b.runList[i] = t

CheckRunList(b) ==
    [b EXCEPT
        !.state = [t \in Tids |-> IF t \in ToWake(b) THEN "RUNNING" ELSE @[t]],
        !.futexWord = [t \in Tids |-> IF t \in ToWake(b) THEN 0 ELSE @[t]],
        !.lastIdx = [t \in Tids |-> IF t \in ToWake(b) THEN PositionOf(b, t) ELSE @[t]],
        !.curThreadIdx = ScanEnd(b),
        !.runningThreads = @ + Cardinality(WaitingBetween(b, b.curThreadIdx, ScanEnd(b)))]

\* The compare-and-swap of every wakeup finds a 1 in the futex word.
WakeupsSucceed(b) == \A t \in ToWake(b) : b.futexWord[t] = 1

\* The compaction pass: the entries of LEFT threads are dropped, and each
\* hole among the first entries is filled with the last survivor of the
\* list.  m maps a hole to the entry that fills it.
Kept(b) == {i \in 1..Len(b.runList) : b.state[b.runList[i]] # "LEFT"}

Holes(b) == (1..Cardinality(Kept(b))) \ Kept(b)

TailKept(b) == Kept(b) \ (1..Cardinality(Kept(b)))

Fillings(b) == {m \in Bijection(Holes(b), TailKept(b)) :
                  \A i, j \in Holes(b) : i < j => m[i] > m[j]}

\* The pass takes the entries from the end of the list, and writes the index
\* of the hole open at the time into lastIdx, also for an entry that turns
\* out to be LEFT.  The one entry it drops without taking it is the first
\* beyond the survivors, when there is another to overwrite it with.
OpenHole(b, m, j) ==
    CHOOSE i \in Holes(b) \cup {Cardinality(Kept(b)) + 1} :
        /\ i \in Holes(b) => m[i] <= j
        /\ \A h \in Holes(b) : h < i => m[h] > j

Taken(b, m, j) ==
    /\ j > Cardinality(Kept(b))
    /\ ~ /\ j = Cardinality(Kept(b)) + 1
         /\ j \notin Kept(b)
         /\ j < Len(b.runList)
         /\ OpenHole(b, m, j + 1) = j

Compacted(b, m) ==
    [b EXCEPT
        !.runList = [i \in 1..Cardinality(Kept(b)) |->
                        IF i \in Holes(b) THEN @[m[i]] ELSE @[i]],
        !.state = [t \in Tids |-> IF @[t] = "LEFT" THEN "OFFLINE" ELSE @[t]],
        !.lastIdx = [t \in Tids |->
                        IF t \in OnList(b) /\ Taken(b, m, PositionOf(b, t))
                        THEN OpenHole(b, m, PositionOf(b, t))
                        ELSE @[t]],
        !.leftThreads = 0]

\* Mutant of Shuffled: the shuffle forgets the cores' indices.
ShuffledIndicesStale(b, p) ==
    [b EXCEPT !.runList = [i \in 1..Len(b.runList) |-> b.runList[p[i]]]]

\* The Fisher-Yates shuffle reaches every permutation; an entry that stays
\* in the first position is the only one whose lastIdx is not rewritten.
Shuffled(b, p) ==
    LET shuffledList == [i \in 1..Len(b.runList) |-> b.runList[p[i]]]
    IN  [b EXCEPT
            !.runList = shuffledList,
            !.lastIdx = [t \in Tids |->
                            IF t \in OnList(b) /\ (PositionOf(b, t) # 1 \/ p[1] # 1)
                            THEN CHOOSE i \in 1..Len(b.runList) : shuffledList[i] = t
                            ELSE @[t]]]

PhaseEnds(b) ==
    /\ b.curThreadIdx = Len(b.runList)
    /\ b.runningThreads = 0
    /\ b.leftThreads # Len(b.runList)

Cleanup(b) ==
    IF b.phaseCount % CleanupPeriod = 0
    THEN {Compacted(b, m) : m \in Fillings(b)}
    ELSE {b}

Shuffle(b) ==
    IF ParallelThreads < Len(b.runList)
    THEN {Shuffled(b, p) : p \in Bijection(1..Len(b.runList), 1..Len(b.runList))}
    ELSE {b}

NextPhase(b) ==
    UNION {Shuffle([c EXCEPT !.curThreadIdx = 0,
                             !.phaseCount = (@ + 1) % PhaseWrap]) : c \in Cleanup(b)}

CheckEndPhase(b) == IF PhaseEnds(b) THEN NextPhase(b) ELSE {b}

TryWakeNext(b) == {CheckRunList(c) : c \in CheckEndPhase(CheckRunList(b))}

\* Every assertion and panic that tryWakeNext evaluates from b holds
\* (barrier.h lines 216, 232 and 266).
TryWakeNextAsserts(b) ==
    /\ WakeupsSucceed(b)
    /\ LET c == CheckRunList(b)
       IN  /\ PhaseEnds(c) /\ c.phaseCount % CleanupPeriod = 0 =>
                /\ Len(c.runList) > 0
                /\ Len(c.runList) - Cardinality(Kept(c)) = c.leftThreads
           /\ \A d \in CheckEndPhase(c) : WakeupsSucceed(d)

-----------------------------------------------------------------------------
(* The operations, up to their call of tryWakeNext.                        *)

NewBarrier(junk) ==
    [state |-> [t \in Tids |-> "OFFLINE"],
     futexWord |-> [t \in Tids |-> 0],
     lastIdx |-> junk,
     runList |-> <<>>,
     curThreadIdx |-> 0,
     runningThreads |-> 0,
     leftThreads |-> 0,
     phaseCount |-> 0]

\* The same-phase reschedule of join: t trades places with the last entry
\* examined and the walk steps back over it.
Rescheduled(b, t) ==
    LET idx   == b.lastIdx[t]
        other == b.runList[b.curThreadIdx]
    IN  [b EXCEPT
            !.curThreadIdx = @ - 1,
            !.runList = [[@ EXCEPT ![idx] = other] EXCEPT ![b.curThreadIdx] = t],
            !.lastIdx = [[@ EXCEPT ![other] = idx] EXCEPT ![t] = b.curThreadIdx]]

\* Mutant of Rejoins: off by one, the core examined last is not rescheduled.
RejoinsOffByOne(b, t) == b.state[t] = "LEFT" /\ b.curThreadIdx > b.lastIdx[t]

Rejoins(b, t) == b.state[t] = "LEFT" /\ b.curThreadIdx >= b.lastIdx[t]

\* barrier.h line 137: the entry join is about to swap is t's own.
RejoinAssert(b, t) == Rejoins(b, t) => b.runList[b.lastIdx[t]] = t

\* Mutant of Listed: a core new to the list is counted out of the left ones.
ListedMiscounts(b, t) ==
    IF b.state[t] = "OFFLINE"
    THEN [b EXCEPT !.runList = Append(@, t), !.leftThreads = @ - 1]
    ELSE IF Rejoins(b, t) THEN [Rescheduled(b, t) EXCEPT !.leftThreads = @ - 1]
    ELSE [b EXCEPT !.leftThreads = @ - 1]

Listed(b, t) ==
    IF b.state[t] = "OFFLINE" THEN [b EXCEPT !.runList = Append(@, t)]
    ELSE IF Rejoins(b, t) THEN [Rescheduled(b, t) EXCEPT !.leftThreads = @ - 1]
    ELSE [b EXCEPT !.leftThreads = @ - 1]

Joining(b, t) == [Listed(b, t) EXCEPT !.state[t] = "WAITING", !.futexWord[t] = 1]

Syncing(b, t) ==
    [b EXCEPT !.state[t] = "WAITING", !.futexWord[t] = 1, !.runningThreads = @ - 1]

Leaving(b, t) ==
    [b EXCEPT !.state[t] = "LEFT", !.leftThreads = @ + 1, !.runningThreads = @ - 1]

\* Mutant of LeavingWaiting: the core is not counted as having left.
LeavingWaitingUncounted(b, t) == [b EXCEPT !.state[t] = "LEFT"]

\* leave on behalf of a core that waits: no tryWakeNext on this path.
LeavingWaiting(b, t) == [b EXCEPT !.state[t] = "LEFT", !.leftThreads = @ + 1]

-----------------------------------------------------------------------------
(* The Barrier objects that the operations leave behind (BarrierOpsProofs).  *)

\* The cores in a state.
InState(b, s) == {t \in Tids : b.state[t] = s}

\* A core that waits can be woken, and one that runs has been.
WordsMatch(b) ==
    \A t \in Tids : /\ b.state[t] = "WAITING" => b.futexWord[t] = 1
                    /\ b.state[t] = "RUNNING" => b.futexWord[t] = 0

\* The run list and the counters agree with the cores' states.
Listing(b) ==
    /\ b \in Barriers
    /\ IsInjective(b.runList)
    /\ OnList(b) = {t \in Tids : b.state[t] # "OFFLINE"}
    /\ b.runningThreads = Cardinality(InState(b, "RUNNING"))
    /\ b.leftThreads = Cardinality(InState(b, "LEFT"))
    /\ WordsMatch(b)

\* ... and the scan's position is within the list.
WF(b) == Listing(b) /\ b.curThreadIdx <= Len(b.runList)
=============================================================================
