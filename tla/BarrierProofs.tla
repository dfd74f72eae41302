---------------------------- MODULE BarrierProofs ----------------------------
(***************************************************************************)
(* Theorems about module Barrier, for every set of cores and every limit   *)
(* on parallelism: the type invariant and the safety invariants hold even  *)
(* when processes are killed at any moment (Spec), and no assertion fails  *)
(* when cores leave only by themselves (OrderlySpec), in which case the    *)
(* barrier also implements a barrier over sets (PhaseBarrier).             *)
(***************************************************************************)
EXTENDS Barrier, BarrierOpsProofs

\* While somebody waits, somebody runs.
SomebodyRuns ==
    \A t \in Tids : bar.state[t] = "WAITING" => bar.runningThreads > 0

\* What the place of a host thread says about its core.
HostThreads ==
    \A t \in Tids :
        /\ pc[t] # "out" => bar.state[t] \in {"WAITING", "RUNNING"}
        /\ pc[t] = "asleep" => bar.state[t] = "WAITING"
        /\ pc[t] \in {"awake", "run"} => bar.state[t] = "RUNNING"

\* The inductive invariant, cores made to leave at any time included.
Inv ==
    /\ WF(bar)
    /\ Settled(bar)
    /\ SomebodyRuns
    /\ HostThreads
    /\ pc \in [Tids -> PCs]
    /\ served \subseteq Tids
    /\ failed \in BOOLEAN

\* In orderly runs the indices are right too, and no assertion has failed.
OrderlyInv == Inv /\ IndicesKnown(bar) /\ ~failed

-----------------------------------------------------------------------------
(* The initial state                                                       *)

\* The constructor's barrier satisfies the invariant.
LEMMA InitInv == Init => OrderlyInv
<1> SUFFICES ASSUME Init PROVE OrderlyInv
  OBVIOUS
<1>1. PICK junk \in [Tids -> Garbage] : bar = NewBarrier(junk)
  BY DEF Init
<1>2. /\ bar.state = [t \in Tids |-> "OFFLINE"] /\ bar.futexWord = [t \in Tids |-> 0]
      /\ bar.lastIdx = junk /\ bar.runList = << >> /\ bar.curThreadIdx = 0
      /\ bar.runningThreads = 0 /\ bar.leftThreads = 0 /\ bar.phaseCount = 0
  BY <1>1 DEF NewBarrier
<1>3. bar \in Barriers
  <2>1. junk \in [Tids -> Nat \ {0}]
    BY <1>1, BarrierAssumption DEF BarrierAssumption
  <2>2. 0 \in 0..ParallelThreads /\ 0 \in 0..(PhaseWrap - 1)
    BY BarrierAssumption DEF BarrierAssumption
  <2> QED
    BY <1>1, <2>1, <2>2 DEF NewBarrier, Barriers, States
<1>4. InState(bar, "RUNNING") = {} /\ InState(bar, "LEFT") = {}
  BY <1>2 DEF InState
<1>5. Len(bar.runList) = 0 /\ OnList(bar) = {} /\ IsInjective(bar.runList)
  BY <1>2 DEF OnList, IsInjective
<1>6. WF(bar)
  <2>1. Cardinality(InState(bar, "RUNNING")) = 0 /\ Cardinality(InState(bar, "LEFT")) = 0
    BY <1>4, FS_EmptySet
  <2>2. OnList(bar) = {t \in Tids : bar.state[t] # "OFFLINE"}
    BY <1>2, <1>5
  <2>3. WordsMatch(bar)
    BY <1>2 DEF WordsMatch
  <2> QED
    BY <1>2, <1>3, <1>5, <2>1, <2>2, <2>3 DEF WF, Listing
<1>7. Settled(bar) /\ SomebodyRuns /\ IndicesKnown(bar)
  BY <1>2, <1>5 DEF Settled, SomebodyRuns, IndicesKnown
<1>8. /\ pc = [t \in Tids |-> "out"] /\ served = {} /\ failed = FALSE
  BY DEF Init
<1> QED
  BY <1>6, <1>7, <1>8 DEF OrderlyInv, Inv, HostThreads, PCs

-----------------------------------------------------------------------------
(* The steps                                                               *)

\* The end of every operation of a core t: b is the barrier it hands to
\* tryWakeNext, in which only t's state has changed.
LEMMA CompleteKeepsInv ==
    ASSUME Inv, NEW t \in Tids, NEW b, NEW where, NEW done,
           WF(b), done \subseteq Tids,
           \A u \in Tids : u # t => b.state[u] = bar.state[u],
           \/ b.state[t] = "WAITING" /\ where = "unlocked"
           \/ b.state[t] = "LEFT" /\ where = "out",
           Complete(b, t, where, done)
    PROVE  /\ Inv'
           /\ ~failed'
           /\ IndicesKnown(b) => IndicesKnown(bar')
<1>1. bar' \in TryWakeNext(b) /\ failed' = ~TryWakeNextAsserts(b)
  BY DEF Complete
<1>2. /\ WF(bar') /\ Settled(bar')
      /\ \A u \in Tids : bar'.state[u] = "WAITING" => bar'.runningThreads > 0
      /\ \A u \in Tids : \/ bar'.state[u] = b.state[u]
                         \/ (b.state[u] = "WAITING" /\ bar'.state[u] = "RUNNING")
                         \/ (b.state[u] = "LEFT" /\ bar'.state[u] = "OFFLINE")
      /\ IndicesKnown(b) => IndicesKnown(bar')
  BY <1>1, TryWakeNextWorks
<1>3. failed' = FALSE
  BY <1>1, TryWakeNextIsSafe
<1>4. /\ served' \subseteq Tids
      /\ where \in PCs
      /\ pc' = [u \in Tids |->
                 IF u = t THEN where
                 ELSE IF /\ pc[u] = "asleep"
                         /\ b.state[u] = "WAITING"
                         /\ bar'.state[u] = "RUNNING"
                      THEN "awake" ELSE pc[u]]
  BY DEF Complete, PCs
<1>5. pc' \in [Tids -> PCs]
  BY <1>4 DEF Inv, PCs
<1>6. HostThreads'
  <2> SUFFICES ASSUME NEW u \in Tids
               PROVE  /\ pc'[u] # "out" => bar'.state[u] \in {"WAITING", "RUNNING"}
                      /\ pc'[u] = "asleep" => bar'.state[u] = "WAITING"
                      /\ pc'[u] \in {"awake", "run"} => bar'.state[u] = "RUNNING"
    BY DEF HostThreads
  <2>1. CASE u = t
    BY <1>2, <1>4, <2>1
  <2>2. CASE u # t
    <3>1. /\ pc[u] # "out" => b.state[u] \in {"WAITING", "RUNNING"}
          /\ pc[u] = "asleep" => b.state[u] = "WAITING"
          /\ pc[u] \in {"awake", "run"} => b.state[u] = "RUNNING"
      BY <2>2 DEF Inv, HostThreads
    <3> QED
      BY <1>2, <1>4, <2>2, <3>1
  <2> QED
    BY <2>1, <2>2
<1> QED
  BY <1>2, <1>3, <1>4, <1>5, <1>6 DEF Inv, SomebodyRuns

\* join
LEMMA JoinKeepsInv ==
    ASSUME Inv, NEW t \in Tids, Join(t)
    PROVE  /\ Inv'
           /\ IndicesKnown(bar) => IndicesKnown(bar') /\ ~failed'
<1>1. CASE RejoinAssert(bar, t)
  <2>1. /\ Complete(Joining(bar, t), t, "unlocked", served)
        /\ bar.state[t] \in {"LEFT", "OFFLINE"}
    BY <1>1 DEF Join
  <2>2. /\ WF(bar) /\ bar.state \in [Tids -> States]
    BY DEF Inv, WF, Listing, Barriers
  <2>3. /\ WF(Joining(bar, t))
        /\ IndicesKnown(bar) => IndicesKnown(Joining(bar, t))
        /\ Joining(bar, t).state = [bar.state EXCEPT ![t] = "WAITING"]
    BY <1>1, <2>1, <2>2, JoiningWorks
  <2>4. /\ \A u \in Tids : u # t => Joining(bar, t).state[u] = bar.state[u]
        /\ Joining(bar, t).state[t] = "WAITING"
    BY <2>2, <2>3
  <2>5. served \subseteq Tids
    BY DEF Inv
  <2> QED
    BY <2>1, <2>3, <2>4, <2>5, CompleteKeepsInv
<1>2. CASE ~RejoinAssert(bar, t)
  <2>1. failed' = TRUE /\ UNCHANGED <<bar, pc, served>>
    BY <1>2 DEF Join
  <2>2. Inv'
    BY <2>1 DEF Inv, SomebodyRuns, HostThreads
  <2>3. ~IndicesKnown(bar)
    BY <1>2 DEF RejoinAssert, Rejoins, IndicesKnown
  <2> QED
    BY <2>2, <2>3
<1> QED
  BY <1>1, <1>2

\* sync, and leave by a core that runs
LEMMA StopKeepsInv ==
    ASSUME Inv, NEW t \in Tids, Sync(t) \/ Leave(t)
    PROVE  /\ Inv'
           /\ IndicesKnown(bar) => IndicesKnown(bar') /\ ~failed'
<1>1. WF(bar) /\ served \subseteq Tids /\ bar.state \in [Tids -> States]
  BY DEF Inv, WF, Listing, Barriers
<1>2. CASE Sync(t)
  <2> DEFINE b == Syncing(bar, t)
  <2>1. bar.state[t] = "RUNNING" /\ Complete(b, t, "unlocked", served \cup {t})
    BY <1>2 DEF Sync
  <2>2. /\ WF(b)
        /\ IndicesKnown(bar) => IndicesKnown(b)
        /\ \A u \in Tids : u # t => b.state[u] = bar.state[u]
    BY <1>1, <2>1, StopRunning
  <2>3. b.state[t] = "WAITING"
    BY <1>1 DEF Syncing, Inv, WF, Listing, Barriers
  <2>4. served \cup {t} \subseteq Tids
    BY <1>1
  <2> HIDE DEF b
  <2> QED
    BY <2>1, <2>2, <2>3, <2>4, CompleteKeepsInv
<1>3. CASE Leave(t)
  <2> DEFINE b == Leaving(bar, t)
  <2>1. bar.state[t] = "RUNNING" /\ Complete(b, t, "out", served)
    BY <1>3 DEF Leave
  <2>2. /\ WF(b)
        /\ IndicesKnown(bar) => IndicesKnown(b)
        /\ \A u \in Tids : u # t => b.state[u] = bar.state[u]
    BY <1>1, <2>1, StopRunning
  <2>3. b.state[t] = "LEFT"
    BY <1>1 DEF Leaving, Inv, WF, Listing, Barriers
  <2> HIDE DEF b
  <2> QED
    BY <1>1, <2>1, <2>2, <2>3, CompleteKeepsInv
<1> QED
  BY <1>2, <1>3

\* leave on behalf of a core that waits
LEMMA LeaveWaitingKeepsInv ==
    ASSUME Inv, NEW t \in Tids, LeaveWaiting(t)
    PROVE  Inv'
<1>1. /\ bar.state[t] = "WAITING" /\ bar' = LeavingWaiting(bar, t)
      /\ pc' = [pc EXCEPT ![t] = "out"] /\ served' = served \ {t} /\ failed' = failed
  BY DEF LeaveWaiting
<1>2. WF(bar) /\ bar.state \in [Tids -> States]
  BY DEF Inv, WF, Listing, Barriers
<1>3. /\ WF(bar')
      /\ bar'.state = [bar.state EXCEPT ![t] = "LEFT"]
      /\ bar'.runningThreads = bar.runningThreads
      /\ bar'.curThreadIdx = bar.curThreadIdx
      /\ bar'.runList = bar.runList
  BY <1>1, <1>2, StopWaiting
<1>4. Settled(bar') /\ SomebodyRuns'
  BY <1>2, <1>3 DEF Inv, Settled, SomebodyRuns
<1>5. HostThreads'
  BY <1>1, <1>2, <1>3 DEF Inv, HostThreads
<1>6. pc' \in [Tids -> PCs] /\ served' \subseteq Tids /\ failed' \in BOOLEAN
  BY <1>1 DEF Inv, PCs
<1> QED
  BY <1>3, <1>4, <1>5, <1>6 DEF Inv

\* The wait loop
LEMMA WaitLoopKeepsInv ==
    ASSUME Inv, NEW t \in Tids, WaitLoop(t)
    PROVE  Inv' /\ bar' = bar /\ ~failed'
<1>1. /\ WF(bar) /\ pc \in [Tids -> PCs] /\ bar.state \in [Tids -> States]
      /\ bar.futexWord \in [Tids -> {0, 1}]
      /\ bar.state[t] = "WAITING" => bar.futexWord[t] = 1
      /\ bar.state[t] = "RUNNING" => bar.futexWord[t] = 0
  BY DEF Inv, WF, Listing, WordsMatch, Barriers
<1>2. bar' = bar /\ served' = served
  BY DEF WaitLoop, TestState, FutexWait, Interrupted, Resume
<1>3. pc' \in [Tids -> PCs] /\ HostThreads'
  <2>1. PICK p \in PCs :
          /\ pc' = [pc EXCEPT ![t] = p]
          /\ bar.state[t] \in {"WAITING", "RUNNING"}
          /\ p = "asleep" => bar.state[t] = "WAITING"
          /\ p \in {"awake", "run"} => bar.state[t] = "RUNNING"
    <3>1. CASE TestState(t)
      BY <1>1, <3>1 DEF TestState, PCs, Inv, HostThreads
    <3>2. CASE FutexWait(t)
      <4>1. pc[t] = "futex" /\ bar.state[t] \in {"WAITING", "RUNNING"}
        BY <3>2 DEF FutexWait, Inv, HostThreads
      <4>2. CASE bar.futexWord[t] = 1 /\ bar.state[t] = "WAITING"
        BY <3>2, <4>1, <4>2 DEF FutexWait, PCs
      <4>3. CASE bar.futexWord[t] # 1
        BY <1>1, <3>2, <4>1, <4>3 DEF FutexWait, PCs
      <4>4. CASE bar.futexWord[t] = 1 /\ bar.state[t] = "RUNNING"
        BY <1>1, <3>2, <4>1, <4>4 DEF FutexWait, PCs
      <4> QED
        BY <4>1, <4>2, <4>3, <4>4
    <3>3. CASE Interrupted(t)
      BY <3>3 DEF Interrupted, PCs, Inv, HostThreads
    <3>4. CASE Resume(t)
      BY <3>4 DEF Resume, PCs, Inv, HostThreads
    <3> QED
      BY <3>1, <3>2, <3>3, <3>4 DEF WaitLoop
  <2> QED
    BY <1>1, <1>2, <2>1 DEF Inv, HostThreads
<1>4. failed' = FALSE
  <2>1. CASE Resume(t)
    BY <2>1 DEF Resume, Inv, HostThreads
  <2>2. CASE TestState(t) \/ FutexWait(t) \/ Interrupted(t)
    BY <2>2 DEF TestState, FutexWait, Interrupted, Inv
  <2> QED
    BY <2>1, <2>2 DEF WaitLoop
<1> QED
  BY <1>2, <1>3, <1>4 DEF Inv, SomebodyRuns

\* Every step of the system with kills keeps the invariant.
LEMMA NextInv == Inv /\ [Next]_vars => Inv'
<1> SUFFICES ASSUME Inv, [Next]_vars PROVE Inv'
  OBVIOUS
<1>1. CASE UNCHANGED vars
  BY <1>1 DEF vars, Inv, SomebodyRuns, HostThreads
<1>2. ASSUME NEW t \in Tids, Join(t) PROVE Inv'
  BY <1>2, JoinKeepsInv
<1>3. ASSUME NEW t \in Tids, Sync(t) \/ Leave(t) PROVE Inv'
  BY <1>3, StopKeepsInv
<1>4. ASSUME NEW t \in Tids, LeaveWaiting(t) PROVE Inv'
  BY <1>4, LeaveWaitingKeepsInv
<1>5. ASSUME NEW t \in Tids, WaitLoop(t) PROVE Inv'
  BY <1>5, WaitLoopKeepsInv
<1> QED
  BY <1>1, <1>2, <1>3, <1>4, <1>5 DEF Next

\* Every orderly step keeps it too, and fires no assertion.
LEMMA OrderlyNextInv == OrderlyInv /\ [OrderlyNext]_vars => OrderlyInv'
<1> SUFFICES ASSUME OrderlyInv, [OrderlyNext]_vars PROVE OrderlyInv'
  OBVIOUS
<1>1. Inv /\ IndicesKnown(bar) /\ ~failed
  BY DEF OrderlyInv
<1>2. CASE UNCHANGED vars
  <2>1. bar' = bar /\ pc' = pc /\ served' = served /\ failed' = failed
    BY <1>2 DEF vars
  <2> QED
    BY <1>1, <2>1 DEF OrderlyInv, Inv, SomebodyRuns, HostThreads
<1>3. ASSUME NEW t \in Tids, Join(t) PROVE OrderlyInv'
  BY <1>1, <1>3, JoinKeepsInv DEF OrderlyInv
<1>4. ASSUME NEW t \in Tids, Sync(t) \/ OrderlyLeave(t) PROVE OrderlyInv'
  BY <1>1, <1>4, StopKeepsInv DEF OrderlyInv, OrderlyLeave
<1>5. ASSUME NEW t \in Tids, WaitLoop(t) PROVE OrderlyInv'
  BY <1>1, <1>5, WaitLoopKeepsInv DEF OrderlyInv
<1> QED
  BY <1>2, <1>3, <1>4, <1>5 DEF OrderlyNext

-----------------------------------------------------------------------------
(* The theorems                                                            *)

\* The invariant holds in every reachable state.
LEMMA AlwaysInv == Spec => []Inv
<1>1. Init => Inv
  BY InitInv DEF OrderlyInv
<1> QED
  BY <1>1, NextInv, PTL DEF Spec

\* The Barrier object keeps its type and its counters their bounds, whoever
\* is killed and whenever.
THEOREM TypeCorrect == Spec => []TypeOK
<1>1. Inv => TypeOK
  BY DEF Inv, TypeOK, WF, Listing
<1> QED
  BY <1>1, AlwaysInv, PTL

\* The run list and both counters agree with the cores' states after every
\* operation, abrupt exits included.
THEOREM BookkeepingHolds == Spec => []Bookkeeping
<1>1. Inv => Bookkeeping
  BY DEF Inv, Bookkeeping, WF, Listing, InState
<1> QED
  BY <1>1, AlwaysInv, PTL

\* No operation returns with a core waiting beside a free slot, or with
\* everybody waiting.
THEOREM NobodyStranded == Spec => []NoneStranded
<1>1. Inv => NoneStranded
  <2> SUFFICES ASSUME Inv, NEW t \in Tids, bar.state[t] = "WAITING"
               PROVE  /\ bar.runningThreads > 0
                      /\ \/ bar.runningThreads = ParallelThreads
                         \/ PositionOf(bar, t) <= bar.curThreadIdx
    BY DEF NoneStranded
  <2>1. bar.runningThreads > 0
    BY DEF Inv, SomebodyRuns
  <2>2. /\ bar.runList \in Seq(Tids) /\ IsInjective(bar.runList)
        /\ Len(bar.runList) \in Nat
        /\ OnList(bar) = {u \in Tids : bar.state[u] # "OFFLINE"}
    BY DEF Inv, WF, Listing, Barriers
  <2>3. PICK i \in 1..Len(bar.runList) : t = bar.runList[i]
    BY <2>2 DEF OnList
  <2>4. PositionOf(bar, t) = i
    BY <2>2, <2>3, PositionIs
  <2> QED
    BY <2>1, <2>2, <2>3, <2>4 DEF Inv, Settled
<1> QED
  BY <1>1, AlwaysInv, PTL

\* No host thread sleeps in the kernel on behalf of a core that runs, and
\* the word of a core that waits is 1 when its wakeup comes.
THEOREM WakeupsNotLost == Spec => []NoLostWakeup
<1>1. Inv => NoLostWakeup
  BY DEF Inv, NoLostWakeup, HostThreads, WF, Listing, WordsMatch
<1> QED
  BY <1>1, AlwaysInv, PTL

\* When cores leave only by themselves, no assertion or panic of barrier.h
\* ever fires.
THEOREM OrderlyNeverPanics == OrderlySpec => []NoPanic
<1>1. OrderlyInv => NoPanic
  BY DEF OrderlyInv, NoPanic
<1> QED
  BY <1>1, InitInv, OrderlyNextInv, PTL DEF OrderlySpec

-----------------------------------------------------------------------------
(* The set view of the run list                                            *)

\* Both modules count alike.
LEMMA SameCount ==
    ASSUME NEW S
    PROVE  Abstract!Cardinality(S) = Cardinality(S)
BY DEF Abstract!Cardinality, Cardinality

\* A choice of as many of p as there are slots beside r, put without Min.
LEMMA StartsIs ==
    ASSUME NEW p, NEW r, p \subseteq Tids, r \subseteq Tids, NEW S, S \subseteq p,
           Cardinality(r) + Cardinality(S) <= ParallelThreads,
           S = p \/ Cardinality(r) + Cardinality(S) = ParallelThreads
    PROVE  S \in Abstract!Starts(p, r)
<1> DEFINE np == Cardinality(p)
           nr == Cardinality(r)
           ns == Cardinality(S)
           free == ParallelThreads - nr
           m == Abstract!Min({np, free})
<1>1. IsFiniteSet(p) /\ np \in Nat /\ nr \in Nat /\ ns \in Nat
  BY CoresFinite
<1>2. ns <= np
  BY <1>1, FS_Subset
<1>3. ParallelThreads \in Nat
  BY BarrierAssumption DEF BarrierAssumption
<1>4. S = p => ns = np
  OBVIOUS
<1> HIDE DEF np, nr, ns
<1>5. m = ns
  <2>1. ns \in {np, free} /\ \A y \in {np, free} : ns <= y
    BY <1>1, <1>2, <1>3, <1>4 DEF np, nr, ns
  <2>2. \A x \in {np, free} : (\A y \in {np, free} : x <= y) => x = ns
    BY <1>1, <1>3, <2>1
  <2> HIDE DEF free
  <2> QED
    BY <2>1, <2>2 DEF Abstract!Min
<1> QED
  BY <1>5, SameCount DEF Abstract!Starts, Abstract!kSubset, m, free, np, nr, ns

\* Nobody can be chosen when nobody is pending or no slot is free.
LEMMA StartsNone ==
    ASSUME NEW p, NEW r, p \subseteq Tids, r \subseteq Tids,
           p = {} \/ Cardinality(r) = ParallelThreads, NEW S \in Abstract!Starts(p, r)
    PROVE  S = {}
<1> DEFINE np == Cardinality(p)
           free == ParallelThreads - Cardinality(r)
           m == Abstract!Min({np, free})
<1>1. S \subseteq p /\ Cardinality(S) = m
  BY SameCount DEF Abstract!Starts, Abstract!kSubset
<1>2. CASE p = {}
  BY <1>1, <1>2
<1>3. CASE Cardinality(r) = ParallelThreads
  <2>1. free = 0 /\ np \in Nat
    BY <1>3, CoresFinite, BarrierAssumption DEF BarrierAssumption
  <2> HIDE DEF free, np
  <2>2. 0 \in {np, free} /\ \A y \in {np, free} : 0 <= y
    BY <2>1
  <2>3. \A x \in {np, free} : (\A y \in {np, free} : x <= y) => x = 0
    BY <2>1
  <2>4. m = 0
    BY <2>2, <2>3 DEF Abstract!Min
  <2>5. IsFiniteSet(S) /\ S \subseteq Tids
    BY <1>1, CoresFinite
  <2> QED
    BY <1>1, <2>4, <2>5, FS_EmptySet
<1> QED
  BY <1>2, <1>3

\* A walk gives the free slots to pending cores.
LEMMA WalkStarts ==
    ASSUME NEW b, WF(b), NEW done, Scanned(b, done)
    PROVE  LET d == CheckRunList(b)
           IN  /\ ToWake(b) \in Abstract!Starts(Pend(b, done), InState(b, "RUNNING"))
               /\ Scanned(d, done)
               /\ InState(d, "RUNNING") = InState(b, "RUNNING") \cup ToWake(b)
               /\ Pend(d, done) = Pend(b, done) \ ToWake(b)
<1> DEFINE S == ToWake(b)
           p == Pend(b, done)
           r == InState(b, "RUNNING")
<1>1. /\ S \subseteq p /\ Cardinality(r) + Cardinality(S) <= ParallelThreads
      /\ S = p \/ Cardinality(r) + Cardinality(S) = ParallelThreads
  BY WalkScanned
<1>2. p \subseteq Tids /\ r \subseteq Tids
  BY DEF Pend, InState
<1> HIDE DEF S, p, r
<1>3. S \in Abstract!Starts(p, r)
  BY <1>1, <1>2, StartsIs
<1> QED
  BY <1>3, WalkScanned DEF S, p, r

\* tryWakeNext settles the set view: it starts pending cores and, if the
\* phase is over, the next phase.
LEMMA TryWakeNextSettles ==
    ASSUME NEW b, WF(b), NEW done, Scanned(b, done), NEW d \in TryWakeNext(b)
    PROVE  LET still == IF d.phaseCount = b.phaseCount THEN done ELSE {}
               p == Pend(b, done)
               r == InState(b, "RUNNING")
           IN  /\ Scanned(d, still)
               /\ IF p = {} /\ r = {} /\ done # {}
                  THEN \E S \in Abstract!Starts(done, {}) :
                         Pend(d, still) = done \ S /\ InState(d, "RUNNING") = S /\ still = {}
                  ELSE \E S \in Abstract!Starts(p, r) :
                         /\ Pend(d, still) = p \ S /\ InState(d, "RUNNING") = r \cup S
                         /\ still = done
<1> DEFINE still == IF d.phaseCount = b.phaseCount THEN done ELSE {}
           p == Pend(b, done)
           r == InState(b, "RUNNING")
           c == CheckRunList(b)
<1>1. /\ WF(c) /\ Settled(c) /\ c.phaseCount = b.phaseCount
  BY WalkKeepsWF
<1>2. /\ ToWake(b) \in Abstract!Starts(p, r)
      /\ Scanned(c, done)
      /\ InState(c, "RUNNING") = r \cup ToWake(b)
      /\ Pend(c, done) = p \ ToWake(b)
  BY WalkStarts
<1>3. PICK e \in CheckEndPhase(c) : d = CheckRunList(e)
  BY DEF TryWakeNext
<1>4. /\ p \subseteq Tids /\ r \subseteq Tids
      /\ Pend(c, done) \subseteq Tids /\ InState(c, "RUNNING") \subseteq Tids
      /\ ToWake(b) \subseteq p
  <2>1. ToWake(b) \subseteq p
    BY <1>2 DEF Abstract!Starts, Abstract!kSubset
  <2> QED
    BY <2>1 DEF Pend, InState
<1> HIDE DEF c
<1>5. CASE PhaseEnds(c)
  <2>1. /\ Pend(c, done) = {} /\ InState(c, "RUNNING") = {} /\ done # {}
    BY <1>1, <1>2, <1>5, PhaseEndsWhen
  <2>2. p = {} /\ r = {}
    BY <1>2, <1>4, <2>1
  <2>3. e \in NextPhase(c)
    BY <1>3, <1>5 DEF CheckEndPhase
  <2>4. /\ WF(e) /\ e.curThreadIdx = 0 /\ e.phaseCount # b.phaseCount
        /\ \A t \in Tids : e.state[t] = c.state[t]
                           \/ (c.state[t] = "LEFT" /\ e.state[t] = "OFFLINE")
    BY <1>1, <1>5, <2>3, PhaseEndKeepsWF, RewoundAtPhaseEnd, PhaseEndCounted
  <2>5. InState(e, "RUNNING") = {} /\ Pend(e, {}) = done
    <3>1. InState(e, "RUNNING") = InState(c, "RUNNING") /\ InState(e, "WAITING") = InState(c, "WAITING")
      BY <2>4 DEF InState
    <3>2. InState(c, "WAITING") = done
      BY <1>2, <2>1 DEF Scanned, Pend, InState
    <3> QED
      BY <2>1, <3>1, <3>2 DEF Pend, InState
  <2>6. Scanned(e, {})
    <3> SUFFICES ASSUME NEW i \in 1..Len(e.runList)
                 PROVE  e.state[e.runList[i]] # "RUNNING" /\ ~(i <= e.curThreadIdx)
      BY DEF Scanned
    <3>1. e.runList[i] \in Tids /\ i \in Nat \ {0}
      <4>1. e.runList \in Seq(Tids)
        BY <2>4 DEF WF, Listing, Barriers
      <4> QED
        BY <4>1
    <3>2. e.state[e.runList[i]] # "RUNNING"
      BY <2>5, <3>1 DEF InState
    <3>3. ~(i <= e.curThreadIdx)
      BY <2>4, <3>1
    <3> QED
      BY <3>2, <3>3
  <2>7. d.phaseCount # b.phaseCount
    BY <1>3, <2>4, WalkKeepsWF
  <2>8. /\ ToWake(e) \in Abstract!Starts(done, {})
        /\ Scanned(d, {})
        /\ InState(d, "RUNNING") = {} \cup ToWake(e)
        /\ Pend(d, {}) = done \ ToWake(e)
    BY <1>3, <2>4, <2>5, <2>6, WalkStarts
  <2> HIDE DEF p, r
  <2> QED
    BY <2>1, <2>2, <2>7, <2>8 DEF p, r
<1>6. CASE ~PhaseEnds(c)
  <2>1. e = c
    BY <1>3, <1>6 DEF CheckEndPhase
  <2>2. d.phaseCount = b.phaseCount
    BY <1>1, <1>3, <2>1, WalkKeepsWF
  <2>3. /\ ToWake(c) \in Abstract!Starts(Pend(c, done), InState(c, "RUNNING"))
        /\ Scanned(d, done)
        /\ InState(d, "RUNNING") = InState(c, "RUNNING") \cup ToWake(c)
        /\ Pend(d, done) = Pend(c, done) \ ToWake(c)
    BY <1>1, <1>2, <1>3, <2>1, WalkStarts
  <2>4. Pend(c, done) = {} \/ Cardinality(InState(c, "RUNNING")) = ParallelThreads
    <3>1. c.runningThreads = Cardinality(InState(c, "RUNNING"))
      BY <1>1 DEF WF, Listing
    <3>2. CASE c.curThreadIdx = Len(c.runList)
      <4> SUFFICES ASSUME NEW t \in Tids, c.state[t] = "WAITING", t \notin done PROVE FALSE
        BY DEF Pend
      <4>1. t \in OnList(c) /\ Len(c.runList) \in Nat
        BY <1>1 DEF WF, Listing, Barriers
      <4>2. PICK i \in 1..Len(c.runList) : c.runList[i] = t
        BY <4>1 DEF OnList
      <4>3. i <= c.curThreadIdx
        BY <3>2, <4>1, <4>2
      <4> QED
        BY <1>2, <4>2, <4>3 DEF Scanned
    <3> QED
      BY <1>1, <3>1, <3>2 DEF Settled
  <2>5. ToWake(c) = {}
    BY <1>4, <2>3, <2>4, StartsNone
  <2>6. ~(p = {} /\ r = {} /\ done # {})
    <3>1. ASSUME p = {}, r = {}, done # {} PROVE FALSE
      <4>1. Pend(c, done) = {} /\ InState(c, "RUNNING") = {}
        BY <1>2, <1>4, <3>1
      <4> QED
        BY <1>1, <1>2, <1>6, <3>1, <4>1, PhaseEndsWhen
    <3> QED
      BY <3>1
  <2> HIDE DEF p, r
  <2>7. \E S \in Abstract!Starts(p, r) :
          Pend(d, still) = p \ S /\ InState(d, "RUNNING") = r \cup S /\ still = done
    BY <1>2, <2>2, <2>3, <2>5
  <2> QED
    BY <2>2, <2>3, <2>6, <2>7 DEF p, r
<1> QED
  BY <1>5, <1>6

-----------------------------------------------------------------------------
(* The refinement                                                          *)

\* The set view after an operation that leaves the sets p, r, d behind.
Outcome(p, r, d) ==
    IF p = {} /\ r = {} /\ d # {}
    THEN \E S \in Abstract!Starts(d, {}) :
           Pend(bar', served') = d \ S /\ InState(bar', "RUNNING") = S /\ served' = {}
    ELSE \E S \in Abstract!Starts(p, r) :
           Pend(bar', served') = p \ S /\ InState(bar', "RUNNING") = r \cup S /\ served' = d

\* The end of an operation settles the sets it starts from.
LEMMA CompleteSettles ==
    ASSUME NEW t \in Tids, NEW b, NEW where, NEW done, WF(b), Scanned(b, done),
           Complete(b, t, where, done), NEW p, NEW r,
           p = Pend(b, done), r = InState(b, "RUNNING")
    PROVE  Scanned(bar', served') /\ Outcome(p, r, done)
<1>1. /\ bar' \in TryWakeNext(b)
      /\ served' = IF bar'.phaseCount = b.phaseCount THEN done ELSE {}
  BY DEF Complete
<1> QED
  BY <1>1, TryWakeNextSettles DEF Outcome

\* Every orderly step is a step of the set view, or changes nothing in it.
LEMMA StepRefines ==
    ASSUME OrderlyInv, Scanned(bar, served), [OrderlyNext]_vars
    PROVE  Scanned(bar', served') /\ [Abstract!Next]_(Abstract!vars)
<1> DEFINE p == Pend(bar, served)
           r == InState(bar, "RUNNING")
<1>1. /\ WF(bar) /\ IndicesKnown(bar)
      /\ served \subseteq InState(bar, "WAITING")
  BY DEF OrderlyInv, Inv, Scanned
<1>2. ASSUME NEW t \in Tids, Join(t)
      PROVE  Scanned(bar', served') /\ Abstract!Join(t)
  <2> DEFINE b == Joining(bar, t)
  <2>1. bar.state[t] \in {"LEFT", "OFFLINE"} /\ RejoinAssert(bar, t)
    BY <1>1, <1>2 DEF Join, RejoinAssert, Rejoins, IndicesKnown
  <2>2. Complete(b, t, "unlocked", served)
    BY <1>2, <2>1 DEF Join
  <2>3. WF(b)
    BY <1>1, <2>1, JoiningWorks
  <2>4. Scanned(b, served) /\ Pend(b, served) = p \cup {t} /\ InState(b, "RUNNING") = r
    BY <1>1, <2>1, JoinScanned
  <2>5. t \notin p \cup r \cup served
    BY <1>1, <2>1 DEF Pend, InState
  <2> HIDE DEF b, p, r
  <2>6. Scanned(bar', served') /\ Outcome(p \cup {t}, r, served)
    BY <2>2, <2>3, <2>4, CompleteSettles
  <2> QED
    BY <2>5, <2>6 DEF Abstract!Join, Abstract!Settles, Outcome, Pend, InState, p, r
<1>3. ASSUME NEW t \in Tids, Sync(t)
      PROVE  Scanned(bar', served') /\ Abstract!Sync(t)
  <2> DEFINE b == Syncing(bar, t)
             done == served \cup {t}
  <2>1. bar.state[t] = "RUNNING" /\ Complete(b, t, "unlocked", done)
    BY <1>3 DEF Sync
  <2>2. WF(b)
    BY <1>1, <2>1, StopRunning
  <2>3. Scanned(b, done) /\ Pend(b, done) = p /\ InState(b, "RUNNING") = r \ {t}
    BY <1>1, <2>1, StopScanned
  <2>4. t \in r
    BY <2>1 DEF InState
  <2> HIDE DEF b, p, r, done
  <2>5. Scanned(bar', served') /\ Outcome(p, r \ {t}, done)
    BY <2>1, <2>2, <2>3, CompleteSettles
  <2> QED
    BY <2>4, <2>5 DEF Abstract!Sync, Abstract!Settles, Outcome, Pend, InState, p, r, done
<1>4. ASSUME NEW t \in Tids, OrderlyLeave(t)
      PROVE  Scanned(bar', served') /\ Abstract!Leave(t)
  <2> DEFINE b == Leaving(bar, t)
  <2>1. bar.state[t] = "RUNNING" /\ Complete(b, t, "out", served)
    BY <1>4 DEF OrderlyLeave, Leave
  <2>2. WF(b)
    BY <1>1, <2>1, StopRunning
  <2>3. Scanned(b, served) /\ Pend(b, served) = p /\ InState(b, "RUNNING") = r \ {t}
    BY <1>1, <2>1, StopScanned
  <2>4. t \in r
    BY <2>1 DEF InState
  <2> HIDE DEF b, p, r
  <2>5. Scanned(bar', served') /\ Outcome(p, r \ {t}, served)
    BY <2>1, <2>2, <2>3, CompleteSettles
  <2> QED
    BY <2>4, <2>5 DEF Abstract!Leave, Abstract!Settles, Outcome, Pend, InState, p, r
<1>5. ASSUME UNCHANGED vars \/ \E t \in Tids : WaitLoop(t)
      PROVE  Scanned(bar', served') /\ UNCHANGED Abstract!vars
  <2>1. bar' = bar /\ served' = served
    BY <1>5 DEF vars, WaitLoop, TestState, FutexWait, Interrupted, Resume
  <2> QED
    BY <2>1 DEF Abstract!vars
<1> QED
  BY <1>2, <1>3, <1>4, <1>5 DEF OrderlyNext, Abstract!Next

\* The barrier of cores that leave by themselves implements the barrier over
\* sets: no slot stays free while a core is pending, no core runs twice in
\* a phase, and a phase ends exactly when everybody in the barrier ran.
THEOREM ImplementsPhaseBarrier == OrderlySpec => PhaseBarrierSpec
<1>1. Init => Scanned(bar, served) /\ Abstract!Init
  <2> SUFFICES ASSUME Init PROVE Scanned(bar, served) /\ Abstract!Init
    OBVIOUS
  <2>1. bar.state = [t \in Tids |-> "OFFLINE"] /\ bar.runList = << >> /\ served = {}
    BY DEF Init, NewBarrier
  <2> QED
    BY <2>1 DEF Scanned, InState, Abstract!Init
<1>2. OrderlyInv /\ Scanned(bar, served) /\ [OrderlyNext]_vars
        => Scanned(bar, served)' /\ [Abstract!Next]_(Abstract!vars)
  BY StepRefines
<1> QED
  BY <1>1, <1>2, InitInv, OrderlyNextInv, PTL DEF OrderlySpec, PhaseBarrierSpec, Abstract!Spec
=============================================================================
