-------------------------- MODULE BarrierOpsProofs --------------------------
(***************************************************************************)
(* What the operators of module BarrierOps preserve: the invariant Listing *)
(* of the Barrier object, the two counters among it, and the absence of    *)
(* stranded cores that tryWakeNext restores.  The proofs of the barrier's  *)
(* theorems (module BarrierProofs) rest on these lemmas.                   *)
(***************************************************************************)
EXTENDS BarrierOps, FiniteSetTheorems, WellFoundedInduction, TLAPS

\* A core that runs or has left knows where it is in the run list.
IndicesKnown(b) ==
    \A t \in Tids : b.state[t] \in {"RUNNING", "LEFT"} =>
        b.lastIdx[t] \in 1..Len(b.runList) /\ b.runList[b.lastIdx[t]] = t

\* No slot is free, or the whole list has been examined.
Settled(b) == b.curThreadIdx = Len(b.runList) \/ b.runningThreads = ParallelThreads

-----------------------------------------------------------------------------
(* Numbers, lists and counts                                               *)

\* A nonempty set of naturals has a least element.
LEMMA LeastElement ==
    ASSUME NEW S, S \subseteq Nat, S # {}
    PROVE  \E x \in S : \A y \in S : x <= y
<1>1. PICK x \in S : \A y \in S : ~(<<y, x>> \in OpToRel(<, Nat))
  BY NatLessThanWellFounded, WFMin
<1>2. \A y \in S : ~(y < x)
  BY <1>1 DEF OpToRel
<1>3. \A y \in S : y \in Nat /\ x \in Nat
  OBVIOUS
<1> QED BY <1>2, <1>3

\* Any set of cores is finite, and its size is a natural number.
LEMMA CoresFinite ==
    ASSUME NEW S, S \subseteq Tids
    PROVE  IsFiniteSet(S) /\ Cardinality(S) \in Nat
BY FS_Subset, FS_CardinalityType, BarrierAssumption DEF BarrierAssumption

\* A run list without repetitions has as many cores as it has entries, and
\* so has any part of it.
LEMMA CountEntries ==
    ASSUME NEW b, b.runList \in Seq(Tids), IsInjective(b.runList),
           NEW I, I \subseteq 1..Len(b.runList)
    PROVE  /\ IsFiniteSet(I)
           /\ Cardinality({b.runList[i] : i \in I}) = Cardinality(I)
           /\ Cardinality(I) \in Nat
<1> DEFINE S == {b.runList[i] : i \in I}
           f == [i \in I |-> b.runList[i]]
<1>0. Len(b.runList) \in Nat /\ DOMAIN b.runList = 1..Len(b.runList)
  OBVIOUS
<1>1. IsFiniteSet(I)
  <2>1. IsFiniteSet(1..Len(b.runList))
    BY <1>0, FS_Interval
  <2> QED
    BY <2>1, FS_Subset
<1>2. \A i, j \in I : b.runList[i] = b.runList[j] => i = j
  BY <1>0 DEF IsInjective
<1>3. f \in Bijection(I, S)
  BY <1>2 DEF Bijection, Injection, Surjection, IsInjective
<1>4. ExistsBijection(I, S)
  BY <1>3 DEF ExistsBijection
<1> QED
  BY <1>1, <1>4, FS_Bijection, FS_CardinalityType

\* A list without repetition is as long as its cores are many.
LEMMA CountList ==
    ASSUME NEW b, b.runList \in Seq(Tids), IsInjective(b.runList)
    PROVE  Cardinality(OnList(b)) = Len(b.runList)
<1>1. Len(b.runList) \in Nat
  OBVIOUS
<1>2. Cardinality(1..Len(b.runList)) = Len(b.runList)
  BY <1>1, FS_Interval
<1> QED
  BY <1>2, CountEntries DEF OnList

\* An entry's position is where the list holds it.
LEMMA PositionIs ==
    ASSUME NEW b, b.runList \in Seq(Tids), IsInjective(b.runList),
           NEW i \in 1..Len(b.runList)
    PROVE  PositionOf(b, b.runList[i]) = i
<1>1. DOMAIN b.runList = 1..Len(b.runList)
  OBVIOUS
<1>2. \A j \in 1..Len(b.runList) : b.runList[j] = b.runList[i] => j = i
  BY <1>1 DEF IsInjective
<1> QED
  BY <1>2 DEF PositionOf

-----------------------------------------------------------------------------
(* checkRunList                                                            *)

\* A stretch of the list holds finitely many waiting cores.
LEMMA WaitingFinite ==
    ASSUME NEW b, NEW lo \in Nat, NEW c \in Int
    PROVE  /\ IsFiniteSet(WaitingBetween(b, lo, c))
           /\ Cardinality(WaitingBetween(b, lo, c)) \in Nat
<1>1. IsFiniteSet((lo + 1)..c)
  <2>1. lo + 1 \in Int
    OBVIOUS
  <2> QED
    BY <2>1, FS_Interval
<1>2. WaitingBetween(b, lo, c) \subseteq (lo + 1)..c
  BY DEF WaitingBetween
<1> QED
  BY <1>1, <1>2, FS_Subset, FS_CardinalityType

\* One entry more adds at most one waiting core.
LEMMA WaitingOneMore ==
    ASSUME NEW b, b.runList \in Seq(Tids), NEW lo \in Nat, NEW c \in Nat, lo < c
    PROVE  LET W == WaitingBetween(b, lo, c)
               V == WaitingBetween(b, lo, c - 1)
           IN  /\ IsFiniteSet(W) /\ IsFiniteSet(V)
               /\ Cardinality(W) \in Nat /\ Cardinality(V) \in Nat
               /\ Cardinality(W) <= Cardinality(V) + 1
<1> DEFINE W == WaitingBetween(b, lo, c)
           V == WaitingBetween(b, lo, c - 1)
<1>1. IsFiniteSet(W) /\ IsFiniteSet(V)
  BY WaitingFinite
<1>2. W \subseteq V \cup {c}
  BY DEF WaitingBetween
<1>3. IsFiniteSet(V \cup {c}) /\ Cardinality(V \cup {c}) <= Cardinality(V) + 1
  <2>1. /\ IsFiniteSet(V \cup {c})
        /\ \/ Cardinality(V \cup {c}) = Cardinality(V)
           \/ Cardinality(V \cup {c}) = Cardinality(V) + 1
    BY <1>1, FS_AddElement
  <2>2. Cardinality(V) \in Nat
    BY <1>1, FS_CardinalityType
  <2> QED
    BY <2>1, <2>2
<1>4. Cardinality(W) \in Nat /\ Cardinality(V) \in Nat
  BY <1>1, FS_CardinalityType
<1>5. Cardinality(W) <= Cardinality(V \cup {c})
  BY <1>2, <1>3, FS_Subset
<1>6. Cardinality(V \cup {c}) \in Nat
  BY <1>3, FS_CardinalityType
<1> QED
  BY <1>1, <1>3, <1>4, <1>5, <1>6

\* The walk stops at the end of the list or with all the slots taken, and
\* never takes more slots than there are.
LEMMA ScanEndStops ==
    ASSUME NEW b, WF(b)
    PROVE  LET c == ScanEnd(b)
               n == Cardinality(WaitingBetween(b, b.curThreadIdx, c))
           IN  /\ c \in b.curThreadIdx..Len(b.runList)
               /\ n \in Nat
               /\ b.runningThreads + n <= ParallelThreads
               /\ c = Len(b.runList) \/ b.runningThreads + n = ParallelThreads
<1> DEFINE lo == b.curThreadIdx
           len == Len(b.runList)
           count(d) == Cardinality(WaitingBetween(b, lo, d))
           stops(d) == d = len \/ b.runningThreads + count(d) >= ParallelThreads
           S == {d \in lo..len : stops(d)}
           c == ScanEnd(b)
<1>1. /\ b.runList \in Seq(Tids) /\ lo \in Nat /\ len \in Nat /\ lo <= len
      /\ b.runningThreads \in 0..ParallelThreads /\ ParallelThreads \in Nat
  BY BarrierAssumption DEF WF, Listing, Barriers, BarrierAssumption
<1>2. \A d \in lo..len : count(d) \in Nat
  BY <1>1, WaitingFinite
<1>3. \E x \in S : \A y \in S : x <= y
  <2>1. len \in S /\ S \subseteq Nat
    BY <1>1
  <2> QED
    BY <2>1, LeastElement
<1>4. PICK x \in S : \A y \in S : x <= y
  BY <1>3
<1>5. \A d \in lo..(x - 1) : b.runningThreads + count(d) < ParallelThreads
  <2> TAKE d \in lo..(x - 1)
  <2>1. d \in lo..len /\ d \notin S
    BY <1>1, <1>4
  <2>2. ~stops(d)
    BY <2>1
  <2> QED
    BY <2>1, <2>2, <1>1, <1>2
<1> HIDE DEF stops
<1>6. /\ c \in lo..len
      /\ stops(c)
      /\ \A d \in lo..(c - 1) : b.runningThreads + count(d) < ParallelThreads
  BY <1>4, <1>5 DEF ScanEnd, stops
<1>7. \/ c = len
      \/ b.runningThreads + count(c) >= ParallelThreads
  BY <1>6 DEF stops
<1>8. b.runningThreads + count(c) <= ParallelThreads
  <2>1. CASE c = lo
    <3>1. WaitingBetween(b, lo, c) = {}
      BY <1>1, <2>1 DEF WaitingBetween
    <3>2. count(c) = 0
      BY <3>1, FS_EmptySet
    <3> QED
      BY <1>1, <3>2
  <2>2. CASE c # lo
    <3>1. lo < c /\ c \in Nat /\ c - 1 \in lo..(c - 1) /\ c - 1 \in lo..len
      BY <1>1, <1>6, <2>2
    <3>2. b.runningThreads + count(c - 1) < ParallelThreads
      BY <3>1, <1>6
    <3>3. count(c) <= count(c - 1) + 1
      BY <1>1, <3>1, WaitingOneMore
    <3>4. count(c) \in Nat /\ count(c - 1) \in Nat
      BY <1>2, <1>6, <3>1
    <3> HIDE DEF count
    <3> QED
      BY <1>1, <3>2, <3>3, <3>4
  <2> QED
    BY <2>1, <2>2
<1>9. count(c) \in Nat
  BY <1>2, <1>6
<1> HIDE DEF c
<1>10. /\ c \in lo..len
       /\ count(c) \in Nat
       /\ b.runningThreads + count(c) <= ParallelThreads
       /\ c = len \/ b.runningThreads + count(c) = ParallelThreads
  <2> HIDE DEF count
  <2> QED
    BY <1>1, <1>6, <1>7, <1>8, <1>9
<1> QED
  BY <1>10 DEF c

\* What the walk does, field by field.
LEMMA WalkFields ==
    ASSUME NEW b, WF(b)
    PROVE  LET d == CheckRunList(b)
               W == WaitingBetween(b, b.curThreadIdx, ScanEnd(b))
           IN  /\ d \in Barriers
               /\ d.state = [t \in Tids |-> IF t \in ToWake(b) THEN "RUNNING" ELSE b.state[t]]
               /\ d.futexWord = [t \in Tids |-> IF t \in ToWake(b) THEN 0 ELSE b.futexWord[t]]
               /\ d.lastIdx = [t \in Tids |-> IF t \in ToWake(b) THEN PositionOf(b, t)
                                              ELSE b.lastIdx[t]]
               /\ d.runList = b.runList
               /\ d.curThreadIdx = ScanEnd(b)
               /\ d.runningThreads = b.runningThreads + Cardinality(W)
               /\ d.leftThreads = b.leftThreads
               /\ d.phaseCount = b.phaseCount
<1> DEFINE d == CheckRunList(b)
           W == WaitingBetween(b, b.curThreadIdx, ScanEnd(b))
<1>1. /\ b \in Barriers /\ b.runList \in Seq(Tids) /\ IsInjective(b.runList)
      /\ Len(b.runList) \in Nat /\ b.curThreadIdx \in Nat
  BY DEF WF, Listing, Barriers
<1>2. /\ ScanEnd(b) \in b.curThreadIdx..Len(b.runList)
      /\ b.runningThreads + Cardinality(W) \in 0..ParallelThreads
  <2>1. /\ Cardinality(W) \in Nat
        /\ b.runningThreads + Cardinality(W) <= ParallelThreads
        /\ ScanEnd(b) \in b.curThreadIdx..Len(b.runList)
    BY ScanEndStops
  <2>2. b.runningThreads \in Nat /\ ParallelThreads \in Nat
    BY <1>1, BarrierAssumption DEF Barriers, BarrierAssumption
  <2> QED
    BY <2>1, <2>2
<1>3. \A t \in ToWake(b) : PositionOf(b, t) \in Nat \ {0}
  <2> TAKE t \in ToWake(b)
  <2>1. PICK i \in W : t = b.runList[i]
    BY DEF ToWake
  <2>2. i \in 1..Len(b.runList)
    BY <1>1, <1>2 DEF WaitingBetween
  <2> QED
    BY <1>1, <2>1, <2>2, PositionIs
<1> HIDE DEF W
<1>4. /\ d.state = [t \in Tids |-> IF t \in ToWake(b) THEN "RUNNING" ELSE b.state[t]]
      /\ d.futexWord = [t \in Tids |-> IF t \in ToWake(b) THEN 0 ELSE b.futexWord[t]]
      /\ d.lastIdx = [t \in Tids |-> IF t \in ToWake(b) THEN PositionOf(b, t)
                                     ELSE b.lastIdx[t]]
      /\ d.runList = b.runList
      /\ d.curThreadIdx = ScanEnd(b)
      /\ d.runningThreads = b.runningThreads + Cardinality(W)
      /\ d.leftThreads = b.leftThreads
      /\ d.phaseCount = b.phaseCount
  BY <1>1 DEF CheckRunList, Barriers, W
<1>5. /\ d.state \in [Tids -> States]
      /\ d.futexWord \in [Tids -> {0, 1}]
      /\ d.lastIdx \in [Tids -> Nat \ {0}]
      /\ ScanEnd(b) \in Nat
  BY <1>1, <1>2, <1>3, <1>4 DEF Barriers, States
<1>6. d \in Barriers
  <2> DEFINE st == d.state
             fw == d.futexWord
             li == d.lastIdx
             rt == d.runningThreads
  <2>1. d = [b EXCEPT !.state = st, !.futexWord = fw, !.lastIdx = li,
                      !.curThreadIdx = ScanEnd(b), !.runningThreads = rt]
    BY <1>1, <1>4 DEF CheckRunList, Barriers, W
  <2>2. /\ st \in [Tids -> States] /\ fw \in [Tids -> {0, 1}]
        /\ li \in [Tids -> Nat \ {0}] /\ rt \in 0..ParallelThreads
    BY <1>2, <1>4, <1>5
  <2> HIDE DEF st, fw, li, rt, d
  <2> QED
    BY <1>1, <1>5, <2>1, <2>2 DEF Barriers
<1> QED
  BY <1>4, <1>6 DEF W

\* The cores the walk wakes are as many as the entries it wakes, and waited.
LEMMA WokenCount ==
    ASSUME NEW b, WF(b)
    PROVE  LET W == WaitingBetween(b, b.curThreadIdx, ScanEnd(b))
           IN  /\ W \subseteq 1..Len(b.runList)
               /\ IsFiniteSet(ToWake(b))
               /\ Cardinality(ToWake(b)) = Cardinality(W)
               /\ Cardinality(W) \in Nat
               /\ ToWake(b) \subseteq InState(b, "WAITING")
<1> DEFINE W == WaitingBetween(b, b.curThreadIdx, ScanEnd(b))
<1>1. /\ b.runList \in Seq(Tids) /\ IsInjective(b.runList)
      /\ Len(b.runList) \in Nat /\ b.curThreadIdx \in Nat
  BY DEF WF, Listing, Barriers
<1>2. ScanEnd(b) \in b.curThreadIdx..Len(b.runList)
  BY ScanEndStops
<1>3. W \subseteq 1..Len(b.runList)
  BY <1>1, <1>2 DEF WaitingBetween
<1>4. ToWake(b) \subseteq InState(b, "WAITING")
  BY <1>1, <1>3 DEF ToWake, InState, WaitingBetween
<1>5. IsFiniteSet(ToWake(b))
  BY <1>4, CoresFinite DEF InState
<1> QED
  BY <1>1, <1>3, <1>4, <1>5, CountEntries DEF ToWake

\* The walk keeps the invariant, ends settled, and its wakeups succeed.
LEMMA WalkKeepsWF ==
    ASSUME NEW b, WF(b)
    PROVE  LET d == CheckRunList(b)
           IN  /\ WF(d)
               /\ Settled(d)
               /\ WakeupsSucceed(b)
               /\ d.runningThreads >= b.runningThreads
               /\ d.runningThreads = 0 => \A t \in Tids : d.state[t] = b.state[t]
               /\ \A t \in Tids : \/ d.state[t] = b.state[t]
                                  \/ (b.state[t] = "WAITING" /\ d.state[t] = "RUNNING")
               /\ d.phaseCount = b.phaseCount
<1> DEFINE d == CheckRunList(b)
           W == WaitingBetween(b, b.curThreadIdx, ScanEnd(b))
           T == ToWake(b)
<1>1. /\ b \in Barriers /\ b.runList \in Seq(Tids) /\ IsInjective(b.runList)
      /\ Len(b.runList) \in Nat /\ b.curThreadIdx \in Nat
      /\ b.state \in [Tids -> States] /\ b.runningThreads \in Nat
      /\ ParallelThreads \in Nat
  BY BarrierAssumption DEF WF, Listing, Barriers, BarrierAssumption
<1>2. /\ d \in Barriers
      /\ d.state = [t \in Tids |-> IF t \in T THEN "RUNNING" ELSE b.state[t]]
      /\ d.futexWord = [t \in Tids |-> IF t \in T THEN 0 ELSE b.futexWord[t]]
      /\ d.runList = b.runList
      /\ d.curThreadIdx = ScanEnd(b)
      /\ d.runningThreads = b.runningThreads + Cardinality(W)
      /\ d.leftThreads = b.leftThreads
      /\ d.phaseCount = b.phaseCount
  BY WalkFields
<1>3. /\ IsFiniteSet(T) /\ Cardinality(T) = Cardinality(W) /\ Cardinality(W) \in Nat
      /\ T \subseteq InState(b, "WAITING") /\ W \subseteq 1..Len(b.runList)
  BY WokenCount
<1>4. /\ ScanEnd(b) \in b.curThreadIdx..Len(b.runList)
      /\ ScanEnd(b) = Len(b.runList) \/ b.runningThreads + Cardinality(W) = ParallelThreads
  BY ScanEndStops
<1> HIDE DEF d, T, W
<1>5. \A t \in Tids : \/ d.state[t] = b.state[t]
                      \/ (b.state[t] = "WAITING" /\ d.state[t] = "RUNNING")
  BY <1>2, <1>3 DEF InState
<1>6. WakeupsSucceed(b)
  BY <1>3 DEF WakeupsSucceed, WordsMatch, InState, WF, Listing, T
<1>7. d.runningThreads = 0 => \A t \in Tids : d.state[t] = b.state[t]
  <2> SUFFICES ASSUME d.runningThreads = 0 PROVE T = {}
    BY <1>2
  <2>1. Cardinality(T) = 0
    BY <1>1, <1>2, <1>3
  <2> QED
    BY <2>1, <1>3, FS_EmptySet
<1>8. Settled(d) /\ d.runningThreads >= b.runningThreads
  BY <1>1, <1>2, <1>3, <1>4 DEF Settled
<1>9. WF(d)
  <2>1. OnList(d) = {t \in Tids : d.state[t] # "OFFLINE"}
    BY <1>1, <1>2, <1>5 DEF WF, Listing, OnList
  <2>2. d.runningThreads = Cardinality(InState(d, "RUNNING"))
    <3> DEFINE R == InState(b, "RUNNING")
    <3>1. IsFiniteSet(R) /\ Cardinality(R) = b.runningThreads
      BY CoresFinite DEF WF, Listing, InState
    <3>2. InState(d, "RUNNING") = R \cup T /\ R \cap T = {}
      BY <1>1, <1>2, <1>3 DEF InState
    <3>3. Cardinality(R \cup T) = Cardinality(R) + Cardinality(T) - Cardinality(R \cap T)
      BY <3>1, <1>3, FS_Union
    <3>4. Cardinality(R \cap T) = 0
      BY <3>2, FS_EmptySet
    <3>5. Cardinality(R \cup T) = Cardinality(R) + Cardinality(T)
      BY <1>1, <1>3, <3>1, <3>3, <3>4
    <3> QED
      BY <1>2, <1>3, <3>1, <3>2, <3>5
  <2>3. d.leftThreads = Cardinality(InState(d, "LEFT"))
    <3>1. InState(d, "LEFT") = InState(b, "LEFT")
      BY <1>2, <1>3 DEF InState
    <3> QED
      BY <1>2, <3>1 DEF WF, Listing
  <2>4. WordsMatch(d)
    BY <1>2 DEF WordsMatch, WF, Listing
  <2> QED
    BY <1>1, <1>2, <1>4, <2>1, <2>2, <2>3, <2>4 DEF WF, Listing
<1> QED
  BY <1>2, <1>5, <1>6, <1>7, <1>8, <1>9 DEF d

\* The walk records the position of every core it wakes.
LEMMA WalkKeepsIndices ==
    ASSUME NEW b, WF(b), IndicesKnown(b)
    PROVE  IndicesKnown(CheckRunList(b))
<1> DEFINE d == CheckRunList(b)
<1>1. /\ d.state = [t \in Tids |-> IF t \in ToWake(b) THEN "RUNNING" ELSE b.state[t]]
      /\ d.lastIdx = [t \in Tids |-> IF t \in ToWake(b) THEN PositionOf(b, t)
                                     ELSE b.lastIdx[t]]
      /\ d.runList = b.runList
  BY WalkFields
<1>2. b.runList \in Seq(Tids) /\ IsInjective(b.runList)
  BY DEF WF, Listing, Barriers
<1>3. \A t \in ToWake(b) : /\ PositionOf(b, t) \in 1..Len(b.runList)
                           /\ b.runList[PositionOf(b, t)] = t
  <2> TAKE t \in ToWake(b)
  <2>1. PICK i \in 1..Len(b.runList) : t = b.runList[i]
    BY WokenCount DEF ToWake
  <2> QED
    BY <1>2, <2>1, PositionIs
<1> HIDE DEF d
<1>4. IndicesKnown(d)
  BY <1>1, <1>3 DEF IndicesKnown
<1> QED
  BY <1>4 DEF d

-----------------------------------------------------------------------------
(* The end of a phase: compaction and shuffle                              *)

\* Kept entries and their number.
LEMMA KeptFacts ==
    ASSUME NEW b, WF(b)
    PROVE  /\ Kept(b) \subseteq 1..Len(b.runList)
           /\ IsFiniteSet(Kept(b))
           /\ Cardinality(Kept(b)) \in Nat
           /\ Cardinality(Kept(b)) <= Len(b.runList)
           /\ Len(b.runList) \in Nat
           /\ Len(b.runList) - Cardinality(Kept(b)) = b.leftThreads
<1> DEFINE K == Kept(b)
           L == 1..Len(b.runList)
           X == L \ K
<1>1. /\ b.runList \in Seq(Tids) /\ IsInjective(b.runList) /\ Len(b.runList) \in Nat
      /\ b.state \in [Tids -> States]
  BY DEF WF, Listing, Barriers
<1>2. K \subseteq L
  BY DEF Kept
<1>3. IsFiniteSet(L) /\ Cardinality(L) = Len(b.runList)
  <2>1. Len(b.runList) \in Nat
    BY <1>1
  <2>2. IsFiniteSet(1..Len(b.runList))
    BY <2>1, FS_Interval
  <2>3. Cardinality(1..Len(b.runList)) = Len(b.runList)
    BY <2>1, FS_Interval
  <2> QED
    BY <2>2, <2>3
<1>4. IsFiniteSet(K) /\ Cardinality(K) <= Cardinality(L)
  BY <1>2, <1>3, FS_Subset
<1>5. Cardinality(K) \in Nat
  BY <1>4, FS_CardinalityType
<1>6. Cardinality(X) = Cardinality(L) - Cardinality(K)
  <2>1. L \cap K = K
    BY <1>2
  <2>2. IsFiniteSet(L)
    BY <1>3
  <2> HIDE DEF K, L
  <2>3. Cardinality(L \ K) = Cardinality(L) - Cardinality(L \cap K)
    BY <2>2, FS_Difference, Zenon
  <2> QED
    BY <2>1, <2>3
<1>7. InState(b, "LEFT") = {b.runList[i] : i \in X}
  <2>1. \A t \in InState(b, "LEFT") : \E i \in X : t = b.runList[i]
    <3> TAKE t \in InState(b, "LEFT")
    <3>1. t \in OnList(b)
      BY DEF InState, WF, Listing
    <3>2. PICK i \in L : t = b.runList[i]
      BY <3>1 DEF OnList
    <3> QED
      BY <3>2 DEF InState, Kept
  <2>2. \A i \in X : b.runList[i] \in InState(b, "LEFT")
    BY <1>1 DEF InState, Kept
  <2> QED
    BY <2>1, <2>2
<1>8. Cardinality(InState(b, "LEFT")) = Cardinality(X)
  <2>1. X \subseteq L
    OBVIOUS
  <2> HIDE DEF X
  <2>2. b.runList \in Seq(Tids) /\ IsInjective(b.runList)
    BY <1>1
  <2>3. Cardinality({b.runList[i] : i \in X}) = Cardinality(X)
    BY <2>1, <2>2, CountEntries
  <2> QED
    BY <1>7, <2>3
<1>9. b.leftThreads = Cardinality(InState(b, "LEFT"))
  BY DEF WF, Listing
<1> HIDE DEF K, L, X
<1>10. Len(b.runList) - Cardinality(K) = b.leftThreads
  BY <1>1, <1>3, <1>5, <1>6, <1>8, <1>9
<1> QED
  BY <1>1, <1>2, <1>3, <1>4, <1>5, <1>10 DEF K, L

\* The index the compaction pass writes into lastIdx is an index.
LEMMA OpenHoleType ==
    ASSUME NEW b, WF(b), NEW m \in Fillings(b), NEW j \in Nat
    PROVE  OpenHole(b, m, j) \in Nat \ {0}
<1> DEFINE H == Holes(b)
           n == Cardinality(Kept(b))
           S == {i \in H : m[i] <= j}
<1>1. H \subseteq 1..n /\ n \in Nat
  BY KeptFacts DEF Holes
<1>2. \A i \in H : m[i] \in Nat
  <2>1. m \in [H -> TailKept(b)]
    BY DEF Fillings, Bijection, Injection
  <2>2. TailKept(b) \subseteq Nat
    BY KeptFacts DEF TailKept
  <2> QED
    BY <2>1, <2>2
<1> HIDE DEF n
<1>3. \E i \in H \cup {n + 1} : /\ i \in H => m[i] <= j
                               /\ \A h \in H : h < i => m[h] > j
  <2>1. CASE S = {}
    <3>1. n + 1 \notin H
      BY <1>1
    <3>2. \A h \in H : m[h] > j
      BY <2>1, <1>2
    <3> QED
      BY <3>1, <3>2
  <2>2. CASE S # {}
    <3>1. S \subseteq Nat
      BY <1>1
    <3>2. PICK i \in S : \A y \in S : i <= y
      BY <3>1, <2>2, LeastElement
    <3>3. \A h \in H : h < i => m[h] > j
      BY <3>1, <3>2, <1>1, <1>2
    <3> QED
      BY <3>2, <3>3
  <2> QED
    BY <2>1, <2>2
<1>4. OpenHole(b, m, j) \in H \cup {n + 1}
  BY <1>3 DEF OpenHole, n
<1> QED
  BY <1>1, <1>4

\* new lists, in the order g gives, the entries of list whose positions
\* are in K.
Reorders(new, list, K, n, g) ==
    /\ list \in Seq(Tids) /\ IsInjective(list) /\ K \subseteq 1..Len(list)
    /\ n \in Nat /\ g \in [1..n -> K]
    /\ \A i, j \in 1..n : g[i] = g[j] => i = j
    /\ \A k \in K : \E i \in 1..n : g[i] = k
    /\ new \in [1..n -> Tids]
    /\ \A i \in 1..n : new[i] = list[g[i]]

\* What a reordering of part of a run list is: a run list without
\* repetitions, of the same cores.
Reordering(new, list, K, n) ==
    /\ new \in Seq(Tids) /\ Len(new) = n /\ IsInjective(new)
    /\ \A i \in 1..n : \E k \in K : new[i] = list[k]
    /\ \A k \in K : \E i \in 1..n : new[i] = list[k]

\* Reordering part of a run list gives one.
LEMMA Reordered ==
    ASSUME NEW list, NEW K, NEW n, NEW g, NEW new, Reorders(new, list, K, n, g)
    PROVE  Reordering(new, list, K, n)
<1> USE DEF Reorders
<1>1. DOMAIN list = 1..Len(list) /\ \A k \in 1..Len(list) : list[k] \in Tids
  OBVIOUS
<1>2. \A i \in 1..n : g[i] \in 1..Len(list)
  OBVIOUS
<1>4. new \in Seq(Tids) /\ Len(new) = n /\ DOMAIN new = 1..n
  OBVIOUS
<1>5. IsInjective(new)
  BY <1>1, <1>2, <1>4 DEF IsInjective
<1>6. \A i \in 1..n : \E k \in K : new[i] = list[k]
  <2> TAKE i \in 1..n
  <2>1. g[i] \in K /\ new[i] = list[g[i]]
    OBVIOUS
  <2> QED
    BY <2>1
<1>7. \A k \in K : \E i \in 1..n : new[i] = list[k]
  <2> TAKE k \in K
  <2>1. PICK i \in 1..n : g[i] = k
    OBVIOUS
  <2>2. new[i] = list[k]
    BY <2>1
  <2> QED
    BY <2>2
<1> QED
  BY <1>4, <1>5, <1>6, <1>7 DEF Reordering

\* The compaction pass keeps the invariant but for the walk's position,
\* which is rewound after it, and nobody is LEFT.
LEMMA CompactionKeepsListing ==
    ASSUME NEW b, WF(b), NEW m \in Fillings(b)
    PROVE  LET d == Compacted(b, m)
           IN  /\ Listing(d)
               /\ Len(d.runList) = Cardinality(Kept(b))
               /\ d.curThreadIdx = b.curThreadIdx
               /\ d.runningThreads = b.runningThreads
               /\ d.phaseCount = b.phaseCount
               /\ d.state = [t \in Tids |-> IF b.state[t] = "LEFT" THEN "OFFLINE"
                                            ELSE b.state[t]]
<1> DEFINE d == Compacted(b, m)
           K == Kept(b)
           n == Cardinality(Kept(b))
           H == Holes(b)
           new == [i \in 1..n |-> IF i \in H THEN b.runList[m[i]] ELSE b.runList[i]]
           g == [i \in 1..n |-> IF i \in H THEN m[i] ELSE i]
           li == [t \in Tids |-> IF t \in OnList(b) /\ Taken(b, m, PositionOf(b, t))
                                 THEN OpenHole(b, m, PositionOf(b, t))
                                 ELSE b.lastIdx[t]]
           st == [t \in Tids |-> IF b.state[t] = "LEFT" THEN "OFFLINE" ELSE b.state[t]]
<1>1. /\ b \in Barriers /\ b.runList \in Seq(Tids) /\ IsInjective(b.runList)
      /\ b.state \in [Tids -> States] /\ b.lastIdx \in [Tids -> Nat \ {0}]
      /\ OnList(b) = {t \in Tids : b.state[t] # "OFFLINE"}
  BY DEF WF, Listing, Barriers
<1>2. K \subseteq 1..Len(b.runList) /\ n \in Nat /\ n <= Len(b.runList) /\ Len(b.runList) \in Nat
  BY KeptFacts
<1>3. d = [b EXCEPT !.runList = new, !.state = st, !.lastIdx = li, !.leftThreads = 0]
  BY <1>1 DEF Compacted, Barriers
<1>4. li \in [Tids -> Nat \ {0}]
  <2>1. \A t \in OnList(b) : PositionOf(b, t) \in Nat
    <3> TAKE t \in OnList(b)
    <3>1. PICK i \in 1..Len(b.runList) : t = b.runList[i]
      BY DEF OnList
    <3> QED
      BY <1>1, <3>1, PositionIs
  <2>2. \A t \in OnList(b) : OpenHole(b, m, PositionOf(b, t)) \in Nat \ {0}
    BY <2>1, OpenHoleType
  <2> QED
    BY <1>1, <2>2
<1>5. st \in [Tids -> States]
  BY <1>1 DEF States
<1>6. /\ g \in [1..n -> K]
      /\ \A i, j \in 1..n : g[i] = g[j] => i = j
      /\ \A k \in K : \E i \in 1..n : g[i] = k
  <2>1. /\ m \in [H -> TailKept(b)]
        /\ \A i, j \in H : m[i] = m[j] => i = j
        /\ \A k \in TailKept(b) : \E i \in H : m[i] = k
    BY DEF Fillings, Bijection, Injection, Surjection, IsInjective
  <2>2. /\ H = (1..n) \ K
        /\ TailKept(b) = K \ (1..n)
    BY DEF Holes, TailKept
  <2> HIDE DEF H, K, n
  <2>3. g \in [1..n -> K]
    BY <2>1, <2>2
  <2>4. \A i, j \in 1..n : g[i] = g[j] => i = j
    BY <2>1, <2>2
  <2>5. ASSUME NEW k \in K PROVE \E i \in 1..n : g[i] = k
    <3>1. CASE k \in 1..n
      BY <2>2, <3>1
    <3>2. CASE k \notin 1..n
      BY <2>1, <2>2, <3>2
    <3> QED
      BY <3>1, <3>2
  <2> QED
    BY <2>3, <2>4, <2>5
<1>7. new = [i \in 1..n |-> b.runList[g[i]]]
  OBVIOUS
<1> HIDE DEF new, g, li, st, K, n, H, d
<1>8. /\ new \in Seq(Tids) /\ Len(new) = n /\ IsInjective(new)
      /\ \A i \in 1..n : \E k \in K : new[i] = b.runList[k]
      /\ \A k \in K : \E i \in 1..n : new[i] = b.runList[k]
  <2> DEFINE list == b.runList
  <2>1. /\ list \in Seq(Tids) /\ IsInjective(list) /\ K \subseteq 1..Len(list)
        /\ new = [i \in 1..n |-> list[g[i]]]
    BY <1>1, <1>2, <1>7
  <2> HIDE DEF list
  <2>2. /\ new \in Seq(Tids) /\ Len(new) = n /\ IsInjective(new)
        /\ \A i \in 1..n : \E k \in K : new[i] = list[k]
        /\ \A k \in K : \E i \in 1..n : new[i] = list[k]
    <3>1. list \in Seq(Tids) /\ IsInjective(list) /\ K \subseteq 1..Len(list)
      BY <2>1
    <3>2. n \in Nat /\ g \in [1..n -> K]
      BY <1>2, <1>6
    <3>3. \A i \in 1..n : new[i] = list[g[i]]
      BY <2>1
    <3>4. \A i \in 1..n : list[g[i]] \in Tids
      <4> TAKE i \in 1..n
      <4>1. g[i] \in 1..Len(list)
        BY <3>1, <3>2
      <4> QED
        BY <3>1, <4>1
    <3>5. new \in [1..n -> Tids]
      BY <2>1, <3>4
    <3> HIDE DEF g
    <3>6. Reorders(new, list, K, n, g)
      BY <1>6, <3>1, <3>2, <3>3, <3>5 DEF Reorders
    <3> QED
      BY <3>6, Reordered DEF Reordering
  <2> QED
    BY <2>2 DEF list
<1>9. {b.runList[k] : k \in K} = {t \in Tids : st[t] # "OFFLINE"}
  <2>1. ASSUME NEW t \in Tids, st[t] # "OFFLINE" PROVE t \in {b.runList[k] : k \in K}
    <3>1. b.state[t] # "LEFT" /\ b.state[t] # "OFFLINE"
      BY <2>1 DEF st
    <3>2. PICK i \in 1..Len(b.runList) : t = b.runList[i]
      BY <1>1, <3>1 DEF OnList
    <3> QED
      BY <3>1, <3>2 DEF K, Kept
  <2>2. ASSUME NEW k \in K PROVE b.runList[k] \in Tids /\ st[b.runList[k]] # "OFFLINE"
    <3>1. k \in 1..Len(b.runList) /\ b.state[b.runList[k]] # "LEFT"
      BY <2>2 DEF K, Kept
    <3>2. b.runList[k] \in OnList(b) /\ b.runList[k] \in Tids
      BY <1>1, <3>1 DEF OnList
    <3> QED
      BY <1>1, <3>1, <3>2 DEF st
  <2> QED
    BY <2>1, <2>2
<1>10. /\ d.runList = new /\ d.state = st /\ d.leftThreads = 0
       /\ d.runningThreads = b.runningThreads /\ d.futexWord = b.futexWord
       /\ d.curThreadIdx = b.curThreadIdx /\ d.phaseCount = b.phaseCount
  BY <1>1, <1>3 DEF Barriers
<1>11. d \in Barriers
  BY <1>1, <1>3, <1>4, <1>5, <1>8 DEF Barriers
<1>12. OnList(d) = {t \in Tids : d.state[t] # "OFFLINE"}
  <2>1. OnList(d) = {new[i] : i \in 1..n}
    BY <1>8, <1>10 DEF OnList
  <2>2. {new[i] : i \in 1..n} = {b.runList[k] : k \in K}
    BY <1>8
  <2> QED
    BY <1>9, <1>10, <2>1, <2>2
<1>13. d.runningThreads = Cardinality(InState(d, "RUNNING"))
  <2>1. InState(d, "RUNNING") = InState(b, "RUNNING")
    BY <1>10 DEF InState, st
  <2> QED
    BY <1>10, <2>1 DEF WF, Listing
<1>14. d.leftThreads = Cardinality(InState(d, "LEFT"))
  <2>1. InState(d, "LEFT") = {}
    BY <1>10 DEF InState, st
  <2> QED
    BY <1>10, <2>1, FS_EmptySet
<1>15. WordsMatch(d)
  BY <1>10 DEF WordsMatch, WF, Listing, st
<1> QED
  BY <1>8, <1>10, <1>11, <1>12, <1>13, <1>14, <1>15 DEF Listing, d, st, n

\* The shuffle keeps the invariant, and the indices of those who left: the
\* one entry it may not write is the first when it stays the first.
LEMMA ShuffleKeepsListing ==
    ASSUME NEW b, Listing(b),
           NEW p \in Bijection(1..Len(b.runList), 1..Len(b.runList))
    PROVE  LET d == Shuffled(b, p)
           IN  /\ Listing(d)
               /\ Len(d.runList) = Len(b.runList)
               /\ d.curThreadIdx = b.curThreadIdx
               /\ d.runningThreads = b.runningThreads
               /\ d.phaseCount = b.phaseCount
               /\ d.state = b.state
               /\ IndicesKnown(b) => IndicesKnown(d)
<1> DEFINE d == Shuffled(b, p)
           n == Len(b.runList)
           new == [i \in 1..n |-> b.runList[p[i]]]
           at(t) == CHOOSE i \in 1..n : new[i] = t
           li == [t \in Tids |-> IF t \in OnList(b) /\ (PositionOf(b, t) # 1 \/ p[1] # 1)
                                 THEN at(t) ELSE b.lastIdx[t]]
<1>1. /\ b \in Barriers /\ b.runList \in Seq(Tids) /\ IsInjective(b.runList)
      /\ b.lastIdx \in [Tids -> Nat \ {0}] /\ n \in Nat
      /\ \A i \in 1..n : b.runList[i] \in Tids
      /\ OnList(b) = {t \in Tids : b.state[t] # "OFFLINE"}
  BY DEF Listing, Barriers
<1>2. /\ p \in [1..n -> 1..n]
      /\ \A i, j \in 1..n : p[i] = p[j] => i = j
      /\ \A k \in 1..n : \E i \in 1..n : p[i] = k
  BY DEF Bijection, Injection, Surjection, IsInjective
<1>3. d = [b EXCEPT !.runList = new, !.lastIdx = li]
  BY <1>1 DEF Shuffled, Barriers
<1>4. Reorders(new, b.runList, 1..n, n, p)
  <2>1. \A i \in 1..n : new[i] = b.runList[p[i]] /\ new[i] \in Tids
    BY <1>1, <1>2
  <2>2. new \in [1..n -> Tids]
    BY <2>1
  <2> HIDE DEF new, n
  <2> QED
    BY <1>1, <1>2, <2>1, <2>2 DEF Reorders, n
<1>5. /\ new \in Seq(Tids) /\ Len(new) = n /\ IsInjective(new)
      /\ \A i \in 1..n : \E k \in 1..n : new[i] = b.runList[k]
      /\ \A k \in 1..n : \E i \in 1..n : new[i] = b.runList[k]
  <2> DEFINE list == b.runList
             all == 1..n
  <2>1. Reorders(new, list, all, n, p)
    BY <1>4
  <2> HIDE DEF new, list, all
  <2>2. /\ new \in Seq(Tids) /\ Len(new) = n /\ IsInjective(new)
        /\ \A i \in 1..n : \E k \in all : new[i] = list[k]
        /\ \A k \in all : \E i \in 1..n : new[i] = list[k]
    <3> HIDE DEF n
    <3> QED
      BY <2>1, Reordered DEF Reordering
  <2> QED
    BY <2>2 DEF list, all
<1>6. \A t \in OnList(b) : at(t) \in 1..n /\ new[at(t)] = t
  <2> TAKE t \in OnList(b)
  <2>1. PICK k \in 1..n : t = b.runList[k]
    BY DEF OnList
  <2>2. \E i \in 1..n : new[i] = t
    BY <2>1, <1>5
  <2> QED
    BY <2>2
<1>7. li \in [Tids -> Nat \ {0}]
  <2> HIDE DEF at, new
  <2> QED
    BY <1>1, <1>6
<1> HIDE DEF d, new, li, at
<1>8. /\ d.runList = new /\ d.lastIdx = li /\ d.state = b.state
      /\ d.leftThreads = b.leftThreads /\ d.runningThreads = b.runningThreads
      /\ d.futexWord = b.futexWord /\ d.curThreadIdx = b.curThreadIdx
      /\ d.phaseCount = b.phaseCount
  BY <1>1, <1>3 DEF Barriers
<1>9. Listing(d)
  <2>1. d \in Barriers
    BY <1>1, <1>3, <1>5, <1>7 DEF Barriers
  <2>2. OnList(d) = OnList(b)
    <3>1. OnList(d) = {new[i] : i \in 1..n}
      BY <1>5, <1>8 DEF OnList
    <3>2. \A t : (\E i \in 1..n : t = new[i]) <=> (\E k \in 1..n : t = b.runList[k])
      BY <1>5
    <3>3. {new[i] : i \in 1..n} = {b.runList[k] : k \in 1..n}
      BY <3>2
    <3> QED
      BY <3>1, <3>3 DEF OnList
  <2>3. InState(d, "RUNNING") = InState(b, "RUNNING") /\ InState(d, "LEFT") = InState(b, "LEFT")
    BY <1>8 DEF InState
  <2> QED
    BY <1>5, <1>8, <2>1, <2>2, <2>3 DEF Listing, WordsMatch
<1>10. ASSUME IndicesKnown(b), NEW t \in Tids, d.state[t] \in {"RUNNING", "LEFT"}
       PROVE  d.lastIdx[t] \in 1..Len(d.runList) /\ d.runList[d.lastIdx[t]] = t
  <2>1. t \in OnList(b) /\ b.lastIdx[t] \in 1..n /\ b.runList[b.lastIdx[t]] = t
    BY <1>1, <1>8, <1>10 DEF IndicesKnown
  <2>2. PositionOf(b, t) = b.lastIdx[t]
    BY <1>1, <2>1, PositionIs
  <2>3. CASE PositionOf(b, t) # 1 \/ p[1] # 1
    BY <1>5, <1>6, <1>8, <2>1, <2>3 DEF li
  <2>4. CASE PositionOf(b, t) = 1 /\ p[1] = 1
    <3>1. li[t] = 1
      BY <2>1, <2>2, <2>4 DEF li
    <3>2. new[1] = b.runList[1] /\ 1 \in 1..n
      BY <2>1, <2>2, <2>4 DEF new
    <3> QED
      BY <1>5, <1>8, <2>1, <2>2, <2>4, <3>1, <3>2
  <2> QED
    BY <2>3, <2>4
<1> QED
  BY <1>5, <1>8, <1>9, <1>10 DEF IndicesKnown, d, n

\* The end of a phase keeps the invariant and examines the list anew;
\* nobody has become RUNNING, and a core that waits still waits.
LEMMA PhaseEndKeepsWF ==
    ASSUME NEW b, WF(b), PhaseEnds(b), NEW d \in NextPhase(b)
    PROVE  /\ WF(d)
           /\ d.runningThreads = b.runningThreads
           /\ \A t \in Tids : d.state[t] = b.state[t]
                              \/ (b.state[t] = "LEFT" /\ d.state[t] = "OFFLINE")
           /\ IndicesKnown(b) => IndicesKnown(d)
<1> DEFINE rewound(c) == [c EXCEPT !.curThreadIdx = 0, !.phaseCount = (@ + 1) % PhaseWrap]
<1>1. PICK c \in Cleanup(b) : d \in Shuffle(rewound(c))
  BY DEF NextPhase
<1>2. b \in Barriers /\ Listing(b)
  BY DEF WF, Listing
<1>3. /\ Listing(c)
      /\ c.runningThreads = b.runningThreads
      /\ c.phaseCount = b.phaseCount
      /\ \A t \in Tids : c.state[t] = b.state[t]
                         \/ (b.state[t] = "LEFT" /\ c.state[t] = "OFFLINE")
      /\ IndicesKnown(b) => IndicesKnown(c)
  <2>1. CASE c = b
    BY <1>2, <2>1
  <2>2. CASE \E m \in Fillings(b) : c = Compacted(b, m)
    <3>1. PICK m \in Fillings(b) : c = Compacted(b, m)
      BY <2>2
    <3>2. /\ Listing(c)
          /\ c.runningThreads = b.runningThreads
          /\ c.phaseCount = b.phaseCount
          /\ c.state = [t \in Tids |-> IF b.state[t] = "LEFT" THEN "OFFLINE" ELSE b.state[t]]
      BY <3>1, CompactionKeepsListing
    <3>3. InState(b, "RUNNING") = {}
      <4>1. Cardinality(InState(b, "RUNNING")) = 0 /\ IsFiniteSet(InState(b, "RUNNING"))
        BY <1>2, CoresFinite DEF PhaseEnds, Listing, InState
      <4> QED
        BY <4>1, FS_EmptySet
    <3>4. \A t \in Tids : c.state[t] \notin {"RUNNING", "LEFT"}
      BY <3>2, <3>3 DEF InState
    <3> QED
      BY <3>2, <3>4 DEF IndicesKnown
  <2> QED
    BY <1>1, <2>1, <2>2 DEF Cleanup
<1>4. (b.phaseCount + 1) % PhaseWrap \in 0..(PhaseWrap - 1)
  BY <1>2, BarrierAssumption DEF Barriers, BarrierAssumption
<1> DEFINE e == rewound(c)
<1>6. /\ e.curThreadIdx = 0
      /\ e.phaseCount = (b.phaseCount + 1) % PhaseWrap
      /\ e.state = c.state /\ e.futexWord = c.futexWord /\ e.lastIdx = c.lastIdx
      /\ e.runList = c.runList /\ e.runningThreads = c.runningThreads
      /\ e.leftThreads = c.leftThreads
      /\ e \in Barriers
  BY <1>3, <1>4 DEF Listing, Barriers
<1> HIDE DEF rewound, e
<1>7. Listing(e) /\ (IndicesKnown(c) => IndicesKnown(e))
  BY <1>3, <1>6 DEF Listing, WordsMatch, OnList, InState, IndicesKnown
<1>8. /\ Listing(d)
      /\ d.curThreadIdx = e.curThreadIdx
      /\ d.runningThreads = e.runningThreads
      /\ d.phaseCount = e.phaseCount
      /\ d.state = e.state
      /\ IndicesKnown(e) => IndicesKnown(d)
  <2>1. CASE d = e
    BY <1>7, <2>1
  <2>2. CASE \E p \in Bijection(1..Len(e.runList), 1..Len(e.runList)) : d = Shuffled(e, p)
    BY <1>7, <2>2, ShuffleKeepsListing
  <2> QED
    BY <1>1, <2>1, <2>2 DEF Shuffle, e
<1>9. WF(d)
  <2>1. Len(d.runList) \in Nat
    BY <1>8 DEF Listing, Barriers
  <2> QED
    BY <1>6, <1>8, <2>1 DEF WF
<1> QED
  BY <1>3, <1>6, <1>7, <1>8, <1>9

\* The end of a phase rewinds the walk.
LEMMA RewoundAtPhaseEnd ==
    ASSUME NEW b, WF(b), NEW d \in NextPhase(b)
    PROVE  d.curThreadIdx = 0
<1> DEFINE rewound(c) == [c EXCEPT !.curThreadIdx = 0, !.phaseCount = (@ + 1) % PhaseWrap]
<1>1. PICK c \in Cleanup(b) : d \in Shuffle(rewound(c))
  BY DEF NextPhase
<1>2. c \in Barriers
  <2>1. b \in Barriers
    BY DEF WF, Listing
  <2>2. \A m \in Fillings(b) : Compacted(b, m) \in Barriers
    BY CompactionKeepsListing DEF Listing
  <2> QED
    BY <1>1, <2>1, <2>2 DEF Cleanup
<1> DEFINE e == rewound(c)
<1>3. e.curThreadIdx = 0 /\ DOMAIN e = DOMAIN c
  BY <1>2 DEF Barriers
<1>4. \A p : Shuffled(e, p).curThreadIdx = e.curThreadIdx
  BY <1>2 DEF Shuffled, Barriers
<1> HIDE DEF rewound
<1> QED
  BY <1>1, <1>3, <1>4 DEF Shuffle

\* A walk from the start of the list to its end wakes everybody who waits.
LEMMA WholeListWoken ==
    ASSUME NEW b, WF(b), b.curThreadIdx = 0,
           CheckRunList(b).curThreadIdx = Len(CheckRunList(b).runList),
           NEW t \in Tids, b.state[t] = "WAITING"
    PROVE  t \in ToWake(b)
<1>1. ScanEnd(b) = Len(b.runList)
  BY WalkFields
<1>2. PICK i \in 1..Len(b.runList) : t = b.runList[i]
  BY DEF WF, Listing, OnList
<1>3. i \in WaitingBetween(b, 0, Len(b.runList))
  BY <1>2 DEF WaitingBetween
<1> QED
  BY <1>1, <1>2, <1>3 DEF ToWake

\* The end of a phase is counted, so it can be told from its absence.
LEMMA PhaseEndCounted ==
    ASSUME NEW b, WF(b), NEW d \in NextPhase(b)
    PROVE  d.phaseCount # b.phaseCount
<1> DEFINE rewound(c) == [c EXCEPT !.curThreadIdx = 0, !.phaseCount = (@ + 1) % PhaseWrap]
<1>1. PICK c \in Cleanup(b) : d \in Shuffle(rewound(c))
  BY DEF NextPhase
<1>2. b \in Barriers /\ b.phaseCount \in 0..(PhaseWrap - 1)
  BY DEF WF, Listing, Barriers
<1>3. c \in Barriers /\ c.phaseCount = b.phaseCount
  <2>1. \A m \in Fillings(b) :
          Compacted(b, m) \in Barriers /\ Compacted(b, m).phaseCount = b.phaseCount
    BY CompactionKeepsListing DEF Listing
  <2> QED
    BY <1>1, <1>2, <2>1 DEF Cleanup
<1> DEFINE e == rewound(c)
<1>4. e.phaseCount = (b.phaseCount + 1) % PhaseWrap
  BY <1>3 DEF Barriers
<1>5. \A p : Shuffled(e, p).phaseCount = e.phaseCount
  BY <1>3 DEF Shuffled, Barriers
<1> HIDE DEF rewound
<1>6. d.phaseCount = (b.phaseCount + 1) % PhaseWrap
  BY <1>1, <1>4, <1>5 DEF Shuffle
<1>7. (b.phaseCount + 1) % PhaseWrap # b.phaseCount
  <2> DEFINE k == b.phaseCount
  <2>1. k \in Nat /\ k < PhaseWrap /\ PhaseWrap \in Nat /\ PhaseWrap > 1
    BY <1>2, BarrierAssumption DEF BarrierAssumption
  <2> HIDE DEF k
  <2>2. CASE k + 1 < PhaseWrap
    <3>1. (k + 1) % PhaseWrap = k + 1
      BY <2>1, <2>2
    <3> QED
      BY <2>1, <3>1 DEF k
  <2>3. CASE k + 1 = PhaseWrap
    <3>1. (k + 1) % PhaseWrap = 0
      BY <2>1, <2>3
    <3> QED
      BY <2>1, <2>3, <3>1 DEF k
  <2> QED
    BY <2>1, <2>2, <2>3
<1> QED
  BY <1>6, <1>7

-----------------------------------------------------------------------------
(* tryWakeNext                                                             *)

\* In a barrier where everybody left, nobody waits.
LEMMA AllLeft ==
    ASSUME NEW b, WF(b), b.leftThreads = Len(b.runList), NEW t \in Tids
    PROVE  b.state[t] # "WAITING"
<1> DEFINE F == InState(b, "LEFT")
<1>1. b.runList \in Seq(Tids) /\ IsInjective(b.runList)
  BY DEF WF, Listing, Barriers
<1>2. IsFiniteSet(OnList(b)) /\ Cardinality(OnList(b)) = Len(b.runList)
  <2>1. OnList(b) \subseteq Tids
    BY DEF WF, Listing
  <2> QED
    BY <1>1, <2>1, CoresFinite, CountList
<1>3. F \subseteq OnList(b)
  BY DEF InState, WF, Listing
<1>4. Cardinality(OnList(b)) = Cardinality(F)
  BY <1>2 DEF WF, Listing
<1>5. OnList(b) = F
  <2> HIDE DEF F
  <2> QED
    BY <1>2, <1>3, <1>4, FS_Subset
<1> QED
  BY <1>5 DEF InState, WF, Listing

\* tryWakeNext keeps the invariant and the indices, no assertion it
\* evaluates fails, and it leaves nobody stranded.
LEMMA TryWakeNextWorks ==
    ASSUME NEW b, WF(b), NEW d \in TryWakeNext(b)
    PROVE  /\ WF(d)
           /\ Settled(d)
           /\ \A t \in Tids : d.state[t] = "WAITING" => d.runningThreads > 0
           /\ \A t \in Tids : \/ d.state[t] = b.state[t]
                              \/ (b.state[t] = "WAITING" /\ d.state[t] = "RUNNING")
                              \/ (b.state[t] = "LEFT" /\ d.state[t] = "OFFLINE")
           /\ IndicesKnown(b) => IndicesKnown(d)
<1> DEFINE c == CheckRunList(b)
<1>1. PICK e \in CheckEndPhase(c) : d = CheckRunList(e)
  BY DEF TryWakeNext
<1>2. /\ WF(c) /\ Settled(c)
      /\ c.runningThreads >= b.runningThreads
      /\ \A t \in Tids : \/ c.state[t] = b.state[t]
                         \/ (b.state[t] = "WAITING" /\ c.state[t] = "RUNNING")
      /\ IndicesKnown(b) => IndicesKnown(c)
  BY WalkKeepsWF, WalkKeepsIndices
<1> HIDE DEF c
<1>3. /\ WF(e)
      /\ e.runningThreads = c.runningThreads
      /\ \A t \in Tids : e.state[t] = c.state[t]
                         \/ (c.state[t] = "LEFT" /\ e.state[t] = "OFFLINE")
      /\ IndicesKnown(c) => IndicesKnown(e)
  <2>1. CASE PhaseEnds(c)
    <3>1. e \in NextPhase(c)
      BY <1>1, <2>1 DEF CheckEndPhase
    <3> QED
      BY <1>2, <2>1, <3>1, PhaseEndKeepsWF
  <2>2. CASE ~PhaseEnds(c)
    BY <1>1, <1>2, <2>2 DEF CheckEndPhase
  <2> QED
    BY <2>1, <2>2
<1>4. /\ WF(d) /\ Settled(d)
      /\ d.runningThreads >= e.runningThreads
      /\ d.runningThreads = 0 => \A t \in Tids : d.state[t] = e.state[t]
      /\ \A t \in Tids : \/ d.state[t] = e.state[t]
                         \/ (e.state[t] = "WAITING" /\ d.state[t] = "RUNNING")
      /\ IndicesKnown(e) => IndicesKnown(d)
  BY <1>1, <1>3, WalkKeepsWF, WalkKeepsIndices
<1>5. ASSUME NEW t \in Tids, d.state[t] = "WAITING" PROVE d.runningThreads > 0
  <2>1. d.runningThreads \in Nat /\ e.runningThreads \in Nat /\ ParallelThreads \in Nat \ {0}
    BY <1>3, <1>4, BarrierAssumption DEF WF, Listing, Barriers, BarrierAssumption
  <2>2. SUFFICES ASSUME d.runningThreads = 0 PROVE FALSE
    BY <2>1
  <2>3. e.state[t] = "WAITING" /\ e.runningThreads = 0 /\ c.runningThreads = 0
    BY <1>3, <1>4, <1>5, <2>1, <2>2
  <2>4. CASE PhaseEnds(c)
    <3>1. d.curThreadIdx = Len(d.runList)
      BY <1>4, <2>1, <2>2 DEF Settled
    <3>2. t \in InState(e, "WAITING")
      BY <2>3 DEF InState
    <3>3. e.curThreadIdx = 0
      BY <1>1, <1>2, <2>4, RewoundAtPhaseEnd DEF CheckEndPhase
    <3>4. t \in ToWake(e)
      BY <1>1, <1>3, <2>3, <3>1, <3>3, WholeListWoken
    <3> QED
      BY <1>1, <1>3, <1>5, <3>4, WalkFields
  <2>5. CASE ~PhaseEnds(c)
    <3>1. c.curThreadIdx = Len(c.runList)
      BY <1>2, <2>1, <2>3 DEF Settled
    <3>2. c.leftThreads = Len(c.runList)
      BY <2>3, <2>5, <3>1 DEF PhaseEnds
    <3>3. e = c
      BY <1>1, <2>5 DEF CheckEndPhase
    <3> QED
      BY <1>2, <2>3, <3>2, <3>3, AllLeft
  <2> QED
    BY <2>4, <2>5
<1> QED
  BY <1>2, <1>3, <1>4, <1>5

\* No assertion that tryWakeNext evaluates fails.
LEMMA TryWakeNextIsSafe ==
    ASSUME NEW b, WF(b)
    PROVE  TryWakeNextAsserts(b)
<1> DEFINE c == CheckRunList(b)
<1>1. WakeupsSucceed(b) /\ WF(c)
  BY WalkKeepsWF
<1> HIDE DEF c
<1>2. ASSUME PhaseEnds(c)
      PROVE  /\ Len(c.runList) > 0
             /\ Len(c.runList) - Cardinality(Kept(c)) = c.leftThreads
  <2>1. /\ Len(c.runList) \in Nat /\ Cardinality(Kept(c)) \in Nat
        /\ Cardinality(Kept(c)) <= Len(c.runList)
        /\ Len(c.runList) - Cardinality(Kept(c)) = c.leftThreads
    BY <1>1, KeptFacts
  <2>2. c.leftThreads # Len(c.runList)
    BY <1>2 DEF PhaseEnds
  <2> QED
    BY <2>1, <2>2
<1>3. ASSUME NEW e \in CheckEndPhase(c) PROVE WakeupsSucceed(e)
  <2>1. WF(e)
    BY <1>1, PhaseEndKeepsWF DEF CheckEndPhase
  <2> QED
    BY <2>1, WalkKeepsWF
<1> QED
  BY <1>1, <1>2, <1>3 DEF TryWakeNextAsserts, c

-----------------------------------------------------------------------------
(* The operations                                                          *)

\* Counting a set of cores that gains or loses one.
LEMMA OneMoreCore ==
    ASSUME NEW S, S \subseteq Tids, NEW t \in Tids, t \notin S
    PROVE  Cardinality(S \cup {t}) = Cardinality(S) + 1
BY CoresFinite, FS_AddElement

\* A set that loses one of its cores.
LEMMA OneCoreLess ==
    ASSUME NEW S, S \subseteq Tids, NEW t \in S
    PROVE  Cardinality(S \ {t}) = Cardinality(S) - 1 /\ Cardinality(S) > 0
<1>1. IsFiniteSet(S) /\ Cardinality(S) \in Nat /\ IsFiniteSet(S \ {t})
  BY CoresFinite, FS_RemoveElement
<1>2. Cardinality(S \ {t}) = Cardinality(S) - 1
  BY <1>1, FS_RemoveElement
<1>3. Cardinality(S) # 0
  BY <1>1, FS_EmptySet
<1> QED
  BY <1>1, <1>2, <1>3

\* A core that stops running, to wait or to leave.
LEMMA StopRunning ==
    ASSUME NEW b, WF(b), NEW t \in Tids, b.state[t] = "RUNNING",
           NEW d \in {Syncing(b, t), Leaving(b, t)}
    PROVE  /\ WF(d)
           /\ IndicesKnown(b) => IndicesKnown(d)
           /\ \A u \in Tids : u # t => d.state[u] = b.state[u]
           /\ d.state[t] \in {"WAITING", "LEFT"}
           /\ d.phaseCount = b.phaseCount
<1>1. /\ b \in Barriers /\ b.runList \in Seq(Tids) /\ Len(b.runList) \in Nat
      /\ b.state \in [Tids -> States] /\ b.futexWord \in [Tids -> {0, 1}]
      /\ b.runningThreads \in 0..ParallelThreads /\ b.leftThreads \in Nat
      /\ ParallelThreads \in Nat
  BY BarrierAssumption DEF WF, Listing, Barriers, BarrierAssumption
<1> DEFINE R == InState(b, "RUNNING")
           F == InState(b, "LEFT")
<1>2. t \in R /\ R \subseteq Tids /\ t \notin F /\ F \subseteq Tids
  BY DEF InState
<1>3. /\ Cardinality(R \ {t}) = b.runningThreads - 1 /\ b.runningThreads > 0
      /\ Cardinality(F \cup {t}) = b.leftThreads + 1
  <2>1. b.runningThreads = Cardinality(R) /\ b.leftThreads = Cardinality(F)
    BY DEF WF, Listing
  <2> HIDE DEF R, F
  <2> QED
    BY <1>2, <2>1, OneCoreLess, OneMoreCore
<1>4. b.runningThreads - 1 \in 0..ParallelThreads /\ b.leftThreads + 1 \in Nat
  BY <1>1, <1>3
<1>5. CASE d = Syncing(b, t)
  <2>1. /\ d.state = [b.state EXCEPT ![t] = "WAITING"]
        /\ d.futexWord = [b.futexWord EXCEPT ![t] = 1]
        /\ d.runningThreads = b.runningThreads - 1 /\ d.leftThreads = b.leftThreads
        /\ d.runList = b.runList /\ d.lastIdx = b.lastIdx
        /\ d.curThreadIdx = b.curThreadIdx /\ d.phaseCount = b.phaseCount
    BY <1>1, <1>5 DEF Syncing, Barriers
  <2>2. d \in Barriers
    BY <1>1, <1>4, <1>5 DEF Syncing, Barriers, States
  <2>3. InState(d, "RUNNING") = R \ {t} /\ InState(d, "LEFT") = F
    BY <1>1, <2>1 DEF InState
  <2>4. OnList(d) = {u \in Tids : d.state[u] # "OFFLINE"}
    BY <1>1, <2>1 DEF WF, Listing, OnList
  <2>5. WordsMatch(d)
    BY <1>1, <2>1 DEF WordsMatch, WF, Listing
  <2>6. WF(d)
    BY <1>3, <2>1, <2>2, <2>3, <2>4, <2>5 DEF WF, Listing
  <2> QED
    BY <1>1, <2>1, <2>6 DEF IndicesKnown
<1>6. CASE d = Leaving(b, t)
  <2>1. /\ d.state = [b.state EXCEPT ![t] = "LEFT"]
        /\ d.futexWord = b.futexWord
        /\ d.runningThreads = b.runningThreads - 1 /\ d.leftThreads = b.leftThreads + 1
        /\ d.runList = b.runList /\ d.lastIdx = b.lastIdx
        /\ d.curThreadIdx = b.curThreadIdx /\ d.phaseCount = b.phaseCount
    BY <1>1, <1>6 DEF Leaving, Barriers
  <2>2. d \in Barriers
    BY <1>1, <1>4, <1>6 DEF Leaving, Barriers, States
  <2>3. InState(d, "RUNNING") = R \ {t} /\ InState(d, "LEFT") = F \cup {t}
    BY <1>1, <2>1 DEF InState
  <2>4. OnList(d) = {u \in Tids : d.state[u] # "OFFLINE"}
    BY <1>1, <2>1 DEF WF, Listing, OnList
  <2>5. WordsMatch(d)
    BY <1>1, <2>1 DEF WordsMatch, WF, Listing
  <2>6. WF(d)
    BY <1>3, <2>1, <2>2, <2>3, <2>4, <2>5 DEF WF, Listing
  <2> QED
    BY <1>1, <2>1, <2>6 DEF IndicesKnown
<1> QED
  BY <1>5, <1>6

\* A core that leaves while it waits.
LEMMA StopWaiting ==
    ASSUME NEW b, WF(b), NEW t \in Tids, b.state[t] = "WAITING"
    PROVE  LET d == LeavingWaiting(b, t)
           IN  /\ WF(d)
               /\ d.state = [b.state EXCEPT ![t] = "LEFT"]
               /\ d.futexWord = b.futexWord
               /\ d.runningThreads = b.runningThreads
               /\ d.curThreadIdx = b.curThreadIdx
               /\ d.runList = b.runList
<1> DEFINE d == LeavingWaiting(b, t)
           F == InState(b, "LEFT")
<1>1. /\ b \in Barriers /\ b.state \in [Tids -> States] /\ b.leftThreads \in Nat
  BY DEF WF, Listing, Barriers
<1>2. /\ d.state = [b.state EXCEPT ![t] = "LEFT"]
      /\ d.futexWord = b.futexWord
      /\ d.runningThreads = b.runningThreads /\ d.leftThreads = b.leftThreads + 1
      /\ d.runList = b.runList /\ d.curThreadIdx = b.curThreadIdx
  BY <1>1 DEF LeavingWaiting, Barriers
<1>3. d \in Barriers
  <2>1. d = [b EXCEPT !.state = [b.state EXCEPT ![t] = "LEFT"],
                      !.leftThreads = b.leftThreads + 1]
    BY <1>1 DEF LeavingWaiting, Barriers
  <2>2. [b.state EXCEPT ![t] = "LEFT"] \in [Tids -> States]
    BY <1>1 DEF States
  <2>3. b.leftThreads + 1 \in Nat
    BY <1>1
  <2> HIDE DEF d
  <2> QED
    BY <1>1, <2>1, <2>2, <2>3 DEF Barriers
<1>4. InState(d, "RUNNING") = InState(b, "RUNNING") /\ InState(d, "LEFT") = F \cup {t}
  BY <1>1, <1>2 DEF InState
<1>5. Cardinality(F \cup {t}) = b.leftThreads + 1
  <2>1. t \notin F /\ F \subseteq Tids /\ b.leftThreads = Cardinality(F)
    BY DEF InState, WF, Listing
  <2> HIDE DEF F
  <2> QED
    BY <2>1, OneMoreCore
<1>6. OnList(d) = {u \in Tids : d.state[u] # "OFFLINE"}
  BY <1>1, <1>2 DEF WF, Listing, OnList
<1>7. WordsMatch(d)
  BY <1>1, <1>2 DEF WordsMatch, WF, Listing
<1>8. WF(d)
  BY <1>2, <1>3, <1>4, <1>5, <1>6, <1>7 DEF WF, Listing
<1> QED
  BY <1>2, <1>8

\* list is b's run list with t appended.
Appends(list, b, t) == list = Append(b.runList, t)

\* Listing a core that is OFFLINE, at the end of the run list.
LEMMA AppendedWF ==
    ASSUME NEW b, WF(b), NEW t \in Tids, b.state[t] = "OFFLINE",
           NEW list, Appends(list, b, t)
    PROVE  /\ list \in Seq(Tids) /\ IsInjective(list)
           /\ Len(list) = Len(b.runList) + 1
           /\ \A i \in 1..Len(b.runList) : list[i] = b.runList[i]
           /\ {list[i] : i \in 1..Len(list)} = OnList(b) \cup {t}
<1> USE DEF Appends
<1>1. /\ b.runList \in Seq(Tids) /\ Len(b.runList) \in Nat /\ IsInjective(b.runList)
      /\ DOMAIN b.runList = 1..Len(b.runList) /\ t \notin OnList(b)
  BY DEF WF, Listing, Barriers
<1>2. /\ list \in Seq(Tids) /\ Len(list) = Len(b.runList) + 1
      /\ DOMAIN list = 1..(Len(b.runList) + 1)
      /\ \A i \in 1..Len(b.runList) : list[i] = b.runList[i]
      /\ list[Len(b.runList) + 1] = t
  BY <1>1
<1>3. \A i \in 1..Len(b.runList) : b.runList[i] # t
  BY <1>1 DEF OnList
<1>4. IsInjective(list)
  <2> SUFFICES ASSUME NEW i \in DOMAIN list, NEW j \in DOMAIN list, list[i] = list[j]
               PROVE  i = j
    BY DEF IsInjective
  <2>1. CASE i \in 1..Len(b.runList) /\ j \in 1..Len(b.runList)
    BY <1>1, <1>2, <2>1 DEF IsInjective
  <2>2. CASE i = Len(b.runList) + 1 \/ j = Len(b.runList) + 1
    BY <1>1, <1>2, <1>3, <2>2
  <2> QED
    BY <1>1, <1>2, <2>1, <2>2
<1>5. {list[i] : i \in 1..Len(list)} = OnList(b) \cup {t}
  <2>1. \A i \in 1..Len(list) : list[i] \in OnList(b) \cup {t}
    <3> TAKE i \in 1..Len(list)
    <3>1. i \in 1..Len(b.runList) \/ i = Len(b.runList) + 1
      BY <1>1, <1>2
    <3> QED
      BY <1>2, <3>1 DEF OnList
  <2>2. \A u \in OnList(b) \cup {t} : \E i \in 1..Len(list) : u = list[i]
    <3> TAKE u \in OnList(b) \cup {t}
    <3>1. CASE u = t
      BY <1>1, <1>2, <3>1
    <3>2. CASE u \in OnList(b)
      <4>1. PICK i \in 1..Len(b.runList) : u = b.runList[i]
        BY <3>2 DEF OnList
      <4> QED
        BY <1>1, <1>2, <4>1
    <3> QED
      BY <3>1, <3>2
  <2> QED
    BY <2>1, <2>2
<1> QED
  BY <1>2, <1>4, <1>5

\* The same-phase reschedule only swaps two entries.
LEMMA SwappedWF ==
    ASSUME NEW b, WF(b), NEW t \in Tids, Rejoins(b, t), RejoinAssert(b, t),
           NEW list, list = Rescheduled(b, t).runList
    PROVE  LET idx == b.lastIdx[t]
               cur == b.curThreadIdx
           IN  /\ list \in Seq(Tids) /\ IsInjective(list)
               /\ Len(list) = Len(b.runList)
               /\ idx \in 1..Len(b.runList) /\ cur \in 1..Len(b.runList)
               /\ list[cur] = t /\ list[idx] = b.runList[cur]
               /\ \A i \in 1..Len(b.runList) : i # idx /\ i # cur => list[i] = b.runList[i]
               /\ b.runList[idx] = t
               /\ {list[i] : i \in 1..Len(list)} = OnList(b)
<1> DEFINE idx == b.lastIdx[t]
           cur == b.curThreadIdx
           n == Len(b.runList)
           old == b.runList
           g == [i \in 1..n |-> IF i = cur THEN idx ELSE IF i = idx THEN cur ELSE i]
<1>1. /\ b \in Barriers /\ old \in Seq(Tids) /\ n \in Nat /\ IsInjective(old)
      /\ DOMAIN old = 1..n /\ idx \in Nat \ {0} /\ cur \in Nat
      /\ \A i \in 1..n : old[i] \in Tids
  BY DEF WF, Listing, Barriers
<1>2. idx \in 1..n /\ cur \in 1..n /\ old[idx] = t
  BY <1>1 DEF Rejoins, RejoinAssert, WF
<1>3. list = [[old EXCEPT ![idx] = old[cur]] EXCEPT ![cur] = t]
  BY <1>1 DEF Rescheduled, Barriers
<1> HIDE DEF idx, cur, n, old
<1>4. Reorders(list, old, 1..n, n, g)
  <2>1. g \in [1..n -> 1..n]
    BY <1>2
  <2>2. \A i, j \in 1..n : g[i] = g[j] => i = j
    BY <1>2
  <2>3. \A k \in 1..n : \E i \in 1..n : g[i] = k
    <3> TAKE k \in 1..n
    <3>1. CASE k = cur
      BY <1>2, <3>1
    <3>2. CASE k # cur /\ k = idx
      BY <1>2, <3>2
    <3>3. CASE k # cur /\ k # idx
      BY <1>2, <3>3
    <3> QED
      BY <3>1, <3>2, <3>3
  <2>4. list \in [1..n -> Tids] /\ \A i \in 1..n : list[i] = old[g[i]]
    BY <1>1, <1>2, <1>3
  <2> HIDE DEF g
  <2>5. 1..n \subseteq 1..Len(old)
    BY DEF n, old
  <2> QED
    BY <1>1, <2>1, <2>2, <2>3, <2>4, <2>5 DEF Reorders
<1>5. /\ list \in Seq(Tids) /\ Len(list) = n /\ IsInjective(list)
      /\ \A i \in 1..n : \E k \in 1..n : list[i] = old[k]
      /\ \A k \in 1..n : \E i \in 1..n : list[i] = old[k]
  <2> DEFINE all == 1..n
  <2>1. Reorders(list, old, all, n, g)
    BY <1>4
  <2> HIDE DEF all, g
  <2>2. Reordering(list, old, all, n)
    BY <2>1, Reordered, Zenon
  <2> QED
    BY <2>2 DEF all, Reordering
<1>6. /\ list[cur] = t /\ list[idx] = old[cur]
      /\ \A i \in 1..n : i # idx /\ i # cur => list[i] = old[i]
  BY <1>1, <1>2, <1>3
<1>7. {list[i] : i \in 1..Len(list)} = OnList(b)
  <2>1. OnList(b) = {old[k] : k \in 1..n}
    BY DEF OnList, old, n
  <2>2. \A u : (\E i \in 1..n : u = list[i]) <=> (\E k \in 1..n : u = old[k])
    <3>1. /\ \A i \in 1..n : \E k \in 1..n : list[i] = old[k]
          /\ \A k \in 1..n : \E i \in 1..n : list[i] = old[k]
      BY <1>5
    <3> QED
      BY <3>1
  <2>3. {list[i] : i \in 1..n} = {old[k] : k \in 1..n}
    BY <2>2
  <2> QED
    BY <1>5, <2>1, <2>3
<1> QED
  BY <1>2, <1>5, <1>6, <1>7 DEF idx, cur, n, old

\* join, up to its call of tryWakeNext.
LEMMA JoiningWorks ==
    ASSUME NEW b, WF(b), NEW t \in Tids, b.state[t] \in {"LEFT", "OFFLINE"},
           RejoinAssert(b, t)
    PROVE  LET d == Joining(b, t)
           IN  /\ WF(d)
               /\ IndicesKnown(b) => IndicesKnown(d)
               /\ d.state = [b.state EXCEPT ![t] = "WAITING"]
               /\ d.phaseCount = b.phaseCount
<1> DEFINE d == Joining(b, t)
           R == InState(b, "RUNNING")
           F == InState(b, "LEFT")
           n == Len(b.runList)
<1>1. /\ b \in Barriers /\ b.runList \in Seq(Tids) /\ n \in Nat
      /\ b.state \in [Tids -> States] /\ b.futexWord \in [Tids -> {0, 1}]
      /\ b.lastIdx \in [Tids -> Nat \ {0}] /\ b.curThreadIdx \in Nat
      /\ b.leftThreads \in Nat /\ b.curThreadIdx <= n /\ IsInjective(b.runList)
      /\ OnList(b) = {u \in Tids : b.state[u] # "OFFLINE"}
      /\ b.runningThreads = Cardinality(R) /\ b.leftThreads = Cardinality(F)
  BY DEF WF, Listing, Barriers
<1>2. /\ R \subseteq Tids /\ F \subseteq Tids
  BY DEF InState
<1>3. ASSUME d \in Barriers,
             d.state = [b.state EXCEPT ![t] = "WAITING"],
             d.futexWord = [b.futexWord EXCEPT ![t] = 1],
             d.runningThreads = b.runningThreads,
             d.leftThreads = Cardinality(F \ {t}),
             d.curThreadIdx <= Len(d.runList),
             IsInjective(d.runList),
             {d.runList[i] : i \in 1..Len(d.runList)} = OnList(b) \cup {t}
      PROVE  WF(d)
  <2>1. InState(d, "RUNNING") = R /\ InState(d, "LEFT") = F \ {t}
    BY <1>1, <1>3 DEF InState
  <2>2. OnList(d) = {u \in Tids : d.state[u] # "OFFLINE"}
    <3>1. OnList(b) \cup {t} = {u \in Tids : d.state[u] # "OFFLINE"}
      BY <1>1, <1>3
    <3> QED
      BY <1>3, <3>1 DEF OnList
  <2>3. WordsMatch(d)
    BY <1>1, <1>3 DEF WordsMatch, WF, Listing
  <2> QED
    BY <1>1, <1>3, <2>1, <2>2, <2>3 DEF WF, Listing
<1>4. CASE b.state[t] = "OFFLINE"
  <2> DEFINE list == Append(b.runList, t)
  <2>1. Appends(list, b, t)
    BY DEF Appends
  <2>2. /\ d.state = [b.state EXCEPT ![t] = "WAITING"]
        /\ d.futexWord = [b.futexWord EXCEPT ![t] = 1]
        /\ d.runningThreads = b.runningThreads /\ d.leftThreads = b.leftThreads
        /\ d.runList = list /\ d.lastIdx = b.lastIdx
        /\ d.curThreadIdx = b.curThreadIdx /\ d.phaseCount = b.phaseCount
    BY <1>1, <1>4 DEF Joining, Listed, Barriers
  <2>3. /\ list \in Seq(Tids) /\ IsInjective(list) /\ Len(list) = n + 1
        /\ \A i \in 1..n : list[i] = b.runList[i]
        /\ {list[i] : i \in 1..Len(list)} = OnList(b) \cup {t}
    <3> HIDE DEF list
    <3> QED
      BY <1>4, <2>1, AppendedWF
  <2>4. F \ {t} = F
    BY <1>4 DEF InState
  <2>5. d \in Barriers
    <3>1. d = [b EXCEPT !.runList = list,
                        !.state = [b.state EXCEPT ![t] = "WAITING"],
                        !.futexWord = [b.futexWord EXCEPT ![t] = 1]]
      BY <1>1, <1>4 DEF Joining, Listed, Barriers
    <3>2. /\ [b.state EXCEPT ![t] = "WAITING"] \in [Tids -> States]
          /\ [b.futexWord EXCEPT ![t] = 1] \in [Tids -> {0, 1}]
      BY <1>1 DEF States
    <3> HIDE DEF list, d
    <3> QED
      BY <1>1, <2>3, <3>1, <3>2 DEF Barriers
  <2> HIDE DEF list, d, F
  <2>6. WF(d)
    <3>1. d.runList = list /\ d.curThreadIdx = b.curThreadIdx /\ d.leftThreads = b.leftThreads
      BY <2>2
    <3>2. Len(list) = n + 1 /\ IsInjective(list) /\ n \in Nat
      BY <1>1, <2>3
    <3>3. d.curThreadIdx <= Len(d.runList)
      BY <1>1, <3>1, <3>2
    <3>4. d.leftThreads = Cardinality(F \ {t})
      BY <1>1, <2>4, <3>1
    <3>5. {d.runList[i] : i \in 1..Len(d.runList)} = OnList(b) \cup {t}
      BY <2>3, <3>1
    <3> QED
      BY <1>3, <2>2, <2>5, <3>1, <3>2, <3>3, <3>4, <3>5
  <2>7. ASSUME IndicesKnown(b), NEW u \in Tids, d.state[u] \in {"RUNNING", "LEFT"}
        PROVE  d.lastIdx[u] \in 1..Len(d.runList) /\ d.runList[d.lastIdx[u]] = u
    <3>1. u # t /\ b.lastIdx[u] \in 1..n /\ b.runList[b.lastIdx[u]] = u
      BY <1>1, <2>2, <2>7 DEF IndicesKnown
    <3>2. d.runList = list /\ d.lastIdx = b.lastIdx
      BY <2>2
    <3>3. /\ n \in Nat /\ Len(list) = n + 1
          /\ \A i \in 1..n : list[i] = b.runList[i]
      BY <1>1, <2>3
    <3>4. Len(d.runList) = n + 1 /\ d.lastIdx[u] = b.lastIdx[u]
      BY <3>2, <3>3
    <3>5. d.runList[b.lastIdx[u]] = u
      <4>1. list[b.lastIdx[u]] = b.runList[b.lastIdx[u]]
        BY <3>1, <3>3
      <4> QED
        BY <3>1, <3>2, <4>1
    <3>6. b.lastIdx[u] \in 1..(n + 1)
      <4> DEFINE k == b.lastIdx[u]
      <4>1. n \in Nat /\ k \in 1..n
        BY <3>1, <3>3
      <4> HIDE DEF k, n
      <4>2. k \in 1..(n + 1)
        BY <4>1
      <4> QED
        BY <4>2 DEF k
    <3> QED
      BY <3>4, <3>5, <3>6
  <2> QED
    BY <2>2, <2>6, <2>7 DEF d, IndicesKnown
<1>5. CASE b.state[t] = "LEFT"
  <2>1. Cardinality(F \ {t}) = b.leftThreads - 1 /\ b.leftThreads > 0
    <3>1. t \in F
      BY <1>5 DEF InState
    <3> HIDE DEF F
    <3> QED
      BY <1>1, <1>2, <3>1, OneCoreLess
  <2>2. t \in OnList(b) /\ b.leftThreads - 1 \in Nat
    BY <1>1, <1>5, <2>1
  <2>3. CASE Rejoins(b, t)
    <3> DEFINE list == Rescheduled(b, t).runList
               idx == b.lastIdx[t]
               cur == b.curThreadIdx
               other == b.runList[cur]
    <3>1. /\ list \in Seq(Tids) /\ IsInjective(list) /\ Len(list) = n
          /\ idx \in 1..n /\ cur \in 1..n /\ list[cur] = t /\ list[idx] = other
          /\ \A i \in 1..n : i # idx /\ i # cur => list[i] = b.runList[i]
          /\ b.runList[idx] = t
          /\ {list[i] : i \in 1..Len(list)} = OnList(b)
      BY <2>3, SwappedWF
    <3>2. /\ d.state = [b.state EXCEPT ![t] = "WAITING"]
          /\ d.futexWord = [b.futexWord EXCEPT ![t] = 1]
          /\ d.runningThreads = b.runningThreads /\ d.leftThreads = b.leftThreads - 1
          /\ d.runList = list
          /\ d.lastIdx = [[b.lastIdx EXCEPT ![other] = idx] EXCEPT ![t] = cur]
          /\ d.curThreadIdx = cur - 1 /\ d.phaseCount = b.phaseCount
      BY <1>1, <1>5, <2>3 DEF Joining, Listed, Rescheduled, Barriers
    <3>3. other \in Tids /\ cur - 1 \in Nat
      BY <1>1, <3>1
    <3>4. d \in Barriers
      <4> DEFINE e == Rescheduled(b, t)
                 f == [e EXCEPT !.leftThreads = @ - 1]
      <4>1. /\ [b.lastIdx EXCEPT ![other] = idx] \in [Tids -> Nat \ {0}]
            /\ [[b.lastIdx EXCEPT ![other] = idx] EXCEPT ![t] = cur] \in [Tids -> Nat \ {0}]
        <5>1. idx \in Nat \ {0} /\ cur \in Nat \ {0}
          BY <1>1, <3>1
        <5> HIDE DEF idx, cur, other
        <5> QED
          BY <1>1, <3>3, <5>1
      <4>2. /\ e = [b EXCEPT !.curThreadIdx = cur - 1,
                             !.runList = list,
                             !.lastIdx = [[b.lastIdx EXCEPT ![other] = idx] EXCEPT ![t] = cur]]
            /\ e.leftThreads = b.leftThreads /\ e.state = b.state /\ e.futexWord = b.futexWord
        BY <1>1 DEF Rescheduled, Barriers
      <4> HIDE DEF list, e
      <4>3. e \in Barriers
        BY <1>1, <3>1, <3>3, <4>1, <4>2 DEF Barriers
      <4>4. f \in Barriers /\ f.state = b.state /\ f.futexWord = b.futexWord
        BY <2>2, <4>2, <4>3 DEF Barriers
      <4>5. d = [f EXCEPT !.state = [b.state EXCEPT ![t] = "WAITING"],
                          !.futexWord = [b.futexWord EXCEPT ![t] = 1]]
        BY <1>5, <2>3, <4>4 DEF Joining, Listed, Barriers, e
      <4>6. /\ [b.state EXCEPT ![t] = "WAITING"] \in [Tids -> States]
            /\ [b.futexWord EXCEPT ![t] = 1] \in [Tids -> {0, 1}]
        BY <1>1 DEF States
      <4> HIDE DEF d, f
      <4> QED
        BY <4>4, <4>5, <4>6 DEF Barriers
    <3> HIDE DEF list, d, F
    <3>5. WF(d)
      <4>1. OnList(b) \cup {t} = OnList(b)
        BY <2>2
      <4>2. d.runningThreads = b.runningThreads /\ d.leftThreads = Cardinality(F \ {t})
        BY <2>1, <3>2
      <4>3. d.runList = list /\ Len(list) = n /\ IsInjective(list)
        BY <3>1, <3>2
      <4>4. d.curThreadIdx <= Len(d.runList)
        BY <1>1, <3>2, <4>3
      <4>5. {d.runList[i] : i \in 1..Len(d.runList)} = OnList(b) \cup {t}
        BY <3>1, <4>1, <4>3
      <4>6. IsInjective(d.runList)
        BY <4>3
      <4> QED
        BY <1>3, <3>2, <3>4, <4>2, <4>4, <4>5, <4>6, Zenon
    <3>6. ASSUME IndicesKnown(b), NEW u \in Tids, d.state[u] \in {"RUNNING", "LEFT"}
          PROVE  d.lastIdx[u] \in 1..Len(d.runList) /\ d.runList[d.lastIdx[u]] = u
      <4>1. u # t /\ b.lastIdx[u] \in 1..n /\ b.runList[b.lastIdx[u]] = u
        BY <1>1, <3>2, <3>6 DEF IndicesKnown
      <4>2. CASE u = other
        BY <1>1, <3>1, <3>2, <3>3, <4>1, <4>2
      <4>3. CASE u # other
        <5>1. d.lastIdx[u] = b.lastIdx[u]
          BY <1>1, <3>2, <4>1, <4>3
        <5>2. b.lastIdx[u] # cur /\ b.lastIdx[u] # idx
          BY <3>1, <4>1, <4>3
        <5> QED
          BY <3>1, <3>2, <4>1, <5>1, <5>2
      <4> QED
        BY <4>2, <4>3
    <3> QED
      BY <3>2, <3>5, <3>6 DEF d, IndicesKnown
  <2>4. CASE ~Rejoins(b, t)
    <3>1. /\ d.state = [b.state EXCEPT ![t] = "WAITING"]
          /\ d.futexWord = [b.futexWord EXCEPT ![t] = 1]
          /\ d.runningThreads = b.runningThreads /\ d.leftThreads = b.leftThreads - 1
          /\ d.runList = b.runList /\ d.lastIdx = b.lastIdx
          /\ d.curThreadIdx = b.curThreadIdx /\ d.phaseCount = b.phaseCount
      BY <1>1, <1>5, <2>4 DEF Joining, Listed, Barriers
    <3>2. d \in Barriers
      BY <1>1, <1>5, <2>2, <2>4 DEF Joining, Listed, Barriers, States
    <3>3. {d.runList[i] : i \in 1..Len(d.runList)} = OnList(b) \cup {t}
      <4>1. OnList(b) \cup {t} = OnList(b)
        BY <2>2
      <4> QED
        BY <3>1, <4>1 DEF OnList
    <3> HIDE DEF d, F
    <3>4. WF(d)
      BY <1>1, <1>3, <2>1, <3>1, <3>2, <3>3
    <3>5. IndicesKnown(b) => IndicesKnown(d)
      BY <1>1, <3>1 DEF IndicesKnown
    <3> QED
      BY <3>1, <3>4, <3>5 DEF d
  <2> QED
    BY <2>3, <2>4
<1> QED
  BY <1>4, <1>5

-----------------------------------------------------------------------------
(* The set view of the run list                                            *)

\* The set view of a barrier b whose cores of the set d are done.
Pend(b, d) == {t \in Tids : b.state[t] = "WAITING" /\ t \notin d}

\* The walk has passed every core that runs and, of the cores that wait,
\* exactly those that are done with the phase.
Scanned(b, d) ==
    /\ d \subseteq InState(b, "WAITING")
    /\ \A i \in 1..Len(b.runList) :
        /\ b.state[b.runList[i]] = "RUNNING" => i <= b.curThreadIdx
        /\ b.state[b.runList[i]] = "WAITING" => (b.runList[i] \in d <=> i <= b.curThreadIdx)

\* A walk gives the free slots to pending cores, and leaves none free while
\* one is pending.
LEMMA WalkScanned ==
    ASSUME NEW b, WF(b), NEW done, Scanned(b, done)
    PROVE  LET d == CheckRunList(b)
               S == ToWake(b)
               r == InState(b, "RUNNING")
           IN  /\ S \subseteq Pend(b, done)
               /\ Cardinality(r) + Cardinality(S) <= ParallelThreads
               /\ S = Pend(b, done) \/ Cardinality(r) + Cardinality(S) = ParallelThreads
               /\ Scanned(d, done)
               /\ InState(d, "RUNNING") = r \cup S
               /\ Pend(d, done) = Pend(b, done) \ S
<1> DEFINE d == CheckRunList(b)
           cur == b.curThreadIdx
           end == ScanEnd(b)
           W == WaitingBetween(b, cur, end)
           S == ToWake(b)
           n == Len(b.runList)
           p == Pend(b, done)
           r == InState(b, "RUNNING")
<1>1. /\ d.state = [t \in Tids |-> IF t \in S THEN "RUNNING" ELSE b.state[t]]
      /\ d.runList = b.runList /\ d.curThreadIdx = end
  BY WalkFields
<1>2. /\ b.runList \in Seq(Tids) /\ n \in Nat /\ cur \in Nat /\ IsInjective(b.runList)
      /\ DOMAIN b.runList = 1..n
      /\ b.state \in [Tids -> States]
      /\ b.runningThreads = Cardinality(r)
      /\ \A t \in Tids : b.state[t] = "WAITING" => \E i \in 1..n : b.runList[i] = t
      /\ \A i \in 1..n : b.runList[i] \in Tids
  <2>1. /\ b \in Barriers /\ IsInjective(b.runList) /\ b.runningThreads = Cardinality(r)
        /\ OnList(b) = {t \in Tids : b.state[t] # "OFFLINE"}
    BY DEF WF, Listing
  <2>2. /\ b.runList \in Seq(Tids) /\ cur \in Nat /\ b.state \in [Tids -> States]
        /\ n \in Nat /\ DOMAIN b.runList = 1..n /\ \A i \in 1..n : b.runList[i] \in Tids
    BY <2>1 DEF Barriers
  <2>3. \A t \in Tids : b.state[t] = "WAITING" => t \in OnList(b)
    BY <2>1
  <2> QED
    BY <2>1, <2>2, <2>3 DEF OnList
<1>3. /\ end \in cur..n
      /\ Cardinality(W) \in Nat
      /\ b.runningThreads + Cardinality(W) <= ParallelThreads
      /\ end = n \/ b.runningThreads + Cardinality(W) = ParallelThreads
  BY ScanEndStops
<1>4. Cardinality(S) = Cardinality(W) /\ S \subseteq InState(b, "WAITING")
  BY WokenCount
<1>5. /\ done \subseteq InState(b, "WAITING")
      /\ \A i \in 1..n :
          /\ b.state[b.runList[i]] = "RUNNING" => i <= cur
          /\ b.state[b.runList[i]] = "WAITING" => (b.runList[i] \in done <=> i <= cur)
  BY DEF Scanned
<1>6. \A i \in 1..n : b.runList[i] \in S <=> (b.state[b.runList[i]] = "WAITING" /\ cur < i /\ i <= end)
  <2> TAKE i \in 1..n
  <2>1. ASSUME b.runList[i] \in S
        PROVE  b.state[b.runList[i]] = "WAITING" /\ cur < i /\ i <= end
    <3>1. PICK j \in W : b.runList[j] = b.runList[i]
      BY <2>1 DEF ToWake
    <3>2. j \in 1..n /\ cur < j /\ j <= end /\ b.state[b.runList[j]] = "WAITING"
      BY <1>2, <1>3 DEF WaitingBetween
    <3>3. j = i
      BY <1>2, <3>1, <3>2 DEF IsInjective
    <3> QED
      BY <3>2, <3>3
  <2>2. ASSUME b.state[b.runList[i]] = "WAITING", cur < i, i <= end
        PROVE  b.runList[i] \in S
    <3>1. i \in W
      BY <1>2, <1>3, <2>2 DEF WaitingBetween
    <3> QED
      BY <3>1 DEF ToWake
  <2> QED
    BY <2>1, <2>2
<1> HIDE DEF d, cur, end, W, S, n, r
<1>7. S \subseteq p
  <2> SUFFICES ASSUME NEW t \in S PROVE t \notin done /\ t \in Tids /\ b.state[t] = "WAITING"
    BY DEF Pend
  <2>1. t \in Tids /\ b.state[t] = "WAITING"
    BY <1>4 DEF InState
  <2>2. PICK i \in 1..n : b.runList[i] = t
    BY <1>2, <2>1
  <2>3. cur < i
    BY <1>6, <2>2
  <2> QED
    BY <1>2, <1>5, <2>1, <2>2, <2>3
<1>8. end = n => S = p
  <2> SUFFICES ASSUME end = n, NEW t \in p PROVE t \in S
    BY <1>7
  <2>1. t \in Tids /\ b.state[t] = "WAITING" /\ t \notin done
    BY DEF Pend
  <2>2. PICK i \in 1..n : b.runList[i] = t
    BY <1>2, <2>1
  <2>3. ~(i <= cur) /\ i <= n
    BY <1>2, <1>5, <2>1, <2>2
  <2> QED
    BY <1>2, <1>6, <2>1, <2>2, <2>3
<1>9. /\ Cardinality(r) + Cardinality(S) <= ParallelThreads
      /\ S = p \/ Cardinality(r) + Cardinality(S) = ParallelThreads
  BY <1>2, <1>3, <1>4, <1>8
<1>10. Scanned(d, done)
  <2>1. done \subseteq InState(d, "WAITING")
    <3> SUFFICES ASSUME NEW t \in done PROVE t \in Tids /\ d.state[t] = "WAITING"
      BY DEF InState
    <3>1. t \in Tids /\ b.state[t] = "WAITING" /\ t \notin S
      BY <1>5, <1>7 DEF InState, Pend
    <3> QED
      BY <1>1, <3>1
  <2>2. ASSUME NEW i \in 1..n, d.state[b.runList[i]] = "RUNNING" PROVE i <= end
    <3>1. b.runList[i] \in Tids
      BY <1>2
    <3>2. CASE b.runList[i] \in S
      BY <1>6, <3>2
    <3>3. CASE b.runList[i] \notin S
      <4>1. i <= cur
        BY <1>1, <1>5, <2>2, <3>1, <3>3
      <4> QED
        BY <1>2, <1>3, <4>1
    <3> QED
      BY <3>2, <3>3
  <2>3. ASSUME NEW i \in 1..n, d.state[b.runList[i]] = "WAITING"
        PROVE  b.runList[i] \in done <=> i <= end
    <3>1. b.runList[i] \in Tids /\ b.runList[i] \notin S /\ b.state[b.runList[i]] = "WAITING"
      BY <1>1, <1>2, <2>3
    <3>2. b.runList[i] \in done <=> i <= cur
      BY <1>5, <3>1
    <3>3. ~(cur < i /\ i <= end)
      BY <1>6, <3>1
    <3> QED
      BY <1>2, <1>3, <3>2, <3>3
  <2> QED
    BY <1>1, <2>1, <2>2, <2>3 DEF Scanned, n
<1>11. InState(d, "RUNNING") = r \cup S
  BY <1>1, <1>4 DEF InState, r
<1>12. Pend(d, done) = p \ S
  BY <1>1, <1>4, <1>7 DEF Pend
<1> QED
  BY <1>7, <1>9, <1>10, <1>11, <1>12 DEF d, S, r

\* The phase is over when nobody is pending or runs, and somebody is done.
LEMMA PhaseEndsWhen ==
    ASSUME NEW b, WF(b), Settled(b), NEW done, Scanned(b, done)
    PROVE  PhaseEnds(b) <=> /\ Pend(b, done) = {} /\ InState(b, "RUNNING") = {}
                            /\ done # {}
<1> DEFINE n == Len(b.runList)
           r == InState(b, "RUNNING")
           l == InState(b, "LEFT")
<1>1. /\ b \in Barriers /\ IsInjective(b.runList) /\ b.curThreadIdx <= n
      /\ b.runningThreads = Cardinality(r) /\ b.leftThreads = Cardinality(l)
      /\ OnList(b) = {t \in Tids : b.state[t] # "OFFLINE"}
  BY DEF WF, Listing
<1>2. /\ b.runList \in Seq(Tids) /\ b.curThreadIdx \in Nat /\ b.state \in [Tids -> States]
      /\ n \in Nat /\ DOMAIN b.runList = 1..n /\ \A i \in 1..n : b.runList[i] \in Tids
  BY <1>1 DEF Barriers
<1>3. \A t \in Tids : b.state[t] = "WAITING" => \E i \in 1..n : b.runList[i] = t
  <2>1. \A t \in Tids : b.state[t] = "WAITING" => t \in OnList(b)
    BY <1>1
  <2> QED
    BY <2>1 DEF OnList
<1>4. IsFiniteSet(r) /\ (Cardinality(r) = 0 <=> r = {})
  BY CoresFinite, FS_EmptySet DEF InState
<1>5. ParallelThreads # 0
  BY BarrierAssumption DEF BarrierAssumption
<1>6. /\ done \subseteq InState(b, "WAITING")
      /\ \A i \in 1..n :
          b.state[b.runList[i]] = "WAITING" => (b.runList[i] \in done <=> i <= b.curThreadIdx)
  BY DEF Scanned
<1>7. ASSUME PhaseEnds(b) PROVE Pend(b, done) = {} /\ r = {} /\ done # {}
  <2>1. b.curThreadIdx = n /\ b.runningThreads = 0 /\ b.leftThreads # n
    BY <1>7 DEF PhaseEnds
  <2>2. r = {}
    BY <1>1, <1>4, <2>1
  <2>3. Pend(b, done) = {}
    <3> SUFFICES ASSUME NEW t \in Tids, b.state[t] = "WAITING", t \notin done PROVE FALSE
      BY DEF Pend
    <3>1. PICK i \in 1..n : b.runList[i] = t
      BY <1>3
    <3> QED
      BY <1>2, <1>6, <2>1, <3>1
  <2>4. done # {}
    <3> SUFFICES ASSUME done = {} PROVE FALSE
      OBVIOUS
    <3>1. OnList(b) = l
      BY <1>1, <1>2, <2>2, <2>3 DEF InState, Pend, States
    <3>2. Cardinality(OnList(b)) = n
      BY <1>1, <1>2, CountList, CoresFinite
    <3> QED
      BY <1>1, <2>1, <3>1, <3>2
  <2> QED
    BY <2>2, <2>3, <2>4
<1>8. ASSUME Pend(b, done) = {}, r = {}, done # {} PROVE PhaseEnds(b)
  <2>1. b.runningThreads = 0
    BY <1>1, <1>4, <1>8
  <2>2. b.curThreadIdx = n
    BY <1>5, <2>1 DEF Settled
  <2>3. PICK t \in done : t \in Tids /\ b.state[t] = "WAITING"
    BY <1>6, <1>8 DEF InState
  <2>4. b.leftThreads # n
    BY <2>3, AllLeft
  <2> QED
    BY <2>1, <2>2, <2>4 DEF PhaseEnds
<1> HIDE DEF r
<1> QED
  BY <1>7, <1>8 DEF r

\* tryWakeNext keeps the set view, nobody is done with a phase that has just
\* begun, and a phase ends only when nobody is pending or runs.
LEMMA TryWakeNextScanned ==
    ASSUME NEW b, WF(b), NEW done, Scanned(b, done), NEW d \in TryWakeNext(b)
    PROVE  /\ Scanned(d, IF d.phaseCount = b.phaseCount THEN done ELSE {})
           /\ d.phaseCount # b.phaseCount =>
                Pend(b, done) = {} /\ InState(b, "RUNNING") = {}
<1> DEFINE c == CheckRunList(b)
<1>1. /\ WF(c) /\ Settled(c) /\ c.phaseCount = b.phaseCount
  BY WalkKeepsWF
<1>2. /\ ToWake(b) \subseteq Pend(b, done)
      /\ Scanned(c, done)
      /\ InState(c, "RUNNING") = InState(b, "RUNNING") \cup ToWake(b)
      /\ Pend(c, done) = Pend(b, done) \ ToWake(b)
  BY WalkScanned
<1>3. PICK e \in CheckEndPhase(c) : d = CheckRunList(e)
  BY DEF TryWakeNext
<1> HIDE DEF c
<1>5. CASE PhaseEnds(c)
  <2>1. /\ Pend(c, done) = {} /\ InState(c, "RUNNING") = {}
    BY <1>1, <1>2, <1>5, PhaseEndsWhen
  <2>2. Pend(b, done) = {} /\ InState(b, "RUNNING") = {}
    BY <1>2, <2>1
  <2>3. e \in NextPhase(c)
    BY <1>3, <1>5 DEF CheckEndPhase
  <2>4. /\ WF(e) /\ e.curThreadIdx = 0 /\ e.phaseCount # b.phaseCount
        /\ \A t \in Tids : e.state[t] = c.state[t]
                           \/ (c.state[t] = "LEFT" /\ e.state[t] = "OFFLINE")
    BY <1>1, <1>5, <2>3, PhaseEndKeepsWF, RewoundAtPhaseEnd, PhaseEndCounted
  <2>5. InState(e, "RUNNING") = {}
    BY <2>1, <2>4 DEF InState
  <2>6. Scanned(e, {})
    <3> SUFFICES ASSUME NEW i \in 1..Len(e.runList)
                 PROVE  e.state[e.runList[i]] # "RUNNING" /\ ~(i <= e.curThreadIdx)
      BY DEF Scanned
    <3>1. e.runList[i] \in Tids /\ i \in Nat \ {0}
      <4>1. e.runList \in Seq(Tids)
        BY <2>4 DEF WF, Listing, Barriers
      <4> QED
        BY <4>1
    <3>2. e.state[e.runList[i]] # "RUNNING"
      BY <2>5, <3>1 DEF InState
    <3>3. ~(i <= e.curThreadIdx)
      BY <2>4, <3>1
    <3> QED
      BY <3>2, <3>3
  <2>7. d.phaseCount # b.phaseCount
    BY <1>3, <2>4, WalkKeepsWF
  <2>8. Scanned(d, {})
    BY <1>3, <2>4, <2>6, WalkScanned
  <2> QED
    BY <2>2, <2>7, <2>8
<1>6. CASE ~PhaseEnds(c)
  <2>1. e = c
    BY <1>3, <1>6 DEF CheckEndPhase
  <2>2. d.phaseCount = b.phaseCount
    BY <1>1, <1>3, <2>1, WalkKeepsWF
  <2>3. Scanned(d, done)
    BY <1>1, <1>2, <1>3, <2>1, WalkScanned
  <2> QED
    BY <2>2, <2>3
<1> QED
  BY <1>5, <1>6

\* A core that joins is pending: it comes to stand behind the walk.
LEMMA JoinScanned ==
    ASSUME NEW b, WF(b), IndicesKnown(b), NEW done, Scanned(b, done), NEW t \in Tids,
           b.state[t] \in {"LEFT", "OFFLINE"}
    PROVE  LET d == Joining(b, t)
           IN  /\ Scanned(d, done)
               /\ Pend(d, done) = Pend(b, done) \cup {t}
               /\ InState(d, "RUNNING") = InState(b, "RUNNING")
<1> DEFINE d == Joining(b, t)
           n == Len(b.runList)
           cur == b.curThreadIdx
<1>1. /\ b \in Barriers /\ IsInjective(b.runList) /\ cur <= n
      /\ OnList(b) = {u \in Tids : b.state[u] # "OFFLINE"}
  BY DEF WF, Listing
<1>2. /\ b.runList \in Seq(Tids) /\ cur \in Nat /\ b.state \in [Tids -> States]
      /\ n \in Nat /\ DOMAIN b.runList = 1..n /\ \A i \in 1..n : b.runList[i] \in Tids
  BY <1>1 DEF Barriers
<1>3. RejoinAssert(b, t)
  BY DEF RejoinAssert, Rejoins, IndicesKnown
<1>4. WF(d) /\ d.state = [b.state EXCEPT ![t] = "WAITING"]
  BY <1>3, JoiningWorks
<1>5. /\ done \subseteq InState(b, "WAITING") /\ t \notin done
      /\ \A i \in 1..n :
          /\ b.state[b.runList[i]] = "RUNNING" => i <= cur
          /\ b.state[b.runList[i]] = "WAITING" => (b.runList[i] \in done <=> i <= cur)
  BY DEF Scanned, InState
<1>6. done \subseteq InState(d, "WAITING")
  BY <1>2, <1>4, <1>5 DEF InState
<1>7. /\ Pend(d, done) = Pend(b, done) \cup {t}
      /\ InState(d, "RUNNING") = InState(b, "RUNNING")
  BY <1>2, <1>4, <1>5 DEF Pend, InState
<1>8. ASSUME NEW i \in 1..Len(d.runList)
      PROVE  /\ d.state[d.runList[i]] = "RUNNING" => i <= d.curThreadIdx
             /\ d.state[d.runList[i]] = "WAITING" => (d.runList[i] \in done <=> i <= d.curThreadIdx)
  <2>1. CASE b.state[t] = "OFFLINE"
    <3> DEFINE list == Append(b.runList, t)
    <3>1. d.runList = list /\ d.curThreadIdx = cur
      BY <1>1, <2>1 DEF Joining, Listed, Barriers
    <3>2. /\ Len(list) = n + 1 /\ list[n + 1] = t
          /\ \A j \in 1..n : list[j] = b.runList[j]
      BY <1>2
    <3>3. \A j \in 1..n : b.runList[j] # t
      BY <1>1, <2>1 DEF OnList
    <3> HIDE DEF list, d, n, cur
    <3>4. i \in 1..n \/ i = n + 1
      BY <1>2, <3>1, <3>2
    <3>5. CASE i \in 1..n
      <4>1. d.runList[i] = b.runList[i] /\ b.runList[i] # t /\ b.runList[i] \in Tids
        BY <1>2, <3>1, <3>2, <3>3, <3>5
      <4>2. d.state[d.runList[i]] = b.state[b.runList[i]]
        BY <1>2, <1>4, <4>1
      <4> QED
        BY <1>5, <3>1, <3>5, <4>1, <4>2
    <3>6. CASE i = n + 1
      <4>1. d.runList[i] = t /\ d.state[t] = "WAITING" /\ ~(i <= d.curThreadIdx)
        BY <1>1, <1>2, <1>4, <3>1, <3>2, <3>6
      <4> QED
        BY <1>5, <4>1
    <3> QED
      BY <3>4, <3>5, <3>6
  <2>2. CASE b.state[t] = "LEFT" /\ Rejoins(b, t)
    <3> DEFINE list == Rescheduled(b, t).runList
               idx == b.lastIdx[t]
    <3>1. /\ Len(list) = n /\ idx \in 1..n /\ cur \in 1..n
          /\ list[cur] = t /\ list[idx] = b.runList[cur]
          /\ \A j \in 1..n : j # idx /\ j # cur => list[j] = b.runList[j]
          /\ b.runList[idx] = t
      BY <1>3, <2>2, SwappedWF
    <3>2. d.runList = list /\ d.curThreadIdx = cur - 1
      BY <1>1, <2>2 DEF Joining, Listed, Rescheduled, Barriers
    <3>3. idx <= cur
      BY <2>2 DEF Rejoins
    <3> HIDE DEF list, d, n, cur, idx
    <3>4. i \in 1..n
      BY <3>1, <3>2
    <3>5. CASE i = cur
      <4>1. d.runList[i] = t /\ d.state[t] = "WAITING" /\ ~(i <= d.curThreadIdx)
        BY <1>2, <1>4, <3>1, <3>2, <3>5
      <4> QED
        BY <1>5, <4>1
    <3>6. CASE i # cur /\ i = idx
      <4>1. d.runList[i] = b.runList[cur] /\ b.runList[cur] # t /\ b.runList[cur] \in Tids
        BY <1>1, <1>2, <3>1, <3>2, <3>6 DEF IsInjective
      <4>2. d.state[d.runList[i]] = b.state[b.runList[cur]]
        BY <1>2, <1>4, <4>1
      <4>3. i <= d.curThreadIdx /\ cur <= cur
        BY <1>2, <3>1, <3>2, <3>3, <3>6
      <4> QED
        BY <1>5, <3>1, <4>1, <4>2, <4>3
    <3>7. CASE i # cur /\ i # idx
      <4>1. d.runList[i] = b.runList[i] /\ b.runList[i] # t /\ b.runList[i] \in Tids
        BY <1>1, <1>2, <3>1, <3>2, <3>4, <3>7 DEF IsInjective
      <4>2. d.state[d.runList[i]] = b.state[b.runList[i]]
        BY <1>2, <1>4, <4>1
      <4>3. i <= d.curThreadIdx <=> i <= cur
        BY <1>2, <3>2, <3>4, <3>7
      <4> QED
        BY <1>5, <3>4, <4>1, <4>2, <4>3
    <3> QED
      BY <3>5, <3>6, <3>7
  <2>3. CASE b.state[t] = "LEFT" /\ ~Rejoins(b, t)
    <3>1. d.runList = b.runList /\ d.curThreadIdx = cur
      BY <1>1, <2>3 DEF Joining, Listed, Barriers
    <3>2. b.lastIdx[t] \in 1..n /\ b.runList[b.lastIdx[t]] = t /\ ~(b.lastIdx[t] <= cur)
      BY <1>2, <2>3 DEF IndicesKnown, Rejoins
    <3> HIDE DEF d, n, cur
    <3>3. i \in 1..n
      BY <3>1 DEF n
    <3>4. CASE b.runList[i] = t
      <4>1. i = b.lastIdx[t]
        BY <1>1, <1>2, <3>2, <3>3, <3>4 DEF IsInjective
      <4> QED
        BY <1>2, <1>4, <1>5, <3>1, <3>2, <3>4, <4>1
    <3>5. CASE b.runList[i] # t
      <4>1. d.state[d.runList[i]] = b.state[b.runList[i]]
        BY <1>2, <1>4, <3>1, <3>3, <3>5
      <4> QED
        BY <1>5, <3>1, <3>3, <4>1
    <3> QED
      BY <3>4, <3>5
  <2> QED
    BY <2>1, <2>2, <2>3
<1> QED
  BY <1>6, <1>7, <1>8 DEF Scanned

\* A core that stops running is done, or out.
LEMMA StopScanned ==
    ASSUME NEW b, WF(b), NEW done, Scanned(b, done), NEW t \in Tids, b.state[t] = "RUNNING"
    PROVE  /\ Scanned(Syncing(b, t), done \cup {t})
           /\ Pend(Syncing(b, t), done \cup {t}) = Pend(b, done)
           /\ InState(Syncing(b, t), "RUNNING") = InState(b, "RUNNING") \ {t}
           /\ Scanned(Leaving(b, t), done)
           /\ Pend(Leaving(b, t), done) = Pend(b, done)
           /\ InState(Leaving(b, t), "RUNNING") = InState(b, "RUNNING") \ {t}
<1>1. b \in Barriers
  BY DEF WF, Listing
<1>2. /\ b.state \in [Tids -> States]
      /\ \A i \in 1..Len(b.runList) : b.runList[i] \in Tids
  BY <1>1 DEF Barriers
<1>3. /\ Syncing(b, t).state = [b.state EXCEPT ![t] = "WAITING"]
      /\ Syncing(b, t).runList = b.runList /\ Syncing(b, t).curThreadIdx = b.curThreadIdx
      /\ Leaving(b, t).state = [b.state EXCEPT ![t] = "LEFT"]
      /\ Leaving(b, t).runList = b.runList /\ Leaving(b, t).curThreadIdx = b.curThreadIdx
  BY <1>1 DEF Syncing, Leaving, Barriers
<1>4. t \notin done
  BY DEF Scanned, InState
<1> QED
  BY <1>2, <1>3, <1>4 DEF Scanned, Pend, InState
=============================================================================
