--------------------------- MODULE SchedulerProofs ---------------------------
(***************************************************************************)
(* Theorems about module Scheduler, for every set of threads, cores, masks *)
(* and every bound.  The scheduler's tables, the barrier and the recorders *)
(* agree whichever processes are killed and reaped (KillSpec).             *)
(*                                                                         *)
(* The first part is about the operators of SchedulerOps.  The invariant   *)
(* Consistent relates the tables of threads and contexts, the lists, the   *)
(* promised handoffs, the barrier and the recorders; every operation either*)
(* keeps it or fails an assertion.                                         *)
(***************************************************************************)
EXTENDS Scheduler, BarrierOpsProofs

-----------------------------------------------------------------------------
(* Lists                                                                   *)

\* The rank of a position among those of I counts up to its size.
LEMMA Enumeration ==
    ASSUME NEW n \in Nat, NEW I, I \subseteq 1..n
    PROVE  LET f == [k \in 1..Cardinality(I) |->
                        CHOOSE i \in I : Cardinality({j \in I : j < i}) = k - 1]
           IN  /\ Cardinality(I) \in Nat
               /\ f \in [1..Cardinality(I) -> I]
               /\ \A i \in I : \E k \in 1..Cardinality(I) : f[k] = i
               /\ \A k, l \in 1..Cardinality(I) : k < l => f[k] < f[l]
<1> DEFINE N == Cardinality(I)
           B(i) == {j \in I : j < i}
           rank == [i \in I |-> Cardinality(B(i)) + 1]
           f == [k \in 1..N |-> CHOOSE i \in I : Cardinality(B(i)) = k - 1]
<1>1. IsFiniteSet(I) /\ N \in Nat /\ \A i \in I : i \in Nat
  <2>1. IsFiniteSet(1..n)
    BY FS_Interval
  <2>2. IsFiniteSet(I) /\ N \in Nat
    BY <2>1, FS_Subset, FS_CardinalityType
  <2>3. \A i \in I : i \in Nat
    OBVIOUS
  <2> QED
    BY <2>2, <2>3
<1>2. ASSUME NEW S, S \subseteq I
      PROVE  /\ IsFiniteSet(S) /\ Cardinality(S) \in Nat /\ Cardinality(S) <= N
             /\ \A T \in SUBSET S : T # S => Cardinality(T) < Cardinality(S)
  <2>1. IsFiniteSet(S) /\ Cardinality(S) \in Nat /\ Cardinality(S) <= N
    BY <1>1, <1>2, FS_Subset, FS_CardinalityType
  <2>2. ASSUME NEW T \in SUBSET S, T # S
        PROVE  Cardinality(T) < Cardinality(S)
    <3>1. /\ Cardinality(T) <= Cardinality(S) /\ Cardinality(T) # Cardinality(S)
          /\ Cardinality(T) \in Nat
      BY <2>1, <2>2, FS_Subset, FS_CardinalityType
    <3> QED
      BY <2>1, <3>1
  <2> QED
    BY <2>1, <2>2
<1>3. \A i \in I : Cardinality(B(i)) \in 0..(N - 1) /\ B(i) \subseteq I
  <2> TAKE i \in I
  <2>1. B(i) \in SUBSET I /\ B(i) # I
    BY <1>1
  <2>2. Cardinality(B(i)) < N /\ Cardinality(B(i)) \in Nat
    BY <1>2, <2>1
  <2> QED
    BY <1>1, <2>1, <2>2
<1>4. \A i, j \in I : i < j => Cardinality(B(i)) < Cardinality(B(j))
  <2> SUFFICES ASSUME NEW i \in I, NEW j \in I, i < j
               PROVE  Cardinality(B(i)) < Cardinality(B(j))
    OBVIOUS
  <2>1. B(i) \in SUBSET B(j)
    <3> SUFFICES ASSUME NEW x \in I, x < i PROVE x < j
      OBVIOUS
    <3> QED
      BY <1>1
  <2>2. i \in B(j) /\ i \notin B(i)
    BY <1>1
  <2>3. B(i) # B(j)
    BY <2>2
  <2> HIDE DEF B
  <2> QED
    BY <1>2, <1>3, <2>1, <2>3
<1> HIDE DEF B
<1>5. rank \in Injection(I, 1..N)
  <2>1. rank \in [I -> 1..N]
    BY <1>1, <1>3
  <2>2. \A i, j \in I : rank[i] = rank[j] => i = j
    <3> SUFFICES ASSUME NEW i \in I, NEW j \in I, rank[i] = rank[j], i # j PROVE FALSE
      OBVIOUS
    <3>1. Cardinality(B(i)) = Cardinality(B(j))
      BY <1>3
    <3>2. i < j \/ j < i
      BY <1>1
    <3> QED
      BY <1>3, <1>4, <3>1, <3>2
  <2> QED
    BY <2>1, <2>2 DEF Injection, IsInjective
<1>6. rank \in Surjection(I, 1..N)
  <2>1. IsFiniteSet(1..N) /\ Cardinality(1..N) = N
    BY <1>1, FS_Interval
  <2> HIDE DEF rank
  <2> QED
    BY <1>5, <2>1, FS_Injection
<1>7. \A k \in 1..N : \E i \in I : Cardinality(B(i)) = k - 1
  <2> TAKE k \in 1..N
  <2>1. PICK i \in I : rank[i] = k
    BY <1>6 DEF Surjection
  <2> QED
    BY <1>3, <2>1
<1>8. \A k \in 1..N : f[k] \in I /\ Cardinality(B(f[k])) = k - 1
  BY <1>7
<1> HIDE DEF f, rank, N
<1>9. f \in [1..N -> I]
  <2>1. f = [k \in 1..N |-> f[k]]
    BY DEF f
  <2> QED
    BY <1>8, <2>1
<1>10. \A i \in I : \E k \in 1..N : f[k] = i
  <2> TAKE i \in I
  <2> DEFINE k == Cardinality(B(i)) + 1
             h == f[k]
  <2>1. k \in 1..N /\ Cardinality(B(h)) = Cardinality(B(i)) /\ h \in I
    BY <1>1, <1>3, <1>8
  <2> HIDE DEF k, h
  <2>2. ~(h < i) /\ ~(i < h)
    <3>1. Cardinality(B(i)) \in Int
      BY <1>1, <1>3
    <3> QED
      BY <1>4, <2>1, <3>1
  <2>3. h = i
    BY <1>1, <2>1, <2>2
  <2>4. k \in 1..N /\ f[k] = i
    BY <2>1, <2>3 DEF h
  <2> QED
    BY <2>4
<1>11. \A k, l \in 1..N : k < l => f[k] < f[l]
  <2> SUFFICES ASSUME NEW k \in 1..N, NEW l \in 1..N, k < l PROVE f[k] < f[l]
    OBVIOUS
  <2> DEFINE g == f[k]
             h == f[l]
  <2>1. g \in I /\ h \in I /\ Cardinality(B(g)) = k - 1 /\ Cardinality(B(h)) = l - 1
    BY <1>8
  <2> HIDE DEF g, h
  <2>2. ~(h < g) /\ h # g
    BY <1>4, <2>1
  <2>3. g < h
    BY <1>1, <2>1, <2>2
  <2> QED
    BY <2>3 DEF g, h
<1> QED
  BY <1>1, <1>9, <1>10, <1>11 DEF f, N, B

\* A list without the entries of a set.
LEMMA WithoutIs ==
    ASSUME NEW S, NEW q \in Seq(S), NEW A
    PROVE  LET r == Without(q, A)
           IN  /\ r \in Seq(S)
               /\ Members(r) = Members(q) \ A
               /\ IsInjective(q) => IsInjective(r)
               /\ \A k, l \in 1..Len(r) : k < l =>
                    \E i, j \in 1..Len(q) : i < j /\ r[k] = q[i] /\ r[l] = q[j]
<1> DEFINE n == Len(q)
           I == {i \in 1..n : q[i] \notin A}
           N == Cardinality(I)
           f == [k \in 1..N |-> CHOOSE i \in I : Cardinality({j \in I : j < i}) = k - 1]
           r == Without(q, A)
<1>1. n \in Nat /\ DOMAIN q = 1..n /\ \A i \in 1..n : q[i] \in S
  OBVIOUS
<1>2. /\ N \in Nat /\ f \in [1..N -> I]
      /\ \A i \in I : \E k \in 1..N : f[k] = i
      /\ \A k, l \in 1..N : k < l => f[k] < f[l]
  <2>1. I \subseteq 1..n
    OBVIOUS
  <2> HIDE DEF I, n
  <2> QED
    BY <1>1, <2>1, Enumeration
<1>3. r = [k \in 1..N |-> q[f[k]]]
  BY DEF Without, Sublist
<1> HIDE DEF f, N, r, n
<1>4. \A k \in 1..N : f[k] \in 1..n /\ q[f[k]] \in S /\ q[f[k]] \notin A
  BY <1>1, <1>2
<1>5. r \in Seq(S) /\ Len(r) = N
  BY <1>2, <1>3, <1>4
<1>6. Members(r) = Members(q) \ A
  <2>1. ASSUME NEW k \in 1..N PROVE r[k] \in Members(q) \ A
    BY <1>3, <1>4 DEF Members, n
  <2>2. ASSUME NEW i \in 1..n, q[i] \notin A PROVE \E k \in 1..N : r[k] = q[i]
    BY <1>2, <1>3, <2>2
  <2>3. Members(r) = {r[k] : k \in 1..N} /\ Members(q) = {q[i] : i \in 1..n}
    BY <1>5 DEF Members, n
  <2>4. Members(r) \subseteq Members(q) \ A
    BY <2>1, <2>3
  <2>5. Members(q) \ A \subseteq Members(r)
    BY <2>2, <2>3
  <2> QED
    BY <2>4, <2>5
<1>7. ASSUME IsInjective(q) PROVE IsInjective(r)
  <2>1. \A k, l \in 1..N : r[k] = r[l] => k = l
    <3> SUFFICES ASSUME NEW k \in 1..N, NEW l \in 1..N, r[k] = r[l], k # l PROVE FALSE
      OBVIOUS
    <3>1. f[k] = f[l]
      BY <1>1, <1>3, <1>4, <1>7 DEF IsInjective
    <3>2. k < l \/ l < k
      OBVIOUS
    <3> QED
      BY <1>2, <1>4, <3>1, <3>2
  <2> QED
    BY <1>3, <2>1 DEF IsInjective
<1>8. \A k, l \in 1..N : k < l =>
        \E i, j \in 1..n : i < j /\ r[k] = q[i] /\ r[l] = q[j]
  BY <1>2, <1>3, <1>4
<1> QED
  BY <1>5, <1>6, <1>7, <1>8 DEF r, n

\* A list without one of its entries.
LEMMA RemoveIs ==
    ASSUME NEW S, NEW q \in Seq(S), NEW e
    PROVE  LET r == Remove(q, e)
           IN  /\ r \in Seq(S)
               /\ Members(r) = Members(q) \ {e}
               /\ IsInjective(q) => IsInjective(r)
               /\ \A k, l \in 1..Len(r) : k < l =>
                    \E i, j \in 1..Len(q) : i < j /\ r[k] = q[i] /\ r[l] = q[j]
<1> DEFINE A == {e}
           r == Remove(q, e)
<1>1. r = Without(q, A)
  BY DEF Remove
<1> HIDE DEF A, r
<1>2. /\ r \in Seq(S)
      /\ Members(r) = Members(q) \ A
      /\ IsInjective(q) => IsInjective(r)
      /\ \A k, l \in 1..Len(r) : k < l =>
           \E i, j \in 1..Len(q) : i < j /\ r[k] = q[i] /\ r[l] = q[j]
  BY <1>1, WithoutIs
<1> QED
  BY <1>2 DEF A, r

\* A list with one entry more.
LEMMA AppendIs ==
    ASSUME NEW S, NEW q \in Seq(S), NEW e \in S
    PROVE  LET r == Append(q, e)
           IN  /\ r \in Seq(S)
               /\ Members(r) = Members(q) \cup {e}
               /\ IsInjective(q) /\ e \notin Members(q) => IsInjective(r)
<1> DEFINE r == Append(q, e)
           n == Len(q)
<1>1. /\ n \in Nat /\ DOMAIN q = 1..n /\ r \in Seq(S) /\ Len(r) = n + 1
      /\ DOMAIN r = 1..(n + 1) /\ r[n + 1] = e /\ \A i \in 1..n : r[i] = q[i]
  OBVIOUS
<1>2. \A i \in 1..(n + 1) : i \in 1..n \/ i = n + 1
  BY <1>1
<1> HIDE DEF r, n
<1>3. Members(r) = Members(q) \cup {e}
  <2>1. \A i \in 1..(n + 1) : r[i] \in Members(q) \cup {e}
    BY <1>1, <1>2 DEF Members, n
  <2>2. \A i \in 1..n : q[i] \in Members(r)
    BY <1>1 DEF Members
  <2>3. e \in Members(r)
    BY <1>1 DEF Members
  <2> QED
    BY <1>1, <2>1, <2>2, <2>3 DEF Members, n
<1>4. ASSUME IsInjective(q), e \notin Members(q) PROVE IsInjective(r)
  <2>1. \A i, j \in 1..(n + 1) : r[i] = r[j] => i = j
    BY <1>1, <1>2, <1>4 DEF IsInjective, Members, n
  <2> QED
    BY <1>1, <2>1 DEF IsInjective
<1> QED
  BY <1>1, <1>3, <1>4 DEF r

\* The least of a set of positions.
LEMMA FirstIs ==
    ASSUME NEW n \in Nat, NEW I, I \subseteq 1..n, I # {}
    PROVE  First(I) \in I /\ \A j \in I : First(I) <= j
<1>1. \E i \in I : \A j \in I : i <= j
  <2>1. I \subseteq Nat
    OBVIOUS
  <2> QED
    BY <2>1, LeastElement
<1> QED
  BY <1>1 DEF First

\* The first entry in a set is in it, or there is none.
LEMMA FirstOfIs ==
    ASSUME NEW S, NEW q \in Seq(S), NEW A, None \notin S
    PROVE  LET e == FirstOf(q, A)
           IN  /\ e = None => \A x \in Members(q) : x \notin A
               /\ e # None => e \in Members(q) /\ e \in A /\ e \in S
<1> DEFINE I == {i \in 1..Len(q) : q[i] \in A}
<1>1. CASE I = {}
  BY <1>1 DEF FirstOf, Members
<1>2. CASE I # {}
  <2>1. Len(q) \in Nat /\ I \subseteq 1..Len(q)
    OBVIOUS
  <2>2. First(I) \in I
    <3> HIDE DEF I
    <3> QED
      BY <1>2, <2>1, FirstIs
  <2>3. FirstOf(q, A) = q[First(I)]
    BY <1>2 DEF FirstOf
  <2> DEFINE i == First(I)
  <2>4. i \in 1..Len(q) /\ q[i] \in A
    BY <2>2
  <2> HIDE DEF i
  <2>5. q[i] \in S /\ q[i] \in A /\ q[i] \in Members(q)
    BY <2>4 DEF Members
  <2> QED
    BY <2>3, <2>5 DEF i
<1> QED
  BY <1>1, <1>2

\* The queue is in the order of the deadlines.
Sorted(s, q) ==
    \A i, j \in 1..Len(q) : i < j => s.thr[q[i]].wakeIn <= s.thr[q[j]].wakeIn

\* The ordered insertion of leave adds the sleeper and keeps the order.
LEMMA InsertSleeperIs ==
    ASSUME NEW s \in Schedulers, NEW t \in Threads
    PROVE  LET q == s.sleepQueue
               r == InsertSleeper(s, t)
           IN  /\ r \in Seq(Threads)
               /\ Members(r) = Members(q) \cup {t}
               /\ IsInjective(q) /\ t \notin Members(q) => IsInjective(r)
               /\ Sorted(s, q) => Sorted(s, r)
<1> DEFINE q == s.sleepQueue
           r == InsertSleeper(s, t)
           n == Len(q)
           wake(u) == s.thr[u].wakeIn
           later == {i \in 1..n : wake(q[i]) > wake(t)}
           at == IF later = {} THEN n + 1 ELSE First(later)
<1>1. /\ q \in Seq(Threads) /\ n \in Nat /\ DOMAIN q = 1..n /\ \A i \in 1..n : q[i] \in Threads
      /\ \A u \in Threads : wake(u) \in Nat
  <2>1. q \in Seq(Threads)
    BY DEF Schedulers
  <2>2. \A u \in Threads : wake(u) \in Nat
    <3>1. s.thr \in [Threads -> ThreadInfos] /\ MaxSleep \in Nat
      BY SchedulerAssumption DEF Schedulers, SchedulerAssumption
    <3> QED
      BY <3>1 DEF ThreadInfos
  <2> QED
    BY <2>1, <2>2
<1>2. /\ at \in 1..(n + 1)
      /\ \A i \in 1..n : i < at => wake(q[i]) <= wake(t)
      /\ at \in 1..n => wake(q[at]) > wake(t)
  <2>1. CASE later = {}
    <3>1. at = n + 1 /\ \A i \in 1..n : ~(wake(q[i]) > wake(t))
      BY <2>1
    <3> HIDE DEF at
    <3> QED
      BY <1>1, <3>1
  <2>2. CASE later # {}
    <3>1. later \subseteq 1..n
      OBVIOUS
    <3>2. at \in later /\ \A j \in later : at <= j
      <4> HIDE DEF later
      <4> QED
        BY <1>1, <2>2, <3>1, FirstIs
    <3> HIDE DEF at
    <3>3. at \in 1..n /\ wake(q[at]) > wake(t)
      BY <3>2
    <3>4. ASSUME NEW i \in 1..n, i < at PROVE wake(q[i]) <= wake(t)
      <4>1. i \notin later
        BY <1>1, <3>2, <3>3, <3>4
      <4> QED
        BY <1>1, <4>1
    <3>5. at \in 1..(n + 1)
      BY <1>1, <3>3
    <3> QED
      BY <3>3, <3>4, <3>5
  <2> QED
    BY <2>1, <2>2
<1>3. r = [i \in 1..(n + 1) |-> IF i < at THEN q[i] ELSE IF i = at THEN t ELSE q[i - 1]]
  BY DEF InsertSleeper
<1> HIDE DEF r, n, q, at
<1>4. /\ \A i \in 1..(n + 1) : i < at => i \in 1..n /\ r[i] = q[i]
      /\ \A i \in 1..(n + 1) : i > at => i - 1 \in 1..n /\ r[i] = q[i - 1]
      /\ r[at] = t
  BY <1>1, <1>2, <1>3
<1>5. r \in Seq(Threads) /\ Len(r) = n + 1 /\ DOMAIN r = 1..(n + 1)
  <2>1. \A i \in 1..(n + 1) : r[i] \in Threads
    <3> TAKE i \in 1..(n + 1)
    <3>1. i < at \/ i > at \/ i = at
      BY <1>1, <1>2
    <3> QED
      BY <1>1, <1>4, <3>1
  <2> QED
    BY <1>1, <1>3, <2>1
<1>6. Members(r) = Members(q) \cup {t}
  <2>1. \A i \in 1..(n + 1) : r[i] \in Members(q) \cup {t}
    <3> TAKE i \in 1..(n + 1)
    <3>1. i < at \/ i > at \/ i = at
      BY <1>1, <1>2
    <3> QED
      BY <1>4, <3>1 DEF Members, n
  <2>2. \A i \in 1..n : q[i] \in Members(r)
    <3> TAKE i \in 1..n
    <3>1. i < at => r[i] = q[i] /\ i \in 1..(n + 1)
      BY <1>1, <1>4
    <3>2. ~(i < at) => r[i + 1] = q[i] /\ i + 1 \in 1..(n + 1)
      BY <1>1, <1>2, <1>4
    <3> QED
      BY <1>5, <3>1, <3>2 DEF Members
  <2>3. t \in Members(r)
    BY <1>2, <1>4, <1>5 DEF Members
  <2> QED
    BY <1>5, <2>1, <2>2, <2>3 DEF Members, n
<1>7. ASSUME IsInjective(q), t \notin Members(q) PROVE IsInjective(r)
  <2>1. \A i, j \in 1..n : q[i] = q[j] => i = j
    BY <1>1, <1>7 DEF IsInjective
  <2>2. \A i \in 1..n : q[i] # t
    BY <1>7 DEF Members, n
  <2>3. \A i, j \in 1..(n + 1) : r[i] = r[j] => i = j
    <3> TAKE i, j \in 1..(n + 1)
    <3>1. /\ i < at \/ i > at \/ i = at
          /\ j < at \/ j > at \/ j = at
      BY <1>1, <1>2
    <3> QED
      BY <1>1, <1>2, <1>4, <2>1, <2>2, <3>1
  <2> QED
    BY <1>5, <2>3 DEF IsInjective
<1>8. ASSUME Sorted(s, q) PROVE Sorted(s, r)
  <2>1. \A i, j \in 1..n : i < j => wake(q[i]) <= wake(q[j])
    BY <1>8 DEF Sorted, n
  <2>2. ASSUME NEW i \in 1..(n + 1), NEW j \in 1..(n + 1), i < j
        PROVE  wake(r[i]) <= wake(r[j])
    <3> HIDE DEF wake
    <3>1. CASE j < at
      <4>1. i < at
        BY <1>1, <1>2, <2>2, <3>1
      <4> QED
        BY <1>4, <2>1, <2>2, <3>1, <4>1
    <3>2. CASE j = at
      BY <1>2, <1>4, <2>2, <3>2
    <3>3. CASE j > at /\ i < at
      <4>1. i < j - 1 \/ i = j - 1
        BY <1>1, <1>2, <2>2, <3>3
      <4>2. wake(q[j - 1]) \in Nat
        BY <1>1, <1>4, <3>3
      <4> QED
        BY <1>1, <1>4, <2>1, <2>2, <3>3, <4>1, <4>2
    <3>4. CASE j > at /\ i = at
      <4>1. at \in 1..n /\ (at < j - 1 \/ at = j - 1) /\ j - 1 \in 1..n
        BY <1>1, <1>2, <1>4, <2>2, <3>4
      <4>2. wake(t) <= wake(q[at]) /\ wake(q[at]) <= wake(q[j - 1])
        BY <1>1, <1>2, <2>1, <4>1
      <4>3. wake(t) \in Nat /\ wake(q[at]) \in Nat /\ wake(q[j - 1]) \in Nat
        BY <1>1, <4>1
      <4>4. r[i] = t /\ r[j] = q[j - 1]
        BY <1>4, <3>4
      <4> QED
        BY <4>2, <4>3, <4>4
    <3>5. CASE j > at /\ i > at
      <4>1. i - 1 \in 1..n /\ j - 1 \in 1..n /\ i - 1 < j - 1
        BY <1>1, <1>4, <2>2, <3>5
      <4> QED
        BY <1>4, <2>1, <3>5, <4>1
    <3> QED
      BY <1>1, <1>2, <3>1, <3>2, <3>3, <3>4, <3>5
  <2> QED
    BY <1>5, <2>2 DEF Sorted
<1> QED
  BY <1>5, <1>6, <1>7, <1>8 DEF r, q

-----------------------------------------------------------------------------
(* The tables of the scheduler                                             *)

\* Core c's thread runs.
Runs(s, c) == s.cur[c] # None /\ s.thr[s.cur[c]].state = "RUNNING"

\* A list holds each member of S once, and nothing else.
Holds(q, S) == IsInjective(q) /\ Members(q) = S

\* The threads in one of these states.
InStates(s, states) == {t \in Threads : s.thr[t].state \in states}

\* A thread is RUNNING or OUT exactly when it has a context, its own.
Contexts(s) ==
    /\ \A t \in InStates(s, {"RUNNING", "OUT"}) : s.cur[s.thr[t].cid] = t
    /\ \A c \in Cores : s.cur[c] # None =>
         s.thr[s.cur[c]].cid = c /\ s.thr[s.cur[c]].state \in {"RUNNING", "OUT"}

\* Each list holds, once, what is in its state; the run queue may lack a
\* thread that is promised a context.
Lists(s) ==
    /\ Holds(s.freeList, {c \in Cores : s.cur[c] = None})
    /\ Holds(s.outQueue, InStates(s, {"OUT"}))
    /\ Holds(s.sleepQueue, InStates(s, {"SLEEPING"}))
    /\ IsInjective(s.runQueue) /\ Members(s.runQueue) \subseteq InStates(s, {"QUEUED"})
    /\ IsInjective(s.fakeLeaves)

\* Somebody is to hand its context over to t.
Promised(s, t) == \E u \in Threads : s.thr[u].handoff = t

\* At most one thread hands over to a queued one, which is off the run queue;
\* and who waits for a wakeup has its futex word set.
Promises(s) ==
    /\ \A u \in Threads : s.thr[u].handoff # None =>
         /\ s.thr[s.thr[u].handoff].state = "QUEUED"
         /\ s.thr[s.thr[u].handoff].word = 1
         /\ s.thr[u].handoff \notin Members(s.runQueue)
         /\ \A v \in Threads : s.thr[v].handoff = s.thr[u].handoff => v = u
    /\ \A t \in Members(s.runQueue) : s.thr[t].word = 1

\* A thread queues only while the threads of all its cores run.
Conserves(s) == \A t \in Members(s.runQueue) : \A c \in Mask[t] : Runs(s, c)

\* All of it: the invariant of the tables.
Tables(s) == s \in Schedulers /\ Contexts(s) /\ Lists(s) /\ Promises(s) /\ Conserves(s)

\* The barrier b and the recorders know the cores that run.
Fits(s, b) ==
    \A c \in Cores : /\ Runs(s, c) <=> b.state[c] \in {"WAITING", "RUNNING"}
                     /\ Runs(s, c) <=> c \in s.active

\* ... and of the tables, the barrier and the recorders together.
Consistent(s) == Tables(s) /\ WF(s.bar) /\ Fits(s, s.bar)

\* The types of the fields and of their entries.
LEMMA Types ==
    ASSUME NEW s \in Schedulers
    PROVE  /\ s.thr \in [Threads -> ThreadInfos] /\ s.cur \in [Cores -> Threads \cup {None}]
           /\ s.freeList \in Seq(Cores) /\ s.runQueue \in Seq(Threads)
           /\ s.outQueue \in Seq(Threads) /\ s.sleepQueue \in Seq(Threads)
           /\ s.fakeLeaves \in Seq(Threads) /\ s.phase \in 0..(SchedQuantum - 1)
           /\ s.active \subseteq Cores /\ s.bar \in Barriers /\ s.broken \in BOOLEAN
           /\ \A t \in Threads : /\ s.thr[t] \in ThreadInfos
                                 /\ s.thr[t].state \in ThreadStates
                                 /\ s.thr[t].cid \in Cores
                                 /\ s.thr[t].handoff \in Threads \cup {None}
                                 /\ s.thr[t].word \in {0, 1} /\ s.thr[t].marked \in BOOLEAN
                                 /\ s.thr[t].wakeIn \in 0..MaxSleep
                                 /\ Mask[t] \subseteq Cores
           /\ None \notin Threads /\ None \notin Cores
<1>1. s.thr \in [Threads -> ThreadInfos]
  BY DEF Schedulers
<1>2. ASSUME NEW t \in Threads
      PROVE  /\ s.thr[t] \in ThreadInfos
             /\ s.thr[t].state \in ThreadStates /\ s.thr[t].cid \in Cores
             /\ s.thr[t].handoff \in Threads \cup {None}
             /\ s.thr[t].word \in {0, 1} /\ s.thr[t].marked \in BOOLEAN
             /\ s.thr[t].wakeIn \in 0..MaxSleep /\ Mask[t] \subseteq Cores
  <2>1. s.thr[t] \in ThreadInfos
    BY <1>1
  <2>2. Mask[t] \subseteq Cores
    BY SchedulerAssumption DEF SchedulerAssumption
  <2> QED
    BY <2>1, <2>2 DEF ThreadInfos
<1>3. None \notin Threads /\ None \notin Cores
  BY SchedulerAssumption DEF SchedulerAssumption
<1> QED
  BY <1>1, <1>2, <1>3 DEF Schedulers

\* The members of a list are of its type.
LEMMA MembersType ==
    ASSUME NEW S, NEW q \in Seq(S)
    PROVE  Members(q) \subseteq S
BY DEF Members

\* The bound on a sleep admits none.
LEMMA NoWait == MaxSleep \in Nat /\ 0 \in 0..MaxSleep
BY SchedulerAssumption DEF SchedulerAssumption

\* A record of the scheduler by its fields.
Moved(s, thr, cur, free, run, out, sleep, fake, active) ==
    [s EXCEPT !.thr = thr, !.cur = cur, !.freeList = free, !.runQueue = run,
              !.outQueue = out, !.sleepQueue = sleep, !.fakeLeaves = fake, !.active = active]

\* What the tables' invariant says of the types.
Typed(s) ==
    /\ s \in Schedulers /\ Contexts(s) /\ Lists(s) /\ Promises(s) /\ Conserves(s)
    /\ s.thr \in [Threads -> ThreadInfos] /\ s.cur \in [Cores -> Threads \cup {None}]
    /\ s.freeList \in Seq(Cores) /\ s.runQueue \in Seq(Threads)
    /\ s.outQueue \in Seq(Threads) /\ s.sleepQueue \in Seq(Threads)
    /\ s.fakeLeaves \in Seq(Threads) /\ s.active \in SUBSET Cores
    /\ \A u \in Threads : /\ s.thr[u] \in ThreadInfos /\ s.thr[u].cid \in Cores
                          /\ s.thr[u].handoff \in Threads \cup {None}
                          /\ Mask[u] \subseteq Cores
    /\ None \notin Threads /\ None \notin Cores
    /\ Members(s.runQueue) \subseteq Threads

\* The tables' invariant gives these types.
LEMMA TableTypes ==
    ASSUME NEW s, Tables(s)
    PROVE  Typed(s)
<1>1. s \in Schedulers /\ Contexts(s) /\ Lists(s) /\ Promises(s) /\ Conserves(s)
  BY DEF Tables
<1>2. s.runQueue \in Seq(Threads)
  BY <1>1, Types
<1> QED
  BY <1>1, <1>2, Types, MembersType DEF Typed

\* Who has a context keeps it.
LEMMA ContextsKept ==
    ASSUME NEW s, Tables(s), NEW m, m.cur = s.cur,
           \A u \in Threads :
             /\ m.thr[u].cid = s.thr[u].cid
             /\ m.thr[u].state \in {"RUNNING", "OUT"} <=> s.thr[u].state \in {"RUNNING", "OUT"}
    PROVE  Contexts(m)
<1>0. Typed(s)
  BY TableTypes
<1>1. ASSUME NEW u \in Threads, m.thr[u].state \in {"RUNNING", "OUT"}
      PROVE  m.cur[m.thr[u].cid] = u
  BY <1>0, <1>1 DEF Typed, Contexts, InStates
<1>2. ASSUME NEW c \in Cores, m.cur[c] # None
      PROVE  m.thr[m.cur[c]].cid = c /\ m.thr[m.cur[c]].state \in {"RUNNING", "OUT"}
  <2>1. s.cur[c] \in Threads /\ m.cur[c] = s.cur[c]
    BY <1>0, <1>2 DEF Typed
  <2> QED
    BY <1>0, <1>2, <2>1 DEF Typed, Contexts
<1> QED
  BY <1>1, <1>2 DEF Contexts, InStates

\* Handoffs may only be called off.
LEMMA PromisesKept ==
    ASSUME NEW s, Tables(s), NEW m,
           \A u \in Threads : m.thr[u].handoff \in {s.thr[u].handoff, None},
           \A x \in Threads : Promised(m, x) =>
             /\ m.thr[x].state = s.thr[x].state /\ m.thr[x].word = s.thr[x].word
             /\ x \notin Members(m.runQueue) \ Members(s.runQueue),
           \A x \in Members(m.runQueue) : m.thr[x].word = 1
    PROVE  Promises(m)
<1>0. Typed(s)
  BY TableTypes
<1>1. ASSUME NEW u \in Threads, m.thr[u].handoff # None
      PROVE  /\ m.thr[m.thr[u].handoff].state = "QUEUED"
             /\ m.thr[m.thr[u].handoff].word = 1
             /\ m.thr[u].handoff \notin Members(m.runQueue)
             /\ \A v \in Threads : m.thr[v].handoff = m.thr[u].handoff => v = u
  <2> DEFINE x == m.thr[u].handoff
  <2>1. x \in Threads /\ s.thr[u].handoff = x /\ x # None
    BY <1>0, <1>1 DEF Typed
  <2>2. /\ s.thr[x].state = "QUEUED" /\ s.thr[x].word = 1 /\ x \notin Members(s.runQueue)
        /\ \A v \in Threads : s.thr[v].handoff = x => v = u
    BY <1>0, <2>1 DEF Typed, Promises
  <2>3. Promised(m, x)
    BY DEF Promised
  <2>4. \A v \in Threads : m.thr[v].handoff = x => s.thr[v].handoff = x
    BY <2>1
  <2> HIDE DEF x
  <2>5. /\ m.thr[x].state = "QUEUED" /\ m.thr[x].word = 1
        /\ x \notin Members(m.runQueue) /\ \A v \in Threads : m.thr[v].handoff = x => v = u
    BY <2>1, <2>2, <2>3, <2>4
  <2> QED
    BY <2>5 DEF x
<1> QED
  BY <1>1 DEF Promises

\* What a queued or a promised thread is.
LEMMA QueuedFacts ==
    ASSUME NEW s, Typed(s), NEW x \in Threads
    PROVE  /\ x \in Members(s.runQueue) => s.thr[x].state = "QUEUED" /\ s.thr[x].word = 1
           /\ Promised(s, x) => /\ s.thr[x].state = "QUEUED" /\ s.thr[x].word = 1
                                /\ x \notin Members(s.runQueue)
                                /\ \A u, v \in Threads : s.thr[u].handoff = x
                                                        /\ s.thr[v].handoff = x => u = v
<1>1. x \in Members(s.runQueue) => s.thr[x].state = "QUEUED" /\ s.thr[x].word = 1
  BY DEF Typed, Promises, Lists, InStates
<1>2. ASSUME NEW u \in Threads, s.thr[u].handoff = x
      PROVE  /\ s.thr[x].state = "QUEUED" /\ s.thr[x].word = 1
             /\ x \notin Members(s.runQueue)
             /\ \A v \in Threads : s.thr[v].handoff = x => v = u
  <2>1. x # None /\ Promises(s)
    BY DEF Typed
  <2> QED
    BY <1>2, <2>1 DEF Promises
<1> QED
  BY <1>1, <1>2 DEF Promised

\* Queued threads are left alone.
LEMMA PromisesCarried ==
    ASSUME NEW s, Tables(s), NEW m, Members(m.runQueue) \subseteq Members(s.runQueue),
           \A u \in Threads :
             /\ m.thr[u].handoff \in {s.thr[u].handoff, None}
             /\ s.thr[u].state = "QUEUED" => /\ m.thr[u].state = s.thr[u].state
                                             /\ m.thr[u].word = s.thr[u].word
    PROVE  Promises(m)
<1>0. Typed(s)
  BY TableTypes
<1>1. \A x \in Members(m.runQueue) : m.thr[x].word = 1
  <2> SUFFICES ASSUME NEW x \in Members(m.runQueue) PROVE m.thr[x].word = 1
    OBVIOUS
  <2>1. x \in Threads /\ x \in Members(s.runQueue)
    BY <1>0 DEF Typed
  <2> QED
    BY <1>0, <2>1, QueuedFacts
<1>2. ASSUME NEW x \in Threads, Promised(m, x)
      PROVE  m.thr[x].state = s.thr[x].state /\ m.thr[x].word = s.thr[x].word
  <2>1. Promised(s, x)
    BY <1>0, <1>2 DEF Promised, Typed
  <2> QED
    BY <1>0, <2>1, QueuedFacts
<1> QED
  BY <1>1, <1>2, PromisesKept

\* A core whose thread is left alone runs as it did.
LEMMA RunsSame ==
    ASSUME NEW s, Typed(s), NEW m, NEW c \in Cores, m.cur[c] = s.cur[c],
           s.cur[c] \in Threads => (m.thr[s.cur[c]].state = "RUNNING" <=>
                                    s.thr[s.cur[c]].state = "RUNNING")
    PROVE  Runs(m, c) <=> Runs(s, c)
BY DEF Typed, Runs

\* The cores of the queued threads go on.
LEMMA ConservesKept ==
    ASSUME NEW s, Tables(s), NEW m, Members(m.runQueue) \subseteq Members(s.runQueue),
           \A c \in Cores : Runs(s, c) => Runs(m, c)
    PROVE  Conserves(m)
<1>0. Typed(s)
  BY TableTypes
<1> QED
  BY <1>0 DEF Typed, Conserves

\* The cores that run are the same, but for c.
RunsBut(s, m, c) == \A d \in Cores \ {c} : Runs(m, d) <=> Runs(s, d)

\* Fields that are not in the tables.
LEMMA SameTables ==
    ASSUME NEW s, Tables(s), NEW m \in Schedulers,
           m.thr = s.thr, m.cur = s.cur, m.freeList = s.freeList, m.runQueue = s.runQueue,
           m.outQueue = s.outQueue, m.sleepQueue = s.sleepQueue, IsInjective(m.fakeLeaves)
    PROVE  Tables(m) /\ \A c \in Cores : Runs(m, c) <=> Runs(s, c)
BY DEF Tables, Contexts, Lists, InStates, Promises, Conserves, Runs

\* One thread's entry changes, or two.
OneThread(s, m, t, i) == m.thr[t] = i /\ \A u \in Threads \ {t} : m.thr[u] = s.thr[u]

\* ... or those of two, and no other's.
TwoThreads(s, m, t, i, x, j) ==
    m.thr[t] = i /\ m.thr[x] = j /\ \A u \in Threads \ {t, x} : m.thr[u] = s.thr[u]

\* The same cores run.
SameRuns(s, m) == \A c \in Cores : Runs(m, c) <=> Runs(s, c)

\* s after t was woken early.
WokenEarly(s, m, t) ==
    /\ Tables(m)
    /\ OneThread(s, m, t, [s.thr[t] EXCEPT !.state = "BLOCKED", !.wakeIn = 0])
    /\ m.sleepQueue = Remove(s.sleepQueue, t)
    /\ m.cur = s.cur /\ m.runQueue = s.runQueue /\ m.outQueue = s.outQueue
    /\ m.fakeLeaves = s.fakeLeaves /\ m.active = s.active /\ m.bar = s.bar /\ m.broken = s.broken
    /\ SameRuns(s, m)

\* The early wakeup takes the sleeper off its queue and keeps the tables.
LEMMA WakeEarlyIs ==
    ASSUME NEW s, Tables(s), NEW t \in Threads,
           s.thr[t].state = "SLEEPING"
    PROVE  WokenEarly(s, WakeEarly(s, t), t)
<1> DEFINE m == WakeEarly(s, t)
           info == [s.thr[t] EXCEPT !.state = "BLOCKED", !.wakeIn = 0]
           thr == [s.thr EXCEPT ![t] = info]
           sleep == Remove(s.sleepQueue, t)
<1>0. Typed(s)
  BY TableTypes
<1>1. info \in ThreadInfos /\ info.state = "BLOCKED" /\ info.cid = s.thr[t].cid /\ info.handoff = s.thr[t].handoff
      /\ info.word = s.thr[t].word
  <2>1. 0 \in 0..MaxSleep /\ s.thr[t] \in ThreadInfos
    BY <1>0, NoWait DEF Typed
  <2> QED
    BY <2>1 DEF ThreadInfos, ThreadStates
<1>2. sleep \in Seq(Threads) /\ Members(sleep) = Members(s.sleepQueue) \ {t}
      /\ (IsInjective(s.sleepQueue) => IsInjective(sleep))
  BY <1>0, RemoveIs DEF Typed
<1>3. m = Moved(s, thr, s.cur, s.freeList, s.runQueue, s.outQueue, sleep, s.fakeLeaves, s.active)
  <2>1. s \in Schedulers /\ s.thr \in [Threads -> ThreadInfos] /\ s.thr[t] \in ThreadInfos
    BY <1>0 DEF Typed
  <2> QED
    BY <2>1 DEF WakeEarly, Schedulers, Moved
<1> HIDE DEF m, sleep, info
<1>4. thr \in [Threads -> ThreadInfos] /\ thr[t] = info
      /\ \A u \in Threads \ {t} : thr[u] = s.thr[u]
  BY <1>0, <1>1 DEF Typed
<1> HIDE DEF thr
<1>5. /\ m \in Schedulers
      /\ m.thr = thr /\ m.cur = s.cur /\ m.freeList = s.freeList
      /\ m.runQueue = s.runQueue /\ m.outQueue = s.outQueue /\ m.sleepQueue = sleep
      /\ m.fakeLeaves = s.fakeLeaves /\ m.active = s.active /\ m.phase = s.phase
      /\ m.bar = s.bar /\ m.broken = s.broken
  BY <1>0, <1>2, <1>3, <1>4 DEF Typed, Moved, Schedulers
<1>6. /\ m.thr[t].state = "BLOCKED"
      /\ \A u \in Threads : /\ m.thr[u].cid = s.thr[u].cid /\ m.thr[u].handoff = s.thr[u].handoff
                            /\ m.thr[u].word = s.thr[u].word
                            /\ u # t => m.thr[u].state = s.thr[u].state
  BY <1>1, <1>4, <1>5
<1>7. Contexts(m)
  BY <1>5, <1>6, ContextsKept
<1>8. Lists(m)
  <2>1. /\ InStates(m, {"OUT"}) = InStates(s, {"OUT"})
        /\ InStates(m, {"SLEEPING"}) = InStates(s, {"SLEEPING"}) \ {t}
        /\ InStates(m, {"QUEUED"}) = InStates(s, {"QUEUED"})
    BY <1>6 DEF InStates
  <2> QED
    BY <1>0, <1>2, <1>5, <2>1 DEF Typed, Lists, Holds
<1>9. Promises(m)
  BY <1>5, <1>6, PromisesCarried
<1>10. \A c \in Cores : Runs(m, c) <=> Runs(s, c)
  BY <1>0, <1>5, <1>6, RunsSame
<1>11. Conserves(m)
  BY <1>5, <1>10, ConservesKept
<1>12. Tables(m) /\ m.thr[t] = info
      /\ \A u \in Threads \ {t} : m.thr[u] = s.thr[u]
  BY <1>4, <1>5, <1>7, <1>8, <1>9, <1>11 DEF Tables
<1>13. WokenEarly(s, m, t)
  BY <1>2, <1>5, <1>10, <1>12 DEF WokenEarly, OneThread, SameRuns, info, sleep
<1> QED
  BY <1>13 DEF m

\* A thread that is OUT comes back.
Returned(s, t) ==
    [s EXCEPT !.thr[t].state = "RUNNING", !.outQueue = Remove(@, t)]

\* s after t took its context up again.
CameBack(s, m, t) ==
    /\ Tables(m)
    /\ OneThread(s, m, t, [s.thr[t] EXCEPT !.state = "RUNNING"])
    /\ m.cur = s.cur /\ m.runQueue = s.runQueue /\ m.sleepQueue = s.sleepQueue
    /\ m.fakeLeaves = s.fakeLeaves /\ m.active = s.active /\ m.bar = s.bar /\ m.broken = s.broken
    /\ RunsBut(s, m, s.thr[t].cid) /\ Runs(m, s.thr[t].cid)

\* Coming back takes the thread off the queue of the OUT ones.
LEMMA ReturnedIs ==
    ASSUME NEW s, Tables(s), NEW t \in Threads,
           s.thr[t].state = "OUT"
    PROVE  CameBack(s, Returned(s, t), t)
<1> DEFINE m == Returned(s, t)
           info == [s.thr[t] EXCEPT !.state = "RUNNING"]
           thr == [s.thr EXCEPT ![t] = info]
           out == Remove(s.outQueue, t)
<1>0. Typed(s)
  BY TableTypes
<1>1. info \in ThreadInfos /\ info.state = "RUNNING" /\ info.cid = s.thr[t].cid /\ info.handoff = s.thr[t].handoff
      /\ info.word = s.thr[t].word
  <2>1. s.thr[t] \in ThreadInfos
    BY <1>0 DEF Typed
  <2> QED
    BY <2>1 DEF ThreadInfos, ThreadStates
<1>2. out \in Seq(Threads) /\ Members(out) = Members(s.outQueue) \ {t}
      /\ (IsInjective(s.outQueue) => IsInjective(out))
  BY <1>0, RemoveIs DEF Typed
<1>3. m = Moved(s, thr, s.cur, s.freeList, s.runQueue, out, s.sleepQueue, s.fakeLeaves, s.active)
  <2>1. s \in Schedulers /\ s.thr \in [Threads -> ThreadInfos] /\ s.thr[t] \in ThreadInfos
    BY <1>0 DEF Typed
  <2> QED
    BY <2>1 DEF Returned, Schedulers, Moved
<1> HIDE DEF m, out, info
<1>4. thr \in [Threads -> ThreadInfos] /\ thr[t] = info
      /\ \A u \in Threads \ {t} : thr[u] = s.thr[u]
  BY <1>0, <1>1 DEF Typed
<1> HIDE DEF thr
<1>5. /\ m \in Schedulers
      /\ m.thr = thr /\ m.cur = s.cur /\ m.freeList = s.freeList
      /\ m.runQueue = s.runQueue /\ m.outQueue = out /\ m.sleepQueue = s.sleepQueue
      /\ m.fakeLeaves = s.fakeLeaves /\ m.active = s.active /\ m.phase = s.phase
      /\ m.bar = s.bar /\ m.broken = s.broken
  BY <1>0, <1>2, <1>3, <1>4 DEF Typed, Moved, Schedulers
<1>6. /\ m.thr[t].state = "RUNNING"
      /\ \A u \in Threads : /\ m.thr[u].cid = s.thr[u].cid /\ m.thr[u].handoff = s.thr[u].handoff
                            /\ m.thr[u].word = s.thr[u].word
                            /\ u # t => m.thr[u].state = s.thr[u].state
  BY <1>1, <1>4, <1>5
<1>7. Contexts(m)
  BY <1>5, <1>6, ContextsKept
<1>8. Lists(m)
  <2>1. /\ InStates(m, {"OUT"}) = InStates(s, {"OUT"}) \ {t}
        /\ InStates(m, {"SLEEPING"}) = InStates(s, {"SLEEPING"})
        /\ InStates(m, {"QUEUED"}) = InStates(s, {"QUEUED"})
    BY <1>6 DEF InStates
  <2> QED
    BY <1>0, <1>2, <1>5, <2>1 DEF Typed, Lists, Holds
<1>9. Promises(m)
  BY <1>5, <1>6, PromisesCarried
<1>10. /\ RunsBut(s, m, s.thr[t].cid) /\ Runs(m, s.thr[t].cid)
      /\ \A c \in Cores : Runs(s, c) => Runs(m, c)
  <2>1. s.thr[t].cid \in Cores /\ s.cur[s.thr[t].cid] = t
    BY <1>0 DEF Typed, Contexts, InStates
  <2>2. \A d \in Cores \ {s.thr[t].cid} : s.cur[d] # t
    BY <1>0 DEF Typed, Contexts
  <2>3. \A d \in Cores \ {s.thr[t].cid} : Runs(m, d) <=> Runs(s, d)
    BY <1>0, <1>5, <1>6, <2>2, RunsSame
  <2>4. Runs(m, s.thr[t].cid)
    BY <1>0, <1>5, <1>6, <2>1 DEF Typed, Runs
  <2> QED
    BY <2>3, <2>4 DEF RunsBut
<1>11. Conserves(m)
  BY <1>5, <1>10, ConservesKept
<1>12. Tables(m) /\ m.thr[t] = info
      /\ \A u \in Threads \ {t} : m.thr[u] = s.thr[u]
  BY <1>4, <1>5, <1>7, <1>8, <1>9, <1>11 DEF Tables
<1>13. CameBack(s, m, t)
  BY <1>2, <1>5, <1>10, <1>12 DEF CameBack, OneThread, SameRuns, info, out
<1> QED
  BY <1>13 DEF m

\* When schedContext finds nobody, no queued thread may use the core.
LEMMA NobodyFor ==
    ASSUME NEW s, Typed(s), NEW c, SchedContext(s, c) = None
    PROVE  \A x \in Members(s.runQueue) : c \notin Mask[x]
<1> DEFINE U == {u \in Threads : c \in Mask[u]}
<1>1. FirstOf(s.runQueue, U) = None
  BY DEF SchedContext
<1> HIDE DEF U
<1>2. \A x \in Members(s.runQueue) : x \notin U
  BY <1>1, FirstOfIs DEF Typed
<1> QED
  BY <1>2 DEF U, Typed

\* A thread leaves and keeps its context.
ToOut(s, t) ==
    [s EXCEPT !.thr[t].state = "OUT", !.outQueue = Append(@, t)]

\* s after t left its context for a while.
GoneOut(s, m, t) ==
    /\ Tables(m)
    /\ OneThread(s, m, t, [s.thr[t] EXCEPT !.state = "OUT"])
    /\ m.cur = s.cur /\ m.runQueue = s.runQueue /\ m.sleepQueue = s.sleepQueue
    /\ m.fakeLeaves = s.fakeLeaves /\ m.active = s.active /\ m.bar = s.bar /\ m.broken = s.broken
    /\ RunsBut(s, m, s.thr[t].cid) /\ ~Runs(m, s.thr[t].cid)

\* Leaving with nobody waiting for the context keeps the tables.
LEMMA ToOutIs ==
    ASSUME NEW s, Tables(s), NEW t \in Threads,
           s.thr[t].state = "RUNNING",
           SchedContext(s, s.thr[t].cid) = None
    PROVE  GoneOut(s, ToOut(s, t), t)
<1> DEFINE m == ToOut(s, t)
           info == [s.thr[t] EXCEPT !.state = "OUT"]
           thr == [s.thr EXCEPT ![t] = info]
           out == Append(s.outQueue, t)
<1>0. Typed(s)
  BY TableTypes
<1>1. info \in ThreadInfos /\ info.state = "OUT" /\ info.cid = s.thr[t].cid /\ info.handoff = s.thr[t].handoff
      /\ info.word = s.thr[t].word
  <2>1. s.thr[t] \in ThreadInfos
    BY <1>0 DEF Typed
  <2> QED
    BY <2>1 DEF ThreadInfos, ThreadStates
<1>2. out \in Seq(Threads) /\ Members(out) = Members(s.outQueue) \cup {t}
      /\ (IsInjective(s.outQueue) /\ t \notin Members(s.outQueue) => IsInjective(out))
  BY <1>0, AppendIs DEF Typed
<1>3. m = Moved(s, thr, s.cur, s.freeList, s.runQueue, out, s.sleepQueue, s.fakeLeaves, s.active)
  <2>1. s \in Schedulers /\ s.thr \in [Threads -> ThreadInfos] /\ s.thr[t] \in ThreadInfos
    BY <1>0 DEF Typed
  <2> QED
    BY <2>1 DEF ToOut, Schedulers, Moved
<1> HIDE DEF m, out, info
<1>4. thr \in [Threads -> ThreadInfos] /\ thr[t] = info
      /\ \A u \in Threads \ {t} : thr[u] = s.thr[u]
  BY <1>0, <1>1 DEF Typed
<1> HIDE DEF thr
<1>5. /\ m \in Schedulers
      /\ m.thr = thr /\ m.cur = s.cur /\ m.freeList = s.freeList
      /\ m.runQueue = s.runQueue /\ m.outQueue = out /\ m.sleepQueue = s.sleepQueue
      /\ m.fakeLeaves = s.fakeLeaves /\ m.active = s.active /\ m.phase = s.phase
      /\ m.bar = s.bar /\ m.broken = s.broken
  BY <1>0, <1>2, <1>3, <1>4 DEF Typed, Moved, Schedulers
<1>6. /\ m.thr[t].state = "OUT"
      /\ \A u \in Threads : /\ m.thr[u].cid = s.thr[u].cid /\ m.thr[u].handoff = s.thr[u].handoff
                            /\ m.thr[u].word = s.thr[u].word
                            /\ u # t => m.thr[u].state = s.thr[u].state
  BY <1>1, <1>4, <1>5
<1>7. Contexts(m)
  BY <1>5, <1>6, ContextsKept
<1>8. Lists(m)
  <2>1. /\ InStates(m, {"OUT"}) = InStates(s, {"OUT"}) \cup {t}
        /\ InStates(m, {"SLEEPING"}) = InStates(s, {"SLEEPING"})
        /\ InStates(m, {"QUEUED"}) = InStates(s, {"QUEUED"})
    BY <1>6 DEF InStates
  <2>2. t \notin Members(s.outQueue)
    BY <1>0 DEF Typed, Lists, Holds, InStates
  <2> QED
    BY <1>0, <1>2, <1>5, <2>1, <2>2 DEF Typed, Lists, Holds
<1>9. Promises(m)
  BY <1>5, <1>6, PromisesCarried
<1>10. RunsBut(s, m, s.thr[t].cid) /\ ~Runs(m, s.thr[t].cid)
  <2>1. s.thr[t].cid \in Cores /\ s.cur[s.thr[t].cid] = t
    BY <1>0 DEF Typed, Contexts, InStates
  <2>2. \A d \in Cores \ {s.thr[t].cid} : s.cur[d] # t
    BY <1>0 DEF Typed, Contexts
  <2> QED
    BY <1>0, <1>5, <1>6, <2>1, <2>2 DEF Typed, Runs, RunsBut
<1>11. Conserves(m)
  <2>1. \A x \in Members(s.runQueue) : s.thr[t].cid \notin Mask[x]
    BY <1>0, NobodyFor
  <2> QED
    BY <1>0, <1>5, <1>10, <2>1 DEF Typed, Conserves, RunsBut
<1>12. Tables(m) /\ m.thr[t] = info
      /\ \A u \in Threads \ {t} : m.thr[u] = s.thr[u]
  BY <1>4, <1>5, <1>7, <1>8, <1>9, <1>11 DEF Tables
<1>13. GoneOut(s, m, t)
  BY <1>2, <1>5, <1>10, <1>12 DEF GoneOut, OneThread, SameRuns, info, out
<1> QED
  BY <1>13 DEF m

\* A thread for which there is no context queues up.
Queued(s, t) ==
    [s EXCEPT !.thr[t].state = "QUEUED", !.thr[t].word = 1, !.runQueue = Append(@, t)]

\* s after t queued.
QueuedUp(s, m, t) ==
    /\ Tables(m)
    /\ OneThread(s, m, t, [s.thr[t] EXCEPT !.state = "QUEUED", !.word = 1])
    /\ m.cur = s.cur /\ m.sleepQueue = s.sleepQueue
    /\ Members(m.runQueue) = Members(s.runQueue) \cup {t}
    /\ m.outQueue = s.outQueue /\ m.fakeLeaves = s.fakeLeaves
    /\ m.active = s.active /\ m.bar = s.bar /\ m.broken = s.broken
    /\ SameRuns(s, m)

\* Queueing up keeps them when schedThread found no context: then the
\* threads of all cores the thread may use run.
LEMMA QueuedIs ==
    ASSUME NEW s, Tables(s), NEW t \in Threads,
           s.thr[t].state \in {"STARTED", "BLOCKED", "QUEUED"},
           t \notin Members(s.runQueue), ~Promised(s, t), SchedThread(s, t) = None
    PROVE  QueuedUp(s, Queued(s, t), t)
<1> DEFINE m == Queued(s, t)
           info == [s.thr[t] EXCEPT !.state = "QUEUED", !.word = 1]
           thr == [s.thr EXCEPT ![t] = info]
           queue == Append(s.runQueue, t)
<1>0. Typed(s)
  BY TableTypes
<1>1. info \in ThreadInfos /\ info.state = "QUEUED" /\ info.cid = s.thr[t].cid
      /\ info.handoff = s.thr[t].handoff /\ info.word = 1
  <2>1. s.thr[t] \in ThreadInfos
    BY <1>0 DEF Typed
  <2> QED
    BY <2>1 DEF ThreadInfos, ThreadStates
<1>2. queue \in Seq(Threads) /\ Members(queue) = Members(s.runQueue) \cup {t}
      /\ (IsInjective(s.runQueue) => IsInjective(queue))
  BY <1>0, AppendIs DEF Typed
<1>3. m = Moved(s, thr, s.cur, s.freeList, queue, s.outQueue, s.sleepQueue, s.fakeLeaves, s.active)
  <2>1. s \in Schedulers /\ s.thr \in [Threads -> ThreadInfos] /\ s.thr[t] \in ThreadInfos
    BY <1>0 DEF Typed
  <2> QED
    BY <2>1 DEF Queued, Schedulers, Moved
<1> HIDE DEF m, queue, info
<1>4. thr \in [Threads -> ThreadInfos] /\ thr[t] = info
      /\ \A u \in Threads \ {t} : thr[u] = s.thr[u]
  BY <1>0, <1>1 DEF Typed
<1> HIDE DEF thr
<1>5. /\ m \in Schedulers /\ m.thr = thr /\ m.runQueue = queue
      /\ m.cur = s.cur /\ m.freeList = s.freeList /\ m.sleepQueue = s.sleepQueue
      /\ m.outQueue = s.outQueue /\ m.fakeLeaves = s.fakeLeaves
      /\ m.active = s.active /\ m.bar = s.bar /\ m.broken = s.broken
  BY <1>0, <1>2, <1>3, <1>4 DEF Typed, Moved, Schedulers
<1>6. /\ m.thr[t].state = "QUEUED" /\ m.thr[t].word = 1
      /\ \A u \in Threads : /\ m.thr[u].cid = s.thr[u].cid /\ m.thr[u].handoff = s.thr[u].handoff
                            /\ u # t => m.thr[u].word = s.thr[u].word
                            /\ u # t => m.thr[u].state = s.thr[u].state
  BY <1>1, <1>4, <1>5
<1>7. \A u \in Threads : s.thr[u].handoff # t
  BY DEF Promised
<1>8. \A c \in Mask[t] : c \in Cores /\ Runs(s, c)
  <2> DEFINE free == FirstOf(s.freeList, Mask[t])
             U == {u \in Threads : s.thr[u].cid \in Mask[t]}
             outTh == FirstOf(s.outQueue, U)
  <2>1. free = None /\ outTh = None
    BY <1>0, FirstOfIs DEF Typed, SchedThread
  <2> HIDE DEF U, outTh
  <2>2. \A c \in Members(s.freeList) : c \notin Mask[t]
    BY <1>0, <2>1, FirstOfIs DEF Typed
  <2>3. \A u \in Members(s.outQueue) : u \notin U
    BY <1>0, <2>1, FirstOfIs DEF Typed, outTh
  <2> SUFFICES ASSUME NEW c \in Mask[t] PROVE c \in Cores /\ Runs(s, c)
    OBVIOUS
  <2>4. c \in Cores /\ s.cur[c] # None
    BY <1>0, <2>2 DEF Typed, Lists, Holds
  <2>5. s.cur[c] \in Threads /\ s.thr[s.cur[c]].cid = c
        /\ s.thr[s.cur[c]].state \in {"RUNNING", "OUT"}
    BY <1>0, <2>4 DEF Typed, Contexts
  <2>6. s.thr[s.cur[c]].state # "OUT"
    BY <1>0, <2>3, <2>5 DEF Typed, U, Lists, Holds, InStates
  <2> QED
    BY <2>4, <2>5, <2>6 DEF Runs
<1>9. /\ \A c \in Cores : s.cur[c] # t
      /\ s.thr[t].state \notin {"RUNNING", "OUT", "SLEEPING"}
  BY <1>0 DEF Typed, Contexts
<1>10. Contexts(m)
  BY <1>5, <1>6, <1>9, ContextsKept
<1>11. Lists(m)
  <2>1. /\ InStates(m, {"OUT"}) = InStates(s, {"OUT"})
        /\ InStates(m, {"SLEEPING"}) = InStates(s, {"SLEEPING"})
        /\ InStates(m, {"QUEUED"}) = InStates(s, {"QUEUED"}) \cup {t}
    BY <1>6, <1>9 DEF InStates
  <2> QED
    BY <1>0, <1>2, <1>5, <2>1 DEF Typed, Lists, Holds
<1>12. Promises(m)
  <2>1. \A u \in Members(m.runQueue) : m.thr[u].word = 1
    BY <1>0, <1>2, <1>5, <1>6 DEF Typed, Promises
  <2>2. \A x \in Threads : Promised(m, x) => x # t
    BY <1>6, <1>7 DEF Promised
  <2> QED
    BY <1>2, <1>5, <1>6, <2>1, <2>2, PromisesKept
<1>13. \A c \in Cores : Runs(m, c) <=> Runs(s, c)
  BY <1>0, <1>5, <1>6, <1>9 DEF Typed, Runs
<1>14. Conserves(m)
  BY <1>0, <1>2, <1>5, <1>8, <1>13 DEF Typed, Conserves
<1>15. Tables(m) /\ m.thr[t] = info /\ \A u \in Threads \ {t} : m.thr[u] = s.thr[u]
  BY <1>4, <1>5, <1>10, <1>11, <1>12, <1>14 DEF Tables
<1>16. QueuedUp(s, m, t)
  BY <1>2, <1>5, <1>13, <1>15 DEF QueuedUp, OneThread, SameRuns, info, queue
<1> QED
  BY <1>16 DEF m

\* What an exchange of a context does: t gives c up and the queued x has it.
Swaps(s, m, t, x, c) ==
    /\ s.cur[c] = t /\ s.thr[t].state = "RUNNING" /\ s.thr[x].state = "QUEUED"
    /\ m.cur = [s.cur EXCEPT ![c] = x]
    /\ \A u \in Threads \ {t, x} : m.thr[u] = s.thr[u]
    /\ m.thr[t].state \in {"BLOCKED", "SLEEPING", "QUEUED"}
    /\ m.thr[x].state = "RUNNING" /\ m.thr[x].cid = c
    /\ \A u \in Threads : m.thr[u].handoff \in {s.thr[u].handoff, None}
    /\ ~Promised(m, x)
    /\ m.freeList = s.freeList /\ m.outQueue = s.outQueue /\ m.fakeLeaves = s.fakeLeaves
    /\ IsInjective(m.sleepQueue) /\ IsInjective(m.runQueue)
    /\ Members(m.sleepQueue) = IF m.thr[t].state = "SLEEPING"
                               THEN Members(s.sleepQueue) \cup {t} ELSE Members(s.sleepQueue)
    /\ Members(m.runQueue) = Members(s.runQueue) \ {x}

\* One thread gives its context to a queued one.
LEMMA SwapTables ==
    ASSUME NEW s, Tables(s), NEW t \in Threads, NEW x \in Threads, NEW c \in Cores,
           NEW m \in Schedulers, Swaps(s, m, t, x, c)
    PROVE  Tables(m) /\ SameRuns(s, m)
<1> USE DEF Swaps
<1>0. Typed(s)
  BY TableTypes
<1>1. /\ t # x /\ s.thr[t].cid = c /\ m.cur[c] = x
      /\ \A d \in Cores \ {c} : m.cur[d] = s.cur[d] /\ s.cur[d] # t
      /\ \A d \in Cores : s.cur[d] # x
      /\ t # None /\ x # None
  <2>1. t # x /\ t # None /\ x # None
    BY <1>0 DEF Typed
  <2>2. \A d \in Cores : s.cur[d] # None =>
          s.thr[s.cur[d]].cid = d /\ s.thr[s.cur[d]].state \in {"RUNNING", "OUT"}
    BY <1>0 DEF Typed, Contexts
  <2>3. m.cur[c] = x /\ \A d \in Cores \ {c} : m.cur[d] = s.cur[d]
    BY <1>0 DEF Typed
  <2> QED
    BY <2>1, <2>2, <2>3
<1>2. Contexts(m)
  <2>1. ASSUME NEW u \in Threads, m.thr[u].state \in {"RUNNING", "OUT"}
        PROVE  m.cur[m.thr[u].cid] = u
    <3>1. CASE u = x
      BY <1>1, <3>1
    <3>2. CASE u # x
      <4>1. u # t
        BY <2>1
      <4>2. m.thr[u] = s.thr[u]
        BY <3>2, <4>1
      <4>3. s.cur[s.thr[u].cid] = u /\ s.thr[u].cid \in Cores
        BY <1>0, <2>1, <4>2 DEF Typed, Contexts, InStates
      <4> QED
        BY <1>1, <4>1, <4>2, <4>3
    <3> QED
      BY <3>1, <3>2
  <2>2. ASSUME NEW d \in Cores, m.cur[d] # None
        PROVE  m.thr[m.cur[d]].cid = d /\ m.thr[m.cur[d]].state \in {"RUNNING", "OUT"}
    <3>1. CASE d = c
      BY <1>1, <3>1
    <3>2. CASE d # c
      <4>1. m.cur[d] = s.cur[d] /\ s.cur[d] \in Threads \ {t, x}
        BY <1>0, <1>1, <2>2, <3>2 DEF Typed
      <4> QED
        BY <1>0, <2>2, <4>1 DEF Typed, Contexts
    <3> QED
      BY <3>1, <3>2
  <2> QED
    BY <2>1, <2>2 DEF Contexts, InStates
<1>3. Lists(m)
  <2>1. /\ InStates(m, {"OUT"}) = InStates(s, {"OUT"})
        /\ InStates(m, {"SLEEPING"}) = IF m.thr[t].state = "SLEEPING"
                                       THEN InStates(s, {"SLEEPING"}) \cup {t}
                                       ELSE InStates(s, {"SLEEPING"})
        /\ InStates(s, {"QUEUED"}) \ {x} \subseteq InStates(m, {"QUEUED"})
    BY DEF InStates
  <2>2. {d \in Cores : m.cur[d] = None} = {d \in Cores : s.cur[d] = None}
    BY <1>1
  <2>3. Lists(s)
    BY <1>0 DEF Typed
  <2> QED
    BY <2>1, <2>2, <2>3 DEF Lists, Holds
<1>4. Promises(m)
  <2>1. \A y \in Members(m.runQueue) : m.thr[y].word = 1
    <3> SUFFICES ASSUME NEW y \in Members(m.runQueue) PROVE m.thr[y].word = 1
      OBVIOUS
    <3>1. y \in Threads /\ y \in Members(s.runQueue) /\ y # x
      BY <1>0 DEF Typed
    <3>2. s.thr[y].state = "QUEUED" /\ s.thr[y].word = 1
      BY <1>0, <3>1, QueuedFacts
    <3> QED
      BY <3>1, <3>2
  <2>2. ASSUME NEW y \in Threads, Promised(m, y)
        PROVE  m.thr[y].state = s.thr[y].state /\ m.thr[y].word = s.thr[y].word
    <3>1. Promised(s, y)
      BY <1>0, <2>2 DEF Promised, Typed
    <3>2. s.thr[y].state = "QUEUED" /\ y # x
      BY <1>0, <2>2, <3>1, QueuedFacts
    <3> QED
      BY <3>2
  <2> QED
    BY <2>1, <2>2, PromisesKept
<1>5. \A d \in Cores : Runs(m, d) <=> Runs(s, d)
  <2>1. Runs(m, c) /\ Runs(s, c)
    BY <1>1 DEF Runs
  <2>2. \A d \in Cores \ {c} : Runs(m, d) <=> Runs(s, d)
    <3> TAKE d \in Cores \ {c}
    <3>1. s.cur[d] \in Threads => m.thr[s.cur[d]] = s.thr[s.cur[d]]
      BY <1>1
    <3> QED
      BY <1>0, <1>1, <3>1, RunsSame
  <2> QED
    BY <2>1, <2>2
<1>6. Conserves(m)
  BY <1>5, ConservesKept
<1> QED
  BY <1>2, <1>3, <1>4, <1>5, <1>6 DEF Tables, SameRuns

\* The record after deschedule, and after a schedule and a wakeup.
Descheduled(s, m, t, c, to) ==
    /\ m \in Schedulers
    /\ OneThread(s, m, t, [s.thr[t] EXCEPT !.state = to])
    /\ m.cur = [s.cur EXCEPT ![c] = None] /\ m.freeList = s.freeList
    /\ m.runQueue = s.runQueue /\ m.outQueue = s.outQueue
    /\ m.sleepQueue = s.sleepQueue /\ m.fakeLeaves = s.fakeLeaves
    /\ m.active = s.active /\ m.phase = s.phase
    /\ m.bar = s.bar /\ m.broken = s.broken

\* ... where t gets context c and becomes i.
ScheduledAs(s, m, t, c, i) ==
    /\ m \in Schedulers
    /\ OneThread(s, m, t, i)
    /\ m.cur = [s.cur EXCEPT ![c] = t] /\ m.freeList = s.freeList
    /\ m.runQueue = s.runQueue /\ m.outQueue = s.outQueue
    /\ m.sleepQueue = s.sleepQueue /\ m.fakeLeaves = s.fakeLeaves
    /\ m.active = s.active /\ m.phase = s.phase
    /\ m.bar = s.bar /\ m.broken = s.broken

\* What a thread's entry becomes when it gets a context,
Placement(i, c) == [i EXCEPT !.state = "RUNNING", !.cid = c]

\* ... and when it is woken as well.
Awakened(i, c) == [i EXCEPT !.state = "RUNNING", !.cid = c, !.word = 0]

\* deschedule takes the context away and leaves all else.
LEMMA DescheduleIs ==
    ASSUME NEW s \in Schedulers, NEW t \in Threads, NEW c \in Cores, NEW to \in ThreadStates
    PROVE  Descheduled(s, Deschedule(s, t, c, to), t, c, to)
<1> DEFINE m == Deschedule(s, t, c, to)
           info == [s.thr[t] EXCEPT !.state = to]
           thr == [s.thr EXCEPT ![t] = info]
           cur == [s.cur EXCEPT ![c] = None]
<1>1. s.thr \in [Threads -> ThreadInfos] /\ s.thr[t] \in ThreadInfos
      /\ s.cur \in [Cores -> Threads \cup {None}]
  BY Types
<1>2. info \in ThreadInfos
  BY <1>1 DEF ThreadInfos
<1>3. m = [s EXCEPT !.thr = thr, !.cur = cur]
  BY <1>1 DEF Deschedule, Schedulers
<1> HIDE DEF m, info
<1>4. thr \in [Threads -> ThreadInfos] /\ thr[t] = info
      /\ \A u \in Threads \ {t} : thr[u] = s.thr[u]
  BY <1>1, <1>2
<1>5. cur \in [Cores -> Threads \cup {None}]
  BY <1>1
<1> HIDE DEF thr, cur
<1>6. /\ m \in Schedulers /\ m.thr = thr /\ m.cur = cur /\ m.freeList = s.freeList
      /\ m.runQueue = s.runQueue /\ m.outQueue = s.outQueue
      /\ m.sleepQueue = s.sleepQueue /\ m.fakeLeaves = s.fakeLeaves
      /\ m.active = s.active /\ m.phase = s.phase
      /\ m.bar = s.bar /\ m.broken = s.broken
  BY <1>3, <1>4, <1>5 DEF Schedulers
<1> QED
  BY <1>4, <1>6 DEF m, info, cur, Descheduled, OneThread

\* schedule gives it.
LEMMA ScheduleIs ==
    ASSUME NEW s \in Schedulers, NEW t \in Threads, NEW c \in Cores
    PROVE  ScheduledAs(s, Schedule(s, t, c), t, c, Placement(s.thr[t], c))
<1> DEFINE m == Schedule(s, t, c)
           info == [s.thr[t] EXCEPT !.state = "RUNNING", !.cid = c]
           thr == [s.thr EXCEPT ![t] = info]
           cur == [s.cur EXCEPT ![c] = t]
<1>1. s.thr \in [Threads -> ThreadInfos] /\ s.thr[t] \in ThreadInfos
      /\ s.cur \in [Cores -> Threads \cup {None}]
  BY Types
<1>2. info \in ThreadInfos
  BY <1>1 DEF ThreadInfos, ThreadStates
<1>3. m = [s EXCEPT !.thr = thr, !.cur = cur]
  BY <1>1 DEF Schedule, Schedulers
<1> HIDE DEF m, info
<1>4. thr \in [Threads -> ThreadInfos] /\ thr[t] = info
      /\ \A u \in Threads \ {t} : thr[u] = s.thr[u]
  BY <1>1, <1>2
<1>5. cur \in [Cores -> Threads \cup {None}]
  BY <1>1
<1> HIDE DEF thr, cur
<1>6. /\ m \in Schedulers /\ m.thr = thr /\ m.cur = cur /\ m.freeList = s.freeList
      /\ m.runQueue = s.runQueue /\ m.outQueue = s.outQueue
      /\ m.sleepQueue = s.sleepQueue /\ m.fakeLeaves = s.fakeLeaves
      /\ m.active = s.active /\ m.phase = s.phase
      /\ m.bar = s.bar /\ m.broken = s.broken
  BY <1>3, <1>4, <1>5 DEF Schedulers
<1> QED
  BY <1>4, <1>6 DEF m, info, cur, ScheduledAs, OneThread, Placement

\* schedule and wakeup do both for a queued thread.
LEMMA ScheduleWakeIs ==
    ASSUME NEW s \in Schedulers, NEW t \in Threads, NEW c \in Cores
    PROVE  ScheduledAs(s, Wakeup(Schedule(s, t, c), t), t, c, Awakened(s.thr[t], c))
<1> DEFINE r == Schedule(s, t, c)
           m == Wakeup(r, t)
           info == [r.thr[t] EXCEPT !.word = 0]
           thr == [r.thr EXCEPT ![t] = info]
<1>1. ScheduledAs(s, r, t, c, Placement(s.thr[t], c))
  BY ScheduleIs
<1> HIDE DEF r
<1>2. r.thr \in [Threads -> ThreadInfos] /\ r.thr[t] \in ThreadInfos /\ s.thr[t] \in ThreadInfos
  BY <1>1, Types DEF ScheduledAs
<1>3. info \in ThreadInfos
  BY <1>2 DEF ThreadInfos
<1>4. info = [s.thr[t] EXCEPT !.state = "RUNNING", !.cid = c, !.word = 0]
  BY <1>1, <1>2 DEF ThreadInfos, ScheduledAs, OneThread, Placement
<1>5. m = [r EXCEPT !.thr = thr]
  BY <1>1, <1>2 DEF Wakeup, Schedulers, ScheduledAs
<1> HIDE DEF m, info
<1>6. thr \in [Threads -> ThreadInfos] /\ thr[t] = info
      /\ \A u \in Threads \ {t} : thr[u] = r.thr[u]
  BY <1>2, <1>3
<1> HIDE DEF thr
<1>7. /\ m \in Schedulers /\ m.thr = thr /\ m.cur = r.cur /\ m.freeList = r.freeList
      /\ m.runQueue = r.runQueue /\ m.outQueue = r.outQueue
      /\ m.sleepQueue = r.sleepQueue /\ m.fakeLeaves = r.fakeLeaves
      /\ m.active = r.active /\ m.phase = r.phase
      /\ m.bar = r.bar /\ m.broken = r.broken
  BY <1>1, <1>5, <1>6 DEF Schedulers, ScheduledAs
<1>8. OneThread(s, m, t, Awakened(s.thr[t], c))
  BY <1>1, <1>4, <1>6, <1>7 DEF OneThread, ScheduledAs, Awakened
<1>9. ScheduledAs(s, m, t, c, Awakened(s.thr[t], c))
  BY <1>1, <1>7, <1>8 DEF ScheduledAs
<1> QED
  BY <1>9 DEF m, r

\* What a thread's entry becomes when it blocks, goes to sleep or queues.
Blocked(i) == [i EXCEPT !.state = "BLOCKED"]

\* ... when it goes to sleep,
Napping(i) == [i EXCEPT !.state = "SLEEPING", !.marked = FALSE]

\* ... and when it hands its context over.
Requeued(i) == [i EXCEPT !.handoff = None, !.state = "QUEUED"]

\* The entries of such threads, field by field: blocked,
LEMMA BlockedIs ==
    ASSUME NEW i \in ThreadInfos
    PROVE  /\ Blocked(i) \in ThreadInfos /\ Blocked(i).state = "BLOCKED"
           /\ Blocked(i).cid = i.cid /\ Blocked(i).handoff = i.handoff /\ Blocked(i).word = i.word
BY DEF Blocked, ThreadInfos, ThreadStates

\* ... asleep,
LEMMA NappingIs ==
    ASSUME NEW i \in ThreadInfos
    PROVE  /\ Napping(i) \in ThreadInfos /\ Napping(i).state = "SLEEPING"
           /\ Napping(i).cid = i.cid /\ Napping(i).handoff = i.handoff /\ Napping(i).word = i.word
BY DEF Napping, ThreadInfos, ThreadStates

\* ... after a handoff,
LEMMA RequeuedIs ==
    ASSUME NEW i \in ThreadInfos
    PROVE  /\ Requeued(i) \in ThreadInfos /\ Requeued(i).state = "QUEUED"
           /\ Requeued(i).cid = i.cid /\ Requeued(i).handoff = None /\ Requeued(i).word = i.word
BY DEF Requeued, ThreadInfos, ThreadStates

\* ... with a context,
LEMMA PlacementIs ==
    ASSUME NEW i \in ThreadInfos, NEW c \in Cores
    PROVE  /\ Placement(i, c) \in ThreadInfos /\ Placement(i, c).state = "RUNNING"
           /\ Placement(i, c).cid = c /\ Placement(i, c).handoff = i.handoff /\ Placement(i, c).word = i.word
BY DEF Placement, ThreadInfos, ThreadStates

\* ... and awake with a context.
LEMMA AwakenedIs ==
    ASSUME NEW i \in ThreadInfos, NEW c \in Cores
    PROVE  /\ Awakened(i, c) \in ThreadInfos /\ Awakened(i, c).state = "RUNNING"
           /\ Awakened(i, c).cid = c /\ Awakened(i, c).handoff = i.handoff /\ Awakened(i, c).word = 0
BY DEF Awakened, ThreadInfos, ThreadStates

\* The record after a context goes to a queued thread, which is woken.
TakenOver(r, x, c) ==
    Wakeup(Schedule([r EXCEPT !.runQueue = Remove(@, x), !.active = @ \cup {c}], x, c), x)

\* Field by field: x leaves the run queue, has context c and is awake.
TookOver(r, m, x, c) ==
    /\ m \in Schedulers
    /\ OneThread(r, m, x, Awakened(r.thr[x], c))
    /\ m.cur = [r.cur EXCEPT ![c] = x] /\ m.freeList = r.freeList
    /\ Members(m.runQueue) = Members(r.runQueue) \ {x}
    /\ IsInjective(r.runQueue) => IsInjective(m.runQueue)
    /\ m.outQueue = r.outQueue /\ m.sleepQueue = r.sleepQueue
    /\ m.fakeLeaves = r.fakeLeaves /\ m.active = r.active \cup {c}
    /\ m.phase = r.phase /\ m.bar = r.bar /\ m.broken = r.broken

\* That is what the take over of leave makes of a record.
LEMMA TakenOverIs ==
    ASSUME NEW r \in Schedulers, NEW x \in Threads, NEW c \in Cores
    PROVE  TookOver(r, TakenOver(r, x, c), x, c)
<1> DEFINE queue == Remove(r.runQueue, x)
           active == r.active \cup {c}
           d == [r EXCEPT !.runQueue = queue, !.active = active]
           m == TakenOver(r, x, c)
<1>1. r.runQueue \in Seq(Threads) /\ active \in SUBSET Cores
  BY Types
<1>2. queue \in Seq(Threads) /\ Members(queue) = Members(r.runQueue) \ {x}
      /\ (IsInjective(r.runQueue) => IsInjective(queue))
  BY <1>1, RemoveIs
<1>3. m = Wakeup(Schedule(d, x, c), x)
  BY DEF TakenOver, Schedulers
<1> HIDE DEF queue, active, m
<1>4. /\ d \in Schedulers /\ d.thr = r.thr /\ d.cur = r.cur /\ d.freeList = r.freeList
      /\ d.runQueue = queue /\ d.outQueue = r.outQueue /\ d.sleepQueue = r.sleepQueue
      /\ d.fakeLeaves = r.fakeLeaves /\ d.active = active
      /\ d.phase = r.phase /\ d.bar = r.bar /\ d.broken = r.broken
  BY <1>1, <1>2 DEF Schedulers
<1> HIDE DEF d
<1>5. ScheduledAs(d, m, x, c, Awakened(d.thr[x], c))
  BY <1>3, <1>4, ScheduleWakeIs
<1>6. OneThread(r, m, x, Awakened(r.thr[x], c))
  BY <1>4, <1>5 DEF ScheduledAs, OneThread
<1>7. TookOver(r, m, x, c)
  BY <1>2, <1>4, <1>5, <1>6 DEF ScheduledAs, TookOver, active
<1> QED
  BY <1>7 DEF m

\* s after t, which becomes i, gave its context c to x, which becomes j.
Exchanged(s, m, t, i, x, j, c) ==
    /\ Tables(m) /\ t # x
    /\ TwoThreads(s, m, t, i, x, j)
    /\ m.cur = [s.cur EXCEPT ![c] = x]
    /\ Members(m.runQueue) = Members(s.runQueue) \ {x}
    /\ m.outQueue = s.outQueue /\ m.fakeLeaves = s.fakeLeaves
    /\ m.bar = s.bar /\ m.broken = s.broken
    /\ SameRuns(s, m)

\* ... of a thread that blocks.
LEMMA BlockedTakenOver ==
    ASSUME NEW s, Tables(s), NEW t \in Threads, NEW x \in Members(s.runQueue), NEW c \in Cores,
           s.cur[c] = t, s.thr[t].state = "RUNNING"
    PROVE  LET m == TakenOver(Deschedule(s, t, c, "BLOCKED"), x, c)
           IN  /\ Exchanged(s, m, t, Blocked(s.thr[t]), x, Awakened(s.thr[x], c), c)
               /\ m.sleepQueue = s.sleepQueue /\ m.active = s.active \cup {c}
<1> DEFINE r == Deschedule(s, t, c, "BLOCKED")
           m == TakenOver(r, x, c)
<1>0. Typed(s) /\ x \in Threads
  BY TableTypes DEF Typed
<1>1. /\ s.thr[x].state = "QUEUED" /\ x # t
      /\ IsInjective(s.runQueue) /\ IsInjective(s.sleepQueue)
  BY <1>0, QueuedFacts DEF Typed, Lists, Holds
<1>2. Descheduled(s, r, t, c, "BLOCKED")
  <2>1. s \in Schedulers /\ "BLOCKED" \in ThreadStates
    BY <1>0 DEF Typed, ThreadStates
  <2> QED
    BY <2>1, DescheduleIs
<1> HIDE DEF r
<1>3. TookOver(r, m, x, c)
  BY <1>0, <1>2, TakenOverIs DEF Descheduled
<1> HIDE DEF m
<1>4. TwoThreads(s, m, t, Blocked(s.thr[t]), x, Awakened(s.thr[x], c))
  BY <1>0, <1>1, <1>2, <1>3 DEF TwoThreads, OneThread, TookOver, Descheduled, Blocked
<1>5. m.cur = [s.cur EXCEPT ![c] = x]
  <2>1. s.cur \in [Cores -> Threads \cup {None}]
    BY <1>0 DEF Typed
  <2> QED
    BY <1>2, <1>3, <2>1 DEF TookOver, Descheduled
<1>6. /\ m.thr[t].state = "BLOCKED" /\ m.thr[t].handoff = s.thr[t].handoff
      /\ m.thr[x].state = "RUNNING" /\ m.thr[x].cid = c
      /\ m.thr[x].handoff = s.thr[x].handoff
  <2>1. s.thr[t] \in ThreadInfos /\ s.thr[x] \in ThreadInfos
    BY <1>0 DEF Typed
  <2> QED
    BY <1>4, <2>1, BlockedIs, AwakenedIs DEF TwoThreads
<1>7. \A u \in Threads : m.thr[u].handoff = s.thr[u].handoff
  BY <1>4, <1>6 DEF TwoThreads
<1>8. ~Promised(m, x)
  BY <1>0, <1>7, QueuedFacts DEF Promised
<1>9. m \in Schedulers /\ Swaps(s, m, t, x, c)
  <2>1. /\ m \in Schedulers /\ m.freeList = s.freeList /\ m.outQueue = s.outQueue
        /\ m.fakeLeaves = s.fakeLeaves /\ m.sleepQueue = s.sleepQueue
        /\ IsInjective(m.runQueue) /\ Members(m.runQueue) = Members(s.runQueue) \ {x}
    BY <1>1, <1>2, <1>3 DEF TookOver, Descheduled
  <2>2. \A u \in Threads \ {t, x} : m.thr[u] = s.thr[u]
    BY <1>4 DEF TwoThreads
  <2> QED
    BY <1>1, <1>5, <1>6, <1>7, <1>8, <2>1, <2>2 DEF Swaps
<1>10. Tables(m) /\ SameRuns(s, m)
  BY <1>0, <1>9, SwapTables
<1>11. /\ Exchanged(s, m, t, Blocked(s.thr[t]), x, Awakened(s.thr[x], c), c)
       /\ m.sleepQueue = s.sleepQueue /\ m.active = s.active \cup {c}
  BY <1>1, <1>2, <1>3, <1>4, <1>5, <1>10 DEF Exchanged, TookOver, Descheduled
<1> QED
  BY <1>11 DEF m, r

\* A thread marked for sleep goes to sleep.
NapBegun(s, t, c) ==
    [Deschedule(s, t, c, "SLEEPING") EXCEPT
        !.thr[t].marked = FALSE, !.sleepQueue = InsertSleeper(s, t)]

\* Field by field: t is in the sleep queue and gave its context up.
FellAsleep(s, m, t, c) ==
    /\ m \in Schedulers
    /\ OneThread(s, m, t, Napping(s.thr[t]))
    /\ m.cur = [s.cur EXCEPT ![c] = None] /\ m.freeList = s.freeList
    /\ m.runQueue = s.runQueue /\ m.outQueue = s.outQueue
    /\ m.sleepQueue = InsertSleeper(s, t) /\ m.fakeLeaves = s.fakeLeaves
    /\ m.active = s.active /\ m.phase = s.phase
    /\ m.bar = s.bar /\ m.broken = s.broken

\* That is what leave makes of a thread marked for sleep.
LEMMA NapBegunIs ==
    ASSUME NEW s \in Schedulers, NEW t \in Threads, NEW c \in Cores
    PROVE  FellAsleep(s, NapBegun(s, t, c), t, c)
<1> DEFINE r == Deschedule(s, t, c, "SLEEPING")
           sleep == InsertSleeper(s, t)
           m == NapBegun(s, t, c)
           info == [r.thr[t] EXCEPT !.marked = FALSE]
           thr == [r.thr EXCEPT ![t] = info]
<1>1. Descheduled(s, r, t, c, "SLEEPING")
  BY DescheduleIs DEF ThreadStates
<1>2. sleep \in Seq(Threads)
  BY InsertSleeperIs
<1>3. m = [[r EXCEPT !.thr[t].marked = FALSE] EXCEPT !.sleepQueue = sleep]
  BY DEF NapBegun
<1> HIDE DEF r, sleep, m
<1>4. r \in Schedulers /\ r.thr \in [Threads -> ThreadInfos] /\ r.thr[t] \in ThreadInfos
      /\ s.thr[t] \in ThreadInfos
  BY <1>1, Types DEF Descheduled
<1>5. info \in ThreadInfos /\ info = Napping(s.thr[t])
  BY <1>1, <1>4 DEF ThreadInfos, Descheduled, OneThread, Napping
<1>6. m = [r EXCEPT !.thr = thr, !.sleepQueue = sleep]
  BY <1>3, <1>4 DEF Schedulers
<1> HIDE DEF info
<1>7. thr \in [Threads -> ThreadInfos] /\ thr[t] = info
      /\ \A u \in Threads \ {t} : thr[u] = r.thr[u]
  BY <1>4, <1>5
<1> HIDE DEF thr
<1>8. /\ m \in Schedulers /\ m.thr = thr /\ m.cur = r.cur /\ m.freeList = r.freeList
      /\ m.runQueue = r.runQueue /\ m.outQueue = r.outQueue
      /\ m.sleepQueue = sleep /\ m.fakeLeaves = r.fakeLeaves
      /\ m.active = r.active /\ m.phase = r.phase
      /\ m.bar = r.bar /\ m.broken = r.broken
  BY <1>2, <1>4, <1>6, <1>7 DEF Schedulers
<1>9. OneThread(s, m, t, Napping(s.thr[t]))
  BY <1>1, <1>5, <1>7, <1>8 DEF OneThread, Descheduled
<1>10. FellAsleep(s, m, t, c)
  BY <1>1, <1>8, <1>9 DEF FellAsleep, Descheduled, sleep
<1> QED
  BY <1>10 DEF m

\* ... of a thread that goes to sleep.
LEMMA SleeperTakenOver ==
    ASSUME NEW s, Tables(s), NEW t \in Threads, NEW x \in Members(s.runQueue), NEW c \in Cores,
           s.cur[c] = t, s.thr[t].state = "RUNNING"
    PROVE  LET m == TakenOver(NapBegun(s, t, c), x, c)
           IN  /\ Exchanged(s, m, t, Napping(s.thr[t]), x, Awakened(s.thr[x], c), c)
               /\ m.sleepQueue = InsertSleeper(s, t) /\ m.active = s.active \cup {c}
<1> DEFINE r == NapBegun(s, t, c)
           m == TakenOver(r, x, c)
<1>0. Typed(s) /\ x \in Threads
  BY TableTypes DEF Typed
<1>1. /\ s.thr[x].state = "QUEUED" /\ x # t
      /\ IsInjective(s.runQueue) /\ IsInjective(s.sleepQueue) /\ t \notin Members(s.sleepQueue)
  BY <1>0, QueuedFacts DEF Typed, Lists, Holds, InStates
<1>2. FellAsleep(s, r, t, c)
  <2>1. s \in Schedulers
    BY <1>0 DEF Typed
  <2> QED
    BY <2>1, NapBegunIs
<1> HIDE DEF r
<1>3. TookOver(r, m, x, c)
  BY <1>0, <1>2, TakenOverIs DEF FellAsleep
<1> HIDE DEF m
<1>4. TwoThreads(s, m, t, Napping(s.thr[t]), x, Awakened(s.thr[x], c))
  BY <1>0, <1>1, <1>2, <1>3 DEF TwoThreads, OneThread, TookOver, FellAsleep
<1>5. m.cur = [s.cur EXCEPT ![c] = x]
  <2>1. s.cur \in [Cores -> Threads \cup {None}]
    BY <1>0 DEF Typed
  <2> QED
    BY <1>2, <1>3, <2>1 DEF TookOver, FellAsleep
<1>6. /\ m.thr[t].state = "SLEEPING" /\ m.thr[t].handoff = s.thr[t].handoff
      /\ m.thr[x].state = "RUNNING" /\ m.thr[x].cid = c
      /\ m.thr[x].handoff = s.thr[x].handoff
  <2>1. s.thr[t] \in ThreadInfos /\ s.thr[x] \in ThreadInfos
    BY <1>0 DEF Typed
  <2> QED
    BY <1>4, <2>1, NappingIs, AwakenedIs DEF TwoThreads
<1>7. \A u \in Threads : m.thr[u].handoff = s.thr[u].handoff
  BY <1>4, <1>6 DEF TwoThreads
<1>8. ~Promised(m, x)
  BY <1>0, <1>7, QueuedFacts DEF Promised
<1>9. m \in Schedulers /\ Swaps(s, m, t, x, c)
  <2>1. /\ m \in Schedulers /\ m.freeList = s.freeList /\ m.outQueue = s.outQueue
        /\ m.fakeLeaves = s.fakeLeaves /\ m.sleepQueue = InsertSleeper(s, t)
        /\ IsInjective(m.runQueue) /\ Members(m.runQueue) = Members(s.runQueue) \ {x}
    BY <1>1, <1>2, <1>3 DEF TookOver, FellAsleep
  <2>2. \A u \in Threads \ {t, x} : m.thr[u] = s.thr[u]
    BY <1>4 DEF TwoThreads
  <2>3. IsInjective(m.sleepQueue) /\ Members(m.sleepQueue) = Members(s.sleepQueue) \cup {t}
    <3>1. s \in Schedulers
      BY <1>0 DEF Typed
    <3> QED
      BY <1>1, <2>1, <3>1, InsertSleeperIs
  <2> QED
    BY <1>1, <1>5, <1>6, <1>7, <1>8, <2>1, <2>2, <2>3 DEF Swaps
<1>10. Tables(m) /\ SameRuns(s, m)
  BY <1>0, <1>9, SwapTables
<1>11. /\ Exchanged(s, m, t, Napping(s.thr[t]), x, Awakened(s.thr[x], c), c)
       /\ m.sleepQueue = InsertSleeper(s, t) /\ m.active = s.active \cup {c}
  BY <1>1, <1>2, <1>3, <1>4, <1>5, <1>10 DEF Exchanged, TookOver, FellAsleep
<1> QED
  BY <1>11 DEF m, r

\* sync hands the context over to the promised thread.
HandedOver(s, t, c, x) ==
    Wakeup(Schedule(Deschedule([s EXCEPT !.thr[t].handoff = None], t, c, "QUEUED"), x, c), x)

\* The handoff exchanges the two threads, and nobody leaves a list.
LEMMA HandedOverIs ==
    ASSUME NEW s, Tables(s), NEW t \in Threads, NEW x \in Threads, NEW c \in Cores,
           s.cur[c] = t, s.thr[t].state = "RUNNING", s.thr[t].handoff = x
    PROVE  LET m == HandedOver(s, t, c, x)
           IN  /\ Exchanged(s, m, t, Requeued(s.thr[t]), x, Awakened(s.thr[x], c), c)
               /\ m.runQueue = s.runQueue
               /\ m.sleepQueue = s.sleepQueue /\ m.active = s.active
<1> DEFINE info == [s.thr[t] EXCEPT !.handoff = None]
           thr == [s.thr EXCEPT ![t] = info]
           e == [s EXCEPT !.thr[t].handoff = None]
           r == Deschedule(e, t, c, "QUEUED")
           m == HandedOver(s, t, c, x)
<1>0. Typed(s)
  BY TableTypes
<1>1. /\ s.thr[x].state = "QUEUED" /\ x # t /\ x \notin Members(s.runQueue)
      /\ IsInjective(s.runQueue) /\ IsInjective(s.sleepQueue)
      /\ \A u \in Threads \ {t} : s.thr[u].handoff # x
  BY <1>0, QueuedFacts DEF Typed, Lists, Holds, Promised
<1>2. info \in ThreadInfos
  <2>1. s.thr[t] \in ThreadInfos
    BY <1>0 DEF Typed
  <2> QED
    BY <2>1 DEF ThreadInfos
<1>3. e = [s EXCEPT !.thr = thr]
  BY <1>0 DEF Typed, Schedulers
<1>4. m = Wakeup(Schedule(r, x, c), x)
  BY DEF HandedOver
<1> HIDE DEF info, e
<1>5. thr \in [Threads -> ThreadInfos] /\ thr[t] = info
      /\ \A u \in Threads \ {t} : thr[u] = s.thr[u]
  BY <1>0, <1>2 DEF Typed
<1> HIDE DEF thr, r, m
<1>6. /\ e \in Schedulers /\ e.thr = thr /\ e.cur = s.cur /\ e.freeList = s.freeList
      /\ e.runQueue = s.runQueue /\ e.outQueue = s.outQueue
      /\ e.sleepQueue = s.sleepQueue /\ e.fakeLeaves = s.fakeLeaves
      /\ e.active = s.active /\ e.phase = s.phase
      /\ e.bar = s.bar /\ e.broken = s.broken
  BY <1>0, <1>3, <1>5 DEF Typed, Schedulers
<1>7. Descheduled(e, r, t, c, "QUEUED")
  <2>1. e \in Schedulers /\ "QUEUED" \in ThreadStates
    BY <1>6 DEF ThreadStates
  <2> QED
    BY <2>1, DescheduleIs DEF r
<1>8. ScheduledAs(r, m, x, c, Awakened(r.thr[x], c))
  BY <1>4, <1>7, ScheduleWakeIs DEF Descheduled
<1>9. TwoThreads(s, m, t, Requeued(s.thr[t]), x, Awakened(s.thr[x], c))
  <2>1. s.thr[t] \in ThreadInfos
    BY <1>0 DEF Typed
  <2>2. r.thr[t] = Requeued(s.thr[t])
    BY <1>5, <1>6, <1>7, <2>1 DEF info, Descheduled, OneThread, Requeued, ThreadInfos
  <2>3. \A u \in Threads \ {t} : r.thr[u] = s.thr[u]
    BY <1>5, <1>6, <1>7 DEF Descheduled, OneThread
  <2> QED
    BY <1>1, <1>8, <2>2, <2>3 DEF TwoThreads, OneThread, ScheduledAs
<1>10. m.cur = [s.cur EXCEPT ![c] = x]
  <2>1. s.cur \in [Cores -> Threads \cup {None}]
    BY <1>0 DEF Typed
  <2> QED
    BY <1>6, <1>7, <1>8, <2>1 DEF ScheduledAs, Descheduled
<1>11. /\ m.thr[t].state = "QUEUED" /\ m.thr[t].handoff = None
       /\ m.thr[x].state = "RUNNING" /\ m.thr[x].cid = c
       /\ m.thr[x].handoff = s.thr[x].handoff
  <2>1. s.thr[t] \in ThreadInfos /\ s.thr[x] \in ThreadInfos
    BY <1>0 DEF Typed
  <2> QED
    BY <1>9, <2>1, RequeuedIs, AwakenedIs DEF TwoThreads
<1>12. \A u \in Threads : m.thr[u].handoff \in {s.thr[u].handoff, None}
  BY <1>9, <1>11 DEF TwoThreads
<1>13. ~Promised(m, x)
  <2>1. x # None
    BY <1>0 DEF Typed
  <2>2. \A u \in Threads \ {t} : m.thr[u].handoff # x
    BY <1>1, <1>12, <2>1
  <2> QED
    BY <1>11, <2>1, <2>2 DEF Promised
<1>14. m \in Schedulers /\ Swaps(s, m, t, x, c)
  <2>1. /\ m \in Schedulers /\ m.freeList = s.freeList /\ m.outQueue = s.outQueue
        /\ m.fakeLeaves = s.fakeLeaves /\ m.sleepQueue = s.sleepQueue
        /\ m.runQueue = s.runQueue
    BY <1>6, <1>7, <1>8 DEF ScheduledAs, Descheduled
  <2>2. \A u \in Threads \ {t, x} : m.thr[u] = s.thr[u]
    BY <1>9 DEF TwoThreads
  <2> QED
    BY <1>1, <1>10, <1>11, <1>12, <1>13, <2>1, <2>2 DEF Swaps
<1>15. Tables(m) /\ SameRuns(s, m)
  BY <1>14, SwapTables
<1>16. /\ Exchanged(s, m, t, Requeued(s.thr[t]), x, Awakened(s.thr[x], c), c)
       /\ m.runQueue = s.runQueue
       /\ m.sleepQueue = s.sleepQueue /\ m.active = s.active
  BY <1>1, <1>6, <1>7, <1>8, <1>9, <1>10, <1>15 DEF Exchanged, ScheduledAs, Descheduled
<1> QED
  BY <1>16 DEF m

\* What freeing a context does: t gives c up, for which nobody queues.
GivesUp(s, m, t, c) ==
    /\ s.cur[c] = t /\ m.cur = [s.cur EXCEPT ![c] = None]
    /\ \A u \in Threads \ {t} : m.thr[u] = s.thr[u]
    /\ m.thr[t].state \in {"SLEEPING", "NONE"}
    /\ m.thr[t].handoff \in {s.thr[t].handoff, None}
    /\ s.thr[t].state = "OUT" \/ \A x \in Members(s.runQueue) : c \notin Mask[x]
    /\ IsInjective(m.freeList) /\ Members(m.freeList) = Members(s.freeList) \cup {c}
    /\ IsInjective(m.outQueue) /\ Members(m.outQueue) = Members(s.outQueue) \ {t}
    /\ IsInjective(m.sleepQueue)
    /\ Members(m.sleepQueue) = IF m.thr[t].state = "SLEEPING"
                               THEN Members(s.sleepQueue) \cup {t} ELSE Members(s.sleepQueue)
    /\ m.runQueue = s.runQueue /\ m.fakeLeaves = s.fakeLeaves

\* A context that nobody queues for may be freed.
LEMMA FreedTables ==
    ASSUME NEW s, Tables(s), NEW t \in Threads, NEW c \in Cores,
           NEW m \in Schedulers, GivesUp(s, m, t, c)
    PROVE  Tables(m) /\ RunsBut(s, m, c) /\ ~Runs(m, c)
<1> USE DEF GivesUp
<1>0. Typed(s)
  BY TableTypes
<1>1. /\ s.thr[t].cid = c /\ m.cur[c] = None /\ t # None
      /\ s.thr[t].state \in {"RUNNING", "OUT"}
      /\ \A d \in Cores \ {c} : m.cur[d] = s.cur[d] /\ s.cur[d] # t
  <2>1. t # None /\ s.thr[t].cid = c /\ s.thr[t].state \in {"RUNNING", "OUT"}
    BY <1>0 DEF Typed, Contexts
  <2>2. \A d \in Cores : s.cur[d] = t => d = c
    BY <1>0, <2>1 DEF Typed, Contexts
  <2>3. m.cur[c] = None /\ \A d \in Cores \ {c} : m.cur[d] = s.cur[d]
    BY <1>0 DEF Typed
  <2> QED
    BY <2>1, <2>2, <2>3
<1>2. Contexts(m)
  <2>1. ASSUME NEW u \in Threads, m.thr[u].state \in {"RUNNING", "OUT"}
        PROVE  m.cur[m.thr[u].cid] = u
    <3>1. u # t /\ m.thr[u] = s.thr[u]
      BY <2>1
    <3>2. s.cur[s.thr[u].cid] = u /\ s.thr[u].cid \in Cores
      BY <1>0, <2>1, <3>1 DEF Typed, Contexts, InStates
    <3> QED
      BY <1>1, <3>1, <3>2
  <2>2. ASSUME NEW d \in Cores, m.cur[d] # None
        PROVE  m.thr[m.cur[d]].cid = d /\ m.thr[m.cur[d]].state \in {"RUNNING", "OUT"}
    <3>1. d # c /\ m.cur[d] = s.cur[d] /\ s.cur[d] \in Threads \ {t}
      BY <1>0, <1>1, <2>2 DEF Typed
    <3> QED
      BY <1>0, <2>2, <3>1 DEF Typed, Contexts
  <2> QED
    BY <2>1, <2>2 DEF Contexts, InStates
<1>3. Lists(m)
  <2>1. /\ InStates(m, {"OUT"}) = InStates(s, {"OUT"}) \ {t}
        /\ InStates(m, {"SLEEPING"}) = IF m.thr[t].state = "SLEEPING"
                                       THEN InStates(s, {"SLEEPING"}) \cup {t}
                                       ELSE InStates(s, {"SLEEPING"})
        /\ InStates(s, {"QUEUED"}) \subseteq InStates(m, {"QUEUED"})
    BY <1>1 DEF InStates
  <2>2. {d \in Cores : m.cur[d] = None} = {d \in Cores : s.cur[d] = None} \cup {c}
    BY <1>1
  <2>3. Lists(s)
    BY <1>0 DEF Typed
  <2> QED
    BY <2>1, <2>2, <2>3 DEF Lists, Holds
<1>4. Promises(m)
  <2>1. Members(m.runQueue) \subseteq Members(s.runQueue)
    OBVIOUS
  <2>2. \A u \in Threads :
          /\ m.thr[u].handoff \in {s.thr[u].handoff, None}
          /\ s.thr[u].state = "QUEUED" => /\ m.thr[u].state = s.thr[u].state
                                          /\ m.thr[u].word = s.thr[u].word
    BY <1>1
  <2> QED
    BY <2>1, <2>2, PromisesCarried
<1>5. RunsBut(s, m, c) /\ ~Runs(m, c)
  <2>1. \A d \in Cores \ {c} : Runs(m, d) <=> Runs(s, d)
    <3> TAKE d \in Cores \ {c}
    <3>1. s.cur[d] \in Threads => m.thr[s.cur[d]] = s.thr[s.cur[d]]
      BY <1>1
    <3> QED
      BY <1>0, <1>1, <3>1, RunsSame
  <2> QED
    BY <1>1, <2>1 DEF RunsBut, Runs
<1>6. Conserves(m)
  <2>1. \A x \in Members(s.runQueue) : c \notin Mask[x]
    <3>1. s.thr[t].state = "OUT" => ~Runs(s, c)
      BY DEF Runs
    <3> QED
      BY <1>0, <3>1 DEF Typed, Conserves
  <2> QED
    BY <1>0, <1>5, <2>1 DEF Typed, Conserves, RunsBut
<1> QED
  BY <1>2, <1>3, <1>4, <1>5, <1>6 DEF Tables

\* What a start and a removal do: t has no context, before and after.
Rests(s, m, t) ==
    /\ s.thr[t].state \notin {"RUNNING", "OUT", "SLEEPING"}
    /\ m.thr[t].state \in {"NONE", "STARTED"}
    /\ m.thr[t].handoff \in {s.thr[t].handoff, None}
    /\ \A u \in Threads \ {t} : m.thr[u] = s.thr[u]
    /\ ~Promised(s, t)
    /\ m.cur = s.cur /\ m.freeList = s.freeList /\ m.outQueue = s.outQueue
    /\ m.sleepQueue = s.sleepQueue /\ m.fakeLeaves = s.fakeLeaves
    /\ IsInjective(m.runQueue) /\ Members(m.runQueue) = Members(s.runQueue) \ {t}

\* A thread without a context may come and go.
LEMMA RestTables ==
    ASSUME NEW s, Tables(s), NEW t \in Threads, NEW m \in Schedulers, Rests(s, m, t)
    PROVE  Tables(m) /\ SameRuns(s, m)
<1> USE DEF Rests
<1>0. Typed(s)
  BY TableTypes
<1>1. \A d \in Cores : s.cur[d] # t
  BY <1>0 DEF Typed, Contexts
<1>2. Contexts(m)
  <2>1. ASSUME NEW u \in Threads, m.thr[u].state \in {"RUNNING", "OUT"}
        PROVE  m.cur[m.thr[u].cid] = u
    <3>1. u # t /\ m.thr[u] = s.thr[u]
      BY <2>1
    <3> QED
      BY <1>0, <2>1, <3>1 DEF Typed, Contexts, InStates
  <2>2. ASSUME NEW d \in Cores, m.cur[d] # None
        PROVE  m.thr[m.cur[d]].cid = d /\ m.thr[m.cur[d]].state \in {"RUNNING", "OUT"}
    <3>1. s.cur[d] \in Threads \ {t}
      BY <1>0, <1>1, <2>2 DEF Typed
    <3> QED
      BY <1>0, <2>2, <3>1 DEF Typed, Contexts
  <2> QED
    BY <2>1, <2>2 DEF Contexts, InStates
<1>3. Lists(m)
  <2>1. /\ InStates(m, {"OUT"}) = InStates(s, {"OUT"})
        /\ InStates(m, {"SLEEPING"}) = InStates(s, {"SLEEPING"})
        /\ InStates(s, {"QUEUED"}) \ {t} \subseteq InStates(m, {"QUEUED"})
    BY DEF InStates
  <2>2. Lists(s)
    BY <1>0 DEF Typed
  <2> QED
    BY <2>1, <2>2 DEF Lists, Holds
<1>4. Promises(m)
  <2>1. \A x \in Members(m.runQueue) : m.thr[x].word = 1
    <3> SUFFICES ASSUME NEW x \in Members(m.runQueue) PROVE m.thr[x].word = 1
      OBVIOUS
    <3>1. x \in Threads \ {t} /\ x \in Members(s.runQueue)
      BY <1>0 DEF Typed
    <3> QED
      BY <1>0, <3>1, QueuedFacts
  <2>2. ASSUME NEW x \in Threads, Promised(m, x)
        PROVE  m.thr[x].state = s.thr[x].state /\ m.thr[x].word = s.thr[x].word
    <3>1. Promised(s, x)
      BY <1>0, <2>2 DEF Promised, Typed
    <3>2. x # t
      BY <3>1
    <3> QED
      BY <3>2
  <2>3. \A u \in Threads : m.thr[u].handoff \in {s.thr[u].handoff, None}
    OBVIOUS
  <2> QED
    BY <2>1, <2>2, <2>3, PromisesKept
<1>5. \A d \in Cores : Runs(m, d) <=> Runs(s, d)
  <2> TAKE d \in Cores
  <2>1. s.cur[d] \in Threads => m.thr[s.cur[d]] = s.thr[s.cur[d]]
    BY <1>1
  <2> QED
    BY <1>0, <2>1, RunsSame
<1>6. Conserves(m)
  BY <1>5, ConservesKept
<1> QED
  BY <1>2, <1>3, <1>4, <1>5, <1>6 DEF Tables, SameRuns

\* What a placement does: t takes c, which is free or an OUT thread's.
Takes(s, m, t, c) ==
    /\ s.thr[t].state \in {"STARTED", "BLOCKED", "QUEUED"}
    /\ t \notin Members(s.runQueue) /\ ~Promised(s, t)
    /\ m.cur = [s.cur EXCEPT ![c] = t]
    /\ m.thr[t].state = "RUNNING" /\ m.thr[t].cid = c
    /\ m.thr[t].handoff = s.thr[t].handoff
    /\ \A u \in Threads \ {t, s.cur[c]} : m.thr[u] = s.thr[u]
    /\ s.cur[c] \in Threads =>
         /\ s.thr[s.cur[c]].state = "OUT" /\ m.thr[s.cur[c]].state = "BLOCKED"
         /\ m.thr[s.cur[c]].handoff = s.thr[s.cur[c]].handoff
    /\ IsInjective(m.freeList) /\ Members(m.freeList) = Members(s.freeList) \ {c}
    /\ IsInjective(m.outQueue) /\ Members(m.outQueue) = Members(s.outQueue) \ {s.cur[c]}
    /\ m.runQueue = s.runQueue /\ m.sleepQueue = s.sleepQueue /\ m.fakeLeaves = s.fakeLeaves

\* A thread that is on no list may take a context that does not run.
LEMMA TakenTables ==
    ASSUME NEW s, Tables(s), NEW t \in Threads, NEW c \in Cores,
           NEW m \in Schedulers, Takes(s, m, t, c)
    PROVE  Tables(m) /\ RunsBut(s, m, c) /\ Runs(m, c) /\ ~Runs(s, c)
<1> USE DEF Takes
<1> DEFINE v == s.cur[c]
<1>0. Typed(s)
  BY TableTypes
<1>1. /\ t # None /\ m.cur[c] = t /\ v # t /\ v \in Threads \cup {None}
      /\ \A d \in Cores \ {c} : m.cur[d] = s.cur[d]
      /\ \A d \in Cores : s.cur[d] # t
      /\ \A d \in Cores \ {c} : s.cur[d] # None => s.cur[d] # v
  <2>1. t # None /\ \A d \in Cores : s.cur[d] # t
    <3>1. t # None /\ Contexts(s) /\ s.thr[t].state \notin {"RUNNING", "OUT"}
      BY <1>0 DEF Typed
    <3> QED
      BY <3>1 DEF Contexts
  <2>2. \A d \in Cores \ {c} : s.cur[d] # None => s.cur[d] # v
    BY <1>0 DEF Typed, Contexts
  <2>3. m.cur[c] = t /\ \A d \in Cores \ {c} : m.cur[d] = s.cur[d]
    BY <1>0 DEF Typed
  <2>4. v \in Threads \cup {None}
    BY <1>0 DEF Typed
  <2> QED
    BY <2>1, <2>2, <2>3, <2>4
<1>2. Contexts(m)
  <2>1. ASSUME NEW u \in Threads, m.thr[u].state \in {"RUNNING", "OUT"}
        PROVE  m.cur[m.thr[u].cid] = u
    <3>1. CASE u = t
      BY <1>1, <3>1
    <3>2. CASE u # t
      <4>1. u # v /\ m.thr[u] = s.thr[u]
        BY <2>1, <3>2
      <4>2. s.cur[s.thr[u].cid] = u /\ s.thr[u].cid \in Cores
        BY <1>0, <2>1, <4>1 DEF Typed, Contexts, InStates
      <4> QED
        BY <1>1, <4>1, <4>2
    <3> QED
      BY <3>1, <3>2
  <2>2. ASSUME NEW d \in Cores, m.cur[d] # None
        PROVE  m.thr[m.cur[d]].cid = d /\ m.thr[m.cur[d]].state \in {"RUNNING", "OUT"}
    <3>1. CASE d = c
      BY <1>1, <3>1
    <3>2. CASE d # c
      <4>1. m.cur[d] = s.cur[d] /\ s.cur[d] \in Threads \ {t, v}
        BY <1>0, <1>1, <2>2, <3>2 DEF Typed
      <4>2. m.thr[s.cur[d]] = s.thr[s.cur[d]]
        BY <4>1
      <4> QED
        BY <1>0, <2>2, <4>1, <4>2 DEF Typed, Contexts
    <3> QED
      BY <3>1, <3>2
  <2> QED
    BY <2>1, <2>2 DEF Contexts, InStates
<1>3. Lists(m)
  <2>1. InStates(m, {"OUT"}) = InStates(s, {"OUT"}) \ {v}
    BY <1>1 DEF InStates
  <2>2. InStates(m, {"SLEEPING"}) = InStates(s, {"SLEEPING"})
    BY <1>1 DEF InStates
  <2>3. InStates(s, {"QUEUED"}) \ {t} \subseteq InStates(m, {"QUEUED"})
    BY <1>1 DEF InStates
  <2>4. {d \in Cores : m.cur[d] = None} = {d \in Cores : s.cur[d] = None} \ {c}
    BY <1>1
  <2>5. Lists(s)
    BY <1>0 DEF Typed
  <2> QED
    BY <2>1, <2>2, <2>3, <2>4, <2>5 DEF Lists, Holds
<1>4. /\ \A u \in Threads : m.thr[u].handoff = s.thr[u].handoff
      /\ \A u \in Threads \ {t} : s.thr[u].state = "QUEUED" => m.thr[u] = s.thr[u]
  BY <1>1
<1>5. Promises(m)
  <2>1. \A x \in Members(m.runQueue) : m.thr[x].word = 1
    <3> SUFFICES ASSUME NEW x \in Members(m.runQueue) PROVE m.thr[x].word = 1
      OBVIOUS
    <3>1. x \in Threads \ {t} /\ x \in Members(s.runQueue)
      BY <1>0 DEF Typed
    <3>2. s.thr[x].state = "QUEUED" /\ s.thr[x].word = 1
      BY <1>0, <3>1, QueuedFacts
    <3> QED
      BY <1>4, <3>1, <3>2
  <2>2. ASSUME NEW x \in Threads, Promised(m, x)
        PROVE  m.thr[x].state = s.thr[x].state /\ m.thr[x].word = s.thr[x].word
    <3>1. Promised(s, x)
      BY <1>4, <2>2 DEF Promised
    <3>2. x # t /\ s.thr[x].state = "QUEUED"
      BY <1>0, <3>1, QueuedFacts
    <3> QED
      BY <1>4, <3>2
  <2> QED
    BY <1>4, <2>1, <2>2, PromisesKept
<1>6. RunsBut(s, m, c) /\ Runs(m, c) /\ ~Runs(s, c)
  <2>1. \A d \in Cores \ {c} : Runs(m, d) <=> Runs(s, d)
    <3> TAKE d \in Cores \ {c}
    <3>1. s.cur[d] \in Threads => m.thr[s.cur[d]] = s.thr[s.cur[d]]
      BY <1>0, <1>1 DEF Typed
    <3> QED
      BY <1>0, <1>1, <3>1, RunsSame
  <2> QED
    BY <1>1, <2>1 DEF RunsBut, Runs
<1>7. Conserves(m)
  <2>1. \A d \in Cores : Runs(s, d) => Runs(m, d)
    BY <1>6 DEF RunsBut
  <2> QED
    BY <2>1, ConservesKept
<1> QED
  BY <1>2, <1>3, <1>5, <1>6, <1>7 DEF Tables

\* s after t, that nobody queues for, went to sleep and freed its context.
Freed(s, t, c) == [NapBegun(s, t, c) EXCEPT !.freeList = Append(@, c)]

\* Field by field: t is in the sleep queue and its context is free.
WentToSleep(s, m, t, c) ==
    /\ Tables(m)
    /\ OneThread(s, m, t, Napping(s.thr[t]))
    /\ m.cur = [s.cur EXCEPT ![c] = None]
    /\ m.runQueue = s.runQueue /\ m.outQueue = s.outQueue
    /\ m.sleepQueue = InsertSleeper(s, t) /\ m.fakeLeaves = s.fakeLeaves
    /\ m.active = s.active /\ m.bar = s.bar /\ m.broken = s.broken
    /\ RunsBut(s, m, c) /\ ~Runs(m, c)

\* Going to sleep with nobody waiting for the context keeps the tables.
LEMMA FreedIs ==
    ASSUME NEW s, Tables(s), NEW t \in Threads, NEW c \in Cores,
           s.cur[c] = t, s.thr[t].state = "RUNNING", SchedContext(s, c) = None
    PROVE  WentToSleep(s, Freed(s, t, c), t, c)
<1> DEFINE r == NapBegun(s, t, c)
           free == Append(r.freeList, c)
           m == Freed(s, t, c)
<1>0. Typed(s) /\ s \in Schedulers /\ s.thr[t] \in ThreadInfos
  BY TableTypes DEF Typed
<1>1. FellAsleep(s, r, t, c)
  BY <1>0, NapBegunIs
<1>2. m = [r EXCEPT !.freeList = free]
  BY DEF Freed
<1> HIDE DEF r, m
<1>3. free \in Seq(Cores) /\ Members(free) = Members(s.freeList) \cup {c} /\ IsInjective(free)
  <2>1. r.freeList = s.freeList /\ s.freeList \in Seq(Cores)
    BY <1>0, <1>1 DEF FellAsleep, Typed
  <2>2. c \notin Members(s.freeList) /\ IsInjective(s.freeList)
    BY <1>0 DEF Typed, Lists, Holds
  <2> QED
    BY <2>1, <2>2, AppendIs
<1> HIDE DEF free
<1>4. /\ m \in Schedulers /\ m.thr = r.thr /\ m.cur = r.cur /\ m.freeList = free
      /\ m.runQueue = r.runQueue /\ m.outQueue = r.outQueue
      /\ m.sleepQueue = r.sleepQueue /\ m.fakeLeaves = r.fakeLeaves
      /\ m.active = r.active /\ m.bar = r.bar /\ m.broken = r.broken
  <2>1. r \in Schedulers
    BY <1>1 DEF FellAsleep
  <2> QED
    BY <1>2, <1>3, <2>1 DEF Schedulers
<1>5. OneThread(s, m, t, Napping(s.thr[t]))
  BY <1>1, <1>4 DEF FellAsleep, OneThread
<1>6. GivesUp(s, m, t, c)
  <2>1. m.thr[t].state = "SLEEPING" /\ m.thr[t].handoff = s.thr[t].handoff
    BY <1>0, <1>5, NappingIs DEF OneThread
  <2>2. \A x \in Members(s.runQueue) : c \notin Mask[x]
    BY <1>0, NobodyFor
  <2>3. t \notin Members(s.outQueue) /\ t \notin Members(s.sleepQueue)
        /\ IsInjective(s.outQueue) /\ IsInjective(s.sleepQueue)
    BY <1>0 DEF Typed, Lists, Holds, InStates
  <2>4. IsInjective(InsertSleeper(s, t))
        /\ Members(InsertSleeper(s, t)) = Members(s.sleepQueue) \cup {t}
    BY <1>0, <2>3, InsertSleeperIs
  <2>5. /\ m.cur = [s.cur EXCEPT ![c] = None] /\ m.outQueue = s.outQueue
        /\ m.runQueue = s.runQueue /\ m.fakeLeaves = s.fakeLeaves
        /\ m.sleepQueue = InsertSleeper(s, t)
    BY <1>1, <1>4 DEF FellAsleep
  <2>6. \A u \in Threads \ {t} : m.thr[u] = s.thr[u]
    BY <1>5 DEF OneThread
  <2>7. Members(m.outQueue) = Members(s.outQueue) \ {t}
    BY <2>3, <2>5
  <2> QED
    BY <1>3, <1>4, <2>1, <2>2, <2>3, <2>4, <2>5, <2>6, <2>7 DEF GivesUp
<1>7. Tables(m) /\ RunsBut(s, m, c) /\ ~Runs(m, c)
  BY <1>4, <1>6, FreedTables
<1>8. WentToSleep(s, m, t, c)
  BY <1>1, <1>4, <1>5, <1>7 DEF WentToSleep, FellAsleep
<1> QED
  BY <1>8 DEF m

\* s after t was placed on c, which was free or an OUT thread's.
Placed(s, t, c) == Schedule(TakeContext(s, c), t, c)

\* Field by field: t has c, and the OUT thread that had it blocks.
PlacedOn(s, m, t, c) ==
    /\ Tables(m)
    /\ m.thr[t] = Placement(s.thr[t], c)
    /\ \A u \in Threads \ {t, s.cur[c]} : m.thr[u] = s.thr[u]
    /\ s.cur[c] \in Threads => /\ s.thr[s.cur[c]].state = "OUT" /\ s.cur[c] # t
                               /\ m.thr[s.cur[c]] = Blocked(s.thr[s.cur[c]])
    /\ m.cur = [s.cur EXCEPT ![c] = t]
    /\ Members(m.outQueue) = Members(s.outQueue) \ {s.cur[c]}
    /\ m.runQueue = s.runQueue /\ m.sleepQueue = s.sleepQueue /\ m.fakeLeaves = s.fakeLeaves
    /\ m.active = s.active /\ m.bar = s.bar /\ m.broken = s.broken
    /\ RunsBut(s, m, c) /\ Runs(m, c) /\ ~Runs(s, c)

\* The record between the two: c has been taken.
ContextTaken(s, r, c) ==
    /\ r \in Schedulers
    /\ \A u \in Threads \ {s.cur[c]} : r.thr[u] = s.thr[u]
    /\ s.cur[c] \in Threads => /\ s.thr[s.cur[c]].state = "OUT"
                               /\ r.thr[s.cur[c]] = Blocked(s.thr[s.cur[c]])
    /\ \A d \in Cores \ {c} : r.cur[d] = s.cur[d]
    /\ IsInjective(r.freeList) /\ Members(r.freeList) = Members(s.freeList) \ {c}
    /\ IsInjective(r.outQueue) /\ Members(r.outQueue) = Members(s.outQueue) \ {s.cur[c]}
    /\ r.runQueue = s.runQueue /\ r.sleepQueue = s.sleepQueue /\ r.fakeLeaves = s.fakeLeaves
    /\ r.active = s.active /\ r.bar = s.bar /\ r.broken = s.broken

\* That is what schedThread makes of the lists when it picks c.
LEMMA TakeContextIs ==
    ASSUME NEW s, Tables(s), NEW c \in Cores, CanTake(s, c)
    PROVE  ContextTaken(s, TakeContext(s, c), c)
<1> DEFINE r == TakeContext(s, c)
           v == s.cur[c]
<1>0. /\ Typed(s) /\ s \in Schedulers
      /\ s.freeList \in Seq(Cores) /\ s.outQueue \in Seq(Threads)
  BY TableTypes DEF Typed
<1>1. IsInjective(s.freeList) /\ IsInjective(s.outQueue)
      /\ Members(s.freeList) = {d \in Cores : s.cur[d] = None}
      /\ Members(s.outQueue) = InStates(s, {"OUT"})
  BY <1>0 DEF Typed, Lists, Holds
<1>2. CASE v = None
  <2> DEFINE free == Remove(s.freeList, c)
  <2>1. free \in Seq(Cores) /\ Members(free) = Members(s.freeList) \ {c} /\ IsInjective(free)
    BY <1>0, <1>1, RemoveIs
  <2>2. r = [s EXCEPT !.freeList = free]
    BY <1>0, <1>2 DEF TakeContext, Schedulers
  <2> HIDE DEF free, r
  <2>3. /\ r \in Schedulers /\ r.thr = s.thr /\ r.cur = s.cur /\ r.freeList = free
        /\ r.outQueue = s.outQueue
        /\ r.runQueue = s.runQueue /\ r.sleepQueue = s.sleepQueue
        /\ r.fakeLeaves = s.fakeLeaves
        /\ r.active = s.active /\ r.bar = s.bar /\ r.broken = s.broken
    BY <1>0, <2>1, <2>2 DEF Schedulers
  <2>4. v \notin Threads /\ v \notin Members(s.outQueue)
    BY <1>0, <1>1, <1>2 DEF Typed, InStates
  <2>5. Members(s.outQueue) \ {v} = Members(s.outQueue)
    BY <2>4
  <2>6. ContextTaken(s, r, c)
    BY <1>1, <2>1, <2>3, <2>4, <2>5 DEF ContextTaken
  <2> QED
    BY <2>6 DEF r
<1>3. CASE v # None
  <2> DEFINE out == Remove(s.outQueue, v)
             e == [s EXCEPT !.outQueue = Remove(@, s.cur[c])]
  <2>1. v \in Members(s.outQueue) /\ v \in Threads /\ s.thr[v].state = "OUT"
    BY <1>0, <1>1, <1>3 DEF CanTake, Typed, InStates
  <2>2. out \in Seq(Threads) /\ Members(out) = Members(s.outQueue) \ {v} /\ IsInjective(out)
    BY <1>0, <1>1, RemoveIs
  <2>3. r = Deschedule(e, v, c, "BLOCKED")
    BY <1>3 DEF TakeContext
  <2>4. e = [s EXCEPT !.outQueue = out]
    BY <1>0 DEF Schedulers
  <2> HIDE DEF out, r, e
  <2>5. /\ e \in Schedulers /\ e.thr = s.thr /\ e.cur = s.cur /\ e.freeList = s.freeList
        /\ e.outQueue = out
        /\ e.runQueue = s.runQueue /\ e.sleepQueue = s.sleepQueue
        /\ e.fakeLeaves = s.fakeLeaves
        /\ e.active = s.active /\ e.bar = s.bar /\ e.broken = s.broken
    BY <1>0, <2>2, <2>4 DEF Schedulers
  <2>6. Descheduled(e, r, v, c, "BLOCKED")
    BY <2>1, <2>3, <2>5, DescheduleIs DEF ThreadStates
  <2>7. /\ r.thr[v] = Blocked(s.thr[v])
        /\ \A u \in Threads \ {v} : r.thr[u] = s.thr[u]
    BY <2>5, <2>6 DEF Descheduled, OneThread, Blocked
  <2>8. \A d \in Cores \ {c} : r.cur[d] = s.cur[d]
    BY <1>0, <2>5, <2>6 DEF Descheduled, Typed
  <2>9. Members(s.freeList) \ {c} = Members(s.freeList)
    BY <1>1, <1>3
  <2>10. ContextTaken(s, r, c)
    BY <1>1, <2>1, <2>2, <2>5, <2>6, <2>7, <2>8, <2>9 DEF ContextTaken, Descheduled
  <2> QED
    BY <2>10 DEF r
<1> QED
  BY <1>2, <1>3

\* A thread that is on no list may be placed on a context schedThread picked.
LEMMA PlacedIs ==
    ASSUME NEW s, Tables(s), NEW t \in Threads, NEW c \in Cores, CanTake(s, c),
           s.thr[t].state \in {"STARTED", "BLOCKED", "QUEUED"},
           t \notin Members(s.runQueue), ~Promised(s, t)
    PROVE  PlacedOn(s, Placed(s, t, c), t, c)
<1> DEFINE r == TakeContext(s, c)
           m == Placed(s, t, c)
           v == s.cur[c]
<1>0. Typed(s) /\ s.thr[t] \in ThreadInfos
  BY TableTypes DEF Typed
<1>1. ContextTaken(s, r, c)
  BY TakeContextIs
<1>2. m = Schedule(r, t, c)
  BY DEF Placed
<1>3. v # t
  BY <1>0 DEF Typed, Contexts
<1> HIDE DEF r, m
<1>4. ScheduledAs(r, m, t, c, Placement(r.thr[t], c))
  BY <1>1, <1>2, ScheduleIs DEF ContextTaken
<1>5. /\ m.thr[t] = Placement(s.thr[t], c)
      /\ \A u \in Threads \ {t, v} : m.thr[u] = s.thr[u]
      /\ v \in Threads => s.thr[v].state = "OUT" /\ m.thr[v] = Blocked(s.thr[v])
  BY <1>1, <1>3, <1>4 DEF ContextTaken, ScheduledAs, OneThread
<1>6. m.cur = [s.cur EXCEPT ![c] = t]
  <2>1. m.cur = [r.cur EXCEPT ![c] = t]
    BY <1>4 DEF ScheduledAs
  <2>2. s.cur \in [Cores -> Threads \cup {None}] /\ r.cur \in [Cores -> Threads \cup {None}]
    BY <1>0, <1>1, Types DEF Typed, ContextTaken
  <2>3. \A d \in Cores \ {c} : r.cur[d] = s.cur[d]
    BY <1>1 DEF ContextTaken
  <2> QED
    BY <2>1, <2>2, <2>3
<1>7. Takes(s, m, t, c)
  <2>1. m.thr[t].state = "RUNNING" /\ m.thr[t].cid = c /\ m.thr[t].handoff = s.thr[t].handoff
    BY <1>0, <1>5, PlacementIs
  <2>2. v \in Threads => m.thr[v].state = "BLOCKED" /\ m.thr[v].handoff = s.thr[v].handoff
    <3>1. v \in Threads => s.thr[v] \in ThreadInfos
      BY <1>0 DEF Typed
    <3> QED
      BY <1>5, <3>1, BlockedIs
  <2>3. /\ IsInjective(m.freeList) /\ Members(m.freeList) = Members(s.freeList) \ {c}
        /\ IsInjective(m.outQueue) /\ Members(m.outQueue) = Members(s.outQueue) \ {v}
        /\ m.runQueue = s.runQueue /\ m.sleepQueue = s.sleepQueue
        /\ m.fakeLeaves = s.fakeLeaves
    BY <1>1, <1>4 DEF ContextTaken, ScheduledAs
  <2> QED
    BY <1>5, <1>6, <2>1, <2>2, <2>3 DEF Takes
<1>8. Tables(m) /\ RunsBut(s, m, c) /\ Runs(m, c) /\ ~Runs(s, c)
  BY <1>4, <1>7, TakenTables DEF ScheduledAs
<1>9. PlacedOn(s, m, t, c)
  BY <1>1, <1>3, <1>4, <1>5, <1>6, <1>8 DEF PlacedOn, ContextTaken, ScheduledAs
<1> QED
  BY <1>9 DEF m

\* s after t left the simulation.
Unlinked(s, m, t) ==
    /\ Tables(m)
    /\ OneThread(s, m, t, NoThread)
    /\ \A c \in Cores : m.cur[c] = s.cur[c] \/ m.cur[c] = None
    /\ Members(m.runQueue) = Members(s.runQueue) \ {t}
    /\ m.sleepQueue = s.sleepQueue /\ m.fakeLeaves = s.fakeLeaves
    /\ m.active = s.active /\ m.bar = s.bar /\ m.broken = s.broken
    /\ SameRuns(s, m)

\* The entry of a gid that is not in the simulation.
LEMMA NoThreadIs ==
    /\ NoThread \in ThreadInfos /\ NoThread.state = "NONE" /\ NoThread.handoff = None
    /\ NoThread.word = 0 /\ NoThread.marked = FALSE
<1>1. 0 \in Cores /\ 0 \in 0..MaxSleep
  <2>1. Cores # {} /\ Cores = 0..(Cardinality(Cores) - 1)
    BY SchedulerAssumption DEF SchedulerAssumption
  <2>2. Cardinality(Cores) \in Nat
    BY CoresFinite DEF Cores
  <2> QED
    BY <2>1, <2>2, NoWait
<1> QED
  BY <1>1 DEF NoThread, ThreadInfos, ThreadStates

\* t's entry is reset.
LEMMA GoneIs ==
    ASSUME NEW s \in Schedulers, NEW t \in Threads
    PROVE  LET m == [s EXCEPT !.thr[t] = NoThread]
           IN  /\ m \in Schedulers /\ OneThread(s, m, t, NoThread)
               /\ m.cur = s.cur /\ m.freeList = s.freeList /\ m.runQueue = s.runQueue
               /\ m.outQueue = s.outQueue /\ m.sleepQueue = s.sleepQueue
               /\ m.fakeLeaves = s.fakeLeaves /\ m.active = s.active
               /\ m.phase = s.phase /\ m.bar = s.bar /\ m.broken = s.broken
<1> DEFINE thr == [s.thr EXCEPT ![t] = NoThread]
           m == [s EXCEPT !.thr[t] = NoThread]
<1>1. s.thr \in [Threads -> ThreadInfos]
  BY Types
<1>2. thr \in [Threads -> ThreadInfos] /\ thr[t] = NoThread
      /\ \A u \in Threads \ {t} : thr[u] = s.thr[u]
  BY <1>1, NoThreadIs
<1>3. m = [s EXCEPT !.thr = thr]
  BY <1>1 DEF Schedulers
<1> HIDE DEF thr, m
<1>4. /\ m \in Schedulers /\ m.thr = thr
      /\ m.cur = s.cur /\ m.freeList = s.freeList /\ m.runQueue = s.runQueue
      /\ m.outQueue = s.outQueue /\ m.sleepQueue = s.sleepQueue
      /\ m.fakeLeaves = s.fakeLeaves /\ m.active = s.active
      /\ m.phase = s.phase /\ m.bar = s.bar /\ m.broken = s.broken
  BY <1>2, <1>3 DEF Schedulers
<1>5. OneThread(s, m, t, NoThread)
  BY <1>2, <1>4 DEF OneThread
<1> QED
  BY <1>4, <1>5 DEF m

\* finish takes the gid off its list, or fails an assertion.
LEMMA UnlinksIs ==
    ASSUME NEW s, Tables(s), NEW t \in Threads, NEW r \in FinishUnlinks(s, t)
    PROVE  r.broken \/ Unlinked(s, r, t)
<1> DEFINE gone == [s EXCEPT !.thr[t] = NoThread]
           c == s.thr[t].cid
<1>0. /\ Typed(s) /\ s \in Schedulers /\ c \in Cores /\ s.freeList \in Seq(Cores)
      /\ s.runQueue \in Seq(Threads) /\ s.outQueue \in Seq(Threads)
  BY TableTypes DEF Typed
<1>1. /\ gone \in Schedulers /\ OneThread(s, gone, t, NoThread)
      /\ gone.cur = s.cur /\ gone.freeList = s.freeList /\ gone.runQueue = s.runQueue
      /\ gone.outQueue = s.outQueue /\ gone.sleepQueue = s.sleepQueue
      /\ gone.fakeLeaves = s.fakeLeaves /\ gone.active = s.active
      /\ gone.phase = s.phase /\ gone.bar = s.bar /\ gone.broken = s.broken
  BY <1>0, GoneIs
<1>2. [s EXCEPT !.broken = TRUE].broken
  BY <1>0 DEF Schedulers
<1>3. /\ NoThread.state = "NONE" /\ NoThread.handoff = None
      /\ IsInjective(s.runQueue) /\ IsInjective(s.outQueue) /\ IsInjective(s.freeList)
      /\ IsInjective(s.sleepQueue)
  BY <1>0, NoThreadIs DEF Typed, Lists, Holds
<1>4. SUFFICES ASSUME ~r.broken PROVE Unlinked(s, r, t)
  OBVIOUS
<1>5. CASE s.thr[t].state = "QUEUED"
  <2> DEFINE queue == Remove(s.runQueue, t)
  <2>1. t \in Members(s.runQueue) /\ r = [gone EXCEPT !.runQueue = Remove(@, t)]
    BY <1>2, <1>4, <1>5 DEF FinishUnlinks, Asserting
  <2>2. queue \in Seq(Threads) /\ Members(queue) = Members(s.runQueue) \ {t}
        /\ IsInjective(queue)
    BY <1>0, <1>3, RemoveIs
  <2> HIDE DEF gone, queue
  <2>3. r = [gone EXCEPT !.runQueue = queue]
    BY <1>1, <2>1 DEF queue, Schedulers
  <2>4. /\ r \in Schedulers /\ r.thr = gone.thr /\ r.cur = s.cur /\ r.freeList = s.freeList
        /\ r.runQueue = queue /\ r.outQueue = s.outQueue /\ r.sleepQueue = s.sleepQueue
        /\ r.fakeLeaves = s.fakeLeaves /\ r.active = s.active
        /\ r.bar = s.bar /\ r.broken = s.broken
    BY <1>1, <2>2, <2>3 DEF Schedulers
  <2>5. OneThread(s, r, t, NoThread)
    BY <1>1, <2>4 DEF OneThread
  <2>6. ~Promised(s, t)
    BY <1>0, <2>1, QueuedFacts
  <2>7. Rests(s, r, t)
    BY <1>3, <1>5, <2>2, <2>4, <2>5, <2>6 DEF Rests, OneThread
  <2>8. Tables(r) /\ SameRuns(s, r)
    BY <2>4, <2>7, RestTables
  <2> QED
    BY <2>2, <2>4, <2>5, <2>8 DEF Unlinked
<1>6. CASE s.thr[t].state = "OUT"
  <2> DEFINE out == Remove(s.outQueue, t)
             cur == [s.cur EXCEPT ![c] = None]
             free == Append(s.freeList, c)
  <2>1. CanDeschedule(s, t, c)
        /\ r = [gone EXCEPT !.outQueue = Remove(@, t), !.cur[c] = None,
                            !.freeList = Append(@, c)]
    BY <1>2, <1>4, <1>6 DEF FinishUnlinks, Asserting
  <2>2. out \in Seq(Threads) /\ Members(out) = Members(s.outQueue) \ {t} /\ IsInjective(out)
    BY <1>0, <1>3, RemoveIs
  <2>3. s.cur[c] = t /\ t # None
    BY <1>0, <2>1 DEF CanDeschedule, Typed
  <2>4. free \in Seq(Cores) /\ Members(free) = Members(s.freeList) \cup {c} /\ IsInjective(free)
    <3>1. c \notin Members(s.freeList)
      BY <1>0, <2>3 DEF Typed, Lists, Holds
    <3> QED
      BY <1>0, <1>3, <3>1, AppendIs
  <2>5. cur \in [Cores -> Threads \cup {None}]
        /\ \A d \in Cores : cur[d] = s.cur[d] \/ cur[d] = None
    BY <1>0 DEF Typed
  <2> HIDE DEF gone, out, free
  <2>6. r = [gone EXCEPT !.outQueue = out, !.cur = cur, !.freeList = free]
    BY <1>1, <2>1 DEF out, free, Schedulers
  <2> HIDE DEF cur
  <2>7. /\ r \in Schedulers /\ r.thr = gone.thr /\ r.cur = cur /\ r.freeList = free
        /\ r.runQueue = s.runQueue /\ r.outQueue = out /\ r.sleepQueue = s.sleepQueue
        /\ r.fakeLeaves = s.fakeLeaves /\ r.active = s.active
        /\ r.bar = s.bar /\ r.broken = s.broken
    BY <1>1, <2>2, <2>4, <2>5, <2>6 DEF Schedulers
  <2>8. OneThread(s, r, t, NoThread)
    BY <1>1, <2>7 DEF OneThread
  <2>9. GivesUp(s, r, t, c)
    BY <1>3, <1>6, <2>2, <2>3, <2>4, <2>7, <2>8 DEF GivesUp, OneThread, cur
  <2>10. Tables(r) /\ RunsBut(s, r, c) /\ ~Runs(r, c)
    BY <1>0, <2>7, <2>9, FreedTables
  <2>11. SameRuns(s, r)
    BY <1>6, <2>3, <2>10 DEF SameRuns, RunsBut, Runs
  <2>12. t \notin Members(s.runQueue)
    BY <1>0, <1>6, QueuedFacts
  <2>13. Members(r.runQueue) = Members(s.runQueue) \ {t}
    BY <2>7, <2>12
  <2> QED
    BY <2>5, <2>7, <2>8, <2>10, <2>11, <2>13 DEF Unlinked
<1>7. CASE s.thr[t].state \in {"STARTED", "BLOCKED"}
  <2>1. r = gone
    BY <1>7 DEF FinishUnlinks
  <2> HIDE DEF gone
  <2>2. t \notin Members(s.runQueue) /\ ~Promised(s, t)
    BY <1>0, <1>7, QueuedFacts
  <2>3. Members(s.runQueue) = Members(s.runQueue) \ {t}
    BY <2>2
  <2>4. Rests(s, r, t)
    BY <1>1, <1>3, <1>7, <2>1, <2>2, <2>3 DEF Rests, OneThread
  <2>5. Tables(r) /\ SameRuns(s, r)
    BY <1>1, <2>1, <2>4, RestTables
  <2> QED
    BY <1>1, <2>1, <2>3, <2>5 DEF Unlinked
<1>8. CASE s.thr[t].state \notin {"QUEUED", "OUT", "STARTED", "BLOCKED"}
  <2>1. r = [s EXCEPT !.broken = TRUE]
    BY <1>8 DEF FinishUnlinks
  <2> QED
    BY <1>2, <1>4, <2>1
<1> QED
  BY <1>5, <1>6, <1>7, <1>8

\* s after t entered the simulation.
Started == [NoThread EXCEPT !.state = "STARTED"]

\* ... and nothing else changed.
Entered(s, m, t) ==
    /\ Tables(m)
    /\ OneThread(s, m, t, Started)
    /\ m.cur = s.cur /\ m.runQueue = s.runQueue /\ m.outQueue = s.outQueue
    /\ m.sleepQueue = s.sleepQueue /\ m.fakeLeaves = s.fakeLeaves
    /\ m.active = s.active /\ m.bar = s.bar /\ m.broken = s.broken
    /\ SameRuns(s, m)

\* start keeps the tables.
LEMMA StartIs ==
    ASSUME NEW s, Tables(s), NEW t \in Threads, s.thr[t].state = "NONE"
    PROVE  Entered(s, Start(s, t), t)
<1> DEFINE thr == [s.thr EXCEPT ![t] = Started]
           m == Start(s, t)
<1>0. Typed(s) /\ s \in Schedulers /\ s.thr \in [Threads -> ThreadInfos]
  BY TableTypes DEF Typed
<1>1. Started \in ThreadInfos /\ Started.state = "STARTED" /\ Started.handoff = None
  BY NoThreadIs DEF Started, ThreadInfos, ThreadStates
<1>2. thr \in [Threads -> ThreadInfos] /\ thr[t] = Started
      /\ \A u \in Threads \ {t} : thr[u] = s.thr[u]
  BY <1>0, <1>1
<1>3. m = [s EXCEPT !.thr = thr]
  BY <1>0 DEF Start, Started, Schedulers
<1> HIDE DEF thr, m
<1>4. /\ m \in Schedulers /\ m.thr = thr
      /\ m.cur = s.cur /\ m.freeList = s.freeList /\ m.runQueue = s.runQueue
      /\ m.outQueue = s.outQueue /\ m.sleepQueue = s.sleepQueue
      /\ m.fakeLeaves = s.fakeLeaves /\ m.active = s.active
      /\ m.bar = s.bar /\ m.broken = s.broken
  BY <1>0, <1>2, <1>3 DEF Schedulers
<1>5. OneThread(s, m, t, Started)
  BY <1>2, <1>4 DEF OneThread
<1>6. t \notin Members(s.runQueue) /\ ~Promised(s, t) /\ IsInjective(s.runQueue)
  BY <1>0, QueuedFacts DEF Typed, Lists
<1>7. Members(s.runQueue) = Members(s.runQueue) \ {t}
  BY <1>6
<1>8. Rests(s, m, t)
  BY <1>1, <1>4, <1>5, <1>6, <1>7 DEF Rests, OneThread
<1>9. Tables(m) /\ SameRuns(s, m)
  BY <1>4, <1>8, RestTables
<1>10. Entered(s, m, t)
  BY <1>4, <1>5, <1>9 DEF Entered
<1> QED
  BY <1>10 DEF m

\* s after t was marked for a sleep.
Dozy(i, phases) == [i EXCEPT !.marked = TRUE, !.wakeIn = phases, !.word = 1]

\* Its deadline is set and its futex word; no list changed.
Marked(s, m, t, phases) ==
    /\ Tables(m)
    /\ OneThread(s, m, t, Dozy(s.thr[t], phases))
    /\ m.cur = s.cur /\ m.runQueue = s.runQueue /\ m.outQueue = s.outQueue
    /\ m.sleepQueue = s.sleepQueue /\ m.fakeLeaves = s.fakeLeaves
    /\ m.active = s.active /\ m.bar = s.bar /\ m.broken = s.broken
    /\ SameRuns(s, m)

\* The entry of such a thread, field by field.
LEMMA DozyIs ==
    ASSUME NEW i \in ThreadInfos, NEW phases \in 0..MaxSleep
    PROVE  /\ Dozy(i, phases) \in ThreadInfos /\ Dozy(i, phases).state = i.state
           /\ Dozy(i, phases).cid = i.cid /\ Dozy(i, phases).handoff = i.handoff
           /\ Dozy(i, phases).word = 1
BY DEF Dozy, ThreadInfos

\* markForSleep keeps the tables, or fails an assertion.
LEMMA MarkIs ==
    ASSUME NEW s, Tables(s), NEW t \in Threads, NEW phases \in 0..MaxSleep,
           NEW r \in MarkForSleep(s, t, phases)
    PROVE  r.broken \/ Marked(s, r, t, phases)
<1> DEFINE info == Dozy(s.thr[t], phases)
           thr == [s.thr EXCEPT ![t] = info]
<1>0. Typed(s) /\ s \in Schedulers /\ s.thr \in [Threads -> ThreadInfos]
      /\ s.thr[t] \in ThreadInfos
  BY TableTypes DEF Typed
<1>1. /\ info \in ThreadInfos /\ info.state = s.thr[t].state /\ info.cid = s.thr[t].cid
      /\ info.handoff = s.thr[t].handoff /\ info.word = 1
  BY <1>0, DozyIs
<1>2. thr \in [Threads -> ThreadInfos] /\ thr[t] = info
      /\ \A u \in Threads \ {t} : thr[u] = s.thr[u]
  BY <1>0, <1>1
<1>3. SUFFICES ASSUME ~r.broken PROVE Marked(s, r, t, phases)
  OBVIOUS
<1>4. r = [s EXCEPT !.thr = thr]
  <2> DEFINE m == [s EXCEPT !.thr[t].marked = TRUE, !.thr[t].wakeIn = phases, !.thr[t].word = 1]
  <2>1. r = m \/ r = [s EXCEPT !.broken = TRUE]
    BY DEF MarkForSleep, Asserting
  <2>2. [s EXCEPT !.broken = TRUE].broken
    BY <1>0 DEF Schedulers
  <2>3. m = [s EXCEPT !.thr = thr]
    <3>1. m.thr = thr
      BY <1>0 DEF Schedulers, Dozy, ThreadInfos
    <3> QED
      BY <1>0, <3>1 DEF Schedulers
  <2> HIDE DEF m
  <2> QED
    BY <1>3, <2>1, <2>2, <2>3
<1> HIDE DEF thr, info
<1>5. /\ r \in Schedulers /\ r.thr = thr
      /\ r.cur = s.cur /\ r.freeList = s.freeList /\ r.runQueue = s.runQueue
      /\ r.outQueue = s.outQueue /\ r.sleepQueue = s.sleepQueue
      /\ r.fakeLeaves = s.fakeLeaves /\ r.active = s.active
      /\ r.bar = s.bar /\ r.broken = s.broken
  BY <1>0, <1>2, <1>4 DEF Schedulers
<1>6. \A u \in Threads : /\ r.thr[u].cid = s.thr[u].cid /\ r.thr[u].handoff = s.thr[u].handoff
                         /\ r.thr[u].state = s.thr[u].state
                         /\ s.thr[u].word = 1 => r.thr[u].word = 1
  BY <1>1, <1>2, <1>5
<1>7. Contexts(r)
  BY <1>5, <1>6, ContextsKept
<1>8. Lists(r)
  <2>1. \A S : InStates(r, S) = InStates(s, S)
    BY <1>6 DEF InStates
  <2> QED
    BY <1>0, <1>5, <2>1 DEF Typed, Lists, Holds
<1>9. Promises(r)
  <2>1. \A x \in Members(r.runQueue) : r.thr[x].word = 1
    <3> SUFFICES ASSUME NEW x \in Members(r.runQueue) PROVE r.thr[x].word = 1
      OBVIOUS
    <3>1. x \in Threads /\ x \in Members(s.runQueue)
      BY <1>0, <1>5 DEF Typed
    <3> QED
      BY <1>0, <1>6, <3>1, QueuedFacts
  <2>2. ASSUME NEW x \in Threads, Promised(r, x)
        PROVE  r.thr[x].state = s.thr[x].state /\ r.thr[x].word = s.thr[x].word
    <3>1. Promised(s, x)
      BY <1>6, <2>2 DEF Promised
    <3> QED
      BY <1>0, <1>6, <3>1, QueuedFacts
  <2> QED
    BY <1>5, <1>6, <2>1, <2>2, PromisesKept
<1>10. \A c \in Cores : Runs(r, c) <=> Runs(s, c)
  BY <1>0, <1>5, <1>6, RunsSame
<1>11. Conserves(r)
  BY <1>5, <1>10, ConservesKept
<1>12. OneThread(s, r, t, info)
  BY <1>2, <1>5 DEF OneThread
<1> QED
  BY <1>5, <1>7, <1>8, <1>9, <1>10, <1>11, <1>12 DEF Marked, Tables, SameRuns, info


-----------------------------------------------------------------------------
(* The end of a phase                                                      *)

\* s after the phase was counted: the sleepers that are due are awake.
PhaseMoved(s, m) ==
    /\ Tables(m)
    /\ Due(s) \subseteq Members(s.sleepQueue)
    /\ \A u \in Threads :
         /\ m.thr[u].cid = s.thr[u].cid /\ m.thr[u].marked = s.thr[u].marked
         /\ m.thr[u].handoff = s.thr[u].handoff
         /\ IF u \in Due(s)
            THEN m.thr[u].state = "BLOCKED" /\ m.thr[u].word = 0 /\ m.thr[u].wakeIn = 0
            ELSE /\ m.thr[u].state = s.thr[u].state /\ m.thr[u].word = s.thr[u].word
                 /\ m.thr[u].wakeIn = IF s.thr[u].wakeIn > 0 THEN s.thr[u].wakeIn - 1 ELSE 0
    /\ m.cur = s.cur /\ m.freeList = s.freeList
    /\ m.runQueue = s.runQueue /\ m.outQueue = s.outQueue
    /\ m.sleepQueue = Without(s.sleepQueue, Due(s)) /\ m.fakeLeaves = s.fakeLeaves
    /\ m.active = s.active /\ m.bar = s.bar /\ m.broken = s.broken
    /\ SameRuns(s, m)

\* Counting the phase keeps the tables.
LEMMA NextCurPhaseIs ==
    ASSUME NEW s, Tables(s)
    PROVE  PhaseMoved(s, NextCurPhase(s))
<1> DEFINE D == Due(s)
           woken(i) == [i EXCEPT !.state = "BLOCKED", !.word = 0, !.wakeIn = 0]
           nearer(i) == [i EXCEPT !.wakeIn = i.wakeIn - 1]
           thr == [t \in Threads |-> IF t \in D THEN woken(s.thr[t])
                                     ELSE IF s.thr[t].wakeIn > 0 THEN nearer(s.thr[t])
                                     ELSE s.thr[t]]
           phase == (s.phase + 1) % SchedQuantum
           sleep == Without(s.sleepQueue, D)
           m == NextCurPhase(s)
<1>0. Typed(s) /\ s \in Schedulers /\ s.thr \in [Threads -> ThreadInfos]
      /\ s.sleepQueue \in Seq(Threads)
  BY TableTypes DEF Typed
<1>1. D \subseteq Members(s.sleepQueue) /\ D \subseteq Threads
      /\ \A u \in D : s.thr[u].state = "SLEEPING"
  <2>1. D \subseteq Members(s.sleepQueue)
    BY DEF Due, Members
  <2> QED
    BY <1>0, <2>1 DEF Typed, Lists, Holds, InStates
<1>2. ASSUME NEW i \in ThreadInfos
      PROVE  /\ woken(i) \in ThreadInfos /\ woken(i).cid = i.cid
             /\ woken(i).marked = i.marked /\ woken(i).handoff = i.handoff
             /\ woken(i).state = "BLOCKED" /\ woken(i).word = 0 /\ woken(i).wakeIn = 0
  BY NoWait DEF ThreadInfos, ThreadStates
<1>3. ASSUME NEW i \in ThreadInfos, i.wakeIn > 0
      PROVE  /\ nearer(i) \in ThreadInfos /\ nearer(i).cid = i.cid
             /\ nearer(i).marked = i.marked /\ nearer(i).handoff = i.handoff
             /\ nearer(i).state = i.state /\ nearer(i).word = i.word
             /\ nearer(i).wakeIn = i.wakeIn - 1
  <2>1. i.wakeIn \in 0..MaxSleep /\ MaxSleep \in Nat
    BY NoWait DEF ThreadInfos
  <2>2. i.wakeIn - 1 \in 0..MaxSleep
    BY <1>3, <2>1
  <2> QED
    BY <2>2 DEF ThreadInfos
<1>4. \A i \in ThreadInfos : i.wakeIn \in Nat
  BY NoWait DEF ThreadInfos
<1> HIDE DEF woken, nearer, D
<1>5. thr \in [Threads -> ThreadInfos]
  BY <1>0, <1>2, <1>3 DEF Typed
<1>6. \A u \in Threads :
        /\ thr[u].cid = s.thr[u].cid /\ thr[u].marked = s.thr[u].marked
        /\ thr[u].handoff = s.thr[u].handoff
        /\ u \in D => thr[u].state = "BLOCKED" /\ thr[u].word = 0 /\ thr[u].wakeIn = 0
        /\ u \notin D => /\ thr[u].state = s.thr[u].state /\ thr[u].word = s.thr[u].word
                         /\ thr[u].wakeIn = IF s.thr[u].wakeIn > 0 THEN s.thr[u].wakeIn - 1 ELSE 0
  <2> TAKE u \in Threads
  <2>1. s.thr[u] \in ThreadInfos /\ s.thr[u].wakeIn \in Nat
    BY <1>0, <1>4 DEF Typed
  <2>2. CASE u \in D
    BY <1>2, <2>1, <2>2
  <2>3. CASE u \notin D /\ s.thr[u].wakeIn > 0
    BY <1>3, <2>1, <2>3
  <2>4. CASE u \notin D /\ ~(s.thr[u].wakeIn > 0)
    BY <2>1, <2>4
  <2> QED
    BY <2>2, <2>3, <2>4
<1>7. sleep \in Seq(Threads) /\ Members(sleep) = Members(s.sleepQueue) \ D
      /\ (IsInjective(s.sleepQueue) => IsInjective(sleep))
  BY <1>0, WithoutIs
<1>8. phase \in 0..(SchedQuantum - 1)
  <2>1. SchedQuantum \in Nat \ {0} /\ s.phase \in Int
    BY <1>0, SchedulerAssumption DEF SchedulerAssumption, Schedulers
  <2> QED
    BY <2>1
<1>9. m = [s EXCEPT !.phase = phase, !.thr = thr, !.sleepQueue = sleep]
  BY <1>0 DEF NextCurPhase, Schedulers, D, woken, nearer
<1> HIDE DEF thr, sleep, phase, m
<1>10. /\ m \in Schedulers /\ m.thr = thr
       /\ m.cur = s.cur /\ m.freeList = s.freeList /\ m.runQueue = s.runQueue
       /\ m.outQueue = s.outQueue /\ m.sleepQueue = sleep
       /\ m.fakeLeaves = s.fakeLeaves /\ m.active = s.active
       /\ m.bar = s.bar /\ m.broken = s.broken
  BY <1>0, <1>5, <1>7, <1>8, <1>9 DEF Schedulers
<1>11. \A u \in Threads :
         /\ m.thr[u].cid = s.thr[u].cid /\ m.thr[u].handoff = s.thr[u].handoff
         /\ u \notin D => m.thr[u].state = s.thr[u].state /\ m.thr[u].word = s.thr[u].word
         /\ u \in D => m.thr[u].state = "BLOCKED" /\ s.thr[u].state = "SLEEPING"
  BY <1>1, <1>6, <1>10
<1>12. Contexts(m)
  BY <1>10, <1>11, ContextsKept
<1>13. Lists(m)
  <2>1. /\ InStates(m, {"OUT"}) = InStates(s, {"OUT"})
        /\ InStates(m, {"SLEEPING"}) = InStates(s, {"SLEEPING"}) \ D
        /\ InStates(m, {"QUEUED"}) = InStates(s, {"QUEUED"})
    BY <1>11 DEF InStates
  <2> QED
    BY <1>0, <1>7, <1>10, <2>1 DEF Typed, Lists, Holds
<1>14. Promises(m)
  <2>1. \A u \in Threads :
          /\ m.thr[u].handoff \in {s.thr[u].handoff, None}
          /\ s.thr[u].state = "QUEUED" => /\ m.thr[u].state = s.thr[u].state
                                          /\ m.thr[u].word = s.thr[u].word
    BY <1>11
  <2> QED
    BY <1>10, <2>1, PromisesCarried
<1>15. \A c \in Cores : Runs(m, c) <=> Runs(s, c)
  <2>1. \A u \in Threads : m.thr[u].state = "RUNNING" <=> s.thr[u].state = "RUNNING"
    BY <1>11
  <2> QED
    BY <1>0, <1>10, <2>1, RunsSame
<1>16. Conserves(m)
  BY <1>10, <1>15, ConservesKept
<1>17. Tables(m) /\ SameRuns(s, m)
  BY <1>10, <1>12, <1>13, <1>14, <1>15, <1>16 DEF Tables, SameRuns
<1>18. PhaseMoved(s, m)
  BY <1>1, <1>6, <1>10, <1>17 DEF PhaseMoved, D, sleep
<1> QED
  BY <1>18 DEF m

\* The pairs of schedTick: each core has one thread, of those it may run.
LEMMA PairingFacts ==
    ASSUME NEW s, Tables(s), NEW p \in Pairings(s)
    PROVE  /\ DOMAIN p = 1..Len(s.runQueue)
           /\ Members(p) = {p[i] : i \in 1..Len(s.runQueue)}
           /\ \A i \in 1..Len(s.runQueue) : p[i] # None =>
                p[i] \in Mask[s.runQueue[i]] /\ p[i] \in Cores
           /\ \A i, j \in 1..Len(s.runQueue) : p[i] # None /\ p[i] = p[j] => i = j
<1> DEFINE n == Len(s.runQueue)
           earlier(i) == {p[j] : j \in 1..(i - 1)}
<1>0. Typed(s) /\ s.runQueue \in Seq(Threads) /\ n \in Nat
  BY TableTypes DEF Typed
<1>1. /\ p \in [1..n -> Cores \cup {None}]
      /\ \A i \in 1..n : IF Mask[s.runQueue[i]] \subseteq earlier(i) THEN p[i] = None
                         ELSE p[i] \in Mask[s.runQueue[i]] \ earlier(i)
  BY DEF Pairings
<1>2. p \in Seq(Cores \cup {None}) /\ Len(p) = n
  BY <1>0, <1>1
<1>3. ASSUME NEW i \in 1..n, p[i] # None
      PROVE  /\ p[i] \in Mask[s.runQueue[i]] /\ p[i] \in Cores
             /\ \A j \in 1..(i - 1) : p[j] # p[i]
  <2>1. p[i] \in Mask[s.runQueue[i]] \ earlier(i)
    BY <1>1, <1>3
  <2> QED
    BY <1>1, <1>3, <2>1
<1>4. ASSUME NEW i \in 1..n, NEW j \in 1..n, p[i] # None, p[i] = p[j]
      PROVE  i = j
  <2>1. ~(j < i)
    <3>1. j < i => j \in 1..(i - 1)
      BY <1>0
    <3> QED
      BY <1>3, <1>4, <3>1
  <2>2. ~(i < j)
    <3>1. i < j => i \in 1..(j - 1)
      BY <1>0
    <3> QED
      BY <1>3, <1>4, <3>1
  <2> QED
    BY <1>0, <2>1, <2>2
<1> QED
  BY <1>1, <1>2, <1>3, <1>4 DEF Members

\* s after schedTick: some queued threads are promised a context of theirs.
PromisedOne(s, i, j, u) ==
    \E x \in Members(s.runQueue) : \E c \in Mask[x] :
        s.cur[c] = u /\ j = [i EXCEPT !.handoff = x]

\* Who was promised one is off the run queue; no context changed hands.
HandedOut(s, m) ==
    /\ Tables(m)
    /\ \A u \in Threads : m.thr[u] = s.thr[u] \/ PromisedOne(s, s.thr[u], m.thr[u], u)
    /\ Members(m.runQueue) \subseteq Members(s.runQueue)
    /\ \A x \in Members(s.runQueue) : x \in Members(m.runQueue) \/ Promised(m, x)
    /\ m.cur = s.cur /\ m.freeList = s.freeList /\ m.outQueue = s.outQueue
    /\ m.sleepQueue = s.sleepQueue /\ m.fakeLeaves = s.fakeLeaves
    /\ m.active = s.active /\ m.bar = s.bar /\ m.broken = s.broken
    /\ SameRuns(s, m)

\* schedTick keeps the tables, since each core has one thread to hand over.
LEMMA HandOverIs ==
    ASSUME NEW s, Tables(s), NEW p \in Pairings(s),
           \A i \in DOMAIN p : p[i] # None => s.cur[p[i]] # None
    PROVE  HandedOut(s, HandOver(s, p))
<1> DEFINE n == Len(s.runQueue)
           V == Victims(s, p)
           idx(v) == CHOOSE i \in DOMAIN p : p[i] # None /\ s.cur[p[i]] = v
           succ(v) == Successor(s, p, v)
           to(v) == [s.thr[v] EXCEPT !.handoff = succ(v)]
           thr == [t \in Threads |-> IF t \in V THEN to(t) ELSE s.thr[t]]
           X == {succ(v) : v \in V}
           queue == Without(s.runQueue, X)
           m == HandOver(s, p)
<1>0. /\ Typed(s) /\ s \in Schedulers /\ s.thr \in [Threads -> ThreadInfos]
      /\ s.runQueue \in Seq(Threads) /\ n \in Nat /\ None \notin Threads
  BY TableTypes DEF Typed
<1>1. ASSUME NEW v \in V
      PROVE  /\ v \in Threads /\ idx(v) \in 1..n /\ p[idx(v)] # None
             /\ s.cur[p[idx(v)]] = v /\ succ(v) = s.runQueue[idx(v)]
             /\ p[idx(v)] \in Mask[s.runQueue[idx(v)]]
  <2>1. PICK i \in 1..n : p[i] # None /\ v = s.cur[p[i]]
    BY PairingFacts DEF Victims
  <2>2. v \in Threads
    <3>1. p[i] \in Cores /\ s.cur[p[i]] # None
      BY <2>1, PairingFacts
    <3> QED
      BY <1>0, <2>1, <3>1 DEF Typed
  <2>3. idx(v) \in DOMAIN p /\ p[idx(v)] # None /\ s.cur[p[idx(v)]] = v
    BY <2>1, PairingFacts
  <2> HIDE DEF idx
  <2>4. idx(v) \in 1..n /\ p[idx(v)] \in Mask[s.runQueue[idx(v)]]
    BY <2>3, PairingFacts
  <2>5. succ(v) = s.runQueue[idx(v)]
    BY DEF Successor, idx
  <2> QED
    BY <2>2, <2>3, <2>4, <2>5
<1> HIDE DEF idx, V, succ
<1>2. ASSUME NEW v \in V
      PROVE  succ(v) \in Members(s.runQueue) /\ succ(v) \in Threads
  BY <1>0, <1>1 DEF Members, Typed
<1>3. ASSUME NEW v \in V, NEW w \in V, succ(v) = succ(w)
      PROVE  v = w
  <2>1. s.runQueue[idx(v)] = s.runQueue[idx(w)] /\ idx(v) \in 1..n /\ idx(w) \in 1..n
    BY <1>1, <1>3
  <2>2. IsInjective(s.runQueue)
    BY <1>0 DEF Typed, Lists
  <2>3. idx(v) = idx(w)
    BY <1>0, <2>1, <2>2 DEF IsInjective
  <2> QED
    BY <1>1, <2>3
<1>4. ASSUME NEW v \in V
      PROVE  /\ to(v) \in ThreadInfos /\ to(v).handoff = succ(v)
             /\ to(v).state = s.thr[v].state /\ to(v).word = s.thr[v].word
             /\ to(v).cid = s.thr[v].cid
  <2>1. s.thr[v] \in ThreadInfos /\ succ(v) \in Threads
    BY <1>0, <1>1, <1>2 DEF Typed
  <2> QED
    BY <2>1 DEF ThreadInfos
<1>5. thr \in [Threads -> ThreadInfos]
  BY <1>0, <1>4 DEF Typed
<1>6. queue \in Seq(Threads) /\ Members(queue) = Members(s.runQueue) \ X
      /\ (IsInjective(s.runQueue) => IsInjective(queue))
  BY <1>0, WithoutIs
<1>7. m = [s EXCEPT !.thr = thr, !.runQueue = queue]
  BY <1>0 DEF HandOver, Schedulers, V, succ
<1>8. \A u \in Threads :
        /\ thr[u].state = s.thr[u].state /\ thr[u].word = s.thr[u].word
        /\ thr[u].cid = s.thr[u].cid
        /\ u \in V => thr[u] = to(u) /\ thr[u].handoff = succ(u)
        /\ u \notin V => thr[u] = s.thr[u]
  BY <1>4
<1> HIDE DEF m, thr, queue, to
<1>9. /\ m \in Schedulers /\ m.thr = thr /\ m.runQueue = queue
      /\ m.cur = s.cur /\ m.freeList = s.freeList
      /\ m.outQueue = s.outQueue /\ m.sleepQueue = s.sleepQueue
      /\ m.fakeLeaves = s.fakeLeaves /\ m.active = s.active
      /\ m.bar = s.bar /\ m.broken = s.broken
  BY <1>0, <1>5, <1>6, <1>7 DEF Schedulers
<1>10. \A u \in Threads :
         /\ m.thr[u].state = s.thr[u].state /\ m.thr[u].word = s.thr[u].word
         /\ m.thr[u].cid = s.thr[u].cid
         /\ u \in V => m.thr[u].handoff = succ(u)
         /\ u \notin V => m.thr[u].handoff = s.thr[u].handoff
  BY <1>8, <1>9
<1>11. Contexts(m)
  BY <1>9, <1>10, ContextsKept
<1>12. Lists(m)
  <2>1. \A S : InStates(m, S) = InStates(s, S)
    BY <1>10 DEF InStates
  <2> QED
    BY <1>0, <1>6, <1>9, <2>1 DEF Typed, Lists, Holds
<1>13. ASSUME NEW u \in Threads, m.thr[u].handoff # None
       PROVE  /\ m.thr[m.thr[u].handoff].state = "QUEUED"
              /\ m.thr[m.thr[u].handoff].word = 1
              /\ m.thr[u].handoff \notin Members(m.runQueue)
              /\ \A v \in Threads : m.thr[v].handoff = m.thr[u].handoff => v = u
  <2> DEFINE x == m.thr[u].handoff
  <2>1. CASE u \in V
    <3>1. x = succ(u) /\ x \in Members(s.runQueue) /\ x \in Threads /\ x \in X
      BY <1>2, <1>10, <2>1
    <3>2. s.thr[x].state = "QUEUED" /\ s.thr[x].word = 1 /\ ~Promised(s, x)
      BY <1>0, <3>1, QueuedFacts
    <3>3. \A v \in Threads : m.thr[v].handoff = x => v = u
      <4> SUFFICES ASSUME NEW v \in Threads, m.thr[v].handoff = x PROVE v = u
        OBVIOUS
      <4>1. v \in V
        BY <1>10, <3>2 DEF Promised
      <4> QED
        BY <1>3, <1>10, <2>1, <3>1, <4>1
    <3>4. x \notin Members(m.runQueue)
      BY <1>6, <1>9, <3>1
    <3>5. m.thr[x].state = "QUEUED" /\ m.thr[x].word = 1
      BY <1>10, <3>1, <3>2
    <3> QED
      BY <3>3, <3>4, <3>5
  <2>2. CASE u \notin V
    <3>1. x = s.thr[u].handoff /\ x \in Threads /\ Promised(s, x)
      BY <1>0, <1>10, <1>13, <2>2 DEF Typed, Promised
    <3>2. /\ s.thr[x].state = "QUEUED" /\ s.thr[x].word = 1 /\ x \notin Members(s.runQueue)
          /\ \A v \in Threads : s.thr[v].handoff = x => v = u
      BY <1>0, <3>1, QueuedFacts
    <3>3. \A v \in V : succ(v) # x
      BY <1>2, <3>2
    <3>4. \A v \in Threads : m.thr[v].handoff = x => v = u
      BY <1>10, <3>2, <3>3
    <3>5. x \notin Members(m.runQueue)
      BY <1>6, <1>9, <3>2
    <3>6. m.thr[x].state = "QUEUED" /\ m.thr[x].word = 1
      BY <1>10, <3>1, <3>2
    <3> QED
      BY <3>4, <3>5, <3>6
  <2> QED
    BY <2>1, <2>2
<1>14. Promises(m)
  <2>1. \A x \in Members(m.runQueue) : m.thr[x].word = 1
    <3> SUFFICES ASSUME NEW x \in Members(m.runQueue) PROVE m.thr[x].word = 1
      OBVIOUS
    <3>1. x \in Threads /\ x \in Members(s.runQueue)
      BY <1>0, <1>6, <1>9 DEF Typed
    <3> QED
      BY <1>0, <1>10, <3>1, QueuedFacts
  <2> QED
    BY <1>13, <2>1 DEF Promises
<1>15. \A c \in Cores : Runs(m, c) <=> Runs(s, c)
  BY <1>0, <1>9, <1>10, RunsSame
<1>16. Conserves(m)
  BY <1>6, <1>9, <1>15, ConservesKept
<1>17. Tables(m) /\ SameRuns(s, m)
  BY <1>9, <1>11, <1>12, <1>14, <1>15, <1>16 DEF Tables, SameRuns
<1>18. \A u \in Threads : m.thr[u] = s.thr[u] \/ PromisedOne(s, s.thr[u], m.thr[u], u)
  <2> SUFFICES ASSUME NEW u \in Threads, u \in V PROVE PromisedOne(s, s.thr[u], m.thr[u], u)
    BY <1>8, <1>9
  <2>1. m.thr[u] = [s.thr[u] EXCEPT !.handoff = succ(u)]
    BY <1>8, <1>9 DEF to
  <2>2. succ(u) \in Members(s.runQueue) /\ p[idx(u)] \in Mask[succ(u)]
        /\ s.cur[p[idx(u)]] = u
    BY <1>1, <1>2
  <2> QED
    BY <2>1, <2>2 DEF PromisedOne
<1>19. \A x \in Members(s.runQueue) : x \in Members(m.runQueue) \/ Promised(m, x)
  <2> SUFFICES ASSUME NEW x \in X PROVE Promised(m, x)
    BY <1>6, <1>9
  <2>1. PICK v \in V : x = succ(v)
    OBVIOUS
  <2>2. v \in Threads /\ m.thr[v].handoff = x
    BY <1>1, <1>10, <2>1
  <2> QED
    BY <2>2 DEF Promised
<1>20. HandedOut(s, m)
  BY <1>6, <1>9, <1>17, <1>18, <1>19 DEF HandedOut
<1> QED
  BY <1>20 DEF m

\* callback: the phase is counted, and at the end of a quantum contexts are
\* promised.
CalledBack(s, m) ==
    /\ Tables(m)
    /\ \E k : PhaseMoved(s, k) /\ (m = k \/ HandedOut(k, m))

\* callback does one, or both, or fails an assertion.
LEMMA CallbackIs ==
    ASSUME NEW s, Tables(s), NEW r \in Callback(s)
    PROVE  r \in Schedulers /\ (r.broken \/ CalledBack(s, r))
<1> DEFINE k == NextCurPhase(s)
<1>1. s \in Schedulers
  BY DEF Tables
<1>2. PhaseMoved(s, k)
  BY NextCurPhaseIs
<1>3. k \in Schedulers /\ Tables(k)
  BY <1>2 DEF PhaseMoved, Tables
<1> HIDE DEF k
<1>4. /\ [s EXCEPT !.broken = TRUE].broken /\ [k EXCEPT !.broken = TRUE].broken
      /\ [s EXCEPT !.broken = TRUE] \in Schedulers
      /\ [k EXCEPT !.broken = TRUE] \in Schedulers
  BY <1>1, <1>3 DEF Schedulers
<1>5. \/ r = [s EXCEPT !.broken = TRUE]
      \/ r = k
      \/ r \in SchedTick(k)
  BY DEF Callback, Asserting, k
<1>6. ASSUME r \in SchedTick(k)
      PROVE  r = [k EXCEPT !.broken = TRUE] \/ HandedOut(k, r)
  <2>1. PICK p \in Pairings(k) :
          r \in Asserting(\A i \in DOMAIN p : p[i] # None => k.cur[p[i]] # None,
                          k, {HandOver(k, p)})
    BY <1>6 DEF SchedTick
  <2>2. \/ r = [k EXCEPT !.broken = TRUE]
        \/ (\A i \in DOMAIN p : p[i] # None => k.cur[p[i]] # None) /\ r = HandOver(k, p)
    BY <2>1 DEF Asserting
  <2> QED
    BY <1>3, <2>2, HandOverIs
<1>7. HandedOut(k, r) => Tables(r) /\ r \in Schedulers
  BY DEF HandedOut, Tables
<1> QED
  BY <1>2, <1>3, <1>4, <1>5, <1>6, <1>7 DEF CalledBack


-----------------------------------------------------------------------------
(* The operations, with their calls of the barrier                         *)

\* The record with another barrier,
Barred(s, b) == [s EXCEPT !.bar = b]

\* ... and with other active recorders.
Activated(s, A) == [s EXCEPT !.active = A]

\* Neither field is in the tables.
LEMMA BarredIs ==
    ASSUME NEW s, Tables(s), NEW b \in Barriers
    PROVE  LET m == Barred(s, b)
           IN  /\ Tables(m) /\ SameRuns(s, m) /\ m.bar = b
               /\ m.thr = s.thr /\ m.cur = s.cur /\ m.freeList = s.freeList
               /\ m.runQueue = s.runQueue /\ m.outQueue = s.outQueue
               /\ m.sleepQueue = s.sleepQueue /\ m.fakeLeaves = s.fakeLeaves
               /\ m.active = s.active /\ m.broken = s.broken
<1> DEFINE m == Barred(s, b)
<1>0. Typed(s) /\ s \in Schedulers
  BY TableTypes DEF Typed
<1>1. /\ m \in Schedulers /\ m.bar = b
      /\ m.thr = s.thr /\ m.cur = s.cur /\ m.freeList = s.freeList
      /\ m.runQueue = s.runQueue /\ m.outQueue = s.outQueue
      /\ m.sleepQueue = s.sleepQueue /\ m.fakeLeaves = s.fakeLeaves
      /\ m.active = s.active /\ m.broken = s.broken
  BY <1>0 DEF Barred, Schedulers
<1>2. IsInjective(s.fakeLeaves)
  BY <1>0 DEF Typed, Lists
<1> HIDE DEF m
<1>3. Tables(m) /\ \A c \in Cores : Runs(m, c) <=> Runs(s, c)
  BY <1>1, <1>2, SameTables
<1> QED
  BY <1>1, <1>3 DEF m, SameRuns

\* ... nor is this one.
LEMMA ActivatedIs ==
    ASSUME NEW s, Tables(s), NEW A \in SUBSET Cores
    PROVE  LET m == Activated(s, A)
           IN  /\ Tables(m) /\ SameRuns(s, m) /\ m.active = A
               /\ m.thr = s.thr /\ m.cur = s.cur /\ m.freeList = s.freeList
               /\ m.runQueue = s.runQueue /\ m.outQueue = s.outQueue
               /\ m.sleepQueue = s.sleepQueue /\ m.fakeLeaves = s.fakeLeaves
               /\ m.bar = s.bar /\ m.broken = s.broken
<1> DEFINE m == Activated(s, A)
<1>0. Typed(s) /\ s \in Schedulers
  BY TableTypes DEF Typed
<1>1. /\ m \in Schedulers /\ m.active = A
      /\ m.thr = s.thr /\ m.cur = s.cur /\ m.freeList = s.freeList
      /\ m.runQueue = s.runQueue /\ m.outQueue = s.outQueue
      /\ m.sleepQueue = s.sleepQueue /\ m.fakeLeaves = s.fakeLeaves
      /\ m.bar = s.bar /\ m.broken = s.broken
  BY <1>0 DEF Activated, Schedulers
<1>2. IsInjective(s.fakeLeaves)
  BY <1>0 DEF Typed, Lists
<1> HIDE DEF m
<1>3. Tables(m) /\ \A c \in Cores : Runs(m, c) <=> Runs(s, c)
  BY <1>1, <1>2, SameTables
<1> QED
  BY <1>1, <1>3 DEF m, SameRuns

\* A broken outcome says so.
LEMMA BrokenIs ==
    ASSUME NEW s \in Schedulers
    PROVE  [s EXCEPT !.broken = TRUE].broken
BY DEF Schedulers

\* r is an outcome of tryWakeNext on barrier b.
Woken(s, b, r) ==
    \E k : \E d \in TryWakeNext(b) :
        /\ \/ k = s /\ d.phaseCount = b.phaseCount
           \/ CalledBack(s, k) /\ d.phaseCount # b.phaseCount
        /\ r = Barred(k, d)

\* What every outcome of callback leaves alone.
LEMMA CalledBackKeeps ==
    ASSUME NEW s, NEW k, CalledBack(s, k)
    PROVE  /\ Tables(k) /\ SameRuns(s, k)
           /\ k.cur = s.cur /\ k.freeList = s.freeList /\ k.outQueue = s.outQueue
           /\ k.fakeLeaves = s.fakeLeaves
           /\ k.active = s.active /\ k.bar = s.bar /\ k.broken = s.broken
<1>1. PICK h : PhaseMoved(s, h) /\ (k = h \/ HandedOut(h, k))
  BY DEF CalledBack
<1>2. Tables(k)
  BY DEF CalledBack
<1>3. /\ h.cur = s.cur /\ h.freeList = s.freeList /\ h.outQueue = s.outQueue
      /\ h.fakeLeaves = s.fakeLeaves
      /\ h.active = s.active /\ h.bar = s.bar /\ h.broken = s.broken /\ SameRuns(s, h)
  BY <1>1 DEF PhaseMoved
<1>4. CASE k = h
  BY <1>2, <1>3, <1>4
<1>5. CASE HandedOut(h, k)
  <2>1. /\ k.cur = h.cur /\ k.freeList = h.freeList /\ k.outQueue = h.outQueue
        /\ k.fakeLeaves = h.fakeLeaves
        /\ k.active = h.active /\ k.bar = h.bar /\ k.broken = h.broken /\ SameRuns(h, k)
    BY <1>5 DEF HandedOut
  <2>2. SameRuns(s, k)
    BY <1>3, <2>1 DEF SameRuns
  <2> QED
    BY <1>2, <1>3, <2>1, <2>2
<1> QED
  BY <1>1, <1>4, <1>5

\* An outcome of tryWakeNext keeps the invariant, with the barrier it was
\* called on.
LEMMA WokenKeeps ==
    ASSUME NEW s, Tables(s), NEW b, WF(b), Fits(s, b), NEW r, Woken(s, b, r)
    PROVE  Consistent(r) /\ r.fakeLeaves = s.fakeLeaves /\ r.cur = s.cur /\ SameRuns(s, r)
<1>1. PICK k, d : /\ d \in TryWakeNext(b)
                  /\ k = s \/ CalledBack(s, k)
                  /\ r = Barred(k, d)
  BY DEF Woken
<1>2. /\ Tables(k) /\ SameRuns(s, k) /\ k.active = s.active /\ k.fakeLeaves = s.fakeLeaves
      /\ k.cur = s.cur
  BY <1>1, CalledBackKeeps DEF SameRuns
<1>3. /\ WF(d)
      /\ \A t \in Tids : \/ d.state[t] = b.state[t]
                         \/ (b.state[t] = "WAITING" /\ d.state[t] = "RUNNING")
                         \/ (b.state[t] = "LEFT" /\ d.state[t] = "OFFLINE")
  BY <1>1, TryWakeNextWorks
<1>4. d \in Barriers
  BY <1>3 DEF WF, Listing
<1>5. /\ Tables(r) /\ SameRuns(k, r) /\ r.bar = d /\ r.active = k.active
      /\ r.fakeLeaves = k.fakeLeaves /\ r.cur = k.cur
  BY <1>1, <1>2, <1>4, BarredIs
<1>6. Fits(r, d)
  <2> SUFFICES ASSUME NEW c \in Cores
               PROVE  /\ Runs(r, c) <=> d.state[c] \in {"WAITING", "RUNNING"}
                      /\ Runs(r, c) <=> c \in r.active
    BY DEF Fits
  <2>1. Runs(r, c) <=> Runs(s, c)
    BY <1>2, <1>5 DEF SameRuns
  <2>2. d.state[c] \in {"WAITING", "RUNNING"} <=> b.state[c] \in {"WAITING", "RUNNING"}
    BY <1>3 DEF Cores
  <2> QED
    BY <1>2, <1>5, <2>1, <2>2 DEF Fits
<1>7. SameRuns(s, r)
  BY <1>2, <1>5 DEF SameRuns
<1> QED
  BY <1>2, <1>3, <1>5, <1>6, <1>7 DEF Consistent

\* That is what WithBarrier does, or an assertion fails.
LEMMA WithBarrierIs ==
    ASSUME NEW s, Tables(s), NEW b, NEW r \in WithBarrier(s, b), ~r.broken
    PROVE  Woken(s, b, r)
<1>0. s \in Schedulers
  BY DEF Tables
<1>1. r # [s EXCEPT !.broken = TRUE]
  BY <1>0, BrokenIs
<1>2. PICK d \in TryWakeNext(b) :
        r \in IF d.phaseCount = b.phaseCount THEN {[s EXCEPT !.bar = d]}
              ELSE {[k EXCEPT !.bar = d] : k \in Callback(s)}
  BY <1>1 DEF WithBarrier, Asserting
<1>3. CASE d.phaseCount = b.phaseCount
  BY <1>2, <1>3 DEF Woken, Barred
<1>4. CASE d.phaseCount # b.phaseCount
  <2>1. PICK k \in Callback(s) : r = [k EXCEPT !.bar = d]
    BY <1>2, <1>4
  <2>2. r.broken = k.broken
    <3>1. k \in Schedulers
      BY CallbackIs
    <3> QED
      BY <2>1, <3>1 DEF Schedulers
  <2>3. CalledBack(s, k)
    BY <2>2, CallbackIs
  <2> QED
    BY <1>4, <2>1, <2>3 DEF Woken, Barred
<1> QED
  BY <1>3, <1>4

\* r is an outcome of core c's join.
Joined(s, c, r) ==
    /\ s.bar.state[c] \in {"LEFT", "OFFLINE"} /\ RejoinAssert(s.bar, c)
    /\ Woken(Activated(s, s.active \cup {c}), Joining(s.bar, c), r)

\* All but core c is known to the barrier and the recorders.
FitsBut(s, c) ==
    \A d \in Cores \ {c} : /\ Runs(s, d) <=> s.bar.state[d] \in {"WAITING", "RUNNING"}
                           /\ Runs(s, d) <=> d \in s.active

\* A core with a running thread is known to all again when it has joined.
LEMMA JoinedKeeps ==
    ASSUME NEW s, Tables(s), WF(s.bar), NEW c \in Cores, Runs(s, c), FitsBut(s, c),
           NEW r, Joined(s, c, r)
    PROVE  /\ Consistent(r) /\ r.fakeLeaves = s.fakeLeaves /\ r.cur = s.cur /\ SameRuns(s, r)
           /\ LET a == Activated(s, s.active \cup {c})
                  b == Joining(s.bar, c)
              IN  Tables(a) /\ WF(b) /\ Fits(a, b) /\ SameRuns(s, a)
<1> DEFINE A == s.active \cup {c}
           a == Activated(s, A)
           b == Joining(s.bar, c)
<1>1. A \in SUBSET Cores
  BY Types DEF Tables
<1>2. /\ Tables(a) /\ SameRuns(s, a) /\ a.active = A /\ a.bar = s.bar
      /\ a.fakeLeaves = s.fakeLeaves /\ a.cur = s.cur
  BY <1>1, ActivatedIs
<1>3. WF(b) /\ b.state = [s.bar.state EXCEPT ![c] = "WAITING"]
  BY JoiningWorks DEF Joined, Cores
<1>4. s.bar.state \in [Cores -> States]
  BY DEF WF, Listing, Barriers, Cores
<1>5. Woken(a, b, r)
  BY DEF Joined
<1> HIDE DEF a, b
<1>6. Fits(a, b)
  <2> SUFFICES ASSUME NEW d \in Cores
               PROVE  /\ Runs(a, d) <=> b.state[d] \in {"WAITING", "RUNNING"}
                      /\ Runs(a, d) <=> d \in a.active
    BY DEF Fits
  <2>1. CASE d = c
    BY <1>2, <1>3, <1>4, <2>1 DEF SameRuns
  <2>2. CASE d # c
    BY <1>2, <1>3, <1>4, <2>2 DEF SameRuns, FitsBut
  <2> QED
    BY <2>1, <2>2
<1>7. Consistent(r) /\ r.fakeLeaves = a.fakeLeaves /\ r.cur = a.cur /\ SameRuns(a, r)
  BY <1>2, <1>3, <1>5, <1>6, WokenKeeps
<1>8. SameRuns(s, r)
  BY <1>2, <1>7 DEF SameRuns
<1> QED
  BY <1>2, <1>3, <1>6, <1>7, <1>8 DEF a, b

\* That is what JoinCore does, or an assertion fails.
LEMMA JoinCoreIs ==
    ASSUME NEW s, Tables(s), WF(s.bar), NEW c \in Cores,
           NEW r \in JoinCore(s, c), ~r.broken
    PROVE  Joined(s, c, r)
<1> DEFINE A == s.active \cup {c}
           a == Activated(s, A)
           b == Joining(s.bar, c)
<1>1. A \in SUBSET Cores /\ s \in Schedulers
  BY Types DEF Tables
<1>2. r # [s EXCEPT !.broken = TRUE]
  BY <1>1, BrokenIs
<1>3. /\ s.bar.state[c] \in {"LEFT", "OFFLINE"} /\ RejoinAssert(s.bar, c)
      /\ r \in WithBarrier([s EXCEPT !.active = @ \cup {c}], b)
  BY <1>2 DEF JoinCore, Asserting
<1>4. a = [s EXCEPT !.active = @ \cup {c}]
  BY <1>1 DEF Activated, Schedulers
<1>5. Tables(a)
  BY <1>1, ActivatedIs
<1> HIDE DEF a, b
<1>6. Woken(a, b, r)
  BY <1>3, <1>4, <1>5, WithBarrierIs
<1> QED
  BY <1>3, <1>6 DEF Joined, a, b


\* What an operation may do to the thread of another: an OUT thread loses its
\* context, a queued one gets one, a sleeper is woken; no handoff is dropped.
Effect(i, j) ==
    /\ \/ j.state = i.state /\ j.word = i.word
       \/ i.state = "OUT" /\ j.state = "BLOCKED"
       \/ i.state = "QUEUED" /\ j.state = "RUNNING"
       \/ i.state = "SLEEPING" /\ j.state = "BLOCKED"
    /\ i.handoff # None => j.handoff # None

\* ... to the threads outside T.
Effects(s, m, T) == \A u \in Threads \ T : Effect(s.thr[u], m.thr[u])

\* Two such steps are one.
LEMMA EffectsCompose ==
    ASSUME NEW s, NEW m, NEW r, NEW T, Effects(s, m, T), Effects(m, r, T)
    PROVE  Effects(s, r, T)
<1> SUFFICES ASSUME NEW u \in Threads \ T PROVE Effect(s.thr[u], r.thr[u])
  BY DEF Effects
<1>1. Effect(s.thr[u], m.thr[u]) /\ Effect(m.thr[u], r.thr[u])
  BY DEF Effects
<1> QED
  BY <1>1 DEF Effect

\* A change of one thread has no effect on the others;
LEMMA EffectsOfOne ==
    ASSUME NEW s, NEW m, NEW t, NEW i, OneThread(s, m, t, i)
    PROVE  Effects(s, m, {t})
BY DEF OneThread, Effects, Effect

\* ... a context given to a queued thread has one it may have,
LEMMA EffectsOfExchange ==
    ASSUME NEW s, Tables(s), NEW m, NEW t \in Threads, NEW x \in Threads, NEW i, NEW c \in Cores,
           TwoThreads(s, m, t, i, x, Awakened(s.thr[x], c)), s.thr[x].state = "QUEUED"
    PROVE  Effects(s, m, {t})
<1> SUFFICES ASSUME NEW u \in Threads \ {t} PROVE Effect(s.thr[u], m.thr[u])
  BY DEF Effects
<1>1. CASE u = x
  <2>1. s.thr[x] \in ThreadInfos
    BY TableTypes DEF Typed
  <2>2. m.thr[x].state = "RUNNING" /\ m.thr[x].handoff = s.thr[x].handoff
    BY <2>1, AwakenedIs DEF TwoThreads
  <2> QED
    BY <1>1, <2>2 DEF Effect
<1>2. CASE u # x
  BY <1>2 DEF TwoThreads, Effect
<1> QED
  BY <1>1, <1>2

\* ... so has one taken from an OUT thread,
LEMMA EffectsOfPlacement ==
    ASSUME NEW s, Tables(s), NEW m, NEW t \in Threads, NEW c \in Cores, PlacedOn(s, m, t, c)
    PROVE  Effects(s, m, {t})
<1> SUFFICES ASSUME NEW u \in Threads \ {t} PROVE Effect(s.thr[u], m.thr[u])
  BY DEF Effects
<1>1. CASE u = s.cur[c]
  <2>1. s.thr[u] \in ThreadInfos
    BY TableTypes DEF Typed
  <2>2. s.thr[u].state = "OUT" /\ m.thr[u] = Blocked(s.thr[u])
    BY <1>1 DEF PlacedOn
  <2>3. m.thr[u].state = "BLOCKED" /\ m.thr[u].handoff = s.thr[u].handoff
    BY <2>1, <2>2, BlockedIs
  <2> QED
    BY <2>2, <2>3 DEF Effect
<1>2. CASE u # s.cur[c]
  BY <1>2 DEF PlacedOn, Effect
<1> QED
  BY <1>1, <1>2

\* ... the end of a phase,
LEMMA EffectsOfCallback ==
    ASSUME NEW s, Tables(s), NEW k, CalledBack(s, k)
    PROVE  Effects(s, k, {})
<1>1. PICK h : PhaseMoved(s, h) /\ (k = h \/ HandedOut(h, k))
  BY DEF CalledBack
<1>2. Effects(s, h, {})
  <2> SUFFICES ASSUME NEW u \in Threads PROVE Effect(s.thr[u], h.thr[u])
    BY DEF Effects
  <2>1. u \in Due(s) => s.thr[u].state = "SLEEPING"
    <3>1. Members(s.sleepQueue) = InStates(s, {"SLEEPING"})
      BY TableTypes DEF Typed, Lists, Holds
    <3> QED
      BY <1>1, <3>1 DEF PhaseMoved, InStates
  <2> QED
    BY <1>1, <2>1 DEF PhaseMoved, Effect
<1>3. CASE HandedOut(h, k)
  <2>1. Effects(h, k, {})
    <3> SUFFICES ASSUME NEW u \in Threads PROVE Effect(h.thr[u], k.thr[u])
      BY DEF Effects
    <3>1. CASE k.thr[u] = h.thr[u]
      BY <3>1 DEF Effect
    <3>2. CASE PromisedOne(h, h.thr[u], k.thr[u], u)
      <4>1. Typed(h)
        BY <1>1, TableTypes DEF PhaseMoved
      <4>2. PICK x \in Members(h.runQueue) : k.thr[u] = [h.thr[u] EXCEPT !.handoff = x]
        BY <3>2 DEF PromisedOne
      <4>3. x # None /\ h.thr[u] \in ThreadInfos
        BY <4>1, <4>2 DEF Typed
      <4>4. /\ k.thr[u].state = h.thr[u].state /\ k.thr[u].word = h.thr[u].word
            /\ k.thr[u].handoff = x
        BY <4>2, <4>3 DEF ThreadInfos
      <4> QED
        BY <4>3, <4>4 DEF Effect
    <3> QED
      BY <1>3, <3>1, <3>2 DEF HandedOut
  <2> QED
    BY <1>2, <2>1, EffectsCompose
<1> QED
  BY <1>1, <1>2, <1>3

\* ... and a call of tryWakeNext.
LEMMA EffectsOfWoken ==
    ASSUME NEW s, Tables(s), NEW b, WF(b), NEW r, Woken(s, b, r)
    PROVE  Effects(s, r, {})
<1>1. PICK k, d : /\ d \in TryWakeNext(b)
                  /\ k = s \/ CalledBack(s, k)
                  /\ r = Barred(k, d)
  BY DEF Woken
<1>2. Tables(k) /\ Effects(s, k, {})
  <2>1. Effects(s, s, {})
    BY DEF Effects, Effect
  <2> QED
    BY <1>1, <2>1, CalledBackKeeps, EffectsOfCallback
<1>3. d \in Barriers
  BY <1>1, TryWakeNextWorks DEF WF, Listing
<1>4. r.thr = k.thr
  BY <1>1, <1>2, <1>3, BarredIs
<1> QED
  BY <1>2, <1>4 DEF Effects

\* ... so that the threads that run go on.
LEMMA EffectsOnRunning ==
    ASSUME NEW s, NEW m, NEW T, Effects(s, m, T), NEW u \in Threads \ T
    PROVE  /\ s.thr[u].state \in {"RUNNING", "NONE", "STARTED", "BLOCKED"}
                => m.thr[u].state = s.thr[u].state
           /\ s.thr[u].state = "QUEUED"
                => \/ m.thr[u].state = "QUEUED" /\ m.thr[u].word = s.thr[u].word
                   \/ m.thr[u].state = "RUNNING"
           /\ s.thr[u].handoff # None => m.thr[u].handoff # None
<1>1. Effect(s.thr[u], m.thr[u])
  BY DEF Effects
<1> QED
  BY <1>1 DEF Effect

\* A thread that became available is placed and joins, or queues up.
PlacedOrQueued(s, t, r) ==
    \/ QueuedUp(s, r, t) /\ SchedThread(s, t) = None
    \/ \E c \in Cores : \E m :
         /\ c = SchedThread(s, t) /\ c \in Mask[t]
         /\ PlacedOn(s, m, t, c) /\ Joined(m, c, r)

\* After a placement all cores but the one that is to join are known.
LEMMA PlacedFits ==
    ASSUME NEW s, Consistent(s), NEW t \in Threads, NEW c \in Cores, NEW m, PlacedOn(s, m, t, c)
    PROVE  Tables(m) /\ WF(m.bar) /\ Runs(m, c) /\ FitsBut(m, c)
<1>1. Tables(m) /\ m.bar = s.bar /\ m.active = s.active /\ RunsBut(s, m, c) /\ Runs(m, c)
  BY DEF PlacedOn
<1>2. FitsBut(m, c)
  BY <1>1 DEF FitsBut, RunsBut, Consistent, Fits
<1> QED
  BY <1>1, <1>2 DEF Consistent

\* Either way the invariant is kept.
LEMMA PlacedOrQueuedKeeps ==
    ASSUME NEW s, Consistent(s), NEW t \in Threads, NEW r, PlacedOrQueued(s, t, r)
    PROVE  /\ Consistent(r) /\ r.fakeLeaves = s.fakeLeaves /\ Effects(s, r, {t})
           /\ \/ r.thr[t].state = "QUEUED" /\ r.thr[t].word = 1
              \/ r.thr[t].state = "RUNNING"
<1>0. Tables(s) /\ Typed(s) /\ s.thr[t] \in ThreadInfos
  BY TableTypes DEF Consistent, Typed
<1>1. CASE QueuedUp(s, r, t)
  <2>1. /\ Tables(r) /\ SameRuns(s, r) /\ r.bar = s.bar /\ r.active = s.active
        /\ r.fakeLeaves = s.fakeLeaves
        /\ OneThread(s, r, t, [s.thr[t] EXCEPT !.state = "QUEUED", !.word = 1])
    BY <1>1 DEF QueuedUp
  <2>2. Consistent(r)
    BY <2>1 DEF Consistent, Fits, SameRuns
  <2>3. r.thr[t].state = "QUEUED" /\ r.thr[t].word = 1
    BY <1>0, <2>1 DEF OneThread, ThreadInfos
  <2> QED
    BY <2>1, <2>2, <2>3, EffectsOfOne
<1>2. ASSUME NEW c \in Cores, NEW m, PlacedOn(s, m, t, c), Joined(m, c, r)
      PROVE  /\ Consistent(r) /\ r.fakeLeaves = s.fakeLeaves /\ Effects(s, r, {t})
             /\ r.thr[t].state = "RUNNING"
  <2> DEFINE a == Activated(m, m.active \cup {c})
             b == Joining(m.bar, c)
  <2>1. Tables(m) /\ WF(m.bar) /\ Runs(m, c) /\ FitsBut(m, c) /\ m.active \in SUBSET Cores
    BY <1>2, PlacedFits, Types DEF Tables
  <2>2. /\ Consistent(r) /\ r.fakeLeaves = m.fakeLeaves /\ Tables(a) /\ WF(b)
        /\ Woken(a, b, r)
    BY <1>2, <2>1, JoinedKeeps DEF Joined
  <2>3. a.thr = m.thr
    BY <2>1, ActivatedIs
  <2> HIDE DEF a, b
  <2>4. Effects(a, r, {})
    BY <2>2, EffectsOfWoken
  <2>5. Effects(m, r, {})
    BY <2>3, <2>4 DEF Effects
  <2>6. Effects(s, r, {t})
    <3>1. Effects(s, m, {t}) /\ Effects(m, r, {t})
      BY <1>0, <1>2, <2>5, EffectsOfPlacement DEF Effects
    <3> QED
      BY <3>1, EffectsCompose
  <2>7. m.thr[t].state = "RUNNING"
    <3>1. m.thr[t] = Placement(s.thr[t], c)
      BY <1>2 DEF PlacedOn
    <3> QED
      BY <1>0, <3>1, PlacementIs
  <2>8. r.thr[t].state = "RUNNING"
    BY <2>5, <2>7, EffectsOnRunning
  <2> QED
    BY <1>2, <2>2, <2>6, <2>8 DEF PlacedOn
<1> QED
  BY <1>1, <1>2 DEF PlacedOrQueued

\* schedThread returns a core of the thread's mask.
LEMMA SchedThreadIs ==
    ASSUME NEW s, Tables(s), NEW t \in Threads, SchedThread(s, t) # None
    PROVE  SchedThread(s, t) \in Mask[t] /\ SchedThread(s, t) \in Cores
<1> DEFINE last == s.thr[t].cid
           free == FirstOf(s.freeList, Mask[t])
           U == {u \in Threads : s.thr[u].cid \in Mask[t]}
           outTh == FirstOf(s.outQueue, U)
<1>0. Typed(s) /\ s.freeList \in Seq(Cores) /\ s.outQueue \in Seq(Threads)
      /\ None \notin Cores /\ None \notin Threads /\ Mask[t] \subseteq Cores
  BY TableTypes DEF Typed
<1>1. \/ SchedThread(s, t) = last /\ last \in Mask[t]
      \/ SchedThread(s, t) = free /\ free # None
      \/ SchedThread(s, t) = s.thr[outTh].cid /\ outTh # None
  BY DEF SchedThread
<1> HIDE DEF free, outTh, U
<1>2. free # None => free \in Mask[t]
  BY <1>0, FirstOfIs DEF free
<1>3. outTh # None => outTh \in U
  BY <1>0, FirstOfIs DEF outTh
<1>4. outTh # None => s.thr[outTh].cid \in Mask[t]
  BY <1>3 DEF U
<1>5. SchedThread(s, t) \in Mask[t]
  BY <1>1, <1>2, <1>4
<1> QED
  BY <1>0, <1>5

\* That is what PlaceThread does, or an assertion fails.
LEMMA PlaceThreadIs ==
    ASSUME NEW s, Consistent(s), NEW t \in Threads,
           s.thr[t].state \in {"STARTED", "BLOCKED", "QUEUED"},
           t \notin Members(s.runQueue), ~Promised(s, t),
           NEW r \in PlaceThread(s, t), ~r.broken
    PROVE  PlacedOrQueued(s, t, r)
<1> DEFINE c == SchedThread(s, t)
           m == Placed(s, t, c)
<1>0. Tables(s) /\ s \in Schedulers
  BY DEF Consistent, Tables
<1>1. CASE c = None
  <2>1. r = Queued(s, t)
    BY <1>1 DEF PlaceThread, Queued
  <2>2. QueuedUp(s, Queued(s, t), t)
    BY <1>0, <1>1, QueuedIs
  <2> QED
    BY <1>1, <2>1, <2>2 DEF PlacedOrQueued
<1>2. CASE c # None
  <2>1. c \in Mask[t] /\ c \in Cores
    BY <1>0, <1>2, SchedThreadIs
  <2>2. r # [s EXCEPT !.broken = TRUE]
    BY <1>0, BrokenIs
  <2>3. CanTake(s, c) /\ r \in JoinCore(m, c)
    BY <1>2, <2>2 DEF PlaceThread, Asserting, Placed
  <2> HIDE DEF c
  <2>4. PlacedOn(s, m, t, c)
    BY <1>0, <2>1, <2>3, PlacedIs
  <2> HIDE DEF m
  <2>5. Tables(m) /\ WF(m.bar)
    BY <2>1, <2>4, PlacedFits
  <2>6. Joined(m, c, r)
    BY <2>1, <2>3, <2>5, JoinCoreIs
  <2> QED
    BY <2>1, <2>4, <2>6 DEF PlacedOrQueued, c
<1> QED
  BY <1>1, <1>2

-----------------------------------------------------------------------------
(* The operations of the callers: what an outcome that is not broken is,   *)
(* and what it keeps.                                                      *)

\* A suppressed leave begins, or ends.
LEMMA FakeLeavesKeep ==
    ASSUME NEW s, Consistent(s), NEW t \in Threads, t \notin Members(s.fakeLeaves)
    PROVE  LET r == [s EXCEPT !.fakeLeaves = Append(@, t)]
           IN  /\ Consistent(r) /\ r.thr = s.thr /\ r.broken = s.broken /\ r.bar = s.bar
               /\ r.cur = s.cur
               /\ Members(r.fakeLeaves) = Members(s.fakeLeaves) \cup {t}
<1> DEFINE q == Append(s.fakeLeaves, t)
           r == [s EXCEPT !.fakeLeaves = q]
<1>0. Tables(s) /\ Typed(s) /\ s \in Schedulers /\ s.fakeLeaves \in Seq(Threads)
      /\ IsInjective(s.fakeLeaves)
  BY TableTypes DEF Consistent, Typed, Lists
<1>1. q \in Seq(Threads) /\ Members(q) = Members(s.fakeLeaves) \cup {t} /\ IsInjective(q)
  BY <1>0, AppendIs
<1> HIDE DEF q
<1>2. /\ r \in Schedulers /\ r.thr = s.thr /\ r.cur = s.cur /\ r.freeList = s.freeList
      /\ r.runQueue = s.runQueue /\ r.outQueue = s.outQueue /\ r.sleepQueue = s.sleepQueue
      /\ r.fakeLeaves = q /\ r.active = s.active /\ r.bar = s.bar /\ r.broken = s.broken
  BY <1>0, <1>1 DEF Schedulers
<1> HIDE DEF r
<1>3. Tables(r) /\ \A c \in Cores : Runs(r, c) <=> Runs(s, c)
  BY <1>0, <1>1, <1>2, SameTables
<1>4. Consistent(r)
  BY <1>2, <1>3 DEF Consistent, Fits
<1> QED
  BY <1>1, <1>2, <1>4 DEF r, q

\* ... which keeps the invariant too.
LEMMA FinishFakeLeaveKeeps ==
    ASSUME NEW s, Consistent(s), NEW t
    PROVE  LET r == FinishFakeLeave(s, t)
           IN  /\ Consistent(r) /\ r.thr = s.thr /\ r.broken = s.broken /\ r.bar = s.bar
               /\ r.cur = s.cur
               /\ Members(r.fakeLeaves) = Members(s.fakeLeaves) \ {t}
<1> DEFINE q == Remove(s.fakeLeaves, t)
           r == [s EXCEPT !.fakeLeaves = q]
<1>0. Tables(s) /\ Typed(s) /\ s \in Schedulers /\ s.fakeLeaves \in Seq(Threads)
      /\ IsInjective(s.fakeLeaves)
  BY TableTypes DEF Consistent, Typed, Lists
<1>1. q \in Seq(Threads) /\ Members(q) = Members(s.fakeLeaves) \ {t} /\ IsInjective(q)
  BY <1>0, RemoveIs
<1> HIDE DEF q
<1>2. /\ r \in Schedulers /\ r.thr = s.thr /\ r.cur = s.cur /\ r.freeList = s.freeList
      /\ r.runQueue = s.runQueue /\ r.outQueue = s.outQueue /\ r.sleepQueue = s.sleepQueue
      /\ r.fakeLeaves = q /\ r.active = s.active /\ r.bar = s.bar /\ r.broken = s.broken
  BY <1>0, <1>1 DEF Schedulers
<1>5. r = FinishFakeLeave(s, t)
  BY <1>0 DEF q, FinishFakeLeave
<1> HIDE DEF r
<1>3. Tables(r) /\ \A c \in Cores : Runs(r, c) <=> Runs(s, c)
  BY <1>0, <1>1, <1>2, SameTables
<1>4. Consistent(r)
  BY <1>2, <1>3 DEF Consistent, Fits
<1> QED
  BY <1>1, <1>2, <1>4, <1>5

\* A failed assertion leaves the tables as they were.
LEMMA BrokenKeeps ==
    ASSUME NEW s, Consistent(s)
    PROVE  LET r == [s EXCEPT !.broken = TRUE] IN Consistent(r) /\ r.broken
<1> DEFINE r == [s EXCEPT !.broken = TRUE]
<1>0. Tables(s) /\ Typed(s) /\ s \in Schedulers /\ IsInjective(s.fakeLeaves)
  BY TableTypes DEF Consistent, Typed, Lists
<1>2. /\ r \in Schedulers /\ r.thr = s.thr /\ r.cur = s.cur /\ r.freeList = s.freeList
      /\ r.runQueue = s.runQueue /\ r.outQueue = s.outQueue /\ r.sleepQueue = s.sleepQueue
      /\ r.fakeLeaves = s.fakeLeaves /\ r.active = s.active /\ r.bar = s.bar /\ r.broken
  BY <1>0 DEF Schedulers
<1> HIDE DEF r
<1>3. Tables(r) /\ \A c \in Cores : Runs(r, c) <=> Runs(s, c)
  BY <1>0, <1>2, SameTables
<1>4. Consistent(r)
  BY <1>2, <1>3 DEF Consistent, Fits
<1> QED
  BY <1>2, <1>4 DEF r

\* r is an outcome of sync by t on core c.
Synced(s, t, c, r) ==
    /\ s.cur[c] = t /\ ~s.thr[t].marked /\ s.bar.state[c] = "RUNNING"
    /\ Woken(s, Syncing(s.bar, c), r)

\* That is what sync does, or an assertion fails.
LEMMA SyncIs ==
    ASSUME NEW s, Consistent(s), NEW t, NEW c \in Cores, NEW r \in Sync(s, t, c), ~r.broken
    PROVE  Synced(s, t, c, r)
<1>0. Tables(s) /\ s \in Schedulers
  BY DEF Consistent, Tables
<1>1. r # [s EXCEPT !.broken = TRUE]
  BY <1>0, BrokenIs
<1>2. /\ s.cur[c] = t /\ ~s.thr[t].marked /\ s.bar.state[c] = "RUNNING"
      /\ r \in WithBarrier(s, Syncing(s.bar, c))
  BY <1>1 DEF Sync, Asserting
<1>3. Woken(s, Syncing(s.bar, c), r)
  BY <1>0, <1>2, WithBarrierIs
<1> QED
  BY <1>2, <1>3 DEF Synced

\* The barrier's view of a core that syncs, leaves, or is made to leave.
LEMMA SyncingFits ==
    ASSUME NEW s, Consistent(s), NEW c \in Cores, s.bar.state[c] = "RUNNING"
    PROVE  WF(Syncing(s.bar, c)) /\ Fits(s, Syncing(s.bar, c))
<1> DEFINE b == Syncing(s.bar, c)
<1>1. WF(s.bar) /\ Fits(s, s.bar) /\ s.bar.state \in [Cores -> States] /\ s.bar \in Barriers
  BY DEF Consistent, WF, Listing, Barriers, Cores
<1>2. WF(b)
  BY <1>1, StopRunning DEF Cores
<1>3. b.state = [s.bar.state EXCEPT ![c] = "WAITING"]
  BY <1>1 DEF Syncing, Barriers
<1> HIDE DEF b
<1>4. \A d \in Cores : b.state[d] \in {"WAITING", "RUNNING"}
                         <=> s.bar.state[d] \in {"WAITING", "RUNNING"}
  BY <1>1, <1>3
<1>5. Fits(s, b)
  BY <1>1, <1>4 DEF Fits
<1> QED
  BY <1>2, <1>5 DEF b

\* sync keeps the invariant.
LEMMA SyncedKeeps ==
    ASSUME NEW s, Consistent(s), NEW t, NEW c \in Cores, NEW r, Synced(s, t, c, r)
    PROVE  Consistent(r) /\ r.fakeLeaves = s.fakeLeaves /\ Effects(s, r, {})
<1>1. Tables(s) /\ WF(Syncing(s.bar, c)) /\ Fits(s, Syncing(s.bar, c))
  BY SyncingFits DEF Synced, Consistent
<1>2. Woken(s, Syncing(s.bar, c), r)
  BY DEF Synced
<1>3. Consistent(r) /\ r.fakeLeaves = s.fakeLeaves
  BY <1>1, <1>2, WokenKeeps
<1>4. Effects(s, r, {})
  BY <1>1, <1>2, EffectsOfWoken
<1> QED
  BY <1>3, <1>4

\* Core c has left the barrier.
LeftBarrier(m, c, r) ==
    \/ m.bar.state[c] = "RUNNING" /\ Woken(m, Leaving(m.bar, c), r)
    \/ m.bar.state[c] = "WAITING" /\ r = Barred(m, LeavingWaiting(m.bar, c))

\* The barrier that a core has left agrees with the tables again.
LEMMA LeavingFits ==
    ASSUME NEW m, Tables(m), WF(m.bar), NEW c \in Cores, FitsBut(m, c), ~Runs(m, c), c \notin m.active
    PROVE  /\ m.bar.state[c] = "RUNNING" =>
                WF(Leaving(m.bar, c)) /\ Fits(m, Leaving(m.bar, c))
           /\ m.bar.state[c] = "WAITING" =>
                WF(LeavingWaiting(m.bar, c)) /\ Fits(m, LeavingWaiting(m.bar, c))
<1>1. m.bar.state \in [Cores -> States] /\ m.bar \in Barriers
  BY DEF WF, Listing, Barriers, Cores
<1>2. ASSUME NEW b, b.state = [m.bar.state EXCEPT ![c] = "LEFT"]
      PROVE  Fits(m, b)
  <2> SUFFICES ASSUME NEW d \in Cores
               PROVE  /\ Runs(m, d) <=> b.state[d] \in {"WAITING", "RUNNING"}
                      /\ Runs(m, d) <=> d \in m.active
    BY DEF Fits
  <2>1. CASE d = c
    BY <1>1, <1>2, <2>1
  <2>2. CASE d # c
    BY <1>1, <1>2, <2>2 DEF FitsBut
  <2> QED
    BY <2>1, <2>2
<1>3. ASSUME m.bar.state[c] = "RUNNING"
      PROVE  WF(Leaving(m.bar, c)) /\ Fits(m, Leaving(m.bar, c))
  <2> DEFINE b == Leaving(m.bar, c)
  <2>1. WF(b)
    BY <1>3, StopRunning DEF Cores
  <2>2. b.state = [m.bar.state EXCEPT ![c] = "LEFT"]
    BY <1>1 DEF Leaving, Barriers
  <2> QED
    BY <1>2, <2>1, <2>2
<1>4. ASSUME m.bar.state[c] = "WAITING"
      PROVE  WF(LeavingWaiting(m.bar, c)) /\ Fits(m, LeavingWaiting(m.bar, c))
  <2> DEFINE b == LeavingWaiting(m.bar, c)
  <2>1. WF(b) /\ b.state = [m.bar.state EXCEPT ![c] = "LEFT"]
    BY <1>4, StopWaiting DEF Cores
  <2> QED
    BY <1>2, <2>1
<1> QED
  BY <1>3, <1>4

\* A leave of the barrier keeps the invariant.
LEMMA LeftBarrierKeeps ==
    ASSUME NEW m, Tables(m), WF(m.bar), NEW c \in Cores, FitsBut(m, c), ~Runs(m, c),
           c \notin m.active, NEW r, LeftBarrier(m, c, r)
    PROVE  Consistent(r) /\ r.fakeLeaves = m.fakeLeaves /\ r.cur = m.cur /\ Effects(m, r, {})
<1>1. CASE m.bar.state[c] = "RUNNING" /\ Woken(m, Leaving(m.bar, c), r)
  <2>1. WF(Leaving(m.bar, c)) /\ Fits(m, Leaving(m.bar, c))
    BY <1>1, LeavingFits
  <2>2. Consistent(r) /\ r.fakeLeaves = m.fakeLeaves /\ r.cur = m.cur
    BY <1>1, <2>1, WokenKeeps
  <2>3. Effects(m, r, {})
    BY <1>1, <2>1, EffectsOfWoken
  <2> QED
    BY <2>2, <2>3
<1>2. CASE m.bar.state[c] = "WAITING" /\ r = Barred(m, LeavingWaiting(m.bar, c))
  <2> DEFINE b == LeavingWaiting(m.bar, c)
  <2>1. WF(b) /\ Fits(m, b) /\ b \in Barriers
    BY <1>2, LeavingFits DEF WF, Listing
  <2> HIDE DEF b
  <2>2. /\ Tables(r) /\ SameRuns(m, r) /\ r.bar = b /\ r.thr = m.thr /\ r.cur = m.cur
        /\ r.fakeLeaves = m.fakeLeaves /\ r.active = m.active
    BY <1>2, <2>1, BarredIs DEF b
  <2>3. Consistent(r)
    BY <2>1, <2>2 DEF Consistent, Fits, SameRuns
  <2>4. Effects(m, r, {})
    BY <2>2 DEF Effects, Effect
  <2> QED
    BY <2>2, <2>3, <2>4
<1> QED
  BY <1>1, <1>2 DEF LeftBarrier

\* That is what LeaveBarrier does, or an assertion fails.
LEMMA LeaveBarrierIs ==
    ASSUME NEW m, Tables(m), NEW c, NEW r \in LeaveBarrier(m, c), ~r.broken
    PROVE  LeftBarrier(m, c, r)
<1>0. m \in Schedulers
  BY DEF Tables
<1>1. r # [m EXCEPT !.broken = TRUE]
  BY <1>0, BrokenIs
<1>2. CASE m.bar.state[c] = "RUNNING"
  <2>1. r \in WithBarrier(m, Leaving(m.bar, c))
    BY <1>2 DEF LeaveBarrier
  <2>2. Woken(m, Leaving(m.bar, c), r)
    BY <2>1, WithBarrierIs
  <2> QED
    BY <1>2, <2>2 DEF LeftBarrier
<1>3. CASE m.bar.state[c] = "WAITING"
  <2>1. r = [m EXCEPT !.bar = LeavingWaiting(@, c)]
    BY <1>3 DEF LeaveBarrier
  <2>2. r = Barred(m, LeavingWaiting(m.bar, c))
    BY <2>1, <1>0 DEF Barred, Schedulers
  <2> QED
    BY <1>3, <2>2 DEF LeftBarrier
<1>4. CASE m.bar.state[c] \notin {"RUNNING", "WAITING"}
  BY <1>1, <1>4 DEF LeaveBarrier
<1> QED
  BY <1>2, <1>3, <1>4

\* r is an outcome of leave by t on core c.
LeavesFor(s, t, c, a, m) ==
    IF s.thr[t].marked THEN WentToSleep(a, m, t, c) ELSE GoneOut(a, m, t)

\* What t's entry becomes when another takes its context over,
Leaver(i) == IF i.marked THEN Napping(i) ELSE Blocked(i)

\* ... the thread x that schedContext found.
GaveWay(s, t, c, x, a, r) ==
    /\ x = SchedContext(s, c) /\ x \in Members(s.runQueue) /\ c \in Mask[x]
    /\ Exchanged(a, r, t, Leaver(a.thr[t]), x, Awakened(a.thr[x], c), c)
    /\ r.active = a.active \cup {c}
    /\ r.sleepQueue = IF s.thr[t].marked THEN InsertSleeper(a, t) ELSE a.sleepQueue

\* Either nobody takes the context and the barrier is told, or x does.
Left(s, t, c, r) ==
    /\ s.cur[c] = t /\ s.thr[t].state = "RUNNING" /\ s.thr[t].cid = c /\ c \in s.active
    /\ LET a == Activated(s, s.active \ {c})
       IN  \/ /\ SchedContext(s, c) = None
              /\ \E m : LeavesFor(s, t, c, a, m) /\ LeftBarrier(m, c, r)
           \/ \E x \in Threads : GaveWay(s, t, c, x, a, r)

\* schedContext returns a queued thread that may use the core.
LEMMA SchedContextIs ==
    ASSUME NEW s, Typed(s), NEW c, SchedContext(s, c) # None
    PROVE  /\ SchedContext(s, c) \in Members(s.runQueue) /\ SchedContext(s, c) \in Threads
           /\ c \in Mask[SchedContext(s, c)]
<1> DEFINE T == {t \in Threads : c \in Mask[t]}
           x == FirstOf(s.runQueue, T)
<1>1. s.runQueue \in Seq(Threads) /\ None \notin Threads /\ x = SchedContext(s, c)
  BY DEF Typed, SchedContext
<1> HIDE DEF x
<1>2. x # None
  BY <1>1
<1> HIDE DEF T
<1>3. x \in Members(s.runQueue) /\ x \in T
  <2>1. x = FirstOf(s.runQueue, T)
    BY DEF x
  <2> QED
    BY <1>1, <1>2, <2>1, FirstOfIs
<1> QED
  BY <1>1, <1>3 DEF T

\* That is what leave does, or an assertion fails.
LEMMA LeaveIs ==
    ASSUME NEW s, Consistent(s), NEW t \in Threads, NEW c \in Cores,
           NEW r \in Leave(s, t, c), ~r.broken
    PROVE  Left(s, t, c, r)
<1> DEFINE A == s.active \ {c}
           a == Activated(s, A)
           x == SchedContext(s, c)
<1>0. Tables(s) /\ s \in Schedulers /\ A \in SUBSET Cores
  BY Types DEF Consistent, Tables
<1>1. r # [s EXCEPT !.broken = TRUE]
  BY <1>0, BrokenIs
<1>2. /\ s.cur[c] = t /\ s.thr[t].state = "RUNNING" /\ s.thr[t].cid = c /\ c \in s.active
      /\ r \in LET r1 == [s EXCEPT !.active = @ \ {c}]
               IN  IF s.thr[t].marked THEN LeaveToSleep(r1, t, c) ELSE LeaveRunning(r1, t, c)
  BY <1>1 DEF Leave, Asserting
<1>3. a = [s EXCEPT !.active = @ \ {c}]
  BY <1>0 DEF Activated, Schedulers
<1>4. r \in IF s.thr[t].marked THEN LeaveToSleep(a, t, c) ELSE LeaveRunning(a, t, c)
  BY <1>2, <1>3
<1>5. /\ Tables(a) /\ a.thr = s.thr /\ a.cur = s.cur /\ a.runQueue = s.runQueue
      /\ a.active = A /\ a.bar = s.bar
  BY <1>0, ActivatedIs
<1>6. SchedContext(a, c) = x
  BY <1>5 DEF SchedContext
<1>7. a \in Schedulers
  BY <1>5 DEF Tables
<1> HIDE DEF a
<1>8. CASE x = None
  <2>1. \E m : LeavesFor(s, t, c, a, m) /\ r \in LeaveBarrier(m, c)
    <3>1. CASE s.thr[t].marked
      <4>1. r \in LeaveBarrier(Freed(a, t, c), c)
        BY <1>4, <1>6, <1>8, <3>1 DEF LeaveToSleep, Freed, NapBegun
      <4>2. WentToSleep(a, Freed(a, t, c), t, c)
        BY <1>2, <1>5, <1>6, <1>8, FreedIs
      <4> QED
        BY <3>1, <4>1, <4>2 DEF LeavesFor
    <3>2. CASE ~s.thr[t].marked
      <4>1. r \in LeaveBarrier(ToOut(a, t), c)
        BY <1>4, <1>6, <1>8, <3>2 DEF LeaveRunning, ToOut
      <4>2. GoneOut(a, ToOut(a, t), t)
        BY <1>2, <1>5, <1>6, <1>8, ToOutIs
      <4> QED
        BY <3>2, <4>1, <4>2 DEF LeavesFor
    <3> QED
      BY <3>1, <3>2
  <2>2. PICK m : LeavesFor(s, t, c, a, m) /\ r \in LeaveBarrier(m, c)
    BY <2>1
  <2>3. Tables(m)
    BY <2>2 DEF LeavesFor, WentToSleep, GoneOut
  <2>4. LeftBarrier(m, c, r)
    BY <2>2, <2>3, LeaveBarrierIs
  <2> QED
    BY <1>2, <1>8, <2>2, <2>4 DEF Left, a
<1>9. CASE x # None
  <2>1. x \in Members(s.runQueue) /\ x \in Threads /\ c \in Mask[x]
    BY <1>0, <1>9, SchedContextIs, TableTypes
  <2>2. x \in Members(a.runQueue)
    BY <1>5, <2>1
  <2> HIDE DEF x
  <2>3. CASE s.thr[t].marked
    <3> DEFINE k == NapBegun(a, t, c)
    <3>1. r \in TakeOver(k, x, c)
      BY <1>4, <1>6, <1>9, <2>3 DEF LeaveToSleep, NapBegun
    <3>2. k \in Schedulers /\ k.broken = a.broken
      BY <1>7, NapBegunIs DEF FellAsleep
    <3>3. r # [k EXCEPT !.broken = TRUE]
      BY <3>2, BrokenIs
    <3>4. r = TakenOver(k, x, c)
      BY <3>1, <3>3 DEF TakeOver, Asserting, TakenOver
    <3>5. /\ Exchanged(a, r, t, Napping(a.thr[t]), x, Awakened(a.thr[x], c), c)
          /\ r.sleepQueue = InsertSleeper(a, t) /\ r.active = a.active \cup {c}
      BY <1>2, <1>5, <2>2, <3>4, SleeperTakenOver
    <3>6. GaveWay(s, t, c, x, a, r)
      BY <1>5, <2>1, <2>3, <3>5 DEF GaveWay, Leaver, x
    <3> QED
      BY <1>2, <2>1, <3>6 DEF Left, a
  <2>4. CASE ~s.thr[t].marked
    <3> DEFINE k == Deschedule(a, t, c, "BLOCKED")
    <3>1. r \in TakeOver(k, x, c)
      BY <1>4, <1>6, <1>9, <2>4 DEF LeaveRunning
    <3>2. k \in Schedulers /\ k.broken = a.broken
      <4>1. "BLOCKED" \in ThreadStates
        BY DEF ThreadStates
      <4>2. Descheduled(a, k, t, c, "BLOCKED")
        BY <1>7, <4>1, DescheduleIs
      <4> QED
        BY <4>2 DEF Descheduled
    <3>3. r # [k EXCEPT !.broken = TRUE]
      BY <3>2, BrokenIs
    <3>4. r = TakenOver(k, x, c)
      BY <3>1, <3>3 DEF TakeOver, Asserting, TakenOver
    <3>5. /\ Exchanged(a, r, t, Blocked(a.thr[t]), x, Awakened(a.thr[x], c), c)
          /\ r.sleepQueue = a.sleepQueue /\ r.active = a.active \cup {c}
      BY <1>2, <1>5, <2>2, <3>4, BlockedTakenOver
    <3>6. GaveWay(s, t, c, x, a, r)
      BY <1>5, <2>1, <2>4, <3>5 DEF GaveWay, Leaver, x
    <3> QED
      BY <1>2, <2>1, <3>6 DEF Left, a
  <2> QED
    BY <2>3, <2>4
<1> QED
  BY <1>8, <1>9

\* The entry of a thread that left, field by field.
LEMMA LeaverIs ==
    ASSUME NEW i \in ThreadInfos
    PROVE  /\ Leaver(i) \in ThreadInfos /\ Leaver(i).state \in {"BLOCKED", "SLEEPING"}
           /\ Leaver(i).cid = i.cid /\ Leaver(i).handoff = i.handoff /\ Leaver(i).word = i.word
BY BlockedIs, NappingIs DEF Leaver

\* leave keeps the invariant.
LEMMA LeftKeeps ==
    ASSUME NEW s, Consistent(s), NEW t \in Threads, NEW c \in Cores, NEW r, Left(s, t, c, r)
    PROVE  /\ Consistent(r) /\ r.fakeLeaves = s.fakeLeaves /\ Effects(s, r, {t})
           /\ r.thr[t].state \in {"OUT", "BLOCKED", "SLEEPING"}
<1> DEFINE A == s.active \ {c}
           a == Activated(s, A)
<1>0. Tables(s) /\ A \in SUBSET Cores
  BY Types DEF Consistent, Tables
<1>1. /\ Tables(a) /\ SameRuns(s, a) /\ a.thr = s.thr /\ a.cur = s.cur
      /\ a.runQueue = s.runQueue /\ a.fakeLeaves = s.fakeLeaves
      /\ a.active = A /\ a.bar = s.bar
  BY <1>0, ActivatedIs
<1>2. /\ s.cur[c] = t /\ s.thr[t].state = "RUNNING" /\ s.thr[t].cid = c /\ c \in s.active
      /\ \/ \E m : LeavesFor(s, t, c, a, m) /\ LeftBarrier(m, c, r)
         \/ \E x \in Threads : GaveWay(s, t, c, x, a, r)
  BY DEF Left
<1> HIDE DEF a
<1>3. Typed(a) /\ a.thr[t] \in ThreadInfos
  BY <1>1, TableTypes DEF Typed
<1>4. ASSUME NEW m, LeavesFor(s, t, c, a, m), LeftBarrier(m, c, r)
      PROVE  /\ Consistent(r) /\ r.fakeLeaves = s.fakeLeaves /\ Effects(s, r, {t})
             /\ r.thr[t].state \in {"OUT", "BLOCKED", "SLEEPING"}
  <2>1. \E i : /\ OneThread(a, m, t, i) /\ i.state \in {"OUT", "SLEEPING"}
    <3>1. Napping(a.thr[t]).state = "SLEEPING"
      BY <1>3, NappingIs
    <3>2. [a.thr[t] EXCEPT !.state = "OUT"].state = "OUT"
      BY <1>3 DEF ThreadInfos
    <3> QED
      BY <1>4, <3>1, <3>2 DEF LeavesFor, WentToSleep, GoneOut
  <2>2. PICK i : /\ OneThread(a, m, t, i) /\ i.state \in {"OUT", "SLEEPING"}
    BY <2>1
  <2>3. /\ Tables(m) /\ m.fakeLeaves = a.fakeLeaves /\ m.active = a.active /\ m.bar = a.bar
        /\ RunsBut(a, m, c) /\ ~Runs(m, c)
    BY <1>1, <1>2, <1>4 DEF LeavesFor, WentToSleep, GoneOut
  <2>4. WF(m.bar) /\ FitsBut(m, c) /\ c \notin m.active
    <3>1. c \notin m.active
      BY <1>1, <2>3
    <3>2. FitsBut(m, c)
      <4> SUFFICES ASSUME NEW d \in Cores \ {c}
                   PROVE  /\ Runs(m, d) <=> m.bar.state[d] \in {"WAITING", "RUNNING"}
                          /\ Runs(m, d) <=> d \in m.active
        BY DEF FitsBut
      <4>1. Runs(m, d) <=> Runs(s, d)
        BY <1>1, <2>3 DEF RunsBut, SameRuns
      <4>2. d \in m.active <=> d \in s.active
        BY <1>1, <2>3
      <4> QED
        BY <1>1, <2>3, <4>1, <4>2 DEF Consistent, Fits
    <3> QED
      BY <1>1, <2>3, <3>1, <3>2 DEF Consistent
  <2>5. Consistent(r) /\ r.fakeLeaves = m.fakeLeaves /\ Effects(m, r, {})
    BY <1>4, <2>3, <2>4, LeftBarrierKeeps
  <2>6. Effects(s, r, {t})
    <3>1. Effects(a, m, {t}) /\ Effects(m, r, {t})
      BY <2>2, <2>5, EffectsOfOne DEF Effects
    <3>2. Effects(a, r, {t})
      BY <3>1, EffectsCompose
    <3> QED
      BY <1>1, <3>2 DEF Effects
  <2>7. r.thr[t].state \in {"OUT", "BLOCKED", "SLEEPING"}
    <3>1. Effect(m.thr[t], r.thr[t])
      BY <2>5 DEF Effects
    <3> QED
      BY <2>2, <3>1 DEF Effect, OneThread
  <2> QED
    BY <1>1, <2>3, <2>5, <2>6, <2>7
<1>5. ASSUME NEW x \in Threads, GaveWay(s, t, c, x, a, r)
      PROVE  /\ Consistent(r) /\ r.fakeLeaves = s.fakeLeaves /\ Effects(s, r, {t})
             /\ r.thr[t].state \in {"BLOCKED", "SLEEPING"}
  <2>1. /\ Tables(r) /\ t # x
        /\ TwoThreads(a, r, t, Leaver(a.thr[t]), x, Awakened(a.thr[x], c))
        /\ r.fakeLeaves = a.fakeLeaves /\ r.bar = a.bar /\ SameRuns(a, r)
        /\ r.active = a.active \cup {c} /\ x \in Members(a.runQueue)
    BY <1>1, <1>5 DEF GaveWay, Exchanged
  <2>2. r.active = s.active
    BY <1>1, <1>2, <2>1
  <2>3. Consistent(r)
    <3>1. SameRuns(s, r)
      BY <1>1, <2>1 DEF SameRuns
    <3> QED
      BY <1>1, <2>1, <2>2, <3>1 DEF Consistent, Fits, SameRuns
  <2>4. a.thr[x].state = "QUEUED"
    BY <1>3, <2>1, QueuedFacts
  <2>5. Effects(s, r, {t})
    <3>1. Effects(a, r, {t})
      BY <1>1, <2>1, <2>4, EffectsOfExchange
    <3> QED
      BY <1>1, <3>1 DEF Effects
  <2>6. r.thr[t].state \in {"BLOCKED", "SLEEPING"}
    BY <1>3, <2>1, LeaverIs DEF TwoThreads
  <2> QED
    BY <1>1, <2>1, <2>3, <2>5, <2>6
<1> QED
  BY <1>2, <1>4, <1>5

\* r is an outcome of join by t.
JoinedBy(s, t, r) ==
    IF t \in Members(s.fakeLeaves)
    THEN s.thr[t].state = "RUNNING" /\ r = FinishFakeLeave(s, t)
    ELSE /\ ~s.thr[t].marked
         /\ \E q : /\ IF s.thr[t].state = "SLEEPING" THEN WokenEarly(s, q, t) ELSE q = s
                   /\ \/ /\ q.thr[t].state = "OUT"
                         /\ \E m : CameBack(q, m, t) /\ Joined(m, q.thr[t].cid, r)
                      \/ q.thr[t].state \in {"BLOCKED", "STARTED"} /\ PlacedOrQueued(q, t, r)

\* Tables that keep the barrier's and the recorders' view.
LEMMA ConsistentKept ==
    ASSUME NEW s, Consistent(s), NEW m, Tables(m), SameRuns(s, m), m.bar = s.bar,
           m.active = s.active
    PROVE  Consistent(m)
BY DEF Consistent, Fits, SameRuns

\* An early wakeup keeps it.
LEMMA WokenEarlyKeeps ==
    ASSUME NEW s, Consistent(s), NEW t \in Threads, NEW q, WokenEarly(s, q, t)
    PROVE  /\ Consistent(q) /\ q.fakeLeaves = s.fakeLeaves /\ Effects(s, q, {t})
           /\ q.thr[t].state = "BLOCKED" /\ q.broken = s.broken
<1>1. /\ Tables(q) /\ SameRuns(s, q) /\ q.bar = s.bar /\ q.active = s.active
      /\ q.fakeLeaves = s.fakeLeaves /\ q.broken = s.broken
      /\ OneThread(s, q, t, [s.thr[t] EXCEPT !.state = "BLOCKED", !.wakeIn = 0])
  BY DEF WokenEarly
<1>2. Consistent(q)
  BY <1>1, ConsistentKept
<1>3. q.thr[t].state = "BLOCKED"
  <2>1. s.thr[t] \in ThreadInfos
    BY TableTypes DEF Consistent, Typed
  <2> QED
    BY <1>1, <2>1 DEF OneThread, ThreadInfos
<1> QED
  BY <1>1, <1>2, <1>3, EffectsOfOne

\* Who does not queue is not promised a context.
LEMMA NotQueued ==
    ASSUME NEW s, Tables(s), NEW t \in Threads, s.thr[t].state # "QUEUED"
    PROVE  t \notin Members(s.runQueue) /\ ~Promised(s, t)
BY TableTypes, QueuedFacts

\* That is what join does, or an assertion fails.
LEMMA JoinIs ==
    ASSUME NEW s, Consistent(s), ~s.broken, NEW t \in Threads, NEW r \in Join(s, t), ~r.broken
    PROVE  JoinedBy(s, t, r)
<1> DEFINE q == IF s.thr[t].state = "SLEEPING" THEN WakeEarly(s, t) ELSE s
<1>0. Tables(s) /\ s \in Schedulers
  BY DEF Consistent, Tables
<1>1. r # [s EXCEPT !.broken = TRUE]
  BY <1>0, BrokenIs
<1>2. CASE t \in Members(s.fakeLeaves)
  BY <1>1, <1>2 DEF Join, Asserting, JoinedBy
<1>3. CASE t \notin Members(s.fakeLeaves)
  <2>1. /\ ~s.thr[t].marked
        /\ r \in IF q.thr[t].state = "OUT"
                 THEN JoinCore([q EXCEPT !.thr[t].state = "RUNNING", !.outQueue = Remove(@, t)],
                               q.thr[t].cid)
                 ELSE Asserting(q.thr[t].state \in {"BLOCKED", "STARTED"}, q, PlaceThread(q, t))
    BY <1>1, <1>3 DEF Join, Asserting
  <2>2. /\ IF s.thr[t].state = "SLEEPING" THEN WokenEarly(s, q, t) ELSE q = s
        /\ Consistent(q)
    <3>1. CASE s.thr[t].state = "SLEEPING"
      <4>1. WokenEarly(s, q, t)
        BY <1>0, <3>1, WakeEarlyIs
      <4> QED
        BY <3>1, <4>1, WokenEarlyKeeps
    <3>2. CASE s.thr[t].state # "SLEEPING"
      BY <3>2
    <3> QED
      BY <3>1, <3>2
  <2> HIDE DEF q
  <2>3. Tables(q) /\ q \in Schedulers /\ q.thr[t].cid \in Cores /\ WF(q.bar)
    BY <2>2, TableTypes DEF Consistent, Typed
  <2>4. CASE q.thr[t].state = "OUT"
    <3> DEFINE m == Returned(q, t)
               c == q.thr[t].cid
    <3>1. r \in JoinCore(m, c)
      BY <2>1, <2>4 DEF Returned
    <3>2. CameBack(q, m, t)
      BY <2>3, <2>4, ReturnedIs
    <3> HIDE DEF m, c
    <3>3. Tables(m) /\ WF(m.bar) /\ c \in Cores
      BY <2>3, <3>2 DEF CameBack, c
    <3>4. Joined(m, c, r)
      BY <3>1, <3>3, JoinCoreIs
    <3>5. \E n : CameBack(q, n, t) /\ Joined(n, q.thr[t].cid, r)
      BY <3>2, <3>4 DEF c
    <3> QED
      BY <1>3, <2>1, <2>2, <2>4, <3>5 DEF JoinedBy
  <2>5. CASE q.thr[t].state # "OUT"
    <3>1. r # [q EXCEPT !.broken = TRUE]
      BY <2>3, BrokenIs
    <3>2. q.thr[t].state \in {"BLOCKED", "STARTED"} /\ r \in PlaceThread(q, t)
      BY <2>1, <2>5, <3>1 DEF Asserting
    <3>3. t \notin Members(q.runQueue) /\ ~Promised(q, t)
      BY <2>3, <3>2, NotQueued
    <3>4. PlacedOrQueued(q, t, r)
      BY <2>2, <3>2, <3>3, PlaceThreadIs
    <3> QED
      BY <1>3, <2>1, <2>2, <3>2, <3>4 DEF JoinedBy
  <2> QED
    BY <2>4, <2>5
<1> QED
  BY <1>2, <1>3

\* A thread that is OUT takes its core up again.
LEMMA CameBackKeeps ==
    ASSUME NEW q, Consistent(q), NEW t \in Threads, q.thr[t].state = "OUT",
           NEW m, CameBack(q, m, t), NEW r, Joined(m, q.thr[t].cid, r)
    PROVE  /\ Consistent(r) /\ r.fakeLeaves = q.fakeLeaves /\ Effects(q, r, {t})
           /\ r.thr[t].state = "RUNNING"
<1> DEFINE c == q.thr[t].cid
           a == Activated(m, m.active \cup {c})
           b == Joining(m.bar, c)
<1>0. q.thr[t] \in ThreadInfos /\ c \in Cores
  BY TableTypes DEF Consistent, Typed
<1>1. /\ Tables(m) /\ m.bar = q.bar /\ m.active = q.active /\ m.fakeLeaves = q.fakeLeaves
      /\ RunsBut(q, m, c) /\ Runs(m, c)
      /\ OneThread(q, m, t, [q.thr[t] EXCEPT !.state = "RUNNING"])
  BY DEF CameBack
<1>2. FitsBut(m, c) /\ WF(m.bar) /\ m.active \cup {c} \in SUBSET Cores
  <2>1. m.active \in SUBSET Cores
    BY <1>1, TableTypes DEF Typed
  <2> QED
    BY <1>0, <1>1, <2>1 DEF FitsBut, RunsBut, Consistent, Fits
<1>3. Joined(m, c, r)
  OBVIOUS
<1>4. a.thr = m.thr
  BY <1>1, <1>2, ActivatedIs
<1> HIDE DEF c
<1>5. /\ Consistent(r) /\ r.fakeLeaves = m.fakeLeaves /\ Tables(a) /\ WF(b) /\ Woken(a, b, r)
  BY <1>0, <1>1, <1>2, <1>3, JoinedKeeps DEF Joined
<1> HIDE DEF a, b
<1>6. Effects(m, r, {})
  <2>1. Effects(a, r, {})
    BY <1>5, EffectsOfWoken
  <2> QED
    BY <1>4, <2>1 DEF Effects
<1>7. Effects(q, r, {t})
  <2>1. Effects(q, m, {t}) /\ Effects(m, r, {t})
    BY <1>1, <1>6, EffectsOfOne DEF Effects
  <2> QED
    BY <2>1, EffectsCompose
<1>8. m.thr[t].state = "RUNNING"
  BY <1>0, <1>1 DEF OneThread, ThreadInfos
<1>9. r.thr[t].state = "RUNNING"
  BY <1>6, <1>8, EffectsOnRunning
<1> QED
  BY <1>1, <1>5, <1>7, <1>9

\* join keeps the invariant, and ends a suppressed leave.
LEMMA JoinedByKeeps ==
    ASSUME NEW s, Consistent(s), NEW t \in Threads, NEW r, JoinedBy(s, t, r)
    PROVE  /\ Consistent(r) /\ Members(r.fakeLeaves) = Members(s.fakeLeaves) \ {t}
           /\ Effects(s, r, {t})
           /\ IF t \in Members(s.fakeLeaves) THEN r.thr[t].state = "RUNNING"
              ELSE \/ r.thr[t].state = "QUEUED" /\ r.thr[t].word = 1
                   \/ r.thr[t].state = "RUNNING"
<1>1. CASE t \in Members(s.fakeLeaves)
  <2>1. /\ s.thr[t].state = "RUNNING" /\ Consistent(r) /\ r.thr = s.thr
        /\ Members(r.fakeLeaves) = Members(s.fakeLeaves) \ {t}
    BY <1>1, FinishFakeLeaveKeeps DEF JoinedBy
  <2> QED
    BY <1>1, <2>1 DEF Effects, Effect
<1>2. CASE t \notin Members(s.fakeLeaves)
  <2>1. PICK q : /\ IF s.thr[t].state = "SLEEPING" THEN WokenEarly(s, q, t) ELSE q = s
                 /\ \/ /\ q.thr[t].state = "OUT"
                       /\ \E m : CameBack(q, m, t) /\ Joined(m, q.thr[t].cid, r)
                    \/ q.thr[t].state \in {"BLOCKED", "STARTED"} /\ PlacedOrQueued(q, t, r)
    BY <1>2 DEF JoinedBy
  <2>2. Consistent(q) /\ q.fakeLeaves = s.fakeLeaves /\ Effects(s, q, {t})
    <3>1. CASE s.thr[t].state = "SLEEPING"
      BY <2>1, <3>1, WokenEarlyKeeps
    <3>2. CASE s.thr[t].state # "SLEEPING"
      BY <2>1, <3>2 DEF Effects, Effect
    <3> QED
      BY <3>1, <3>2
  <2>3. /\ Consistent(r) /\ r.fakeLeaves = q.fakeLeaves /\ Effects(q, r, {t})
        /\ \/ r.thr[t].state = "QUEUED" /\ r.thr[t].word = 1
           \/ r.thr[t].state = "RUNNING"
    <3>1. CASE /\ q.thr[t].state = "OUT"
               /\ \E m : CameBack(q, m, t) /\ Joined(m, q.thr[t].cid, r)
      BY <2>2, <3>1, CameBackKeeps
    <3>2. CASE PlacedOrQueued(q, t, r)
      BY <2>2, <3>2, PlacedOrQueuedKeeps
    <3> QED
      BY <2>1, <3>1, <3>2
  <2>4. Effects(s, r, {t})
    BY <2>2, <2>3, EffectsCompose
  <2>5. Members(r.fakeLeaves) = Members(s.fakeLeaves) \ {t}
    BY <1>2, <2>2, <2>3
  <2> QED
    BY <1>2, <2>3, <2>4, <2>5
<1> QED
  BY <1>1, <1>2

\* r is an outcome of the handoff of t's core.
HandedOn(s, t, r) ==
    \E c \in Cores : \E x \in Threads : \E m :
        /\ c = s.thr[t].cid /\ s.cur[c] = t /\ x = s.thr[t].handoff
        /\ Exchanged(s, m, t, Requeued(s.thr[t]), x, Awakened(s.thr[x], c), c)
        /\ m.runQueue = s.runQueue /\ m.sleepQueue = s.sleepQueue /\ m.active = s.active
        /\ PlacedOrQueued(m, t, r)

\* The exchange of a handoff: t is on no list, and nobody's promise.
Readied(s, m, t) ==
    /\ Consistent(m) /\ m.fakeLeaves = s.fakeLeaves /\ Effects(s, m, {t})
    /\ m.thr[t] = Requeued(s.thr[t]) /\ m.thr[t].state = "QUEUED"
    /\ t \notin Members(m.runQueue) /\ ~Promised(m, t)

\* After the exchange the giver may be placed or queue up.
LEMMA HandoffFits ==
    ASSUME NEW s, Consistent(s), NEW t \in Threads, NEW x \in Threads, NEW c \in Cores,
           s.thr[t].state = "RUNNING", s.thr[t].handoff = x, NEW m,
           Exchanged(s, m, t, Requeued(s.thr[t]), x, Awakened(s.thr[x], c), c),
           m.runQueue = s.runQueue, m.active = s.active
    PROVE  Readied(s, m, t)
<1>0. /\ Tables(s) /\ Typed(s) /\ s.thr[t] \in ThreadInfos /\ s.thr[x] \in ThreadInfos
      /\ None \notin Threads
  BY TableTypes DEF Consistent, Typed
<1>1. /\ Tables(m) /\ t # x /\ SameRuns(s, m) /\ m.bar = s.bar /\ m.fakeLeaves = s.fakeLeaves
      /\ TwoThreads(s, m, t, Requeued(s.thr[t]), x, Awakened(s.thr[x], c))
  BY DEF Exchanged
<1>2. Consistent(m)
  BY <1>1, ConsistentKept
<1>3. m.thr[t] = Requeued(s.thr[t]) /\ m.thr[t].state = "QUEUED" /\ m.thr[t].handoff = None
  BY <1>0, <1>1, RequeuedIs DEF TwoThreads
<1>4. t \notin Members(s.runQueue) /\ ~Promised(s, t)
  BY <1>0, NotQueued
<1>5. ~Promised(m, t)
  <2> SUFFICES ASSUME NEW u \in Threads PROVE m.thr[u].handoff # t
    BY DEF Promised
  <2>0. s.thr[u].handoff # t
    BY <1>4 DEF Promised
  <2>1. CASE u = t
    BY <1>0, <1>3, <2>1
  <2>2. CASE u = x
    <3>1. m.thr[u].handoff = s.thr[u].handoff
      BY <1>0, <1>1, <2>2, AwakenedIs DEF TwoThreads
    <3> QED
      BY <2>0, <3>1
  <2>3. CASE u \notin {t, x}
    BY <1>1, <2>0, <2>3 DEF TwoThreads
  <2> QED
    BY <2>1, <2>2, <2>3
<1>6. Effects(s, m, {t})
  <2>1. s.thr[x].state = "QUEUED"
    BY <1>0, QueuedFacts DEF Promised
  <2> QED
    BY <1>0, <1>1, <2>1, EffectsOfExchange
<1> QED
  BY <1>1, <1>2, <1>3, <1>4, <1>5, <1>6 DEF Readied

\* That is what the second half of sync does, or an assertion fails.
LEMMA HandoffIs ==
    ASSUME NEW s, Consistent(s), NEW t \in Threads, s.thr[t].state = "RUNNING",
           s.thr[t].handoff # None, ~s.broken, NEW r \in Handoff(s, t), ~r.broken
    PROVE  HandedOn(s, t, r)
<1> DEFINE c == s.thr[t].cid
           x == s.thr[t].handoff
           m == HandedOver(s, t, c, x)
<1>0. /\ Tables(s) /\ Typed(s) /\ s \in Schedulers /\ c \in Cores /\ x \in Threads
  BY TableTypes DEF Consistent, Tables, Typed
<1>1. s.cur[c] = t
  BY <1>0 DEF Tables, Contexts, InStates
<1>2. r # [s EXCEPT !.broken = TRUE]
  BY <1>0, BrokenIs
<1>3. r \in PlaceThread(m, t)
  BY <1>2 DEF Handoff, Asserting, HandedOver
<1>4. /\ Exchanged(s, m, t, Requeued(s.thr[t]), x, Awakened(s.thr[x], c), c)
      /\ m.runQueue = s.runQueue
      /\ m.sleepQueue = s.sleepQueue /\ m.active = s.active
  BY <1>0, <1>1, HandedOverIs
<1> HIDE DEF m
<1>7. s.thr[t].handoff = x /\ c = s.thr[t].cid
  OBVIOUS
<1> HIDE DEF c, x
<1>5. /\ Consistent(m) /\ m.thr[t].state = "QUEUED"
      /\ t \notin Members(m.runQueue) /\ ~Promised(m, t)
  <2>1. Exchanged(s, m, t, Requeued(s.thr[t]), x, Awakened(s.thr[x], c), c)
    BY <1>4
  <2>2. Readied(s, m, t)
    BY <1>0, <1>4, <1>7, <2>1, HandoffFits
  <2> QED
    BY <2>2 DEF Readied
<1>6. PlacedOrQueued(m, t, r)
  BY <1>3, <1>5, PlaceThreadIs
<1> QED
  BY <1>0, <1>1, <1>4, <1>6, <1>7 DEF HandedOn

\* The handoff keeps the invariant.
LEMMA HandedOnKeeps ==
    ASSUME NEW s, Consistent(s), NEW t \in Threads, s.thr[t].state = "RUNNING",
           NEW r, HandedOn(s, t, r)
    PROVE  /\ Consistent(r) /\ r.fakeLeaves = s.fakeLeaves /\ Effects(s, r, {t})
           /\ \/ r.thr[t].state = "QUEUED" /\ r.thr[t].word = 1
              \/ r.thr[t].state = "RUNNING"
<1>0. PICK c \in Cores, x \in Threads :
        /\ x = s.thr[t].handoff
        /\ \E m : /\ Exchanged(s, m, t, Requeued(s.thr[t]), x, Awakened(s.thr[x], c), c)
                  /\ m.runQueue = s.runQueue /\ m.active = s.active
                  /\ PlacedOrQueued(m, t, r)
  BY DEF HandedOn
<1>1. PICK m : /\ Exchanged(s, m, t, Requeued(s.thr[t]), x, Awakened(s.thr[x], c), c)
               /\ m.runQueue = s.runQueue /\ m.active = s.active
               /\ PlacedOrQueued(m, t, r)
  BY <1>0
<1>2. Consistent(m) /\ m.fakeLeaves = s.fakeLeaves /\ Effects(s, m, {t})
  BY <1>0, <1>1, HandoffFits DEF Readied
<1>3. /\ Consistent(r) /\ r.fakeLeaves = m.fakeLeaves /\ Effects(m, r, {t})
      /\ \/ r.thr[t].state = "QUEUED" /\ r.thr[t].word = 1
         \/ r.thr[t].state = "RUNNING"
  BY <1>1, <1>2, PlacedOrQueuedKeeps
<1>4. Effects(s, r, {t})
  BY <1>2, <1>3, EffectsCompose
<1> QED
  BY <1>2, <1>3, <1>4

\* r is an outcome of notifySleepEnd.
LEMMA NotifyIs ==
    ASSUME NEW s, Consistent(s), ~s.broken, NEW t \in Threads, NEW r \in NotifySleepEnd(s, t), ~r.broken
    PROVE  \/ s.thr[t].state = "SLEEPING" /\ WokenEarly(s, r, t)
           \/ s.thr[t].state = "BLOCKED" /\ r = s
<1>0. Tables(s) /\ s \in Schedulers
  BY DEF Consistent, Tables
<1>1. r # [s EXCEPT !.broken = TRUE]
  BY <1>0, BrokenIs
<1>2. /\ s.thr[t].state \in {"SLEEPING", "BLOCKED"}
      /\ r = IF s.thr[t].state = "SLEEPING" THEN WakeEarly(s, t) ELSE s
  BY <1>1 DEF NotifySleepEnd, Asserting
<1> QED
  BY <1>0, <1>2, WakeEarlyIs

\* notifySleepEnd keeps the invariant.
LEMMA NotifyKeeps ==
    ASSUME NEW s, Consistent(s), ~s.broken, NEW t \in Threads, NEW r \in NotifySleepEnd(s, t), ~r.broken
    PROVE  /\ Consistent(r) /\ r.fakeLeaves = s.fakeLeaves /\ Effects(s, r, {t})
           /\ r.thr[t].state = "BLOCKED" /\ s.thr[t].state \in {"SLEEPING", "BLOCKED"}
<1>1. CASE s.thr[t].state = "SLEEPING" /\ WokenEarly(s, r, t)
  BY <1>1, WokenEarlyKeeps
<1>2. CASE s.thr[t].state = "BLOCKED" /\ r = s
  BY <1>2 DEF Effects, Effect
<1> QED
  BY <1>1, <1>2, NotifyIs

\* A start, a mark, a removal and a callback keep what the barrier knows.
LEMMA EnteredKeeps ==
    ASSUME NEW s, Consistent(s), NEW t \in Threads, NEW r, Entered(s, r, t)
    PROVE  Consistent(r) /\ r.fakeLeaves = s.fakeLeaves /\ Effects(s, r, {t})
<1>1. /\ Tables(r) /\ SameRuns(s, r) /\ r.bar = s.bar /\ r.active = s.active
      /\ r.fakeLeaves = s.fakeLeaves /\ OneThread(s, r, t, Started)
  BY DEF Entered
<1> QED
  BY <1>1, ConsistentKept, EffectsOfOne

\* ... a mark,
LEMMA MarkedKeeps ==
    ASSUME NEW s, Consistent(s), NEW t \in Threads, NEW phases \in 0..MaxSleep,
           NEW r, Marked(s, r, t, phases)
    PROVE  /\ Consistent(r) /\ r.fakeLeaves = s.fakeLeaves /\ Effects(s, r, {t})
           /\ r.thr[t].state = s.thr[t].state
<1>1. /\ Tables(r) /\ SameRuns(s, r) /\ r.bar = s.bar /\ r.active = s.active
      /\ r.fakeLeaves = s.fakeLeaves /\ OneThread(s, r, t, Dozy(s.thr[t], phases))
  BY DEF Marked
<1>2. s.thr[t] \in ThreadInfos
  BY TableTypes DEF Consistent, Typed
<1>3. r.thr[t].state = s.thr[t].state
  BY <1>1, <1>2, DozyIs DEF OneThread
<1> QED
  BY <1>1, <1>3, ConsistentKept, EffectsOfOne

\* ... a removal,
LEMMA UnlinkedKeeps ==
    ASSUME NEW s, Consistent(s), NEW t \in Threads, NEW r, Unlinked(s, r, t)
    PROVE  /\ Consistent(r) /\ r.fakeLeaves = s.fakeLeaves /\ Effects(s, r, {t})
           /\ r.thr[t] = NoThread
<1>1. /\ Tables(r) /\ SameRuns(s, r) /\ r.bar = s.bar /\ r.active = s.active
      /\ r.fakeLeaves = s.fakeLeaves /\ OneThread(s, r, t, NoThread)
  BY DEF Unlinked
<1> QED
  BY <1>1, ConsistentKept, EffectsOfOne DEF OneThread

\* ... and the end of a phase that the watchdog drives.
LEMMA CallbackKeeps ==
    ASSUME NEW s, Consistent(s), NEW r \in Callback(s), ~r.broken
    PROVE  Consistent(r) /\ r.fakeLeaves = s.fakeLeaves /\ Effects(s, r, {})
<1>1. Tables(s)
  BY DEF Consistent
<1>2. CalledBack(s, r)
  BY <1>1, CallbackIs
<1>3. /\ Tables(r) /\ SameRuns(s, r) /\ r.active = s.active /\ r.bar = s.bar
      /\ r.fakeLeaves = s.fakeLeaves
  BY <1>2, CalledBackKeeps
<1>4. Consistent(r) /\ Effects(s, r, {})
  BY <1>1, <1>2, <1>3, ConsistentKept, EffectsOfCallback
<1> QED
  BY <1>3, <1>4

-----------------------------------------------------------------------------
(* The steps of the threads and the watchdog                               *)

\* What the place of thread t says about it.
PlaceOf(s, p, w, t) ==
    /\ p[t] = "out" => s.thr[t].state = "NONE"
    /\ p[t] \in {"bjoin", "bsync", "run", "handoff", "tonap", "totimed"}
         => s.thr[t].state = "RUNNING"
    /\ p[t] = "handoff" => s.thr[t].handoff # None
    /\ p[t] = "ctx" => \/ s.thr[t].state = "RUNNING"
                       \/ s.thr[t].state = "QUEUED" /\ s.thr[t].word = 1
    /\ t \in Members(s.fakeLeaves)
         => s.thr[t].state = "RUNNING" /\ p[t] \in {"sys", "dead", "doomed"}
    /\ p[t] \in {"deadnap", "doomed"} => w.at = "reaping" /\ w.th = t

\* The thread that the watchdog is about to leave for is in a call, or dead.
WatchOf(s, p, w) ==
    w.at = "leaving" =>
        w.th \in Threads /\ w.th \notin Members(s.fakeLeaves) /\ p[w.th] \in {"sys", "dead"}

\* ... of every thread and the watchdog.
Places(s, p, w) == WatchOf(s, p, w) /\ \A t \in Threads : PlaceOf(s, p, w, t)

\* Where nothing failed, everybody is where its thread state says.
KInv ==
    /\ Consistent(sched)
    /\ pc \in [Threads -> PCs]
    /\ wd \in Watchdogs
    /\ ~sched.broken => Places(sched, pc, wd)

-----------------------------------------------------------------------------
(* The initial state                                                       *)

\* A barrier that nobody has joined yet.
LEMMA NewBarrierIs ==
    ASSUME NEW junk \in [Tids -> Nat \ {0}]
    PROVE  WF(NewBarrier(junk)) /\ \A t \in Tids : NewBarrier(junk).state[t] = "OFFLINE"
<1> DEFINE b == NewBarrier(junk)
<1>2. /\ b.state = [t \in Tids |-> "OFFLINE"] /\ b.futexWord = [t \in Tids |-> 0]
      /\ b.lastIdx = junk /\ b.runList = << >> /\ b.curThreadIdx = 0
      /\ b.runningThreads = 0 /\ b.leftThreads = 0 /\ b.phaseCount = 0
  BY DEF NewBarrier
<1>3. b \in Barriers
  <2>2. 0 \in 0..ParallelThreads /\ 0 \in 0..(PhaseWrap - 1)
    BY BarrierAssumption DEF BarrierAssumption
  <2> QED
    BY <2>2 DEF NewBarrier, Barriers, States
<1>4. InState(b, "RUNNING") = {} /\ InState(b, "LEFT") = {}
  BY <1>2 DEF InState
<1>5. Len(b.runList) = 0 /\ OnList(b) = {} /\ IsInjective(b.runList)
  BY <1>2 DEF OnList, IsInjective
<1>6. Cardinality(InState(b, "RUNNING")) = 0 /\ Cardinality(InState(b, "LEFT")) = 0
  BY <1>4, FS_EmptySet
<1>7. OnList(b) = {t \in Tids : b.state[t] # "OFFLINE"} /\ WordsMatch(b)
  BY <1>2, <1>5 DEF WordsMatch
<1> QED
  BY <1>2, <1>3, <1>5, <1>6, <1>7 DEF WF, Listing

\* The constructor's scheduler: all contexts are free, nobody is simulated.
LEMMA InitConsistent == Consistent(InitSched) /\ ~InitSched.broken
<1> DEFINE s == InitSched
           b == NewBarrier([c \in Cores |-> 1])
           f == [i \in 1..Cardinality(Cores) |-> i - 1]
<1>1. WF(b) /\ b \in Barriers /\ \A c \in Cores : b.state[c] = "OFFLINE"
  BY NewBarrierIs DEF WF, Listing, Cores
<1>2. f \in Seq(Cores) /\ IsInjective(f) /\ Members(f) = Cores
  <2>1. Cores = 0..(Cardinality(Cores) - 1) /\ Cardinality(Cores) \in Nat
    BY SchedulerAssumption, CoresFinite, FS_CardinalityType DEF Cores
  <2> DEFINE n == Cardinality(Cores)
  <2> HIDE DEF n
  <2>2. n \in Nat /\ Cores = 0..(n - 1) /\ f = [i \in 1..n |-> i - 1]
    BY <2>1 DEF n
  <2> HIDE DEF f
  <2>3. f \in Seq(Cores) /\ Len(f) = n
    BY <2>2
  <2>4. IsInjective(f)
    BY <2>2 DEF IsInjective
  <2>5. Members(f) = Cores
    <3>1. \A c \in Cores : c + 1 \in 1..n /\ f[c + 1] = c
      BY <2>2
    <3>2. \A i \in 1..n : f[i] \in Cores
      BY <2>2
    <3> QED
      BY <2>3, <3>1, <3>2 DEF Members
  <2> QED
    BY <2>3, <2>4, <2>5
<1>3. /\ s.thr = [t \in Threads |-> NoThread] /\ s.cur = [c \in Cores |-> None]
      /\ s.freeList = f /\ s.runQueue = <<>> /\ s.outQueue = <<>> /\ s.sleepQueue = <<>>
      /\ s.fakeLeaves = <<>> /\ s.phase = 0 /\ s.active = {} /\ s.bar = b /\ s.broken = FALSE
  BY DEF InitSched
<1>4. s \in Schedulers
  <2>1. 0 \in 0..(SchedQuantum - 1)
    BY SchedulerAssumption
  <2>2. [t \in Threads |-> NoThread] \in [Threads -> ThreadInfos]
    BY NoThreadIs
  <2> HIDE DEF f, b
  <2> QED
    BY <1>1, <1>2, <2>1, <2>2 DEF InitSched, Schedulers, f, b
<1> HIDE DEF f, b, s
<1>5. Members(<<>>) = {} /\ IsInjective(<<>>)
  BY DEF Members, IsInjective
<1>6. \A st : "NONE" \notin st => InStates(s, st) = {}
  BY <1>3, NoThreadIs DEF InStates
<1>7. Contexts(s)
  <2>1. InStates(s, {"RUNNING", "OUT"}) = {}
    BY <1>6
  <2> QED
    BY <1>3, <2>1 DEF Contexts
<1>8. Lists(s)
  <2>1. InStates(s, {"OUT"}) = {} /\ InStates(s, {"SLEEPING"}) = {}
    BY <1>6
  <2>2. {c \in Cores : s.cur[c] = None} = Cores
    BY <1>3
  <2> QED
    BY <1>2, <1>3, <1>5, <2>1, <2>2 DEF Lists, Holds
<1>9. Promises(s)
  BY <1>3, <1>5, NoThreadIs DEF Promises
<1>10. Conserves(s)
  BY <1>3, <1>5 DEF Conserves
<1>11. Fits(s, b)
  <2>1. \A c \in Cores : ~Runs(s, c)
    BY <1>3 DEF Runs
  <2> QED
    BY <1>1, <1>3, <2>1 DEF Fits
<1>12. Consistent(s) /\ ~s.broken
  BY <1>1, <1>3, <1>4, <1>7, <1>8, <1>9, <1>10, <1>11 DEF Consistent, Tables
<1> QED
  BY <1>12 DEF s

\* The invariant holds at first.
LEMMA InitKInv == Init => KInv
<1> SUFFICES ASSUME Init PROVE KInv
  OBVIOUS
<1>1. sched = InitSched /\ pc = [t \in Threads |-> "out"] /\ wd = Idle
  BY DEF Init
<1>2. Consistent(sched)
  BY <1>1, InitConsistent
<1>3. pc \in [Threads -> PCs]
  BY <1>1 DEF PCs
<1>4. wd \in Watchdogs /\ wd.at = "idle"
  <2>1. 0 \in Cores
    BY NoThreadIs DEF ThreadInfos, NoThread
  <2> QED
    BY <1>1, <2>1 DEF Idle, Watchdogs
<1>5. Places(sched, pc, wd)
  <2>1. \A t \in Threads : sched.thr[t].state = "NONE" /\ pc[t] = "out"
    BY <1>1, NoThreadIs DEF InitSched
  <2>2. Members(sched.fakeLeaves) = {}
    BY <1>1 DEF InitSched, Members
  <2> QED
    BY <1>4, <2>1, <2>2 DEF Places, PlaceOf, WatchOf
<1> QED
  BY <1>2, <1>3, <1>4, <1>5 DEF KInv

-----------------------------------------------------------------------------
(* What the steps of one thread leave of the others' places                *)

\* A thread that did not step is where it was.
LEMMA OthersStay ==
    ASSUME NEW s, NEW m, NEW p, NEW p2, NEW w, NEW w2, NEW T, NEW u \in Threads \ T,
           PlaceOf(s, p, w, u), Effects(s, m, T), p2[u] = p[u],
           Members(m.fakeLeaves) \subseteq Members(s.fakeLeaves) \cup T,
           w2 = w \/ p[u] \notin {"deadnap", "doomed"}
    PROVE  PlaceOf(m, p2, w2, u)
<1>1. /\ s.thr[u].state \in {"RUNNING", "NONE", "STARTED", "BLOCKED"}
           => m.thr[u].state = s.thr[u].state
      /\ s.thr[u].state = "QUEUED"
           => \/ m.thr[u].state = "QUEUED" /\ m.thr[u].word = s.thr[u].word
              \/ m.thr[u].state = "RUNNING"
      /\ s.thr[u].handoff # None => m.thr[u].handoff # None
  BY EffectsOnRunning
<1>2. u \in Members(m.fakeLeaves) => u \in Members(s.fakeLeaves)
  OBVIOUS
<1> QED
  BY <1>1, <1>2 DEF PlaceOf

\* Thread t stepped, to a place that fits it.
LEMMA StepKeepsPlaces ==
    ASSUME NEW s, NEW m, NEW p \in [Threads -> PCs], NEW w, NEW w2, NEW t \in Threads, NEW to,
           Places(s, p, w), Effects(s, m, {t}),
           Members(m.fakeLeaves) \subseteq Members(s.fakeLeaves) \cup {t},
           \A u \in Threads \ {t} : w2 = w \/ p[u] \notin {"deadnap", "doomed"},
           PlaceOf(m, [p EXCEPT ![t] = to], w2, t),
           WatchOf(m, [p EXCEPT ![t] = to], w2)
    PROVE  Places(m, [p EXCEPT ![t] = to], w2)
<1> DEFINE p2 == [p EXCEPT ![t] = to]
<1>1. ASSUME NEW u \in Threads \ {t} PROVE PlaceOf(m, p2, w2, u)
  <2>1. PlaceOf(s, p, w, u) /\ p2[u] = p[u]
    BY DEF Places
  <2> HIDE DEF p2
  <2> QED
    BY <2>1, OthersStay
<1> QED
  BY <1>1 DEF Places

\* An outcome is taken, or an assertion failed.
LEMMA Outcomes ==
    ASSUME NEW S, Becomes(S), Consistent(sched)
    PROVE  \/ Consistent(sched') /\ sched'.broken
           \/ sched' \in S /\ ~sched'.broken
<1>1. PICK s \in S : sched' = IF s.broken THEN [sched EXCEPT !.broken = TRUE] ELSE s
  BY DEF Becomes
<1> QED
  BY <1>1, BrokenKeeps

\* The places of a thread in no fake leave, by what they say of its state.
LEMMA PlaceOfRunning ==
    ASSUME NEW m, NEW p, NEW w, NEW t, m.thr[t].state = "RUNNING",
           p[t] \notin {"out", "deadnap", "doomed", "handoff"}, t \notin Members(m.fakeLeaves)
    PROVE  PlaceOf(m, p, w, t)
BY DEF PlaceOf

\* ... that is away, or between two steps that need no context.
LEMMA PlaceOfAway ==
    ASSUME NEW m, NEW p, NEW w, NEW t,
           p[t] \in {"start", "sys", "nap", "timed", "woken", "intr", "awake", "finleave",
                     "finish", "dead"},
           t \notin Members(m.fakeLeaves)
    PROVE  PlaceOf(m, p, w, t)
BY DEF PlaceOf

-----------------------------------------------------------------------------
(* The steps of the threads                                                *)

\* The invariant after a step of t, or for t, that failed no assertion.
LEMMA MoveKeepsKInv ==
    ASSUME KInv, ~sched.broken, NEW t \in Threads, NEW to \in PCs,
           pc' = [pc EXCEPT ![t] = to], Consistent(sched'),
           Effects(sched, sched', {t}),
           Members(sched'.fakeLeaves) \subseteq Members(sched.fakeLeaves) \cup {t},
           wd' \in Watchdogs,
           \A u \in Threads \ {t} : wd' = wd \/ pc[u] \notin {"deadnap", "doomed"},
           WatchOf(sched', pc', wd'), PlaceOf(sched', pc', wd', t)
    PROVE  KInv'
<1>1. Places(sched', pc', wd')
  <2>1. Places(sched, pc, wd) /\ pc \in [Threads -> PCs]
    BY DEF KInv
  <2>2. /\ PlaceOf(sched', [pc EXCEPT ![t] = to], wd', t)
        /\ WatchOf(sched', [pc EXCEPT ![t] = to], wd')
    OBVIOUS
  <2>3. Places(sched', [pc EXCEPT ![t] = to], wd')
    BY <2>1, <2>2, StepKeepsPlaces
  <2> QED
    BY <2>3
<1>2. pc' \in [Threads -> PCs]
  BY DEF KInv
<1> QED
  BY <1>1, <1>2 DEF KInv

\* ... that leaves the watchdog where it is.
LEMMA StepKeepsKInv ==
    ASSUME KInv, ~sched.broken, NEW t \in Threads, NEW to \in PCs,
           pc' = [pc EXCEPT ![t] = to], Consistent(sched'),
           Effects(sched, sched', {t}),
           Members(sched'.fakeLeaves) \subseteq Members(sched.fakeLeaves) \cup {t},
           wd' = wd, t # wd.th \/ wd.at # "leaving" \/ to \in {"sys", "dead"},
           wd.at = "leaving" => wd.th \notin Members(sched'.fakeLeaves),
           PlaceOf(sched', pc', wd, t)
    PROVE  KInv'
<1>1. WatchOf(sched', pc', wd')
  BY DEF WatchOf, KInv, Places
<1>2. wd' \in Watchdogs
  BY DEF KInv
<1> QED
  BY <1>1, <1>2, MoveKeepsKInv

\* ... and after one that did.
LEMMA BrokenKeepsKInv ==
    ASSUME KInv, Consistent(sched'), sched'.broken, pc' \in [Threads -> PCs], wd' \in Watchdogs
    PROVE  KInv'
BY DEF KInv

\* What the invariant says of a thread about to step.
LEMMA KFacts ==
    ASSUME KInv, ~sched.broken, NEW t \in Threads
    PROVE  /\ Consistent(sched) /\ PlaceOf(sched, pc, wd, t) /\ WatchOf(sched, pc, wd)
           /\ pc[t] \in PCs /\ pc \in [Threads -> PCs] /\ wd \in Watchdogs
           /\ sched.thr[t] \in ThreadInfos /\ sched.thr[t].cid \in Cores
           /\ sched.fakeLeaves \in Seq(Threads) /\ sched \in Schedulers
           /\ wd.at = "leaving" => /\ wd.th \notin Members(sched.fakeLeaves)
                                   /\ t = wd.th => pc[t] \in {"sys", "dead"}
<1>1. Consistent(sched) /\ Places(sched, pc, wd) /\ pc \in [Threads -> PCs] /\ wd \in Watchdogs
  BY DEF KInv
<1>2. Typed(sched)
  BY <1>1, TableTypes DEF Consistent
<1> QED
  BY <1>1, <1>2 DEF Typed, Places, WatchOf

\* A step that leaves the tables alone has no effect.
LEMMA NoEffect ==
    ASSUME NEW s, NEW m, NEW T, m.thr = s.thr
    PROVE  Effects(s, m, T)
BY DEF Effects, Effect

\* A step with an outcome: what is left to show is what the outcome keeps.
LEMMA OutcomeKeepsKInv ==
    ASSUME KInv, ~sched.broken, NEW t \in Threads, NEW to \in PCs, NEW S,
           Becomes(S), pc' = [pc EXCEPT ![t] = to], wd' = wd,
           sched' \in S /\ ~sched'.broken =>
             /\ Consistent(sched') /\ Effects(sched, sched', {t})
             /\ Members(sched'.fakeLeaves) \subseteq Members(sched.fakeLeaves) \cup {t}
             /\ wd.at = "leaving" => wd.th \notin Members(sched'.fakeLeaves)
             /\ PlaceOf(sched', pc', wd, t),
           t # wd.th \/ wd.at # "leaving" \/ to \in {"sys", "dead"}
    PROVE  KInv'
<1>1. Consistent(sched) /\ pc' \in [Threads -> PCs] /\ wd' \in Watchdogs
  BY DEF KInv
<1>2. \/ Consistent(sched') /\ sched'.broken
      \/ sched' \in S /\ ~sched'.broken
  BY <1>1, Outcomes
<1>3. CASE Consistent(sched') /\ sched'.broken
  BY <1>1, <1>3, BrokenKeepsKInv
<1>4. CASE sched' \in S /\ ~sched'.broken
  BY <1>4, StepKeepsKInv
<1> QED
  BY <1>2, <1>3, <1>4

\* Each step keeps the invariant: a thread starts,
LEMMA ThreadStartKeeps ==
    ASSUME KInv, NEW t \in Threads, ThreadStart(t)
    PROVE  KInv'
<1>1. /\ ~sched.broken /\ pc[t] = "out" /\ pc' = [pc EXCEPT ![t] = "start"]
      /\ sched' = Start(sched, t) /\ wd' = wd
  BY DEF ThreadStart, Step
<1>2. /\ Consistent(sched) /\ PlaceOf(sched, pc, wd, t) /\ pc \in [Threads -> PCs]
      /\ wd.at = "leaving" => wd.th \notin Members(sched.fakeLeaves) /\ t # wd.th
  BY <1>1, KFacts
<1>3. sched.thr[t].state = "NONE" /\ t \notin Members(sched.fakeLeaves)
  BY <1>1, <1>2 DEF PlaceOf
<1>4. Entered(sched, sched', t)
  BY <1>1, <1>2, <1>3, StartIs DEF Consistent
<1>5. Consistent(sched') /\ sched'.fakeLeaves = sched.fakeLeaves /\ Effects(sched, sched', {t})
  BY <1>2, <1>4, EnteredKeeps
<1>6. PlaceOf(sched', pc', wd, t)
  <2>1. pc'[t] = "start"
    BY <1>1, <1>2
  <2> QED
    BY <1>3, <1>5, <2>1, PlaceOfAway
<1>7. "start" \in PCs
  BY DEF PCs
<1> QED
  BY <1>1, <1>2, <1>5, <1>6, <1>7, StepKeepsKInv

\* ... joins,
LEMMA ThreadJoinKeeps ==
    ASSUME KInv, NEW t \in Threads, ThreadJoin(t), ~Caught(t)
    PROVE  KInv'
<1> DEFINE to == AfterJoin(sched', t)
<1>1. /\ ~sched.broken /\ pc[t] \in {"start", "sys", "woken", "intr"}
      /\ pc' = [pc EXCEPT ![t] = to] /\ Becomes(Join(sched, t)) /\ wd' = wd
      /\ t # wd.th \/ wd.at # "leaving"
  BY DEF ThreadJoin, Caught
<1>2. /\ Consistent(sched) /\ PlaceOf(sched, pc, wd, t) /\ pc \in [Threads -> PCs]
      /\ wd.at = "leaving" => wd.th \notin Members(sched.fakeLeaves)
  BY <1>1, KFacts
<1>3. to \in {"run", "ctx", "bjoin"} /\ to \in PCs
  BY DEF AfterJoin, PCs
<1>4. ASSUME sched' \in Join(sched, t), ~sched'.broken
      PROVE  /\ Consistent(sched') /\ Effects(sched, sched', {t})
             /\ Members(sched'.fakeLeaves) \subseteq Members(sched.fakeLeaves) \cup {t}
             /\ wd.at = "leaving" => wd.th \notin Members(sched'.fakeLeaves)
             /\ PlaceOf(sched', pc', wd, t)
  <2>1. JoinedBy(sched, t, sched')
    BY <1>1, <1>2, <1>4, JoinIs
  <2>2. /\ Consistent(sched') /\ Members(sched'.fakeLeaves) = Members(sched.fakeLeaves) \ {t}
        /\ Effects(sched, sched', {t})
        /\ IF t \in Members(sched.fakeLeaves) THEN sched'.thr[t].state = "RUNNING"
           ELSE \/ sched'.thr[t].state = "QUEUED" /\ sched'.thr[t].word = 1
                \/ sched'.thr[t].state = "RUNNING"
    BY <1>2, <2>1, JoinedByKeeps
  <2>3. to = IF t \in Members(sched.fakeLeaves) THEN "run"
             ELSE IF sched'.thr[t].state = "QUEUED" THEN "ctx" ELSE "bjoin"
    BY DEF AfterJoin
  <2> HIDE DEF to
  <2>4. pc'[t] = to
    BY <1>1, <1>2
  <2>5. PlaceOf(sched', pc', wd, t)
    BY <1>3, <2>2, <2>3, <2>4 DEF PlaceOf
  <2> QED
    BY <1>2, <2>2, <2>5
<1> HIDE DEF to
<1> QED
  BY <1>1, <1>3, <1>4, OutcomeKeepsKInv

\* ... comes back from the barrier,
LEMMA BarrierReturnKeeps ==
    ASSUME KInv, NEW t \in Threads, BarrierReturn(t)
    PROVE  KInv'
<1>1. PICK to \in {"run", "handoff"} :
        /\ ~sched.broken /\ pc[t] \in {"bjoin", "bsync"} /\ pc' = [pc EXCEPT ![t] = to]
        /\ sched' = sched /\ wd' = wd
        /\ to = "handoff" => sched.thr[t].handoff # None
  BY DEF BarrierReturn, Step
<1>2. /\ Consistent(sched) /\ PlaceOf(sched, pc, wd, t) /\ pc \in [Threads -> PCs]
      /\ wd.at = "leaving" => wd.th \notin Members(sched.fakeLeaves) /\ t # wd.th
  BY <1>1, KFacts
<1>3. PlaceOf(sched', pc', wd, t)
  <2>1. pc'[t] = to
    BY <1>1, <1>2
  <2> QED
    BY <1>1, <1>2, <2>1 DEF PlaceOf
<1>4. Effects(sched, sched', {t})
  BY <1>1, NoEffect
<1>5. to \in PCs
  BY DEF PCs
<1>6. Consistent(sched') /\ Members(sched'.fakeLeaves) = Members(sched.fakeLeaves)
  BY <1>1, <1>2
<1> QED
  BY <1>1, <1>2, <1>3, <1>4, <1>5, <1>6, StepKeepsKInv

\* ... or from the wait for a context,
LEMMA ContextReturnKeeps ==
    ASSUME KInv, NEW t \in Threads, ContextReturn(t)
    PROVE  KInv'
<1>1. /\ ~sched.broken /\ pc[t] = "ctx" /\ pc' = [pc EXCEPT ![t] = "run"]
      /\ sched' = sched /\ wd' = wd /\ sched.thr[t].word = 0
  BY DEF ContextReturn, Step
<1>2. /\ Consistent(sched) /\ PlaceOf(sched, pc, wd, t) /\ pc \in [Threads -> PCs]
      /\ wd.at = "leaving" => wd.th \notin Members(sched.fakeLeaves) /\ t # wd.th
  BY <1>1, KFacts
<1>3. PlaceOf(sched', pc', wd, t)
  <2>1. pc'[t] = "run"
    BY <1>1, <1>2
  <2> QED
    BY <1>1, <1>2, <2>1 DEF PlaceOf
<1>4. Effects(sched, sched', {t})
  BY <1>1, NoEffect
<1>5. "run" \in PCs
  BY DEF PCs
<1>6. Consistent(sched') /\ Members(sched'.fakeLeaves) = Members(sched.fakeLeaves)
  BY <1>1, <1>2
<1> QED
  BY <1>1, <1>2, <1>3, <1>4, <1>5, <1>6, StepKeepsKInv

\* ... syncs,
LEMMA ThreadSyncKeeps ==
    ASSUME KInv, NEW t \in Threads, ThreadSync(t)
    PROVE  KInv'
<1> DEFINE c == sched.thr[t].cid
<1>1. /\ ~sched.broken /\ pc[t] = "run" /\ pc' = [pc EXCEPT ![t] = "bsync"]
      /\ Becomes(Sync(sched, t, c)) /\ wd' = wd
  BY DEF ThreadSync, Step
<1>2. /\ Consistent(sched) /\ PlaceOf(sched, pc, wd, t) /\ pc \in [Threads -> PCs]
      /\ wd.at = "leaving" => wd.th \notin Members(sched.fakeLeaves) /\ t # wd.th
      /\ c \in Cores
  BY <1>1, KFacts
<1>3. sched.thr[t].state = "RUNNING" /\ t \notin Members(sched.fakeLeaves)
  BY <1>1, <1>2 DEF PlaceOf
<1> HIDE DEF c
<1>4. ASSUME sched' \in Sync(sched, t, c), ~sched'.broken
      PROVE  /\ Consistent(sched') /\ Effects(sched, sched', {t})
             /\ sched'.fakeLeaves = sched.fakeLeaves
             /\ PlaceOf(sched', pc', wd, t)
  <2>1. Synced(sched, t, c, sched')
    BY <1>2, <1>4, SyncIs
  <2>2. /\ Consistent(sched') /\ sched'.fakeLeaves = sched.fakeLeaves
        /\ Effects(sched, sched', {})
    BY <1>2, <2>1, SyncedKeeps
  <2>3. sched'.thr[t].state = "RUNNING"
    BY <1>3, <2>2, EffectsOnRunning
  <2>4. PlaceOf(sched', pc', wd, t)
    BY <1>1, <1>2, <1>3, <2>2, <2>3, PlaceOfRunning
  <2> QED
    BY <2>2, <2>4 DEF Effects
<1>5. "bsync" \in PCs
  BY DEF PCs
<1> QED
  BY <1>1, <1>2, <1>4, <1>5, OutcomeKeepsKInv

\* ... hands its context over,
LEMMA ThreadHandoffKeeps ==
    ASSUME KInv, NEW t \in Threads, ThreadHandoff(t)
    PROVE  KInv'
<1> DEFINE to == IF sched'.thr[t].state = "QUEUED" THEN "ctx" ELSE "bjoin"
<1>1. /\ ~sched.broken /\ pc[t] = "handoff" /\ pc' = [pc EXCEPT ![t] = to]
      /\ Becomes(Handoff(sched, t)) /\ wd' = wd
  BY DEF ThreadHandoff
<1>2. /\ Consistent(sched) /\ PlaceOf(sched, pc, wd, t) /\ pc \in [Threads -> PCs]
      /\ wd.at = "leaving" => wd.th \notin Members(sched.fakeLeaves) /\ t # wd.th
  BY <1>1, KFacts
<1>3. /\ sched.thr[t].state = "RUNNING" /\ sched.thr[t].handoff # None
      /\ t \notin Members(sched.fakeLeaves)
  BY <1>1, <1>2 DEF PlaceOf
<1>4. ASSUME sched' \in Handoff(sched, t), ~sched'.broken
      PROVE  /\ Consistent(sched') /\ Effects(sched, sched', {t})
             /\ sched'.fakeLeaves = sched.fakeLeaves
             /\ PlaceOf(sched', pc', wd, t)
  <2>1. HandedOn(sched, t, sched')
    BY <1>1, <1>2, <1>3, <1>4, HandoffIs
  <2>2. /\ Consistent(sched') /\ sched'.fakeLeaves = sched.fakeLeaves
        /\ Effects(sched, sched', {t})
        /\ \/ sched'.thr[t].state = "QUEUED" /\ sched'.thr[t].word = 1
           \/ sched'.thr[t].state = "RUNNING"
    BY <1>2, <1>3, <2>1, HandedOnKeeps
  <2>3. pc'[t] = IF sched'.thr[t].state = "QUEUED" THEN "ctx" ELSE "bjoin"
    BY <1>1, <1>2
  <2>4. PlaceOf(sched', pc', wd, t)
    BY <1>3, <2>2, <2>3 DEF PlaceOf
  <2> QED
    BY <2>2, <2>4
<1>5. to \in PCs
  BY DEF PCs
<1> HIDE DEF to
<1> QED
  BY <1>1, <1>2, <1>4, <1>5, OutcomeKeepsKInv

\* ... enters a call whose leave is suppressed.
LEMMA FakeLeaveKeeps ==
    ASSUME KInv, NEW t \in Threads, FakeLeave(t)
    PROVE  KInv'
<1>1. /\ ~sched.broken /\ pc[t] = "run" /\ pc' = [pc EXCEPT ![t] = "sys"]
      /\ sched' = [sched EXCEPT !.fakeLeaves = Append(@, t)] /\ wd' = wd
  BY DEF FakeLeave, Step
<1>2. /\ Consistent(sched) /\ PlaceOf(sched, pc, wd, t) /\ pc \in [Threads -> PCs]
      /\ wd.at = "leaving" => wd.th \notin Members(sched.fakeLeaves) /\ t # wd.th
  BY <1>1, KFacts
<1>3. sched.thr[t].state = "RUNNING" /\ t \notin Members(sched.fakeLeaves)
  BY <1>1, <1>2 DEF PlaceOf
<1>4. /\ Consistent(sched') /\ sched'.thr = sched.thr
      /\ Members(sched'.fakeLeaves) = Members(sched.fakeLeaves) \cup {t}
  BY <1>1, <1>2, <1>3, FakeLeavesKeep
<1>5. PlaceOf(sched', pc', wd, t)
  <2>1. pc'[t] = "sys"
    BY <1>1, <1>2
  <2> QED
    BY <1>3, <1>4, <2>1 DEF PlaceOf
<1>6. Effects(sched, sched', {t})
  BY <1>4, NoEffect
<1>7. "sys" \in PCs
  BY DEF PCs
<1>8. wd.at = "leaving" => wd.th \notin Members(sched'.fakeLeaves)
  BY <1>2, <1>4
<1> QED
  BY <1>1, <1>2, <1>4, <1>5, <1>6, <1>7, <1>8, StepKeepsKInv

\* leave, by a thread on its way into a call or out of the simulation.
LEMMA LeaveKeeps ==
    ASSUME KInv, NEW t \in Threads, NEW from, NEW to \in PCs, Step(t, from, to),
           Becomes(Leave(sched, t, sched.thr[t].cid)), wd' = wd,
           pc[t] \notin {"sys", "dead", "doomed"},
           to \in {"sys", "nap", "timed", "finish"}
    PROVE  KInv'
<1> DEFINE c == sched.thr[t].cid
<1>1. ~sched.broken /\ pc' = [pc EXCEPT ![t] = to] /\ Becomes(Leave(sched, t, c))
  BY DEF Step
<1>2. /\ Consistent(sched) /\ PlaceOf(sched, pc, wd, t) /\ pc \in [Threads -> PCs]
      /\ wd.at = "leaving" => wd.th \notin Members(sched.fakeLeaves) /\ t # wd.th
      /\ c \in Cores
  BY <1>1, KFacts
<1>3. t \notin Members(sched.fakeLeaves)
  BY <1>2 DEF PlaceOf
<1> HIDE DEF c
<1>4. ASSUME sched' \in Leave(sched, t, c), ~sched'.broken
      PROVE  /\ Consistent(sched') /\ Effects(sched, sched', {t})
             /\ sched'.fakeLeaves = sched.fakeLeaves
             /\ PlaceOf(sched', pc', wd, t)
  <2>1. Left(sched, t, c, sched')
    BY <1>2, <1>4, LeaveIs
  <2>2. /\ Consistent(sched') /\ sched'.fakeLeaves = sched.fakeLeaves
        /\ Effects(sched, sched', {t})
    BY <1>2, <2>1, LeftKeeps
  <2>3. pc'[t] = to
    BY <1>1, <1>2
  <2>4. PlaceOf(sched', pc', wd, t)
    BY <1>3, <2>2, <2>3, PlaceOfAway
  <2> QED
    BY <2>2, <2>4
<1> QED
  BY <1>1, <1>2, <1>4, OutcomeKeepsKInv

\* The three callers of leave.
LEMMA LeavesKeep ==
    ASSUME KInv, NEW t \in Threads, BlockingLeave(t) \/ SleepLeave(t) \/ FinishLeave(t)
    PROVE  KInv'
<1>1. "sys" \in PCs /\ "nap" \in PCs /\ "timed" \in PCs /\ "finish" \in PCs
  BY DEF PCs
<1>2. CASE BlockingLeave(t)
  <2>1. /\ Step(t, {"run"}, "sys") /\ pc[t] = "run" /\ wd' = wd
        /\ Becomes(Leave(sched, t, sched.thr[t].cid))
    BY <1>2 DEF BlockingLeave, Step
  <2> QED
    BY <1>1, <2>1, LeaveKeeps
<1>3. CASE SleepLeave(t)
  <2>1. /\ \/ Step(t, {"tonap"}, "nap") /\ pc[t] = "tonap"
           \/ Step(t, {"totimed"}, "timed") /\ pc[t] = "totimed"
        /\ wd' = wd /\ Becomes(Leave(sched, t, sched.thr[t].cid))
    BY <1>3 DEF SleepLeave, Step
  <2> QED
    BY <1>1, <2>1, LeaveKeeps
<1>4. CASE FinishLeave(t)
  <2>1. /\ Step(t, {"finleave"}, "finish") /\ pc[t] = "finleave" /\ wd' = wd
        /\ Becomes(Leave(sched, t, sched.thr[t].cid))
    BY <1>4 DEF FinishLeave, Step
  <2> QED
    BY <1>1, <2>1, LeaveKeeps
<1> QED
  BY <1>2, <1>3, <1>4

\* A thread enters a timed call.
LEMMA EnterSleepKeeps ==
    ASSUME KInv, NEW t \in Threads, EnterSleep(t)
    PROVE  KInv'
<1>1. PICK phases \in 1..MaxSleep, to \in {"tonap", "totimed"} :
        /\ ~sched.broken /\ pc[t] = "run" /\ pc' = [pc EXCEPT ![t] = to] /\ wd' = wd
        /\ Becomes(MarkForSleep(sched, t, phases))
  BY DEF EnterSleep, Step
<1>2. /\ Consistent(sched) /\ PlaceOf(sched, pc, wd, t) /\ pc \in [Threads -> PCs]
      /\ wd.at = "leaving" => wd.th \notin Members(sched.fakeLeaves) /\ t # wd.th
  BY <1>1, KFacts
<1>3. sched.thr[t].state = "RUNNING" /\ t \notin Members(sched.fakeLeaves)
  BY <1>1, <1>2 DEF PlaceOf
<1>4. ASSUME sched' \in MarkForSleep(sched, t, phases), ~sched'.broken
      PROVE  /\ Consistent(sched') /\ Effects(sched, sched', {t})
             /\ sched'.fakeLeaves = sched.fakeLeaves
             /\ PlaceOf(sched', pc', wd, t)
  <2>0. phases \in 0..MaxSleep
    BY NoWait
  <2>1. Marked(sched, sched', t, phases)
    BY <1>2, <1>4, <2>0, MarkIs DEF Consistent
  <2>2. /\ Consistent(sched') /\ sched'.fakeLeaves = sched.fakeLeaves
        /\ Effects(sched, sched', {t}) /\ sched'.thr[t].state = sched.thr[t].state
    BY <1>2, <2>0, <2>1, MarkedKeeps
  <2>3. pc'[t] = to
    BY <1>1, <1>2
  <2>4. PlaceOf(sched', pc', wd, t)
    BY <1>3, <2>2, <2>3, PlaceOfRunning
  <2> QED
    BY <2>2, <2>4
<1>5. to \in PCs
  BY DEF PCs
<1> QED
  BY <1>1, <1>2, <1>4, <1>5, OutcomeKeepsKInv

\* The steps that only move a thread between places out of the simulation.
LEMMA AwayKeeps ==
    ASSUME KInv, NEW t \in Threads, NapEnds(t) \/ NapInterrupted(t) \/ TimedReturn(t)
    PROVE  KInv'
<1>1. PICK to \in {"woken", "intr", "awake"} :
        /\ ~sched.broken /\ pc[t] \in {"nap", "timed"} /\ pc' = [pc EXCEPT ![t] = to]
        /\ sched' = sched /\ wd' = wd
  BY DEF NapEnds, NapInterrupted, TimedReturn, Step
<1>2. /\ Consistent(sched) /\ PlaceOf(sched, pc, wd, t) /\ pc \in [Threads -> PCs]
      /\ wd.at = "leaving" => wd.th \notin Members(sched.fakeLeaves) /\ t # wd.th
  BY <1>1, KFacts
<1>3. PlaceOf(sched', pc', wd, t)
  <2>1. pc'[t] = to /\ t \notin Members(sched.fakeLeaves)
    BY <1>1, <1>2 DEF PlaceOf
  <2> QED
    BY <1>1, <2>1 DEF PlaceOf
<1>4. Effects(sched, sched', {t})
  BY <1>1, NoEffect
<1>5. to \in PCs
  BY DEF PCs
<1>6. Consistent(sched') /\ Members(sched'.fakeLeaves) = Members(sched.fakeLeaves)
  BY <1>1, <1>2
<1> QED
  BY <1>1, <1>2, <1>3, <1>4, <1>5, <1>6, StepKeepsKInv

\* The patched call ends, before the deadline or after.
LEMMA SleepEndKeeps ==
    ASSUME KInv, NEW t \in Threads, SleepEnd(t)
    PROVE  KInv'
<1>1. /\ ~sched.broken /\ pc[t] = "awake" /\ pc' = [pc EXCEPT ![t] = "woken"]
      /\ Becomes(NotifySleepEnd(sched, t)) /\ wd' = wd
  BY DEF SleepEnd, Step
<1>2. /\ Consistent(sched) /\ PlaceOf(sched, pc, wd, t) /\ pc \in [Threads -> PCs]
      /\ wd.at = "leaving" => wd.th \notin Members(sched.fakeLeaves) /\ t # wd.th
  BY <1>1, KFacts
<1>3. t \notin Members(sched.fakeLeaves)
  BY <1>1, <1>2 DEF PlaceOf
<1>4. ASSUME sched' \in NotifySleepEnd(sched, t), ~sched'.broken
      PROVE  /\ Consistent(sched') /\ Effects(sched, sched', {t})
             /\ sched'.fakeLeaves = sched.fakeLeaves
             /\ PlaceOf(sched', pc', wd, t)
  <2>2. /\ Consistent(sched') /\ sched'.fakeLeaves = sched.fakeLeaves
        /\ Effects(sched, sched', {t})
    BY <1>1, <1>2, <1>4, NotifyKeeps
  <2>3. pc'[t] = "woken"
    BY <1>1, <1>2
  <2>4. PlaceOf(sched', pc', wd, t)
    BY <1>3, <2>2, <2>3, PlaceOfAway
  <2> QED
    BY <2>2, <2>4
<1>5. "woken" \in PCs
  BY DEF PCs
<1> QED
  BY <1>1, <1>2, <1>4, <1>5, OutcomeKeepsKInv

-----------------------------------------------------------------------------
(* finish, the watchdog, and the dead                                      *)

\* The watchdog is done with t, and reaps no other.
LEMMA AfterFinish ==
    ASSUME KInv, ~sched.broken, NEW t \in Threads
    PROVE  /\ WatchdogAfter(t) \in Watchdogs
           /\ \A u \in Threads \ {t} : WatchdogAfter(t) = wd \/ pc[u] \notin {"deadnap", "doomed"}
           /\ WatchdogAfter(t).at = "leaving" => WatchdogAfter(t) = wd
           /\ WatchdogAfter(t) = wd \/ WatchdogAfter(t).at = "idle"
<1>1. wd \in Watchdogs /\ \A u \in Threads : PlaceOf(sched, pc, wd, u)
  BY DEF KInv, Places
<1>2. 0 \in Cores
  BY NoThreadIs DEF ThreadInfos, NoThread
<1>3. Idle \in Watchdogs /\ Idle.at = "idle"
  BY <1>2 DEF Idle, Watchdogs
<1> HIDE DEF Idle
<1> QED
  BY <1>1, <1>3 DEF WatchdogAfter, PlaceOf

\* The gid is removed.
LEMMA UnlinkKeeps ==
    ASSUME KInv, ~sched.broken, NEW t \in Threads, t \notin Members(sched.fakeLeaves),
           pc' = [pc EXCEPT ![t] = "out"], Becomes(FinishUnlinks(sched, t)),
           wd' = WatchdogAfter(t), wd.at # "leaving" \/ wd.th # t
    PROVE  KInv'
<1>1. /\ Consistent(sched) /\ pc \in [Threads -> PCs] /\ WatchOf(sched, pc, wd)
  BY KFacts
<1>2. "out" \in PCs /\ pc' \in [Threads -> PCs]
  BY <1>1 DEF PCs
<1>3. /\ wd' \in Watchdogs
      /\ \A u \in Threads \ {t} : wd' = wd \/ pc[u] \notin {"deadnap", "doomed"}
      /\ wd'.at = "leaving" => wd' = wd
  BY AfterFinish
<1>4. CASE Consistent(sched') /\ sched'.broken
  BY <1>2, <1>3, <1>4, BrokenKeepsKInv
<1>5. CASE sched' \in FinishUnlinks(sched, t) /\ ~sched'.broken
  <2>1. Unlinked(sched, sched', t)
    BY <1>1, <1>5, UnlinksIs DEF Consistent
  <2>2. /\ Consistent(sched') /\ sched'.fakeLeaves = sched.fakeLeaves
        /\ Effects(sched, sched', {t}) /\ sched'.thr[t] = NoThread
    BY <1>1, <2>1, UnlinkedKeeps
  <2>3. pc'[t] = "out"
    BY <1>1
  <2>4. PlaceOf(sched', pc', wd', t)
    BY <2>2, <2>3, NoThreadIs DEF PlaceOf
  <2>5. WatchOf(sched', pc', wd')
    <3>1. \A u \in Threads \ {t} : pc'[u] = pc[u]
      BY <1>1
    <3> QED
      BY <1>1, <1>3, <2>2, <3>1 DEF WatchOf
  <2> QED
    BY <1>2, <1>3, <2>2, <2>4, <2>5, MoveKeepsKInv
<1> QED
  BY <1>1, <1>4, <1>5, Outcomes

\* finish, of a thread or of one that is dead, up to the leave it may need.
LEMMA FinishBeginsKeeps ==
    ASSUME KInv, ~sched.broken, NEW t \in Threads, FinishBegins(t),
           pc[t] \in {"start", "sys", "woken", "intr", "doomed"},
           wd.at # "leaving" \/ wd.th # t
    PROVE  KInv'
<1>1. /\ Consistent(sched) /\ pc \in [Threads -> PCs] /\ PlaceOf(sched, pc, wd, t)
      /\ wd.at = "leaving" => wd.th \notin Members(sched.fakeLeaves)
  BY KFacts
<1>2. CASE sched.thr[t].state = "RUNNING"
  <2>1. /\ pc' = [pc EXCEPT ![t] = "finleave"] /\ sched' = FinishFakeLeave(sched, t)
        /\ wd' = wd
    BY <1>2 DEF FinishBegins
  <2>2. /\ Consistent(sched') /\ sched'.thr = sched.thr
        /\ Members(sched'.fakeLeaves) = Members(sched.fakeLeaves) \ {t}
    BY <1>1, <2>1, FinishFakeLeaveKeeps
  <2>3. pc'[t] = "finleave" /\ t \notin Members(sched'.fakeLeaves)
    BY <1>1, <2>1, <2>2
  <2>4. PlaceOf(sched', pc', wd, t)
    BY <2>3, PlaceOfAway
  <2>5. Effects(sched, sched', {t})
    BY <2>2, NoEffect
  <2>6. "finleave" \in PCs
    BY DEF PCs
  <2> QED
    BY <1>1, <2>1, <2>2, <2>4, <2>5, <2>6, StepKeepsKInv
<1>3. CASE sched.thr[t].state # "RUNNING"
  <2>1. /\ pc' = [pc EXCEPT ![t] = "out"] /\ Becomes(FinishUnlinks(sched, t))
        /\ wd' = WatchdogAfter(t)
    BY <1>3 DEF FinishBegins
  <2>2. t \notin Members(sched.fakeLeaves)
    BY <1>1, <1>3 DEF PlaceOf
  <2> QED
    BY <2>1, <2>2, UnlinkKeeps
<1> QED
  BY <1>2, <1>3

\* A thread ends.
LEMMA ThreadFinishKeeps ==
    ASSUME KInv, NEW t \in Threads, ThreadFinish(t), ~Caught(t)
    PROVE  KInv'
BY FinishBeginsKeeps DEF ThreadFinish, Caught

\* ... after it left.
LEMMA FinishEndKeeps ==
    ASSUME KInv, NEW t \in Threads, FinishEnd(t)
    PROVE  KInv'
<1>1. /\ ~sched.broken /\ pc[t] = "finish" /\ pc' = [pc EXCEPT ![t] = "out"]
      /\ Becomes(FinishUnlinks(sched, t)) /\ wd' = WatchdogAfter(t)
  BY DEF FinishEnd, Step
<1>2. /\ PlaceOf(sched, pc, wd, t)
      /\ wd.at = "leaving" => t # wd.th
  BY <1>1, KFacts
<1>3. t \notin Members(sched.fakeLeaves)
  BY <1>1, <1>2 DEF PlaceOf
<1> QED
  BY <1>1, <1>2, <1>3, UnlinkKeeps

\* The watchdog finishes a dead thread.
LEMMA ReapFinishKeeps ==
    ASSUME KInv, NEW t \in Threads, ReapFinish(t)
    PROVE  KInv'
<1>1. ~sched.broken /\ pc[t] = "doomed" /\ FinishBegins(t)
  BY DEF ReapFinish
<1>2. wd.at = "leaving" => t # wd.th
  BY <1>1, KFacts
<1> QED
  BY <1>1, <1>2, FinishBeginsKeeps

\* A thread's process is killed, wherever the thread is.
LEMMA KillKeeps ==
    ASSUME KInv, NEW t \in Threads, Kill(t)
    PROVE  KInv'
<1>1. /\ ~sched.broken /\ pc[t] \notin {"out", "finleave", "finish", "dead", "deadnap", "doomed"}
      /\ pc' = [pc EXCEPT ![t] = "dead"] /\ sched' = sched /\ wd' = wd
  BY DEF Kill, Step
<1>2. /\ Consistent(sched) /\ PlaceOf(sched, pc, wd, t) /\ pc \in [Threads -> PCs]
      /\ wd.at = "leaving" => wd.th \notin Members(sched.fakeLeaves)
  BY <1>1, KFacts
<1>3. PlaceOf(sched', pc', wd, t)
  <2>1. pc'[t] = "dead"
    BY <1>1, <1>2
  <2> QED
    BY <1>1, <1>2, <2>1 DEF PlaceOf
<1>4. Effects(sched, sched', {t})
  BY <1>1, NoEffect
<1>5. "dead" \in PCs
  BY DEF PCs
<1>6. Consistent(sched') /\ Members(sched'.fakeLeaves) = Members(sched.fakeLeaves)
  BY <1>1, <1>2
<1> QED
  BY <1>1, <1>2, <1>3, <1>4, <1>5, <1>6, StepKeepsKInv

\* The watchdog finds a dead thread,
LEMMA ReapKeeps ==
    ASSUME KInv, NEW t \in Threads, Reap(t)
    PROVE  KInv'
<1>1. PICK to \in {"deadnap", "doomed"} :
        /\ ~sched.broken /\ pc[t] = "dead" /\ pc' = [pc EXCEPT ![t] = to] /\ sched' = sched
        /\ wd.at = "idle" /\ wd' = [at |-> "reaping", th |-> t, cid |-> 0]
        /\ to = "deadnap" => sched.thr[t].state = "SLEEPING"
  BY DEF Reap, Step
<1>2. /\ Consistent(sched) /\ PlaceOf(sched, pc, wd, t) /\ pc \in [Threads -> PCs]
  BY <1>1, KFacts
<1>3. wd' \in Watchdogs /\ wd'.at = "reaping" /\ wd'.th = t
  <2>1. 0 \in Cores
    BY NoThreadIs DEF ThreadInfos, NoThread
  <2> QED
    BY <1>1, <2>1 DEF Watchdogs
<1>4. PlaceOf(sched', pc', wd', t)
  <2>1. pc'[t] = to
    BY <1>1, <1>2
  <2> QED
    BY <1>1, <1>2, <1>3, <2>1 DEF PlaceOf
<1>5. WatchOf(sched', pc', wd')
  BY <1>3 DEF WatchOf
<1>6. \A u \in Threads : pc[u] \notin {"deadnap", "doomed"}
  BY <1>1 DEF KInv, Places, PlaceOf
<1>7. Effects(sched, sched', {t})
  BY <1>1, NoEffect
<1>8. to \in PCs
  BY DEF PCs
<1>9. Consistent(sched') /\ Members(sched'.fakeLeaves) = Members(sched.fakeLeaves)
  BY <1>1, <1>2
<1> QED
  BY <1>1, <1>3, <1>4, <1>5, <1>6, <1>7, <1>8, <1>9, MoveKeepsKInv

\* ... ends its sleep,
LEMMA ReapSleeperKeeps ==
    ASSUME KInv, NEW t \in Threads, ReapSleeper(t)
    PROVE  KInv'
<1>1. /\ ~sched.broken /\ pc[t] = "deadnap" /\ pc' = [pc EXCEPT ![t] = "doomed"]
      /\ Becomes(NotifySleepEnd(sched, t)) /\ wd' = wd
  BY DEF ReapSleeper, Step
<1>2. /\ Consistent(sched) /\ PlaceOf(sched, pc, wd, t) /\ pc \in [Threads -> PCs]
      /\ wd.at = "leaving" => wd.th \notin Members(sched.fakeLeaves) /\ t # wd.th
  BY <1>1, KFacts
<1>3. t \notin Members(sched.fakeLeaves) /\ wd.at = "reaping" /\ wd.th = t
  BY <1>1, <1>2 DEF PlaceOf
<1>4. ASSUME sched' \in NotifySleepEnd(sched, t), ~sched'.broken
      PROVE  /\ Consistent(sched') /\ Effects(sched, sched', {t})
             /\ sched'.fakeLeaves = sched.fakeLeaves
             /\ PlaceOf(sched', pc', wd, t)
  <2>2. /\ Consistent(sched') /\ sched'.fakeLeaves = sched.fakeLeaves
        /\ Effects(sched, sched', {t})
    BY <1>1, <1>2, <1>4, NotifyKeeps
  <2>3. pc'[t] = "doomed"
    BY <1>1, <1>2
  <2>4. PlaceOf(sched', pc', wd, t)
    BY <1>3, <2>2, <2>3 DEF PlaceOf
  <2> QED
    BY <2>2, <2>4
<1>5. "doomed" \in PCs
  BY DEF PCs
<1> QED
  BY <1>1, <1>2, <1>4, <1>5, OutcomeKeepsKInv

\* ... finds the oldest fake leave while phases stall,
LEMMA WatchdogStallKeeps ==
    ASSUME KInv, WatchdogStall
    PROVE  KInv'
<1> DEFINE t == Head(sched.fakeLeaves)
<1>1. /\ ~sched.broken /\ wd.at = "idle" /\ sched.fakeLeaves # <<>> /\ pc' = pc
      /\ wd' = [at |-> "leaving", th |-> t, cid |-> sched.thr[t].cid]
      /\ sched' = FinishFakeLeave(sched, t)
  BY DEF WatchdogStall
<1>2. /\ t \in Threads /\ t \in Members(sched.fakeLeaves)
  <2>1. sched.fakeLeaves \in Seq(Threads)
    BY TableTypes DEF KInv, Consistent, Typed
  <2>2. t = sched.fakeLeaves[1] /\ 1 \in 1..Len(sched.fakeLeaves)
    BY <1>1, <2>1
  <2> QED
    BY <2>1, <2>2 DEF Members
<1> HIDE DEF t
<1>3. /\ Consistent(sched) /\ PlaceOf(sched, pc, wd, t) /\ pc \in [Threads -> PCs]
      /\ pc[t] \in PCs /\ sched.thr[t].cid \in Cores
  BY <1>1, <1>2, KFacts
<1>4. pc[t] \in {"sys", "dead"}
  BY <1>1, <1>2, <1>3 DEF PlaceOf
<1>5. /\ Consistent(sched') /\ sched'.thr = sched.thr
      /\ Members(sched'.fakeLeaves) = Members(sched.fakeLeaves) \ {t}
  BY <1>1, <1>3, FinishFakeLeaveKeeps
<1>6. wd' \in Watchdogs /\ wd'.th = t
  BY <1>1, <1>2, <1>3 DEF Watchdogs
<1>7. WatchOf(sched', pc', wd')
  BY <1>1, <1>2, <1>4, <1>5, <1>6 DEF WatchOf
<1>8. PlaceOf(sched', pc', wd', t)
  <2>1. t \notin Members(sched'.fakeLeaves) /\ pc'[t] \in {"sys", "dead"}
    BY <1>1, <1>4, <1>5
  <2> QED
    BY <2>1 DEF PlaceOf
<1>9. \A u \in Threads : pc[u] \notin {"deadnap", "doomed"}
  BY <1>1 DEF KInv, Places, PlaceOf
<1>10. pc' = [pc EXCEPT ![t] = pc[t]]
  BY <1>1, <1>3
<1>11. Effects(sched, sched', {t})
  BY <1>5, NoEffect
<1> QED
  BY <1>1, <1>2, <1>3, <1>5, <1>6, <1>7, <1>8, <1>9, <1>10, <1>11, MoveKeepsKInv

\* ... makes the real leave for that thread,
LEMMA WatchdogLeaveKeeps ==
    ASSUME KInv, WatchdogLeave
    PROVE  KInv'
<1> DEFINE t == wd.th
           c == wd.cid
<1>1. /\ ~sched.broken /\ wd.at = "leaving" /\ Becomes(Leave(sched, t, c))
      /\ wd' = Idle /\ pc' = pc
  BY DEF WatchdogLeave
<1>2. /\ Consistent(sched) /\ pc \in [Threads -> PCs] /\ c \in Cores
      /\ t \in Threads /\ t \notin Members(sched.fakeLeaves) /\ pc[t] \in {"sys", "dead"}
  BY <1>1 DEF KInv, Places, WatchOf, Watchdogs
<1> HIDE DEF t, c
<1>3. wd' \in Watchdogs /\ wd'.at = "idle"
  <2>1. 0 \in Cores
    BY NoThreadIs DEF ThreadInfos, NoThread
  <2> QED
    BY <1>1, <2>1 DEF Watchdogs, Idle
<1>4. CASE Consistent(sched') /\ sched'.broken
  BY <1>1, <1>2, <1>3, <1>4, BrokenKeepsKInv
<1>5. CASE sched' \in Leave(sched, t, c) /\ ~sched'.broken
  <2>1. Left(sched, t, c, sched')
    BY <1>2, <1>5, LeaveIs
  <2>2. /\ Consistent(sched') /\ sched'.fakeLeaves = sched.fakeLeaves
        /\ Effects(sched, sched', {t})
    BY <1>2, <2>1, LeftKeeps
  <2>3. PlaceOf(sched', pc', wd', t)
    BY <1>1, <1>2, <2>2 DEF PlaceOf
  <2>4. WatchOf(sched', pc', wd')
    BY <1>3 DEF WatchOf
  <2>5. \A u \in Threads : pc[u] \notin {"deadnap", "doomed"}
    BY <1>1 DEF KInv, Places, PlaceOf
  <2>6. pc' = [pc EXCEPT ![t] = pc[t]] /\ pc[t] \in PCs
    BY <1>1, <1>2
  <2> QED
    BY <1>1, <1>2, <1>3, <2>2, <2>3, <2>4, <2>5, <2>6, MoveKeepsKInv
<1> QED
  BY <1>1, <1>2, <1>4, <1>5, Outcomes

\* ... and drives a phase.
LEMMA WatchdogTickKeeps ==
    ASSUME KInv, WatchdogTick
    PROVE  KInv'
<1>1. ~sched.broken /\ Becomes(Callback(sched)) /\ pc' = pc /\ wd' = wd
  BY DEF WatchdogTick
<1>2. /\ Consistent(sched) /\ Places(sched, pc, wd) /\ pc \in [Threads -> PCs]
      /\ wd \in Watchdogs
  BY <1>1 DEF KInv
<1>3. CASE Consistent(sched') /\ sched'.broken
  BY <1>1, <1>2, <1>3, BrokenKeepsKInv
<1>4. CASE sched' \in Callback(sched) /\ ~sched'.broken
  <2>1. Consistent(sched') /\ sched'.fakeLeaves = sched.fakeLeaves /\ Effects(sched, sched', {})
    BY <1>2, <1>4, CallbackKeeps
  <2>2. ASSUME NEW u \in Threads PROVE PlaceOf(sched', pc', wd', u)
    <3>1. PlaceOf(sched, pc, wd, u)
      BY <1>2 DEF Places
    <3> QED
      BY <1>1, <2>1, <3>1, OthersStay
  <2>3. WatchOf(sched', pc', wd')
    BY <1>1, <1>2, <2>1 DEF WatchOf, Places
  <2> QED
    BY <1>1, <1>2, <2>1, <2>2, <2>3 DEF KInv, Places
<1> QED
  BY <1>1, <1>2, <1>3, <1>4, Outcomes

-----------------------------------------------------------------------------
(* Whichever processes are killed                                          *)

\* Every step keeps the invariant.
LEMMA KillNextKeeps ==
    ASSUME KInv, [KillNext]_vars
    PROVE  KInv'
<1>1. CASE UNCHANGED vars
  BY <1>1 DEF vars, KInv
<1>2. ASSUME NEW t \in Threads, ThreadStep(t)
      PROVE  KInv'
  BY <1>2, ThreadStartKeeps, BarrierReturnKeeps, ContextReturnKeeps, ThreadSyncKeeps,
     ThreadHandoffKeeps, FakeLeaveKeeps, LeavesKeep, EnterSleepKeeps, AwayKeeps, SleepEndKeeps,
     FinishEndKeeps
     DEF ThreadStep, Finishing
<1>3. ASSUME NEW t \in Threads, ~Caught(t), ThreadJoin(t) \/ ThreadFinish(t)
      PROVE  KInv'
  BY <1>3, ThreadJoinKeeps, ThreadFinishKeeps
<1>4. CASE WatchdogStep
  BY <1>4, WatchdogStallKeeps, WatchdogLeaveKeeps, WatchdogTickKeeps DEF WatchdogStep
<1>5. ASSUME NEW t \in Threads, Kill(t) \/ Reap(t) \/ ReapSleeper(t) \/ ReapFinish(t)
      PROVE  KInv'
  BY <1>5, KillKeeps, ReapKeeps, ReapSleeperKeeps, ReapFinishKeeps
<1> QED
  BY <1>1, <1>2, <1>3, <1>4, <1>5 DEF KillNext, OrderlyNext

\* It holds throughout.
LEMMA KillSpecKInv == KillSpec => []KInv
BY InitKInv, KillNextKeeps, PTL DEF KillSpec

\* The three parts of CleanupKeeps.
LEMMA ConsistentAgrees ==
    ASSUME Consistent(sched)
    PROVE  CleanupKeeps
<1>1. Typed(sched)
  BY TableTypes DEF Consistent
<1>2. ContextsAgree
  <2>1. ASSUME NEW t \in Threads
        PROVE  StateIn(t, {"RUNNING", "OUT"}) <=> \E c \in Cores : On(c) = t
    <3>1. StateIn(t, {"RUNNING", "OUT"}) => On(sched.thr[t].cid) = t
      BY <1>1 DEF Typed, Contexts, InStates, StateIn, On
    <3>2. sched.thr[t].cid \in Cores /\ t # None
      BY <1>1 DEF Typed
    <3>3. ASSUME NEW c \in Cores, On(c) = t PROVE StateIn(t, {"RUNNING", "OUT"})
      BY <1>1, <3>2, <3>3 DEF Typed, Contexts, StateIn, On
    <3> QED
      BY <3>1, <3>2, <3>3
  <2>2. ASSUME NEW c \in Cores
        PROVE  /\ On(c) = None <=> c \in Members(sched.freeList)
               /\ On(c) # None => sched.thr[On(c)].cid = c
    <3>1. Members(sched.freeList) = {d \in Cores : sched.cur[d] = None}
      BY <1>1 DEF Typed, Lists, Holds
    <3> QED
      BY <1>1, <3>1 DEF Typed, Contexts, On
  <2>3. Members(sched.outQueue) = {t \in Threads : StateIn(t, {"OUT"})}
    BY <1>1 DEF Typed, Lists, Holds, InStates, StateIn
  <2>4. Members(sched.sleepQueue) = {t \in Threads : StateIn(t, {"SLEEPING"})}
    BY <1>1 DEF Typed, Lists, Holds, InStates, StateIn
  <2>5. \A q \in {sched.freeList, sched.runQueue, sched.outQueue, sched.sleepQueue,
                  sched.fakeLeaves} : IsInjective(q)
    BY <1>1 DEF Typed, Lists, Holds
  <2> QED
    BY <2>1, <2>2, <2>3, <2>4, <2>5 DEF ContextsAgree
<1>3. BarrierAgrees
  BY DEF BarrierAgrees, Consistent, Fits, Runs, On, StateIn
<1>4. WorkConserving
  <2>1. \A t \in Members(sched.runQueue) : \A c \in Mask[t] : Runs(sched, c)
    BY <1>1 DEF Typed, Conserves
  <2> QED
    BY <2>1 DEF WorkConserving, Runs, On, StateIn
<1> QED
  BY <1>2, <1>3, <1>4 DEF CleanupKeeps

\* KillSpec's type invariant: the cids and phases stay in range, and no
\* deadline is negative, whichever processes are killed.
THEOREM KillTypes == KillSpec => []TypeOK
<1>1. KInv => TypeOK
  BY DEF KInv, Consistent, Tables, TypeOK
<1> QED
  BY <1>1, KillSpecKInv, PTL

\* Threads, contexts, lists, the barrier and the recorders agree, and no
\* thread queues for a core that is not in use, whichever processes are
\* killed, wherever they are, and reaped by the watchdog.
THEOREM CleanupIsSafe == KillSpec => []CleanupKeeps
<1>1. KInv => CleanupKeeps
  BY ConsistentAgrees DEF KInv
<1> QED
  BY <1>1, KillSpecKInv, PTL

-----------------------------------------------------------------------------
(* Without kills (OrderlySpec): no assertion or panic fires, no thread that *)
(* queues or sleeps is forgotten, no thread runs on a core outside its mask *)
(* and time stands still for those inside the simulation.                   *)

\* A thread that queues is on the run queue, or promised a context; but for
\* those of T.
Awaited(s, T) ==
    \A t \in Threads \ T : s.thr[t].state = "QUEUED" =>
        t \in Members(s.runQueue) \/ Promised(s, t)

\* A sleeper's deadline is to come, its futex word is set, and the sleepers
\* are in the order of their deadlines.
SleepFor(i) == i.state = "SLEEPING" => i.wakeIn > 0 /\ i.word = 1

\* All of it, for the sleepers.
Asleep(s) == Sorted(s, s.sleepQueue) /\ \A t \in Threads : SleepFor(s.thr[t])

\* A thread has, or will be handed, only a core that its mask allows; and
\* only a thread that runs hands its core over.
HandsTo(i) == i.handoff # None => i.state = "RUNNING" /\ i.cid \in Mask[i.handoff]

\* All of it, for the masks.
Allowed(s) ==
    /\ \A c \in Cores : s.cur[c] # None => c \in Mask[s.cur[c]]
    /\ \A u \in Threads : HandsTo(s.thr[u])

\* What holds of the tables as long as no process is killed; T holds the
\* thread that an operation is about to place.
Ready(s, T) == Tables(s) /\ ~s.broken /\ Awaited(s, T) /\ Asleep(s) /\ Allowed(s)

\* ... and of the barrier.
Good(s) == Consistent(s) /\ Ready(s, {}) /\ IndicesKnown(s.bar)

\* The parts of a queue r that kept the order of the queue q.
Follows(r, q) ==
    \A k, l \in 1..Len(r) : k < l =>
        \E i, j \in 1..Len(q) : i < j /\ r[k] = q[i] /\ r[l] = q[j]

\* A change of the tables that puts nobody to sleep, and neither moves a
\* thread that is to hand over nor promises anything.
Steady(s, m, T) ==
    /\ Tables(m) /\ ~m.broken /\ Awaited(m, T)
    /\ Follows(m.sleepQueue, s.sleepQueue)
    /\ \A u \in Threads : m.thr[u].state = "SLEEPING" =>
         /\ s.thr[u].state = "SLEEPING" /\ m.thr[u].word = s.thr[u].word
         /\ m.thr[u].wakeIn = s.thr[u].wakeIn
    /\ \A c \in Cores : m.cur[c] # None => m.cur[c] = s.cur[c] \/ c \in Mask[m.cur[c]]
    /\ \A u \in Threads : m.thr[u].handoff # None =>
         /\ m.thr[u].handoff = s.thr[u].handoff /\ m.thr[u].cid = s.thr[u].cid
         /\ m.thr[u].state = s.thr[u].state

\* The members of the sleep queue are threads that sleep.
LEMMA SleepersAre ==
    ASSUME NEW s, Tables(s)
    PROVE  /\ Members(s.sleepQueue) \subseteq Threads
           /\ \A t \in Threads : t \in Members(s.sleepQueue) <=> s.thr[t].state = "SLEEPING"
           /\ \A i \in 1..Len(s.sleepQueue) : s.sleepQueue[i] \in Members(s.sleepQueue)
<1>1. Members(s.sleepQueue) = InStates(s, {"SLEEPING"})
  BY TableTypes DEF Typed, Lists, Holds
<1> QED
  BY <1>1 DEF InStates, Members

\* A queue that kept the order is sorted.
LEMMA FollowsSorted ==
    ASSUME NEW s, NEW m, NEW q, NEW r, Sorted(s, q), Follows(r, q),
           \A i \in 1..Len(r) : m.thr[r[i]].wakeIn = s.thr[r[i]].wakeIn
    PROVE  Sorted(m, r)
<1> SUFFICES ASSUME NEW k \in 1..Len(r), NEW l \in 1..Len(r), k < l
             PROVE  m.thr[r[k]].wakeIn <= m.thr[r[l]].wakeIn
  BY DEF Sorted
<1>1. PICK i, j \in 1..Len(q) : i < j /\ r[k] = q[i] /\ r[l] = q[j]
  BY DEF Follows
<1>2. s.thr[q[i]].wakeIn <= s.thr[q[j]].wakeIn
  BY <1>1 DEF Sorted
<1>3. m.thr[r[k]].wakeIn = s.thr[r[k]].wakeIn /\ m.thr[r[l]].wakeIn = s.thr[r[l]].wakeIn
  OBVIOUS
<1> QED
  BY <1>1, <1>2, <1>3

\* Such a change keeps what holds without kills.
LEMMA SteadyKeeps ==
    ASSUME NEW s, NEW S, Ready(s, S), NEW m, NEW T, Steady(s, m, T)
    PROVE  Ready(m, T)
<1>1. Tables(m) /\ ~m.broken /\ Awaited(m, T) /\ Tables(s) /\ Asleep(s) /\ Allowed(s)
  BY DEF Steady, Ready
<1>2. ASSUME NEW u \in Threads, m.thr[u].state = "SLEEPING"
      PROVE  /\ s.thr[u].state = "SLEEPING" /\ m.thr[u].word = s.thr[u].word
             /\ m.thr[u].wakeIn = s.thr[u].wakeIn
  BY <1>2 DEF Steady
<1>3. \A t \in Threads : SleepFor(m.thr[t])
  BY <1>1, <1>2 DEF Asleep, SleepFor
<1>4. Sorted(m, m.sleepQueue)
  <2>1. \A i \in 1..Len(m.sleepQueue) :
          m.thr[m.sleepQueue[i]].wakeIn = s.thr[m.sleepQueue[i]].wakeIn
    BY <1>1, <1>2, SleepersAre
  <2>2. Follows(m.sleepQueue, s.sleepQueue)
    BY DEF Steady
  <2> QED
    BY <1>1, <2>1, <2>2, FollowsSorted DEF Asleep
<1>5. \A c \in Cores : m.cur[c] # None => c \in Mask[m.cur[c]]
  BY <1>1 DEF Allowed, Steady
<1>6. \A u \in Threads : HandsTo(m.thr[u])
  BY <1>1 DEF Allowed, HandsTo, Steady
<1> QED
  BY <1>1, <1>3, <1>4, <1>5, <1>6 DEF Ready, Asleep, Allowed

-----------------------------------------------------------------------------
(* The end of a phase                                                      *)

\* Whose deadline is met sleeps until now; and who is past it is awake.
LEMMA DueIs ==
    ASSUME NEW s, Tables(s), Asleep(s)
    PROVE  /\ \A t \in Due(s) : /\ t \in Threads /\ s.thr[t].state = "SLEEPING"
                                /\ s.thr[t].wakeIn = 1 /\ s.thr[t].word = 1
           /\ \A t \in Threads \ Due(s) : s.thr[t].state = "SLEEPING" => s.thr[t].wakeIn > 1
<1> DEFINE q == s.sleepQueue
           n == Len(q)
           in(i) == s.thr[q[i]].wakeIn
<1>1. /\ q \in Seq(Threads) /\ n \in Nat
      /\ \A t \in Threads : s.thr[t].wakeIn \in Nat
  BY TableTypes, NoWait DEF Typed, ThreadInfos
<1>2. \A i \in 1..n : q[i] \in Threads /\ in(i) \in Nat
  BY <1>1
<1>3. ASSUME NEW t \in Due(s)
      PROVE  /\ t \in Threads /\ s.thr[t].state = "SLEEPING"
             /\ s.thr[t].wakeIn = 1 /\ s.thr[t].word = 1
  <2>1. PICK i \in 1..n : t = q[i] /\ \A k \in 1..i : in(k) <= 1
    BY DEF Due
  <2>2. in(i) <= 1
    BY <1>1, <2>1
  <2>3. t \in Threads /\ s.thr[t].state = "SLEEPING"
    BY <1>2, <2>1, SleepersAre
  <2>4. s.thr[t].wakeIn > 0 /\ s.thr[t].word = 1
    BY <2>3 DEF Asleep, SleepFor
  <2> QED
    BY <1>1, <2>1, <2>2, <2>3, <2>4
<1>4. ASSUME NEW t \in Threads, t \notin Due(s), s.thr[t].state = "SLEEPING"
      PROVE  s.thr[t].wakeIn > 1
  <2>1. PICK i \in 1..n : q[i] = t
    BY <1>4, SleepersAre DEF Members
  <2>2. PICK k \in 1..i : ~(in(k) <= 1)
    BY <1>4, <2>1 DEF Due
  <2>3. k \in 1..n /\ (k < i \/ k = i)
    BY <1>1, <2>1, <2>2
  <2>4. in(k) <= in(i)
    BY <1>2, <2>1, <2>3 DEF Asleep, Sorted
  <2> QED
    BY <1>2, <2>1, <2>2, <2>3, <2>4
<1> QED
  BY <1>3, <1>4

\* Counting the phase keeps what holds without kills.
LEMMA PhaseMovedReady ==
    ASSUME NEW s, Ready(s, {}), NEW m, PhaseMoved(s, m)
    PROVE  Ready(m, {})
<1>1. /\ Tables(s) /\ ~s.broken /\ Awaited(s, {}) /\ Asleep(s) /\ Allowed(s)
      /\ Tables(m) /\ m.cur = s.cur /\ m.runQueue = s.runQueue /\ m.broken = s.broken
      /\ m.sleepQueue = Without(s.sleepQueue, Due(s))
  BY DEF Ready, PhaseMoved
<1>2. /\ \A t \in Due(s) : /\ t \in Threads /\ s.thr[t].state = "SLEEPING"
                           /\ s.thr[t].wakeIn = 1 /\ s.thr[t].word = 1
      /\ \A t \in Threads \ Due(s) : s.thr[t].state = "SLEEPING" => s.thr[t].wakeIn > 1
  BY <1>1, DueIs
<1>3. ASSUME NEW u \in Threads
      PROVE  /\ m.thr[u].cid = s.thr[u].cid /\ m.thr[u].handoff = s.thr[u].handoff
             /\ u \in Due(s) => m.thr[u].state = "BLOCKED"
             /\ u \notin Due(s) =>
                  /\ m.thr[u].state = s.thr[u].state /\ m.thr[u].word = s.thr[u].word
                  /\ m.thr[u].wakeIn = IF s.thr[u].wakeIn > 0 THEN s.thr[u].wakeIn - 1 ELSE 0
  BY DEF PhaseMoved
<1>4. \A u \in Threads : s.thr[u].wakeIn \in Nat
  BY <1>1, TableTypes, NoWait DEF Typed, ThreadInfos
<1>5. Awaited(m, {})
  <2> SUFFICES ASSUME NEW u \in Threads, m.thr[u].state = "QUEUED"
               PROVE  u \in Members(m.runQueue) \/ Promised(m, u)
    BY DEF Awaited
  <2>1. s.thr[u].state = "QUEUED"
    BY <1>3
  <2>2. u \in Members(s.runQueue) \/ Promised(s, u)
    BY <1>1, <2>1 DEF Awaited
  <2> QED
    BY <1>1, <1>3, <2>2 DEF Promised
<1>6. \A u \in Threads : m.thr[u].state = "SLEEPING" =>
        /\ m.thr[u].wakeIn = s.thr[u].wakeIn - 1 /\ m.thr[u].wakeIn > 0 /\ m.thr[u].word = 1
        /\ s.thr[u].state = "SLEEPING"
  <2> SUFFICES ASSUME NEW u \in Threads, m.thr[u].state = "SLEEPING"
               PROVE  /\ m.thr[u].wakeIn = s.thr[u].wakeIn - 1 /\ m.thr[u].wakeIn > 0
                      /\ m.thr[u].word = 1 /\ s.thr[u].state = "SLEEPING"
    OBVIOUS
  <2>1. u \notin Due(s) /\ s.thr[u].state = "SLEEPING"
    BY <1>3
  <2>2. s.thr[u].wakeIn > 1 /\ s.thr[u].word = 1
    BY <1>1, <1>2, <2>1 DEF Asleep, SleepFor
  <2> QED
    BY <1>3, <1>4, <2>1, <2>2
<1>7. Sorted(m, m.sleepQueue)
  <2> DEFINE r == m.sleepQueue
             q == s.sleepQueue
  <2>1. Follows(r, q)
    <3>1. q \in Seq(Threads)
      BY <1>1, TableTypes DEF Typed
    <3>2. r = Without(q, Due(s))
      BY <1>1
    <3> HIDE DEF r, q
    <3>3. \A k, l \in 1..Len(r) : k < l =>
            \E i, j \in 1..Len(q) : i < j /\ r[k] = q[i] /\ r[l] = q[j]
      BY <3>1, <3>2, WithoutIs
    <3> QED
      BY <3>3 DEF Follows
  <2>2. \A i \in 1..Len(r) : r[i] \in Threads /\ m.thr[r[i]].state = "SLEEPING"
    BY <1>1, SleepersAre
  <2> SUFFICES ASSUME NEW k \in 1..Len(r), NEW l \in 1..Len(r), k < l
               PROVE  m.thr[r[k]].wakeIn <= m.thr[r[l]].wakeIn
    BY DEF Sorted
  <2>3. PICK i, j \in 1..Len(q) : i < j /\ r[k] = q[i] /\ r[l] = q[j]
    BY <2>1 DEF Follows
  <2>4. s.thr[r[k]].wakeIn <= s.thr[r[l]].wakeIn
    BY <1>1, <2>3 DEF Asleep, Sorted
  <2>5. /\ m.thr[r[k]].wakeIn = s.thr[r[k]].wakeIn - 1
        /\ m.thr[r[l]].wakeIn = s.thr[r[l]].wakeIn - 1
        /\ s.thr[r[k]].wakeIn \in Nat /\ s.thr[r[l]].wakeIn \in Nat
    BY Zenon, <1>4, <1>6, <2>2
  <2> DEFINE w == s.thr[r[k]].wakeIn
             v == s.thr[r[l]].wakeIn
             mw == m.thr[r[k]].wakeIn
             mv == m.thr[r[l]].wakeIn
  <2>6. w <= v /\ mw = w - 1 /\ mv = v - 1 /\ w \in Nat /\ v \in Nat
    BY <2>4, <2>5
  <2> HIDE DEF w, v, mw, mv
  <2>7. mw <= mv
    BY <2>6
  <2> QED
    BY <2>7 DEF mw, mv
<1>8. Allowed(m)
  <2>1. \A u \in Threads : HandsTo(m.thr[u])
    <3> SUFFICES ASSUME NEW u \in Threads PROVE HandsTo(m.thr[u])
      OBVIOUS
    <3>1. HandsTo(s.thr[u])
      BY <1>1 DEF Allowed
    <3> QED
      BY <1>2, <1>3, <3>1 DEF HandsTo
  <2> QED
    BY <1>1, <2>1 DEF Allowed
<1> QED
  BY <1>1, <1>5, <1>6, <1>7, <1>8 DEF Ready, Asleep, SleepFor

\* Promising contexts keeps it.
LEMMA HandedOutReady ==
    ASSUME NEW s, Ready(s, {}), NEW m, HandedOut(s, m),
           \A u \in Threads : s.thr[u].handoff = None
    PROVE  Ready(m, {})
<1>1. /\ Tables(s) /\ ~s.broken /\ Awaited(s, {}) /\ Asleep(s) /\ Allowed(s)
      /\ Tables(m) /\ m.cur = s.cur /\ m.broken = s.broken /\ m.sleepQueue = s.sleepQueue
      /\ \A x \in Members(s.runQueue) : x \in Members(m.runQueue) \/ Promised(m, x)
  BY DEF Ready, HandedOut
<1>2. ASSUME NEW u \in Threads
      PROVE  \/ m.thr[u] = s.thr[u]
             \/ \E x \in Members(s.runQueue) : \E c \in Mask[x] :
                  /\ s.cur[c] = u /\ x # None
                  /\ m.thr[u].state = s.thr[u].state /\ m.thr[u].cid = s.thr[u].cid
                  /\ m.thr[u].word = s.thr[u].word /\ m.thr[u].wakeIn = s.thr[u].wakeIn
                  /\ m.thr[u].handoff = x
  <2>1. CASE PromisedOne(s, s.thr[u], m.thr[u], u)
    <3>0. PICK x \in Members(s.runQueue) : \E c \in Mask[x] :
            s.cur[c] = u /\ m.thr[u] = [s.thr[u] EXCEPT !.handoff = x]
      BY <2>1 DEF PromisedOne
    <3>1. PICK c \in Mask[x] : s.cur[c] = u /\ m.thr[u] = [s.thr[u] EXCEPT !.handoff = x]
      BY <3>0
    <3>2. x # None /\ s.thr[u] \in ThreadInfos
      BY <1>1, TableTypes DEF Typed
    <3> QED
      BY <3>1, <3>2 DEF ThreadInfos
  <2> QED
    BY <2>1 DEF HandedOut
<1>3. \A u \in Threads : /\ m.thr[u].state = s.thr[u].state /\ m.thr[u].cid = s.thr[u].cid
                         /\ m.thr[u].word = s.thr[u].word /\ m.thr[u].wakeIn = s.thr[u].wakeIn
                         /\ m.thr[u].handoff # s.thr[u].handoff =>
                              \E x \in Members(s.runQueue) : \E c \in Mask[x] :
                                s.cur[c] = u /\ m.thr[u].handoff = x
  BY <1>2
<1>4. Awaited(m, {})
  <2> SUFFICES ASSUME NEW t \in Threads, m.thr[t].state = "QUEUED"
               PROVE  t \in Members(m.runQueue) \/ Promised(m, t)
    BY DEF Awaited
  <2>1. t \in Members(s.runQueue) \/ Promised(s, t)
    BY <1>1, <1>3 DEF Awaited
  <2>2. CASE t \in Members(s.runQueue)
    BY <1>1, <2>2
  <2>3. CASE Promised(s, t)
    BY <1>1, <2>3, TableTypes DEF Typed, Promised
  <2> QED
    BY <2>1, <2>2, <2>3
<1>5. Asleep(m)
  <2>1. \A u \in Threads : SleepFor(m.thr[u])
    BY <1>1, <1>3 DEF Asleep, SleepFor
  <2>2. Sorted(m, m.sleepQueue)
    <3>1. Follows(s.sleepQueue, s.sleepQueue)
      BY DEF Follows
    <3>2. \A i \in 1..Len(s.sleepQueue) : s.sleepQueue[i] \in Threads
      BY <1>1, SleepersAre
    <3> QED
      BY <1>1, <1>3, <3>1, <3>2, FollowsSorted DEF Asleep
  <2> QED
    BY <2>1, <2>2 DEF Asleep
<1>6. Allowed(m)
  <2> SUFFICES ASSUME NEW u \in Threads PROVE HandsTo(m.thr[u])
    BY <1>1 DEF Allowed
  <2>1. CASE m.thr[u].handoff = s.thr[u].handoff
    BY <2>1 DEF HandsTo
  <2>2. CASE m.thr[u].handoff # s.thr[u].handoff
    <3>1. PICK x \in Members(s.runQueue) : \E c \in Mask[x] : s.cur[c] = u /\ m.thr[u].handoff = x
      BY <1>3, <2>2
    <3>2. PICK c \in Mask[x] : s.cur[c] = u /\ m.thr[u].handoff = x
      BY <3>1
    <3>3. Runs(s, c) /\ c \in Cores
      BY <1>1, <3>1, <3>2, TableTypes DEF Typed, Conserves
    <3>4. s.thr[u].cid = c /\ s.thr[u].state = "RUNNING"
      BY <1>1, <3>2, <3>3, TableTypes DEF Typed, Contexts, Runs
    <3> QED
      BY <1>3, <3>2, <3>4 DEF HandsTo
  <2> QED
    BY <2>1, <2>2
<1> QED
  BY <1>1, <1>4, <1>5, <1>6 DEF Ready

\* What the end of a phase does to a thread: it may end a sleep, and have one
\* that runs hand its core over.
Dawns(i, j) ==
    /\ j.marked = i.marked
    /\ j.handoff = i.handoff \/ i.state = "RUNNING"
    /\ \/ j.state = i.state /\ j.word = i.word /\ j.cid = i.cid
       \/ i.state = "SLEEPING" /\ j.state = "BLOCKED" /\ j.word = 0

\* ... to every thread.
Dawned(s, m) == \A u \in Threads : Dawns(s.thr[u], m.thr[u])

\* The end of a phase before which nobody is to hand over.
LEMMA CalledBackReady ==
    ASSUME NEW s, Ready(s, {}), \A u \in Threads : s.thr[u].handoff = None,
           NEW k, CalledBack(s, k)
    PROVE  Ready(k, {}) /\ Dawned(s, k)
<1>1. PICK m : PhaseMoved(s, m) /\ (k = m \/ HandedOut(m, k))
  BY DEF CalledBack
<1>2. Ready(m, {})
  BY <1>1, PhaseMovedReady
<1>3. /\ \A u \in Threads :
           /\ m.thr[u].cid = s.thr[u].cid /\ m.thr[u].marked = s.thr[u].marked
           /\ m.thr[u].handoff = s.thr[u].handoff
           /\ u \in Due(s) => m.thr[u].state = "BLOCKED" /\ m.thr[u].word = 0
           /\ u \notin Due(s) => m.thr[u].state = s.thr[u].state /\ m.thr[u].word = s.thr[u].word
      /\ \A u \in Due(s) : u \in Threads => s.thr[u].state = "SLEEPING"
  BY <1>1, DueIs DEF PhaseMoved, Ready
<1>4. ASSUME NEW u \in Threads PROVE Dawns(s.thr[u], m.thr[u])
  <2>1. CASE u \in Due(s)
    BY <1>3, <2>1 DEF Dawns
  <2>2. CASE u \notin Due(s)
    BY <1>3, <2>2 DEF Dawns
  <2> QED
    BY <2>1, <2>2
<1>5. CASE k = m
  BY <1>2, <1>4, <1>5 DEF Dawned
<1>6. CASE HandedOut(m, k)
  <2>1. Ready(k, {})
    BY <1>2, <1>3, <1>6, HandedOutReady
  <2>2. Tables(m)
    BY <1>1 DEF PhaseMoved
  <2>3. ASSUME NEW u \in Threads PROVE Dawns(s.thr[u], k.thr[u])
    <3>1. CASE k.thr[u] = m.thr[u]
      BY <1>4, <3>1
    <3>2. CASE PromisedOne(m, m.thr[u], k.thr[u], u)
      <4>1. PICK x \in Members(m.runQueue) : \E c \in Mask[x] :
              m.cur[c] = u /\ k.thr[u] = [m.thr[u] EXCEPT !.handoff = x]
        BY <3>2 DEF PromisedOne
      <4>2. PICK c \in Mask[x] : m.cur[c] = u /\ k.thr[u] = [m.thr[u] EXCEPT !.handoff = x]
        BY <4>1
      <4>3. m.thr[u].state = "RUNNING" /\ m.thr[u] \in ThreadInfos
        BY <2>2, <4>1, <4>2, TableTypes DEF Typed, Conserves, Runs
      <4>4. /\ k.thr[u].state = m.thr[u].state /\ k.thr[u].word = m.thr[u].word
            /\ k.thr[u].cid = m.thr[u].cid /\ k.thr[u].marked = m.thr[u].marked
        BY <4>2, <4>3 DEF ThreadInfos
      <4>5. s.thr[u].state = "RUNNING" /\ Dawns(s.thr[u], m.thr[u])
        BY <1>3, <1>4, <4>3
      <4> QED
        BY <4>3, <4>4, <4>5 DEF Dawns
    <3> QED
      BY <1>6, <3>1, <3>2 DEF HandedOut
  <2> QED
    BY <2>1, <2>3 DEF Dawned
<1> QED
  BY <1>1, <1>5, <1>6

-----------------------------------------------------------------------------
(* No assertion fails                                                      *)

\* An outcome of an assertion that holds.
LEMMA AssertingIs ==
    ASSUME NEW p, NEW s, NEW S, p, NEW r \in Asserting(p, s, S)
    PROVE  r \in S
BY DEF Asserting

\* The sleepers that are due are met at their deadline, and can be woken;
\* and a core that schedTick picks has a thread.
LEMMA CallbackSafe ==
    ASSUME NEW s, Tables(s), Asleep(s), ~s.broken, NEW r \in Callback(s)
    PROVE  ~r.broken
<1> DEFINE c == NextCurPhase(s)
<1>1. \A t \in Due(s) : s.thr[t].wakeIn = 1 /\ CanWake(s, t)
  BY DueIs DEF CanWake
<1>2. r \in (IF c.runQueue # <<>> /\ c.phase = 0 THEN SchedTick(c) ELSE {c})
  BY <1>1 DEF Callback, Asserting
<1>3. Tables(c) /\ c.broken = s.broken
  BY NextCurPhaseIs DEF PhaseMoved
<1> HIDE DEF c
<1>4. CASE r \in SchedTick(c)
  <2>1. PICK p \in Pairings(c) :
          r \in Asserting(\A i \in DOMAIN p : p[i] # None => c.cur[p[i]] # None,
                          c, {HandOver(c, p)})
    BY Zenon, <1>4 DEF SchedTick
  <2>2. \A i \in DOMAIN p : p[i] # None => c.cur[p[i]] # None
    <3> SUFFICES ASSUME NEW i \in DOMAIN p, p[i] # None PROVE c.cur[p[i]] # None
      OBVIOUS
    <3>1. i \in 1..Len(c.runQueue) /\ p[i] \in Mask[c.runQueue[i]]
      BY <1>3, PairingFacts
    <3>2. c.runQueue[i] \in Members(c.runQueue)
      BY <3>1 DEF Members
    <3>3. Runs(c, p[i])
      BY <1>3, <3>1, <3>2 DEF Tables, Conserves
    <3> QED
      BY <3>3 DEF Runs
  <2>3. r = HandOver(c, p)
    BY <2>1, <2>2 DEF Asserting
  <2>4. HandedOut(c, HandOver(c, p))
    BY <1>3, <2>2, HandOverIs
  <2> QED
    BY <1>3, <2>3, <2>4 DEF HandedOut
<1> QED
  BY <1>2, <1>3, <1>4

\* So no call of tryWakeNext fails an assertion.
LEMMA WithBarrierSafe ==
    ASSUME NEW s, Tables(s), Asleep(s), ~s.broken, NEW b, WF(b), NEW r \in WithBarrier(s, b)
    PROVE  ~r.broken
<1>1. TryWakeNextAsserts(b)
  BY TryWakeNextIsSafe
<1>2. PICK c \in TryWakeNext(b) :
        r \in (IF c.phaseCount = b.phaseCount THEN {[s EXCEPT !.bar = c]}
               ELSE {[k EXCEPT !.bar = c] : k \in Callback(s)})
  BY <1>1 DEF WithBarrier, Asserting
<1>3. s \in Schedulers /\ \A k \in Callback(s) : k \in Schedulers /\ ~k.broken
  BY CallbackIs, CallbackSafe DEF Tables
<1>4. \A k \in Schedulers : [k EXCEPT !.bar = c].broken = k.broken
  BY DEF Schedulers
<1>5. CASE r = [s EXCEPT !.bar = c]
  BY <1>3, <1>4, <1>5
<1>6. CASE \E k \in Callback(s) : r = [k EXCEPT !.bar = c]
  BY <1>3, <1>4, <1>6
<1> QED
  BY <1>2, <1>5, <1>6

\* A core that nobody runs on may join, and its place in the list is known.
LEMMA JoinCoreSafe ==
    ASSUME NEW s, Tables(s), Asleep(s), ~s.broken, WF(s.bar), IndicesKnown(s.bar),
           NEW c \in Cores, c \notin s.active, s.bar.state[c] \in {"LEFT", "OFFLINE"},
           NEW r \in JoinCore(s, c)
    PROVE  ~r.broken
<1>1. RejoinAssert(s.bar, c)
  BY DEF RejoinAssert, Rejoins, IndicesKnown, Cores
<1>2. r \in WithBarrier([s EXCEPT !.active = @ \cup {c}], Joining(s.bar, c))
  BY <1>1 DEF JoinCore, Asserting
<1> DEFINE a == Activated(s, s.active \cup {c})
<1>3. a = [s EXCEPT !.active = @ \cup {c}]
  BY DEF Activated
<1>4. s.active \cup {c} \in SUBSET Cores
  BY TableTypes DEF Typed
<1>5. Tables(a) /\ a.broken = s.broken /\ a.sleepQueue = s.sleepQueue /\ a.thr = s.thr
  BY <1>4, ActivatedIs
<1> HIDE DEF a
<1>6. Asleep(a)
  BY <1>5 DEF Asleep, Sorted
<1>7. WF(Joining(s.bar, c))
  BY Zenon, <1>1, JoiningWorks DEF Cores
<1> QED
  BY Zenon, <1>2, <1>3, <1>5, <1>6, <1>7, WithBarrierSafe

\* A thread that is placed finds its core on the list it was found on.
LEMMA PlaceThreadSafe ==
    ASSUME NEW s, Consistent(s), Asleep(s), ~s.broken, IndicesKnown(s.bar), NEW t \in Threads,
           s.thr[t].state \in {"STARTED", "BLOCKED", "QUEUED"},
           t \notin Members(s.runQueue), ~Promised(s, t), NEW r \in PlaceThread(s, t)
    PROVE  ~r.broken
<1> DEFINE c == SchedThread(s, t)
<1>1. Tables(s) /\ Typed(s)
  BY TableTypes DEF Consistent
<1>2. CASE c = None
  <2>1. r = Queued(s, t)
    BY <1>2 DEF PlaceThread, Queued
  <2>2. QueuedUp(s, Queued(s, t), t)
    BY <1>1, <1>2, QueuedIs
  <2> QED
    BY <2>1, <2>2 DEF QueuedUp
<1>3. CASE c # None
  <2>1. c \in Cores
    BY <1>1, <1>3, SchedThreadIs
  <2>2. CanTake(s, c)
    <3>1. CASE s.cur[c] = None
      <4>1. c \in Members(s.freeList)
        BY <1>1, <2>1, <3>1 DEF Typed, Lists, Holds
      <4> QED
        BY <3>1, <4>1 DEF CanTake
    <3>2. CASE s.cur[c] # None
      <4> DEFINE free  == FirstOf(s.freeList, Mask[t])
                 outTh == FirstOf(s.outQueue, {u \in Threads : s.thr[u].cid \in Mask[t]})
      <4>1. free # None => free \in Members(s.freeList)
        BY <1>1, FirstOfIs DEF Typed
      <4>2. c # free
        <5> SUFFICES ASSUME c = free PROVE FALSE
          OBVIOUS
        <5>1. c \in Members(s.freeList)
          BY <1>3, <4>1
        <5> QED
          BY <1>1, <3>2, <5>1 DEF Typed, Lists, Holds
      <4>3. outTh # None => outTh \in Members(s.outQueue)
        BY <1>1, FirstOfIs DEF Typed
      <4>4. outTh # None /\ c = s.thr[outTh].cid
        <5> HIDE DEF free, outTh
        <5>1. c = IF s.cur[s.thr[t].cid] = None /\ s.thr[t].cid \in Mask[t] THEN s.thr[t].cid
                  ELSE IF free # None THEN free
                  ELSE IF outTh # None THEN s.thr[outTh].cid ELSE None
          BY DEF SchedThread, free, outTh
        <5> QED
          BY <1>3, <3>2, <4>2, <5>1
      <4> HIDE DEF free, outTh, c
      <4>5. outTh \in InStates(s, {"OUT"}) /\ outTh \in Members(s.outQueue)
        BY <1>1, <4>3, <4>4 DEF Typed, Lists, Holds
      <4>6. s.thr[outTh].state = "OUT" /\ outTh \in Threads
        BY <4>5 DEF InStates
      <4>7. s.cur[c] = outTh
        BY <1>1, <4>4, <4>6 DEF Typed, Contexts, InStates
      <4> QED
        BY <3>2, <4>4, <4>5, <4>6, <4>7 DEF CanTake, CanDeschedule
    <3> QED
      BY <3>1, <3>2
  <2>3. CanSchedule(TakeContext(s, c), t, c)
    <3>1. ContextTaken(s, TakeContext(s, c), c)
      BY <1>1, <2>1, <2>2, TakeContextIs
    <3>2. t # s.cur[c]
      <4>1. SUFFICES ASSUME t = s.cur[c] PROVE FALSE
        OBVIOUS
      <4>2. s.cur[c] # None
        BY Zenon, <1>1, <4>1 DEF Typed
      <4>3. s.thr[t].state \in {"RUNNING", "OUT"}
        BY Zenon, <1>1, <2>1, <4>1, <4>2 DEF Typed, Contexts
      <4> QED
        BY <4>3
    <3>3. TakeContext(s, c).thr[t] = s.thr[t]
      BY <3>1, <3>2 DEF ContextTaken
    <3>4. TakeContext(s, c).cur[c] = None
      <4>1. s \in Schedulers /\ s.cur \in [Cores -> Threads \cup {None}]
        BY <1>1 DEF Typed
      <4>2. CASE s.cur[c] = None
        BY <4>1, <4>2 DEF TakeContext, Schedulers
      <4>3. CASE s.cur[c] # None
        BY <2>1, <4>1, <4>3 DEF TakeContext, Deschedule, Schedulers
      <4> QED
        BY <4>2, <4>3
    <3> QED
      BY <3>3, <3>4 DEF CanSchedule
  <2>4. r \in JoinCore(Placed(s, t, c), c)
    BY <1>3, <2>2, <2>3 DEF PlaceThread, Asserting, Placed
  <2>5. PlacedOn(s, Placed(s, t, c), t, c)
    BY <1>1, <2>1, <2>2, PlacedIs
  <2> DEFINE m == Placed(s, t, c)
  <2> HIDE DEF m, c
  <2>6. Tables(m) /\ ~Runs(s, c) /\ m.active = s.active /\ m.bar = s.bar /\ m.broken = s.broken
        /\ m.sleepQueue = s.sleepQueue
    BY <2>5 DEF PlacedOn, m
  <2>7. c \notin s.active /\ s.bar.state[c] \in {"LEFT", "OFFLINE"} /\ WF(s.bar)
    <3>1. WF(s.bar) /\ Fits(s, s.bar)
      BY DEF Consistent
    <3>2. s.bar.state[c] \in States
      BY <2>1, <3>1 DEF WF, Listing, Barriers, Cores
    <3> QED
      BY <2>1, <2>6, <3>1, <3>2 DEF Fits, States
  <2>8. Asleep(m)
    <3>1. \A u \in Threads : s.thr[u].state = "SLEEPING" => m.thr[u] = s.thr[u]
      BY <1>1, <2>5 DEF PlacedOn, m
    <3>2. \A u \in Threads : m.thr[u].state = "SLEEPING" => m.thr[u] = s.thr[u]
      <4> SUFFICES ASSUME NEW u \in Threads, m.thr[u].state = "SLEEPING"
                   PROVE  m.thr[u] = s.thr[u]
        OBVIOUS
      <4>1. u # t
        BY <1>1, <2>1, <2>5, PlacementIs DEF PlacedOn, m, Typed
      <4>2. u # s.cur[c]
        BY <1>1, <2>1, <2>5, BlockedIs DEF PlacedOn, m, Typed
      <4> QED
        BY <2>5, <4>1, <4>2 DEF PlacedOn, m
    <3>3. Sorted(m, s.sleepQueue)
      <4>1. Follows(s.sleepQueue, s.sleepQueue)
        BY DEF Follows
      <4>2. \A i \in 1..Len(s.sleepQueue) : m.thr[s.sleepQueue[i]] = s.thr[s.sleepQueue[i]]
        BY <1>1, <3>1, SleepersAre
      <4> QED
        BY <4>1, <4>2, FollowsSorted DEF Asleep
    <3> QED
      BY <2>6, <3>2, <3>3 DEF Asleep, SleepFor
  <2>9. r \in JoinCore(m, c)
    BY <2>4 DEF m
  <2> QED
    BY <2>1, <2>6, <2>7, <2>8, <2>9, JoinCoreSafe
<1> QED
  BY <1>2, <1>3

-----------------------------------------------------------------------------
(* What the others see of an operation                                     *)

\* u executes: its core has been given a slot.
Execs(s, u) == s.thr[u].state = "RUNNING" /\ s.bar.state[s.thr[u].cid] = "RUNNING"

\* Within a phase another thread only loses a core it left, or is given one;
\* it is never stopped.
Undisturbed(s, m, u) ==
    /\ m.thr[u].marked = s.thr[u].marked /\ m.thr[u].handoff = s.thr[u].handoff
    /\ \/ /\ m.thr[u].state = s.thr[u].state /\ m.thr[u].word = s.thr[u].word
          /\ m.thr[u].cid = s.thr[u].cid /\ m.thr[u].wakeIn = s.thr[u].wakeIn
       \/ s.thr[u].state = "OUT" /\ m.thr[u].state = "BLOCKED"
       \/ s.thr[u].state = "QUEUED" /\ m.thr[u].word = 0 /\ Execs(m, u)
    /\ Execs(s, u) => Execs(m, u)

\* ... but for the threads of T.
Calm(s, m, T) == \A u \in Threads \ T : Undisturbed(s, m, u)

\* Two such steps are one.
LEMMA CalmCompose ==
    ASSUME NEW s, NEW m, NEW r, NEW T, Calm(s, m, T), Calm(m, r, T)
    PROVE  Calm(s, r, T)
<1> SUFFICES ASSUME NEW u \in Threads \ T PROVE Undisturbed(s, r, u)
  BY DEF Calm
<1>1. Undisturbed(s, m, u) /\ Undisturbed(m, r, u)
  BY DEF Calm
<1>2. CASE Execs(m, u)
  BY <1>1, <1>2 DEF Undisturbed, Execs
<1>3. CASE ~Execs(m, u)
  BY <1>1, <1>3 DEF Undisturbed
<1> QED
  BY <1>2, <1>3

\* The cores that had a slot have it still.
SlotsKept(b, d) == \A c \in Cores : b.state[c] = "RUNNING" => d.state[c] = "RUNNING"

\* A barrier that only lets more cores run disturbs nobody.
LEMMA CalmBarrier ==
    ASSUME NEW s, Tables(s), NEW r, NEW T, r.thr = s.thr, SlotsKept(s.bar, r.bar)
    PROVE  Calm(s, r, T)
<1>1. \A u \in Threads : s.thr[u].cid \in Cores
  BY TableTypes DEF Typed
<1> QED
  BY <1>1 DEF Calm, Undisturbed, Execs, SlotsKept

\* The phase goes on after tryWakeNext on barrier b.
Continues(s, b, D, r) ==
    /\ r.bar.phaseCount = b.phaseCount
    /\ r.thr = s.thr /\ Scanned(r.bar, D) /\ SlotsKept(b, r.bar)

\* It is over, and the cores that ran are all done with it.
Ends(s, b, D, r) ==
    /\ r.bar.phaseCount # b.phaseCount
    /\ Dawned(s, r) /\ Scanned(r.bar, {})
    /\ \A c \in Cores : Runs(s, c) => c \in D

\* Nobody who is done has a handoff to do.
NoneOwes(s, D) == \A c \in D : s.cur[c] # None => s.thr[s.cur[c]].handoff = None

\* tryWakeNext keeps what holds without kills, and ends the phase or not.
LEMMA WokenGoes ==
    ASSUME NEW s, Ready(s, {}), NEW b, WF(b), IndicesKnown(b), Fits(s, b),
           NEW D, Scanned(b, D), NoneOwes(s, D), NEW r, Woken(s, b, r)
    PROVE  Good(r) /\ (Continues(s, b, D, r) \/ Ends(s, b, D, r))
<1>1. PICK k : \E d \in TryWakeNext(b) :
        /\ \/ k = s /\ d.phaseCount = b.phaseCount
           \/ CalledBack(s, k) /\ d.phaseCount # b.phaseCount
        /\ r = Barred(k, d)
  BY DEF Woken
<1>2. PICK d \in TryWakeNext(b) :
        /\ \/ k = s /\ d.phaseCount = b.phaseCount
           \/ CalledBack(s, k) /\ d.phaseCount # b.phaseCount
        /\ r = Barred(k, d)
  BY <1>1
<1>3. /\ WF(d) /\ IndicesKnown(d)
      /\ \A t \in Tids : \/ d.state[t] = b.state[t]
                         \/ (b.state[t] = "WAITING" /\ d.state[t] = "RUNNING")
                         \/ (b.state[t] = "LEFT" /\ d.state[t] = "OFFLINE")
  BY TryWakeNextWorks
<1>4. /\ Scanned(d, IF d.phaseCount = b.phaseCount THEN D ELSE {})
      /\ d.phaseCount # b.phaseCount => Pend(b, D) = {} /\ InState(b, "RUNNING") = {}
  BY TryWakeNextScanned
<1>5. Tables(s) /\ d \in Barriers
  BY <1>3 DEF Ready, WF, Listing
<1>6. Consistent(r)
  BY <1>5, WokenKeeps
<1>7. SlotsKept(b, d)
  BY <1>3 DEF SlotsKept, Cores
<1>8. CASE k = s /\ d.phaseCount = b.phaseCount
  <2>1. r.thr = s.thr /\ r.bar = d /\ r.cur = s.cur /\ r.broken = s.broken
        /\ r.runQueue = s.runQueue /\ r.sleepQueue = s.sleepQueue
    BY <1>2, <1>5, <1>8, BarredIs
  <2>2. Ready(r, {})
    BY <1>6, <2>1 DEF Ready, Consistent, Awaited, Promised, Asleep, Sorted, Allowed
  <2>3. Continues(s, b, D, r)
    BY <1>4, <1>7, <1>8, <2>1 DEF Continues
  <2> QED
    BY <1>3, <1>6, <2>1, <2>2, <2>3 DEF Good
<1>9. CASE CalledBack(s, k) /\ d.phaseCount # b.phaseCount
  <2>1. ASSUME NEW c \in Cores, Runs(s, c) PROVE c \in D
    <3>1. b.state[c] \in {"WAITING", "RUNNING"}
      BY <2>1 DEF Fits
    <3> QED
      BY <1>4, <1>9, <3>1 DEF Pend, InState, Cores
  <2>2. ASSUME NEW u \in Threads PROVE s.thr[u].handoff = None
    <3> SUFFICES ASSUME s.thr[u].handoff # None PROVE FALSE
      OBVIOUS
    <3>1. s.thr[u].state = "RUNNING"
      BY DEF Ready, Allowed, HandsTo
    <3>2. s.thr[u].cid \in Cores /\ s.cur[s.thr[u].cid] = u /\ u # None
      BY <1>5, <3>1, TableTypes DEF Typed, Contexts, InStates
    <3>3. s.thr[u].cid \in D
      BY <2>1, <3>1, <3>2 DEF Runs
    <3> QED
      BY <3>2, <3>3 DEF NoneOwes
  <2>3. Ready(k, {}) /\ Dawned(s, k)
    BY <1>9, <2>2, CalledBackReady
  <2>4. Tables(k)
    BY <2>3 DEF Ready
  <2>5. r.thr = k.thr /\ r.bar = d /\ r.cur = k.cur /\ r.broken = k.broken
        /\ r.runQueue = k.runQueue /\ r.sleepQueue = k.sleepQueue
    BY <1>2, <1>5, <2>4, BarredIs
  <2>6. Ready(r, {})
    BY <1>6, <2>3, <2>5 DEF Ready, Consistent, Awaited, Promised, Asleep, Sorted, Allowed
  <2>7. Dawned(s, r)
    BY <2>3, <2>5 DEF Dawned
  <2>8. Ends(s, b, D, r)
    BY <1>4, <1>9, <2>1, <2>5, <2>7 DEF Ends
  <2> QED
    BY <1>3, <1>6, <2>5, <2>6, <2>8 DEF Good
<1> QED
  BY <1>2, <1>8, <1>9

\* A core that joins keeps the phase going, since it is pending.
Enters(s, D, r) ==
    /\ Good(r) /\ r.thr = s.thr /\ r.bar.phaseCount = s.bar.phaseCount
    /\ Scanned(r.bar, D) /\ SlotsKept(s.bar, r.bar)

\* join does not end the phase.
LEMMA JoinedGoes ==
    ASSUME NEW s, Ready(s, {}), WF(s.bar), IndicesKnown(s.bar), NEW c \in Cores, Runs(s, c),
           FitsBut(s, c), NEW D, Scanned(s.bar, D), NEW r, Joined(s, c, r)
    PROVE  Enters(s, D, r)
<1> DEFINE a == Activated(s, s.active \cup {c})
           b == Joining(s.bar, c)
<1>1. s.bar.state[c] \in {"LEFT", "OFFLINE"} /\ RejoinAssert(s.bar, c) /\ Woken(a, b, r)
  BY DEF Joined
<1>2. Tables(s) /\ s.active \cup {c} \in SUBSET Cores /\ c \in Tids
  BY TableTypes DEF Typed, Ready, Cores
<1>3. /\ Tables(a) /\ a.thr = s.thr /\ a.cur = s.cur /\ a.broken = s.broken
      /\ a.runQueue = s.runQueue /\ a.sleepQueue = s.sleepQueue
  BY <1>2, ActivatedIs
<1>4. Ready(a, {})
  BY Zenon, <1>3 DEF Ready, Awaited, Promised, Asleep, Sorted, Allowed
<1>5. /\ WF(b) /\ IndicesKnown(b) /\ b.phaseCount = s.bar.phaseCount
      /\ b.state = [s.bar.state EXCEPT ![c] = "WAITING"]
  BY <1>1, <1>2, JoiningWorks
<1>6. Fits(a, b)
  BY <1>2, JoinedKeeps
<1>7. Scanned(b, D) /\ Pend(b, D) = Pend(s.bar, D) \cup {c}
  BY <1>1, <1>2, JoinScanned
<1> HIDE DEF a, b
<1>8. PICK k : \E d \in TryWakeNext(b) :
        /\ \/ k = a /\ d.phaseCount = b.phaseCount
           \/ CalledBack(a, k) /\ d.phaseCount # b.phaseCount
        /\ r = Barred(k, d)
  BY <1>1 DEF Woken
<1>9. PICK d \in TryWakeNext(b) :
        /\ \/ k = a /\ d.phaseCount = b.phaseCount
           \/ CalledBack(a, k) /\ d.phaseCount # b.phaseCount
        /\ r = Barred(k, d)
  BY <1>8
<1>10. d.phaseCount = b.phaseCount /\ Scanned(d, D)
  BY <1>5, <1>7, TryWakeNextScanned
<1>11. /\ WF(d) /\ IndicesKnown(d)
       /\ \A t \in Tids : \/ d.state[t] = b.state[t]
                          \/ (b.state[t] = "WAITING" /\ d.state[t] = "RUNNING")
                          \/ (b.state[t] = "LEFT" /\ d.state[t] = "OFFLINE")
  BY Zenon, <1>5, TryWakeNextWorks
<1>12. d \in Barriers /\ r = Barred(a, d)
  BY <1>9, <1>10, <1>11 DEF WF, Listing
<1>13. /\ r.thr = a.thr /\ r.bar = d /\ r.cur = a.cur /\ r.broken = a.broken
       /\ r.runQueue = a.runQueue /\ r.sleepQueue = a.sleepQueue
  BY <1>3, <1>12, BarredIs
<1>14. Consistent(r)
  BY <1>1, <1>3, <1>5, <1>6, WokenKeeps
<1>15. Ready(r, {})
  BY <1>4, <1>13, <1>14 DEF Ready, Consistent, Awaited, Promised, Asleep, Sorted, Allowed
<1>16. SlotsKept(s.bar, d)
  <2>1. s.bar.state \in [Tids -> States]
    BY DEF WF, Listing, Barriers
  <2> QED
    BY <1>1, <1>2, <1>5, <1>11, <2>1 DEF SlotsKept, Cores
<1> QED
  BY <1>3, <1>5, <1>10, <1>11, <1>13, <1>14, <1>15, <1>16 DEF Enters, Good

-----------------------------------------------------------------------------
(* Placing a thread                                                        *)

\* An operation on behalf of t, within a phase whose served cores are D.
Lands(s, r, t, D) ==
    /\ Good(r) /\ Calm(s, r, {t})
    /\ r.bar.phaseCount = s.bar.phaseCount /\ Scanned(r.bar, D)

\* ... that starts with a change of the tables and joins a core.
LEMMA LandsAfter ==
    ASSUME NEW s, NEW m, NEW t, Calm(s, m, {t}), m.bar.phaseCount = s.bar.phaseCount,
           Tables(m), NEW D, NEW r, Enters(m, D, r)
    PROVE  Lands(s, r, t, D)
<1>1. Calm(m, r, {t})
  BY CalmBarrier DEF Enters
<1> QED
  BY <1>1, CalmCompose DEF Lands, Enters

\* Entries that say the same of a thread, as far as its neighbours see.
LEMMA CalmSame ==
    ASSUME NEW s, NEW m, NEW T, m.bar = s.bar, \A u \in Threads \ T : m.thr[u] = s.thr[u]
    PROVE  Calm(s, m, T)
BY DEF Calm, Undisturbed, Execs

\* A queue follows itself.
LEMMA FollowsSelf ==
    ASSUME NEW q
    PROVE  Follows(q, q)
BY DEF Follows

\* ... and so does a queue that lost an entry.
LEMMA FollowsRemove ==
    ASSUME NEW q \in Seq(Threads), NEW e
    PROVE  Follows(Remove(q, e), q)
<1> DEFINE r == Remove(q, e)
<1>1. \A k, l \in 1..Len(r) : k < l => \E i, j \in 1..Len(q) : i < j /\ r[k] = q[i] /\ r[l] = q[j]
  BY RemoveIs
<1> HIDE DEF r
<1>2. Follows(r, q)
  BY <1>1 DEF Follows
<1> QED
  BY <1>2 DEF r

\* A thread placed on a core that its mask allows, without a handoff to do.
LEMMA PlacedOnReady ==
    ASSUME NEW s, NEW t \in Threads, Ready(s, {t}), s.thr[t].handoff = None,
           NEW c \in Mask[t], c \in Cores, NEW m, PlacedOn(s, m, t, c)
    PROVE  Ready(m, {}) /\ Calm(s, m, {t}) /\ m.thr[t] = Placement(s.thr[t], c)
<1> DEFINE o == s.cur[c]
<1>1. /\ Tables(s) /\ Typed(s) /\ Tables(m) /\ ~s.broken /\ Awaited(s, {t}) /\ Allowed(s)
      /\ m.broken = s.broken /\ m.runQueue = s.runQueue /\ m.sleepQueue = s.sleepQueue
      /\ m.cur = [s.cur EXCEPT ![c] = t] /\ m.bar = s.bar
      /\ m.thr[t] = Placement(s.thr[t], c)
      /\ \A u \in Threads \ {t, o} : m.thr[u] = s.thr[u]
  BY TableTypes DEF Ready, PlacedOn
<1>2. /\ m.thr[t].state = "RUNNING" /\ m.thr[t].handoff = None
  BY <1>1, PlacementIs DEF Typed
<1>3. o \in Threads => /\ s.thr[o].state = "OUT" /\ o # t /\ m.thr[o] = Blocked(s.thr[o])
                       /\ m.thr[o].state = "BLOCKED" /\ m.thr[o].handoff = s.thr[o].handoff
                       /\ s.thr[o].handoff = None /\ m.thr[o].marked = s.thr[o].marked
  <2>1. o \in Threads => /\ s.thr[o].state = "OUT" /\ o # t /\ m.thr[o] = Blocked(s.thr[o])
                         /\ s.thr[o] \in ThreadInfos
    BY <1>1 DEF PlacedOn, Typed
  <2>2. o \in Threads => m.thr[o].state = "BLOCKED" /\ m.thr[o].handoff = s.thr[o].handoff
    BY <2>1, BlockedIs
  <2>3. o \in Threads => s.thr[o].handoff = None
    BY <1>1, <2>1 DEF Allowed, HandsTo
  <2>4. o \in Threads => m.thr[o].marked = s.thr[o].marked
    BY <2>1 DEF Blocked, ThreadInfos
  <2> QED
    BY <2>1, <2>2, <2>3, <2>4
<1> HIDE DEF o
<1>4. Awaited(m, {})
  <2> SUFFICES ASSUME NEW u \in Threads, m.thr[u].state = "QUEUED"
               PROVE  u \in Members(m.runQueue) \/ Promised(m, u)
    BY DEF Awaited
  <2>1. u # t /\ m.thr[u] = s.thr[u]
    BY <1>1, <1>2, <1>3
  <2>2. u \in Members(s.runQueue) \/ Promised(s, u)
    BY <1>1, <2>1 DEF Awaited
  <2>3. ASSUME NEW v \in Threads, s.thr[v].handoff = u PROVE m.thr[v].handoff = u
    <3>1. u # None
      BY <1>1 DEF Typed
    <3> QED
      BY <1>1, <1>3, <2>3, <3>1
  <2> QED
    BY <1>1, <2>2, <2>3 DEF Promised
<1>5. Steady(s, m, {})
  <2>1. Follows(m.sleepQueue, s.sleepQueue)
    BY <1>1, FollowsSelf
  <2>2. ASSUME NEW u \in Threads, m.thr[u].state = "SLEEPING" PROVE m.thr[u] = s.thr[u]
    BY <1>1, <1>2, <1>3, <2>2
  <2>3. ASSUME NEW d \in Cores, m.cur[d] # None
        PROVE  m.cur[d] = s.cur[d] \/ d \in Mask[m.cur[d]]
    BY <1>1 DEF Typed
  <2>4. ASSUME NEW u \in Threads, m.thr[u].handoff # None PROVE m.thr[u] = s.thr[u]
    BY <1>1, <1>2, <1>3, <2>4
  <2> QED
    BY <1>1, <1>4, <2>1, <2>2, <2>3, <2>4 DEF Steady
<1>6. Calm(s, m, {t})
  <2> SUFFICES ASSUME NEW u \in Threads \ {t} PROVE Undisturbed(s, m, u)
    BY DEF Calm
  <2>1. CASE u = o
    BY <1>3, <2>1 DEF Undisturbed, Execs
  <2>2. CASE u # o
    BY <1>1, <2>2 DEF Undisturbed, Execs
  <2> QED
    BY <2>1, <2>2
<1> QED
  BY <1>1, <1>5, <1>6, SteadyKeeps

\* A thread that queues up is awaited from then on.
LEMMA QueuedUpReady ==
    ASSUME NEW s, NEW t \in Threads, Ready(s, {t}), s.thr[t].handoff = None,
           NEW r, QueuedUp(s, r, t)
    PROVE  Ready(r, {}) /\ Calm(s, r, {t})
<1> DEFINE i == [s.thr[t] EXCEPT !.state = "QUEUED", !.word = 1]
<1>1. /\ Tables(s) /\ Typed(s) /\ Tables(r) /\ ~s.broken /\ Awaited(s, {t}) /\ Allowed(s)
      /\ r.thr[t] = i /\ \A u \in Threads \ {t} : r.thr[u] = s.thr[u]
      /\ r.cur = s.cur /\ r.sleepQueue = s.sleepQueue /\ r.bar = s.bar /\ r.broken = s.broken
      /\ Members(r.runQueue) = Members(s.runQueue) \cup {t}
  BY TableTypes DEF Ready, QueuedUp, OneThread
<1>2. i.state = "QUEUED" /\ i.handoff = None
  BY <1>1 DEF Typed, ThreadInfos
<1> HIDE DEF i
<1>3. Awaited(r, {})
  <2>1. \A v \in Threads : r.thr[v].handoff = s.thr[v].handoff
    BY <1>1, <1>2
  <2> QED
    BY <1>1, <2>1 DEF Awaited, Promised
<1>4. Steady(s, r, {})
  <2>1. Follows(r.sleepQueue, s.sleepQueue)
    BY <1>1, FollowsSelf
  <2>2. \A u \in Threads : r.thr[u].state = "SLEEPING" \/ r.thr[u].handoff # None =>
          r.thr[u] = s.thr[u]
    BY <1>1, <1>2
  <2> QED
    BY <1>1, <1>3, <2>1, <2>2 DEF Steady
<1> QED
  BY <1>1, <1>4, SteadyKeeps, CalmSame

\* Where a placed thread is, in the terms of its callers.
Fresh(i, j) ==
    /\ j.marked = i.marked /\ j.handoff = None
    /\ \/ j.state = "QUEUED" /\ j.word = 1
       \/ j.state = "RUNNING"

\* Placed or queued, the phase goes on.
LEMMA PlacedLands ==
    ASSUME NEW s, NEW t \in Threads, Consistent(s), Ready(s, {t}), IndicesKnown(s.bar),
           s.thr[t].handoff = None, NEW D, Scanned(s.bar, D), NEW r, PlacedOrQueued(s, t, r)
    PROVE  Lands(s, r, t, D) /\ Fresh(s.thr[t], r.thr[t])
<1>1. Tables(s) /\ Typed(s) /\ WF(s.bar)
  BY TableTypes DEF Consistent
<1>2. Consistent(r)
  BY PlacedOrQueuedKeeps
<1>3. CASE QueuedUp(s, r, t)
  <2>1. Ready(r, {}) /\ Calm(s, r, {t}) /\ r.bar = s.bar
    BY Zenon, <1>3, QueuedUpReady DEF QueuedUp
  <2>2. r.thr[t] = [s.thr[t] EXCEPT !.state = "QUEUED", !.word = 1]
    BY <1>3 DEF QueuedUp, OneThread
  <2>3. Fresh(s.thr[t], r.thr[t])
    BY <1>1, <2>2 DEF Fresh, Typed, ThreadInfos
  <2> QED
    BY <1>2, <2>1, <2>3 DEF Lands, Good
<1>4. ASSUME NEW c \in Cores, NEW m, c \in Mask[t], PlacedOn(s, m, t, c), Joined(m, c, r)
      PROVE  Lands(s, r, t, D) /\ Fresh(s.thr[t], r.thr[t])
  <2>1. Ready(m, {}) /\ Calm(s, m, {t}) /\ m.thr[t] = Placement(s.thr[t], c)
    BY <1>4, PlacedOnReady
  <2>2. Tables(m) /\ WF(m.bar) /\ Runs(m, c) /\ FitsBut(m, c)
    BY <1>4, PlacedFits
  <2>3. m.bar = s.bar
    BY <1>4 DEF PlacedOn
  <2>4. Enters(m, D, r)
    BY <1>4, <2>1, <2>2, <2>3, JoinedGoes
  <2>5. Lands(s, r, t, D)
    BY <2>1, <2>2, <2>3, <2>4, LandsAfter
  <2>6. r.thr[t] = Placement(s.thr[t], c)
    BY <2>1, <2>4 DEF Enters
  <2>7. Fresh(s.thr[t], r.thr[t])
    BY <1>1, <2>6 DEF Fresh, Placement, Typed, ThreadInfos
  <2> QED
    BY <2>5, <2>7
<1> QED
  BY <1>3, <1>4 DEF PlacedOrQueued

-----------------------------------------------------------------------------
(* Changes of one thread, and exchanges of two                             *)

\* t, which has no handoff to do, changes into one that neither queues nor
\* sleeps.
Quiet(s, m, t, i) ==
    /\ Tables(m) /\ OneThread(s, m, t, i)
    /\ i.state \notin {"QUEUED", "SLEEPING"} /\ i.handoff = None
    /\ \A c \in Cores : m.cur[c] = s.cur[c] \/ m.cur[c] = None
    /\ Members(s.runQueue) \ {t} \subseteq Members(m.runQueue)
    /\ m.sleepQueue \in {s.sleepQueue, Remove(s.sleepQueue, t)}
    /\ m.bar = s.bar /\ m.broken = s.broken

\* Such a change keeps what holds without kills and disturbs nobody.
LEMMA QuietReady ==
    ASSUME NEW s, NEW t \in Threads, Ready(s, {t}), s.thr[t].handoff = None,
           NEW m, NEW i, Quiet(s, m, t, i)
    PROVE  Ready(m, {}) /\ Calm(s, m, {t})
<1>1. /\ Tables(s) /\ Typed(s) /\ ~s.broken /\ Awaited(s, {t}) /\ s.sleepQueue \in Seq(Threads)
      /\ Tables(m) /\ m.thr[t] = i /\ \A u \in Threads \ {t} : m.thr[u] = s.thr[u]
      /\ i.state \notin {"QUEUED", "SLEEPING"} /\ i.handoff = None
      /\ \A c \in Cores : m.cur[c] = s.cur[c] \/ m.cur[c] = None
      /\ Members(s.runQueue) \ {t} \subseteq Members(m.runQueue)
      /\ m.sleepQueue \in {s.sleepQueue, Remove(s.sleepQueue, t)}
      /\ m.bar = s.bar /\ m.broken = s.broken
  BY TableTypes DEF Ready, Quiet, OneThread, Typed
<1>2. Awaited(m, {})
  <2> SUFFICES ASSUME NEW u \in Threads, m.thr[u].state = "QUEUED"
               PROVE  u \in Members(m.runQueue) \/ Promised(m, u)
    BY DEF Awaited
  <2>1. u # t /\ s.thr[u].state = "QUEUED" /\ u # None
    BY <1>1 DEF Typed
  <2>2. u \in Members(s.runQueue) \/ Promised(s, u)
    BY <1>1, <2>1 DEF Awaited
  <2> QED
    BY <1>1, <2>1, <2>2 DEF Promised
<1>3. Follows(m.sleepQueue, s.sleepQueue)
  BY <1>1, FollowsSelf, FollowsRemove
<1>4. \A u \in Threads : m.thr[u].state = "SLEEPING" \/ m.thr[u].handoff # None =>
        m.thr[u] = s.thr[u]
  BY <1>1
<1>5. Steady(s, m, {})
  BY <1>1, <1>2, <1>3, <1>4 DEF Steady
<1> QED
  BY <1>1, <1>5, SteadyKeeps, CalmSame

\* A thread that goes to sleep keeps the queue of the sleepers in order.
LEMMA NapAsleep ==
    ASSUME NEW s, Tables(s), Asleep(s), NEW t \in Threads, s.thr[t].wakeIn > 0,
           s.thr[t].word = 1, NEW m, m.sleepQueue = InsertSleeper(s, t),
           m.thr[t] = Napping(s.thr[t]),
           \A u \in Threads \ {t} : m.thr[u].state = "SLEEPING" \/ s.thr[u].state = "SLEEPING" =>
             m.thr[u] = s.thr[u]
    PROVE  Asleep(m)
<1> DEFINE r == InsertSleeper(s, t)
<1>1. s \in Schedulers /\ s.thr[t] \in ThreadInfos
  BY TableTypes DEF Typed
<1>2. r \in Seq(Threads) /\ Members(r) = Members(s.sleepQueue) \cup {t} /\ Sorted(s, r)
  BY <1>1, InsertSleeperIs DEF Asleep
<1> HIDE DEF r
<1>3. m.thr[t].wakeIn = s.thr[t].wakeIn /\ m.thr[t].word = s.thr[t].word
  BY <1>1 DEF Napping, ThreadInfos
<1>4. \A i \in 1..Len(r) : r[i] \in Threads /\ m.thr[r[i]].wakeIn = s.thr[r[i]].wakeIn
  <2> SUFFICES ASSUME NEW i \in 1..Len(r)
               PROVE  r[i] \in Threads /\ m.thr[r[i]].wakeIn = s.thr[r[i]].wakeIn
    OBVIOUS
  <2>1. r[i] \in Members(s.sleepQueue) \cup {t} /\ r[i] \in Threads
    <3>1. r[i] \in Members(r)
      BY DEF Members
    <3> QED
      BY <1>2, <3>1
  <2>2. r[i] # t => s.thr[r[i]].state = "SLEEPING"
    BY <2>1, SleepersAre
  <2> QED
    BY <1>3, <2>1, <2>2
<1>5. Sorted(m, r)
  BY <1>2, <1>4, FollowsSelf, FollowsSorted
<1>6. \A u \in Threads : SleepFor(m.thr[u])
  <2> SUFFICES ASSUME NEW u \in Threads PROVE SleepFor(m.thr[u])
    OBVIOUS
  <2>1. CASE u = t
    BY <1>3, <2>1 DEF SleepFor
  <2>2. CASE u # t
    BY <2>2 DEF Asleep, SleepFor
  <2> QED
    BY <2>1, <2>2
<1> QED
  BY <1>5, <1>6 DEF Asleep, r

\* Going to sleep with nobody to take the core.
LEMMA WentToSleepReady ==
    ASSUME NEW s, NEW t \in Threads, Ready(s, {}), s.thr[t].handoff = None,
           s.thr[t].wakeIn > 0, s.thr[t].word = 1, NEW c, NEW m, WentToSleep(s, m, t, c)
    PROVE  Ready(m, {}) /\ Calm(s, m, {t})
<1>1. /\ Tables(s) /\ Typed(s) /\ ~s.broken /\ Awaited(s, {}) /\ Asleep(s) /\ Allowed(s)
      /\ Tables(m) /\ m.thr[t] = Napping(s.thr[t]) /\ \A u \in Threads \ {t} : m.thr[u] = s.thr[u]
      /\ m.cur = [s.cur EXCEPT ![c] = None] /\ m.runQueue = s.runQueue
      /\ m.sleepQueue = InsertSleeper(s, t) /\ m.bar = s.bar /\ m.broken = s.broken
  BY TableTypes DEF Ready, WentToSleep, OneThread
<1>2. /\ Napping(s.thr[t]).state = "SLEEPING" /\ Napping(s.thr[t]).handoff = None
  BY <1>1, NappingIs DEF Typed
<1>3. Asleep(m)
  BY <1>1, NapAsleep
<1>4. Awaited(m, {})
  <2>1. \A u \in Threads : m.thr[u].handoff = s.thr[u].handoff
    BY <1>1, <1>2
  <2>2. \A u \in Threads : m.thr[u].state = "QUEUED" => s.thr[u].state = "QUEUED"
    BY <1>1, <1>2
  <2> QED
    BY <1>1, <2>1, <2>2 DEF Awaited, Promised
<1>5. Allowed(m)
  <2>1. \A u \in Threads : HandsTo(m.thr[u])
    BY <1>1, <1>2 DEF Allowed, HandsTo
  <2>2. \A d \in Cores : m.cur[d] # None => m.cur[d] = s.cur[d]
    BY <1>1 DEF Typed
  <2> QED
    BY <1>1, <2>1, <2>2 DEF Allowed
<1> QED
  BY <1>1, <1>3, <1>4, <1>5, CalmSame DEF Ready

\* Giving a core that has a slot to a queued thread that may use it.
LEMMA ExchangedReady ==
    ASSUME NEW s, Ready(s, {}), NEW t \in Threads, NEW x \in Threads, NEW c \in Cores,
           c \in Mask[x], s.thr[x].state = "QUEUED", s.bar.state[c] = "RUNNING",
           s.thr[t].handoff \in {x, None}, NEW i, i.handoff = None,
           NEW m, Exchanged(s, m, t, i, x, Awakened(s.thr[x], c), c), Asleep(m)
    PROVE  /\ Ready(m, {t}) /\ Calm(s, m, {t})
           /\ i.state # "QUEUED" => Ready(m, {})
<1> DEFINE j == Awakened(s.thr[x], c)
<1>1. /\ Tables(s) /\ Typed(s) /\ ~s.broken /\ Awaited(s, {}) /\ Allowed(s)
      /\ Tables(m) /\ t # x /\ m.thr[t] = i /\ m.thr[x] = j
      /\ \A u \in Threads \ {t, x} : m.thr[u] = s.thr[u]
      /\ m.cur = [s.cur EXCEPT ![c] = x]
      /\ Members(m.runQueue) = Members(s.runQueue) \ {x}
      /\ m.bar = s.bar /\ m.broken = s.broken
  BY TableTypes DEF Ready, Exchanged, TwoThreads
<1>2. /\ j.state = "RUNNING" /\ j.cid = c /\ j.handoff = s.thr[x].handoff /\ j.word = 0
      /\ s.thr[x].handoff = None
  BY <1>1, AwakenedIs DEF Typed, Allowed, HandsTo
<1>3. j.marked = s.thr[x].marked
  BY <1>1 DEF Awakened, Typed, ThreadInfos
<1> HIDE DEF j
<1>4. Awaited(m, {t})
  <2> SUFFICES ASSUME NEW u \in Threads, u # t, m.thr[u].state = "QUEUED"
               PROVE  u \in Members(m.runQueue) \/ Promised(m, u)
    BY DEF Awaited
  <2>1. u # x /\ s.thr[u].state = "QUEUED" /\ u # None
    BY <1>1, <1>2 DEF Typed
  <2>2. u \in Members(s.runQueue) \/ Promised(s, u)
    BY <1>1, <2>1 DEF Awaited
  <2>3. ASSUME NEW v \in Threads, s.thr[v].handoff = u PROVE m.thr[v].handoff = u
    <3>1. v # t /\ v # x
      BY <1>2, <2>1, <2>3
    <3> QED
      BY <1>1, <2>3, <3>1
  <2> QED
    BY <1>1, <2>1, <2>2, <2>3 DEF Promised
<1>5. Allowed(m)
  <2>1. ASSUME NEW u \in Threads PROVE HandsTo(m.thr[u])
    <3>1. m.thr[u].handoff # None => m.thr[u] = s.thr[u]
      BY <1>1, <1>2
    <3> QED
      BY <1>1, <3>1 DEF Allowed, HandsTo
  <2>2. \A d \in Cores : m.cur[d] # None => m.cur[d] = s.cur[d] \/ (d = c /\ m.cur[d] = x)
    BY <1>1 DEF Typed
  <2> QED
    BY <1>1, <2>1, <2>2 DEF Allowed
<1>6. Ready(m, {t})
  BY <1>1, <1>4, <1>5 DEF Ready
<1>7. i.state # "QUEUED" => Ready(m, {})
  BY <1>1, <1>6 DEF Ready, Awaited
<1>8. Calm(s, m, {t})
  <2> SUFFICES ASSUME NEW u \in Threads \ {t} PROVE Undisturbed(s, m, u)
    BY DEF Calm
  <2>1. CASE u = x
    BY <1>1, <1>2, <1>3, <2>1 DEF Undisturbed, Execs
  <2>2. CASE u # x
    BY <1>1, <2>2 DEF Undisturbed, Execs
  <2> QED
    BY <2>1, <2>2
<1> QED
  BY <1>6, <1>7, <1>8

\* The sleepers are left alone by an exchange in which nobody goes to sleep.
LEMMA ExchangedAsleep ==
    ASSUME NEW s, Tables(s), Asleep(s), NEW t \in Threads, NEW x \in Threads, NEW i, NEW j, NEW c,
           i.state # "SLEEPING", j.state # "SLEEPING",
           s.thr[t].state # "SLEEPING", s.thr[x].state # "SLEEPING",
           NEW m, Exchanged(s, m, t, i, x, j, c), m.sleepQueue = s.sleepQueue
    PROVE  Asleep(m)
<1>1. /\ m.thr[t] = i /\ m.thr[x] = j /\ \A u \in Threads \ {t, x} : m.thr[u] = s.thr[u]
  BY DEF Exchanged, TwoThreads
<1>2. \A k \in 1..Len(s.sleepQueue) : m.thr[s.sleepQueue[k]].wakeIn = s.thr[s.sleepQueue[k]].wakeIn
  BY <1>1, SleepersAre
<1>3. Sorted(m, s.sleepQueue)
  BY <1>2, FollowsSelf, FollowsSorted DEF Asleep
<1>4. \A u \in Threads : SleepFor(m.thr[u])
  BY <1>1 DEF Asleep, SleepFor
<1> QED
  BY <1>3, <1>4 DEF Asleep

-----------------------------------------------------------------------------
(* join and the handoff                                                    *)

\* The same leaves are suppressed.
SameFakes(s, r) == Members(r.fakeLeaves) = Members(s.fakeLeaves)

\* If every queued thread is awaited, those outside T are.
LEMMA ReadyMore ==
    ASSUME NEW s, Ready(s, {}), NEW T
    PROVE  Ready(s, T)
BY DEF Ready, Awaited

\* A step of the tables, then an operation.
LEMMA CalmLands ==
    ASSUME NEW s, NEW m, NEW t, Calm(s, m, {t}), m.bar = s.bar, NEW D, NEW r, Lands(m, r, t, D)
    PROVE  Lands(s, r, t, D)
<1>1. Calm(s, r, {t})
  BY CalmCompose DEF Lands
<1> QED
  BY <1>1 DEF Lands

\* An early end of a sleep.
LEMMA WokenEarlyGood ==
    ASSUME NEW s, Good(s), NEW t \in Threads, s.thr[t].handoff = None,
           NEW q, WokenEarly(s, q, t)
    PROVE  /\ Good(q) /\ Calm(s, q, {t}) /\ q.bar = s.bar /\ q.fakeLeaves = s.fakeLeaves
           /\ q.thr[t].state = "BLOCKED" /\ q.thr[t].handoff = None
           /\ q.thr[t].marked = s.thr[t].marked
<1> DEFINE i == [s.thr[t] EXCEPT !.state = "BLOCKED", !.wakeIn = 0]
<1>1. Ready(s, {t}) /\ Consistent(s) /\ IndicesKnown(s.bar) /\ Typed(s)
  BY ReadyMore, TableTypes DEF Good, Consistent
<1>2. i.state = "BLOCKED" /\ i.handoff = None /\ i.marked = s.thr[t].marked
  BY <1>1 DEF Typed, ThreadInfos
<1>3. WokenEarly(s, q, t)
  OBVIOUS
<1>4. OneThread(s, q, t, i) /\ q.bar = s.bar /\ q.fakeLeaves = s.fakeLeaves
  BY <1>3 DEF WokenEarly
<1> HIDE DEF i
<1>5. Quiet(s, q, t, i)
  BY <1>2, <1>3, <1>4 DEF Quiet, WokenEarly
<1>6. Ready(q, {}) /\ Calm(s, q, {t})
  BY <1>1, <1>5, QuietReady
<1>7. Consistent(q)
  BY <1>1, WokenEarlyKeeps
<1> QED
  BY <1>1, <1>2, <1>4, <1>6, <1>7 DEF Good, OneThread

\* A thread that comes back to the core it kept.
LEMMA CameBackReady ==
    ASSUME NEW s, Good(s), NEW t \in Threads, s.thr[t].handoff = None, s.thr[t].state = "OUT",
           NEW m, CameBack(s, m, t)
    PROVE  /\ Ready(m, {}) /\ Calm(s, m, {t}) /\ m.bar = s.bar
           /\ m.thr[t].state = "RUNNING" /\ m.thr[t].handoff = None
           /\ m.thr[t].marked = s.thr[t].marked
           /\ Runs(m, s.thr[t].cid) /\ FitsBut(m, s.thr[t].cid)
           /\ s.thr[t].cid \notin m.active /\ m.bar.state[s.thr[t].cid] \in {"LEFT", "OFFLINE"}
<1> DEFINE i == [s.thr[t] EXCEPT !.state = "RUNNING"]
           c == s.thr[t].cid
<1>1. Ready(s, {t}) /\ Consistent(s) /\ Typed(s) /\ c \in Cores
  BY ReadyMore, TableTypes DEF Good, Consistent, Typed
<1>2. i.state = "RUNNING" /\ i.handoff = None /\ i.marked = s.thr[t].marked
  BY <1>1 DEF Typed, ThreadInfos
<1>3. OneThread(s, m, t, i) /\ m.bar = s.bar /\ m.active = s.active
      /\ RunsBut(s, m, c) /\ Runs(m, c)
  BY DEF CameBack
<1> HIDE DEF i
<1>4. Quiet(s, m, t, i)
  BY <1>2, <1>3 DEF Quiet, CameBack
<1>5. Ready(m, {}) /\ Calm(s, m, {t})
  BY <1>1, <1>4, QuietReady
<1>6. ~Runs(s, c)
  BY <1>1 DEF Runs, Typed, Contexts, InStates
<1>7. WF(s.bar) /\ Fits(s, s.bar)
  BY <1>1 DEF Consistent
<1>8. s.bar.state[c] \in States
  BY <1>1, <1>7 DEF WF, Listing, Barriers, Cores
<1>9. c \notin s.active /\ s.bar.state[c] \in {"LEFT", "OFFLINE"}
  BY <1>1, <1>6, <1>7, <1>8 DEF Fits, States
<1>10. FitsBut(m, c)
  BY <1>3, <1>7 DEF Fits, FitsBut, RunsBut
<1> QED
  BY <1>2, <1>3, <1>5, <1>9, <1>10 DEF OneThread

\* join, by a thread in a state its callers leave it in, fails no assertion;
\* the phase goes on.
LEMMA JoinGoes ==
    ASSUME NEW s, Good(s), NEW t \in Threads, t \notin Members(s.fakeLeaves),
           ~s.thr[t].marked, s.thr[t].handoff = None,
           s.thr[t].state \in {"STARTED", "OUT", "BLOCKED", "SLEEPING"},
           NEW D, Scanned(s.bar, D), NEW r \in Join(s, t)
    PROVE  Lands(s, r, t, D) /\ Fresh(s.thr[t], r.thr[t]) /\ SameFakes(s, r)
<1> DEFINE q == IF s.thr[t].state = "SLEEPING" THEN WakeEarly(s, t) ELSE s
<1>1. Consistent(s) /\ Tables(s) /\ ~s.broken /\ IndicesKnown(s.bar)
  BY DEF Good, Consistent, Ready
<1>2. r \in IF q.thr[t].state = "OUT"
            THEN JoinCore([q EXCEPT !.thr[t].state = "RUNNING", !.outQueue = Remove(@, t)],
                          q.thr[t].cid)
            ELSE Asserting(q.thr[t].state \in {"BLOCKED", "STARTED"}, q, PlaceThread(q, t))
  BY DEF Join, Asserting
<1>3. /\ Good(q) /\ Calm(s, q, {t}) /\ q.bar = s.bar /\ q.fakeLeaves = s.fakeLeaves
      /\ q.thr[t].state \in {"STARTED", "OUT", "BLOCKED"} /\ q.thr[t].handoff = None
      /\ q.thr[t].marked = s.thr[t].marked
  <2>1. CASE s.thr[t].state = "SLEEPING"
    <3>1. WokenEarly(s, WakeEarly(s, t), t)
      BY <1>1, <2>1, WakeEarlyIs
    <3>2. /\ Good(WakeEarly(s, t)) /\ Calm(s, WakeEarly(s, t), {t}) /\ WakeEarly(s, t).bar = s.bar
          /\ WakeEarly(s, t).thr[t].state = "BLOCKED" /\ WakeEarly(s, t).thr[t].handoff = None
          /\ WakeEarly(s, t).thr[t].marked = s.thr[t].marked
          /\ WakeEarly(s, t).fakeLeaves = s.fakeLeaves
      BY <3>1, WokenEarlyGood
    <3> QED
      BY <2>1, <3>2
  <2>2. CASE s.thr[t].state # "SLEEPING"
    BY <2>2, CalmSame
  <2> QED
    BY <2>1, <2>2
<1> HIDE DEF q
<1>4. /\ Consistent(q) /\ Tables(q) /\ Ready(q, {}) /\ Asleep(q) /\ ~q.broken /\ WF(q.bar)
      /\ IndicesKnown(q.bar) /\ q.thr[t].cid \in Cores
  BY <1>3, TableTypes DEF Good, Consistent, Ready, Typed
<1>5. CASE q.thr[t].state = "OUT"
  <2> DEFINE m == Returned(q, t)
             c == q.thr[t].cid
  <2>1. r \in JoinCore(m, c)
    BY <1>2, <1>5 DEF Returned
  <2>2. CameBack(q, m, t)
    BY <1>4, <1>5, ReturnedIs
  <2> HIDE DEF m
  <2>3. /\ Ready(m, {}) /\ Calm(q, m, {t}) /\ m.bar = q.bar
        /\ m.thr[t].state = "RUNNING" /\ m.thr[t].handoff = None
        /\ m.thr[t].marked = q.thr[t].marked
        /\ Runs(m, c) /\ FitsBut(m, c)
        /\ c \notin m.active /\ m.bar.state[c] \in {"LEFT", "OFFLINE"}
    BY <1>3, <1>5, <2>2, CameBackReady
  <2> HIDE DEF c
  <2>4. Tables(m) /\ Asleep(m) /\ ~m.broken /\ WF(m.bar) /\ IndicesKnown(m.bar) /\ c \in Cores
    BY <1>4, <2>3 DEF Ready, c
  <2>5. ~r.broken
    BY <2>1, <2>3, <2>4, JoinCoreSafe
  <2>6. Joined(m, c, r)
    BY <2>1, <2>4, <2>5, JoinCoreIs
  <2>7. Enters(m, D, r)
    BY <1>3, <2>3, <2>4, <2>6, JoinedGoes
  <2>8. Lands(q, r, t, D)
    BY <2>3, <2>4, <2>7, LandsAfter
  <2>9. Fresh(s.thr[t], r.thr[t])
    BY <1>3, <2>3, <2>7 DEF Fresh, Enters
  <2>10. r.fakeLeaves = s.fakeLeaves
    <3>1. r.fakeLeaves = m.fakeLeaves
      BY Zenon, <2>3, <2>4, <2>6, JoinedKeeps
    <3> QED
      BY <1>3, <2>2, <3>1 DEF CameBack
  <2> QED
    BY <1>3, <2>8, <2>9, <2>10, CalmLands DEF SameFakes
<1>6. CASE q.thr[t].state # "OUT"
  <2>1. q.thr[t].state \in {"BLOCKED", "STARTED"} /\ r \in PlaceThread(q, t)
    BY <1>2, <1>3, <1>6 DEF Asserting
  <2>2. t \notin Members(q.runQueue) /\ ~Promised(q, t)
    BY <1>4, <2>1, NotQueued
  <2>3. ~r.broken
    BY <1>4, <2>1, <2>2, PlaceThreadSafe
  <2>4. PlacedOrQueued(q, t, r)
    BY <1>4, <2>1, <2>2, <2>3, PlaceThreadIs
  <2>5. Lands(q, r, t, D) /\ Fresh(q.thr[t], r.thr[t])
    BY Zenon, <1>3, <1>4, <2>4, ReadyMore, PlacedLands
  <2>6. r.fakeLeaves = s.fakeLeaves
    BY <1>3, <1>4, <2>4, PlacedOrQueuedKeeps
  <2>7. Fresh(s.thr[t], r.thr[t])
    BY <1>3, <2>5 DEF Fresh
  <2> QED
    BY <1>3, <2>5, <2>6, <2>7, CalmLands DEF SameFakes
<1> QED
  BY <1>5, <1>6

\* So does the second half of sync: the thread it hands over to waits for
\* that, and may use the core.
LEMMA HandoffGoes ==
    ASSUME NEW s, Good(s), NEW t \in Threads, Execs(s, t), s.thr[t].handoff # None,
           NEW D, Scanned(s.bar, D), NEW r \in Handoff(s, t)
    PROVE  Lands(s, r, t, D) /\ Fresh(s.thr[t], r.thr[t]) /\ SameFakes(s, r)
<1> DEFINE c == s.thr[t].cid
           x == s.thr[t].handoff
           m == HandedOver(s, t, c, x)
           k == [s EXCEPT !.thr[t].handoff = None]
           d == Deschedule(k, t, c, "QUEUED")
<1>1. /\ Consistent(s) /\ Tables(s) /\ Typed(s) /\ s \in Schedulers /\ ~s.broken /\ Ready(s, {})
      /\ IndicesKnown(s.bar) /\ c \in Cores /\ x \in Threads /\ s.thr[t].state = "RUNNING"
      /\ s.bar.state[c] = "RUNNING" /\ Asleep(s)
  BY TableTypes DEF Good, Consistent, Ready, Typed, Execs, Tables
<1>2. s.cur[c] = t
  BY <1>1 DEF Tables, Contexts, InStates
<1>3. s.thr[x].state = "QUEUED" /\ s.thr[x].word = 1 /\ x # t
  BY <1>1 DEF Typed, Promises
<1>4. d.thr[x] = s.thr[x] /\ d.cur[c] = None
  <2>1. k \in Schedulers /\ k.cur = s.cur /\ k.thr[x] = s.thr[x]
    <3>1. [s.thr[t] EXCEPT !.handoff = None] \in ThreadInfos
      BY Zenon, <1>1 DEF Typed, ThreadInfos
    <3> QED
      BY Zenon, <1>1, <1>3, <3>1 DEF Schedulers, Typed
  <2> HIDE DEF k
  <2>2. "QUEUED" \in ThreadStates
    BY DEF ThreadStates
  <2>3. Descheduled(k, d, t, c, "QUEUED")
    BY <1>1, <2>1, <2>2, DescheduleIs
  <2> HIDE DEF d
  <2>4. d.cur = [s.cur EXCEPT ![c] = None] /\ d.thr[x] = s.thr[x]
    BY <1>1, <1>3, <2>1, <2>3 DEF Descheduled, OneThread
  <2> QED
    BY <1>1, <2>4 DEF Typed
<1>5. CanDeschedule(s, t, c) /\ CanSchedule(d, x, c) /\ CanWake(s, x)
  BY <1>1, <1>2, <1>3, <1>4 DEF CanDeschedule, CanSchedule, CanWake
<1>6. r \in PlaceThread(m, t)
  BY <1>5 DEF Handoff, Asserting, HandedOver
<1>7. /\ Exchanged(s, m, t, Requeued(s.thr[t]), x, Awakened(s.thr[x], c), c)
      /\ m.runQueue = s.runQueue
      /\ m.sleepQueue = s.sleepQueue /\ m.active = s.active
  BY <1>1, <1>2, HandedOverIs
<1>8. /\ s.thr[t].handoff = x /\ c = s.thr[t].cid
  OBVIOUS
<1> HIDE DEF m, c, x, d, k
<1>9. Readied(s, m, t)
  <2>1. Exchanged(s, m, t, Requeued(s.thr[t]), x, Awakened(s.thr[x], c), c)
    BY <1>7
  <2> QED
    BY <1>1, <1>7, <1>8, <2>1, HandoffFits
<1>10. /\ Requeued(s.thr[t]).state = "QUEUED" /\ Requeued(s.thr[t]).handoff = None
       /\ Requeued(s.thr[t]).marked = s.thr[t].marked
  BY <1>1 DEF Requeued, Typed, ThreadInfos
<1>11. Awakened(s.thr[x], c).state = "RUNNING"
  BY <1>1, AwakenedIs DEF Typed
<1>12. c \in Mask[x]
  BY <1>1, <1>8 DEF Ready, Allowed, HandsTo, Typed
<1>13. Asleep(m)
  BY <1>1, <1>3, <1>7, <1>10, <1>11, ExchangedAsleep
<1>14. Ready(m, {t}) /\ Calm(s, m, {t})
  BY Zenon, <1>1, <1>3, <1>7, <1>8, <1>10, <1>12, <1>13, ExchangedReady
<1>15. m.bar = s.bar
  BY <1>7 DEF Exchanged
<1>16. /\ Consistent(m) /\ m.fakeLeaves = s.fakeLeaves
       /\ m.thr[t] = Requeued(s.thr[t]) /\ m.thr[t].state = "QUEUED"
       /\ t \notin Members(m.runQueue) /\ ~Promised(m, t)
  BY <1>9 DEF Readied
<1>17. ~m.broken
  BY <1>14 DEF Ready
<1>18. ~r.broken
  BY <1>1, <1>6, <1>13, <1>15, <1>16, <1>17, PlaceThreadSafe
<1>19. PlacedOrQueued(m, t, r)
  BY <1>6, <1>16, <1>18, PlaceThreadIs
<1>20. Lands(m, r, t, D) /\ Fresh(m.thr[t], r.thr[t])
  BY <1>1, <1>10, <1>14, <1>15, <1>16, <1>19, PlacedLands
<1>21. Fresh(s.thr[t], r.thr[t])
  BY <1>10, <1>16, <1>20 DEF Fresh
<1>22. r.fakeLeaves = m.fakeLeaves
  BY Zenon, <1>16, <1>19, PlacedOrQueuedKeeps
<1> QED
  BY <1>14, <1>15, <1>16, <1>20, <1>21, <1>22, CalmLands DEF SameFakes

-----------------------------------------------------------------------------
(* sync and leave                                                          *)

\* An operation on behalf of t that ends the phase: m is the state before
\* callback, in which the cores D are all that run but t's.
Closes(s, r, t, D) ==
    /\ Good(r) /\ r.bar.phaseCount # s.bar.phaseCount /\ Scanned(r.bar, {})
    /\ \E m : /\ Tables(m) /\ m.bar = s.bar /\ Calm(s, m, {t}) /\ Dawned(m, r)
              /\ \A u \in Threads \ {t} : m.thr[u].state = "RUNNING" => m.thr[u].cid \in D

\* t's core c no longer runs in barrier b; D are the cores served then.
Stops(s, m, t, c, b, E) ==
    /\ Ready(m, {}) /\ Calm(s, m, {t}) /\ m.bar = s.bar /\ m.cur[c] \in {t, None}
    /\ WF(b) /\ IndicesKnown(b) /\ Fits(m, b) /\ b.phaseCount = s.bar.phaseCount
    /\ \A d \in Cores \ {c} : b.state[d] = s.bar.state[d]
    /\ Scanned(b, E) /\ NoneOwes(m, E)

\* Then the phase goes on without t, or it ends.
LEMMA StopsGoes ==
    ASSUME NEW s, NEW t \in Threads, NEW c \in Cores, NEW m, NEW b, NEW E, Stops(s, m, t, c, b, E),
           NEW D, E \ {c} \subseteq D, NEW r, Woken(m, b, r)
    PROVE  /\ (Lands(s, r, t, E) /\ r.thr[t] = m.thr[t]) \/ Closes(s, r, t, D)
           /\ Dawns(m.thr[t], r.thr[t])
           /\ r.fakeLeaves = m.fakeLeaves
<1>1. /\ Ready(m, {}) /\ Tables(m) /\ Typed(m) /\ Calm(s, m, {t}) /\ m.bar = s.bar
      /\ m.cur[c] \in {t, None} /\ WF(b) /\ IndicesKnown(b) /\ Fits(m, b)
      /\ b.phaseCount = s.bar.phaseCount /\ Scanned(b, E) /\ NoneOwes(m, E)
      /\ \A d \in Cores \ {c} : b.state[d] = s.bar.state[d]
  BY TableTypes DEF Stops, Ready
<1>2. Good(r) /\ (Continues(m, b, E, r) \/ Ends(m, b, E, r))
  BY <1>1, WokenGoes
<1>3. ASSUME NEW u \in Threads \ {t}, m.thr[u].state = "RUNNING"
      PROVE  /\ m.thr[u].cid \in Cores \ {c} /\ m.cur[m.thr[u].cid] = u
             /\ Runs(m, m.thr[u].cid)
  <2>1. m.thr[u].cid \in Cores /\ m.cur[m.thr[u].cid] = u /\ u # None
    BY <1>1, <1>3 DEF Typed, Contexts, InStates
  <2> QED
    BY <1>1, <1>3, <2>1 DEF Runs
<1>4. r.fakeLeaves = m.fakeLeaves
  BY <1>1, WokenKeeps
<1>5. CASE Continues(m, b, E, r)
  <2>1. ASSUME NEW u \in Threads \ {t} PROVE Undisturbed(s, r, u)
    <3>1. Undisturbed(s, m, u) /\ r.thr[u] = m.thr[u]
      BY <1>1, <1>5 DEF Calm, Continues
    <3>2. Execs(m, u) => Execs(r, u)
      BY <1>1, <1>3, <1>5 DEF Execs, Continues, SlotsKept
    <3> QED
      BY <3>1, <3>2 DEF Undisturbed
  <2>2. Lands(s, r, t, E)
    BY <1>1, <1>2, <1>5, <2>1 DEF Lands, Calm, Continues
  <2>3. Dawns(m.thr[t], r.thr[t]) /\ r.thr[t] = m.thr[t]
    BY <1>5 DEF Continues, Dawns
  <2> QED
    BY <1>4, <2>2, <2>3
<1>6. CASE Ends(m, b, E, r)
  <2>1. \A u \in Threads \ {t} : m.thr[u].state = "RUNNING" => m.thr[u].cid \in D
    BY <1>3, <1>6 DEF Ends
  <2>2. Closes(s, r, t, D)
    BY <1>1, <1>2, <1>6, <2>1 DEF Closes, Ends
  <2> QED
    BY <1>4, <1>6, <2>2 DEF Ends, Dawned
<1> QED
  BY <1>2, <1>5, <1>6

\* What the tables say of a thread that executes.
LEMMA ExecsIs ==
    ASSUME NEW s, Good(s), NEW t \in Threads, Execs(s, t)
    PROVE  LET c == s.thr[t].cid
           IN  /\ Consistent(s) /\ Tables(s) /\ Typed(s) /\ ~s.broken /\ Ready(s, {}) /\ Asleep(s)
               /\ IndicesKnown(s.bar) /\ WF(s.bar) /\ Fits(s, s.bar)
               /\ c \in Cores /\ c \in Tids /\ s.cur[c] = t /\ s.thr[t].state = "RUNNING"
               /\ s.bar.state[c] = "RUNNING" /\ c \in s.active
               /\ \A d \in Cores : s.cur[d] = t => d = c
               /\ \A D : Scanned(s.bar, D) => c \notin D
<1> DEFINE c == s.thr[t].cid
<1>1. /\ Consistent(s) /\ Tables(s) /\ Typed(s) /\ ~s.broken /\ Ready(s, {}) /\ Asleep(s)
      /\ IndicesKnown(s.bar) /\ WF(s.bar) /\ Fits(s, s.bar) /\ s.thr[t].state = "RUNNING"
      /\ s.bar.state[c] = "RUNNING" /\ c \in Cores /\ t # None
  BY TableTypes DEF Good, Consistent, Ready, Typed, Execs
<1>2. s.cur[c] = t /\ \A d \in Cores : s.cur[d] = t => d = c
  BY <1>1 DEF Typed, Contexts, InStates
<1>3. c \in s.active
  BY <1>1, <1>2 DEF Fits
<1>4. \A D : Scanned(s.bar, D) => c \notin D
  BY <1>1 DEF Scanned, InState
<1> QED
  BY <1>1, <1>2, <1>3, <1>4 DEF Cores

\* sync fails no assertion; it ends the phase if the cores that run are all
\* done.
LEMMA SyncGoes ==
    ASSUME NEW s, Good(s), NEW t \in Threads, Execs(s, t), ~s.thr[t].marked,
           s.thr[t].handoff = None, NEW D, Scanned(s.bar, D), NoneOwes(s, D),
           NEW r \in Sync(s, t, s.thr[t].cid)
    PROVE  /\ \/ Lands(s, r, t, D \cup {s.thr[t].cid}) /\ r.thr[t] = s.thr[t]
              \/ Closes(s, r, t, D)
           /\ Dawns(s.thr[t], r.thr[t])
           /\ SameFakes(s, r)
<1> DEFINE c == s.thr[t].cid
           b == Syncing(s.bar, c)
           E == D \cup {c}
<1>1. /\ Consistent(s) /\ Tables(s) /\ Typed(s) /\ ~s.broken /\ Ready(s, {}) /\ Asleep(s)
      /\ IndicesKnown(s.bar) /\ WF(s.bar) /\ c \in Cores /\ c \in Tids /\ s.cur[c] = t
      /\ s.bar.state[c] = "RUNNING"
  BY ExecsIs
<1>2. r \in WithBarrier(s, b)
  BY <1>1 DEF Sync, Asserting
<1>3. WF(b) /\ Fits(s, b)
  BY <1>1, SyncingFits
<1>4. /\ IndicesKnown(b) /\ b.phaseCount = s.bar.phaseCount
      /\ \A d \in Cores \ {c} : b.state[d] = s.bar.state[d]
  BY <1>1, StopRunning DEF Cores
<1>5. Scanned(b, E)
  BY <1>1, StopScanned
<1>6. NoneOwes(s, E)
  BY <1>1 DEF NoneOwes
<1>7. ~r.broken
  BY <1>1, <1>2, <1>3, WithBarrierSafe
<1>8. Woken(s, b, r)
  BY <1>1, <1>2, <1>7, WithBarrierIs
<1> HIDE DEF b, c, E
<1>9. Calm(s, s, {t})
  BY CalmSame
<1>10. Stops(s, s, t, c, b, E)
  BY <1>1, <1>3, <1>4, <1>5, <1>6, <1>9 DEF Stops
<1>11. E \ {c} \subseteq D
  BY DEF E
<1>12. /\ (Lands(s, r, t, E) /\ r.thr[t] = s.thr[t]) \/ Closes(s, r, t, D)
       /\ Dawns(s.thr[t], r.thr[t])
       /\ r.fakeLeaves = s.fakeLeaves
  BY <1>1, <1>8, <1>10, <1>11, StopsGoes
<1> QED
  BY <1>12 DEF E, c, SameFakes

\* Where a thread is that left.
Absent(i, j) ==
    /\ ~j.marked /\ j.handoff = None
    /\ IF i.marked THEN j.state = "SLEEPING" \/ (j.state = "BLOCKED" /\ j.word = 0)
       ELSE j.state \in {"OUT", "BLOCKED"}

\* t has left core c, for which nobody queues; the barrier is yet to be told.
Departs(s, m, t, c) ==
    /\ Ready(m, {}) /\ Calm(s, m, {t}) /\ m.bar = s.bar /\ m.fakeLeaves = s.fakeLeaves
    /\ m.cur[c] \in {t, None} /\ \A d \in Cores \ {c} : m.cur[d] = s.cur[d]
    /\ m.active = s.active \ {c} /\ RunsBut(s, m, c) /\ ~Runs(m, c)
    /\ \A u \in Threads \ {t} : m.thr[u] = s.thr[u]
    /\ Absent(s.thr[t], m.thr[t])

\* A thread that may leave: it executes, and if it is marked, for a sleep
\* that has a deadline.
MayLeave(s, t) ==
    /\ Execs(s, t) /\ s.thr[t].handoff = None
    /\ s.thr[t].marked => s.thr[t].wakeIn > 0 /\ s.thr[t].word = 1

\* The recorder of t's core is told first.
LEMMA InactiveIs ==
    ASSUME NEW s, Good(s), NEW t \in Threads, MayLeave(s, t), NEW a,
           a = Activated(s, s.active \ {s.thr[t].cid})
    PROVE  /\ Ready(a, {}) /\ Tables(a) /\ a.thr = s.thr /\ a.cur = s.cur
           /\ a.runQueue = s.runQueue /\ a.bar = s.bar
           /\ a.fakeLeaves = s.fakeLeaves /\ a.active = s.active \ {s.thr[t].cid}
           /\ a.sleepQueue = s.sleepQueue /\ ~a.broken /\ Asleep(a) /\ SameRuns(s, a)
<1>1. Tables(s) /\ Ready(s, {}) /\ s.active \ {s.thr[t].cid} \in SUBSET Cores
  BY ExecsIs DEF MayLeave, Typed
<1>2. /\ Tables(a) /\ a.thr = s.thr /\ a.cur = s.cur /\ a.runQueue = s.runQueue
      /\ a.bar = s.bar /\ a.fakeLeaves = s.fakeLeaves /\ a.active = s.active \ {s.thr[t].cid}
      /\ a.sleepQueue = s.sleepQueue /\ a.broken = s.broken /\ SameRuns(s, a)
  BY <1>1, ActivatedIs
<1>3. Ready(a, {})
  BY Zenon, <1>1, <1>2 DEF Ready, Awaited, Promised, Asleep, Sorted, Allowed
<1> QED
  BY <1>2, <1>3 DEF Ready

\* That is what leave does to the tables when nobody waits for the core.
LEMMA DepartsIs ==
    ASSUME NEW s, Good(s), NEW t \in Threads, MayLeave(s, t), NEW a,
           a = Activated(s, s.active \ {s.thr[t].cid}), NEW m,
           LeavesFor(s, t, s.thr[t].cid, a, m)
    PROVE  Departs(s, m, t, s.thr[t].cid)
<1> DEFINE c == s.thr[t].cid
<1>1. /\ Typed(s) /\ s.cur[c] = t /\ c \in Cores /\ s.thr[t] \in ThreadInfos
      /\ s.thr[t].handoff = None /\ s.thr[t].state = "RUNNING"
  BY ExecsIs DEF MayLeave, Typed
<1>2. /\ Ready(a, {}) /\ Tables(a) /\ a.thr = s.thr /\ a.cur = s.cur /\ a.bar = s.bar
      /\ a.fakeLeaves = s.fakeLeaves /\ a.active = s.active \ {c} /\ SameRuns(s, a)
      /\ ~a.broken /\ a.sleepQueue = s.sleepQueue /\ a.runQueue = s.runQueue
  BY InactiveIs
<1>3. Ready(a, {t})
  BY <1>2, ReadyMore
<1>4. Calm(s, a, {t})
  BY <1>2, CalmSame
<1> HIDE DEF c
<1>5. CASE s.thr[t].marked
  <2>1. WentToSleep(a, m, t, c)
    BY <1>5 DEF LeavesFor, c
  <2>2. a.thr[t].wakeIn > 0 /\ a.thr[t].word = 1 /\ a.thr[t].handoff = None
    BY <1>1, <1>2, <1>5 DEF MayLeave
  <2>3. Ready(m, {}) /\ Calm(a, m, {t})
    BY <1>2, <2>1, <2>2, WentToSleepReady
  <2>4. /\ m.thr[t] = Napping(s.thr[t]) /\ \A u \in Threads \ {t} : m.thr[u] = s.thr[u]
        /\ m.cur = [s.cur EXCEPT ![c] = None] /\ m.bar = s.bar /\ m.active = s.active \ {c}
        /\ m.fakeLeaves = s.fakeLeaves /\ RunsBut(s, m, c) /\ ~Runs(m, c)
    BY Zenon, <1>2, <2>1 DEF WentToSleep, OneThread, RunsBut, SameRuns
  <2>5. Absent(s.thr[t], m.thr[t])
    BY <1>1, <1>5, <2>4 DEF Absent, Napping, ThreadInfos
  <2>6. m.cur[c] = None /\ \A d \in Cores \ {c} : m.cur[d] = s.cur[d]
    BY <1>1, <2>4 DEF Typed
  <2>7. Calm(s, m, {t})
    BY <2>4, CalmSame
  <2> QED
    BY <2>3, <2>4, <2>5, <2>6, <2>7 DEF Departs, c
<1>6. CASE ~s.thr[t].marked
  <2> DEFINE i == [a.thr[t] EXCEPT !.state = "OUT"]
  <2>1. GoneOut(a, m, t)
    BY <1>6 DEF LeavesFor
  <2>2. i.state = "OUT" /\ i.handoff = None /\ i.marked = s.thr[t].marked
    BY <1>1, <1>2 DEF ThreadInfos
  <2>3. OneThread(a, m, t, i)
    BY <2>1 DEF GoneOut
  <2> HIDE DEF i
  <2>4. Quiet(a, m, t, i)
    BY <2>1, <2>2, <2>3 DEF Quiet, GoneOut
  <2>5. Ready(m, {}) /\ Calm(a, m, {t})
    BY <1>1, <1>2, <1>3, <2>4, QuietReady
  <2>6. /\ m.thr[t] = i /\ \A u \in Threads \ {t} : m.thr[u] = s.thr[u]
        /\ m.cur = s.cur /\ m.bar = s.bar /\ m.active = s.active \ {c}
        /\ m.fakeLeaves = s.fakeLeaves /\ RunsBut(s, m, c) /\ ~Runs(m, c)
    BY Zenon, <1>2, <2>1, <2>3 DEF GoneOut, OneThread, RunsBut, SameRuns, c
  <2>7. Absent(s.thr[t], m.thr[t])
    BY <1>6, <2>2, <2>6 DEF Absent
  <2>8. Calm(s, m, {t})
    BY <2>6, CalmSame
  <2> QED
    BY <1>1, <2>5, <2>6, <2>7, <2>8 DEF Departs, c
<1> QED
  BY <1>5, <1>6

\* The barrier of a core whose thread has left.
LEMMA DepartsFits ==
    ASSUME NEW s, Good(s), NEW t \in Threads, Execs(s, t), NEW m, Departs(s, m, t, s.thr[t].cid)
    PROVE  LET c == s.thr[t].cid
               b == Leaving(s.bar, c)
           IN  /\ WF(b) /\ Fits(m, b) /\ IndicesKnown(b) /\ b.phaseCount = s.bar.phaseCount
               /\ \A d \in Cores \ {c} : b.state[d] = s.bar.state[d]
<1> DEFINE c == s.thr[t].cid
           b == Leaving(s.bar, c)
<1>1. /\ IndicesKnown(s.bar) /\ WF(s.bar) /\ Fits(s, s.bar) /\ c \in Cores /\ c \in Tids
      /\ s.bar.state[c] = "RUNNING"
  BY ExecsIs
<1>2. /\ IndicesKnown(b) /\ b.phaseCount = s.bar.phaseCount
      /\ \A d \in Cores \ {c} : b.state[d] = s.bar.state[d]
  BY <1>1, StopRunning DEF Cores
<1>3. /\ Tables(m) /\ m.bar = s.bar /\ m.active = s.active \ {c} /\ RunsBut(s, m, c)
      /\ ~Runs(m, c)
  BY DEF Departs, Ready
<1>4. FitsBut(m, c) /\ c \notin m.active
  BY <1>1, <1>3 DEF Fits, FitsBut, RunsBut
<1>5. WF(b) /\ Fits(m, b)
  BY <1>1, <1>3, <1>4, LeavingFits
<1> QED
  BY <1>2, <1>5

\* leave fails no assertion.
LEMMA LeaveSafe ==
    ASSUME NEW s, Good(s), NEW t \in Threads, MayLeave(s, t), NEW r \in Leave(s, t, s.thr[t].cid)
    PROVE  ~r.broken
<1> DEFINE c == s.thr[t].cid
           a == Activated(s, s.active \ {c})
           x == SchedContext(s, c)
<1>0. Execs(s, t)
  BY DEF MayLeave
<1>1. /\ Tables(s) /\ Typed(s) /\ s.cur[c] = t /\ c \in Cores /\ s.thr[t].state = "RUNNING"
      /\ c \in s.active /\ s.bar.state[c] = "RUNNING"
  BY <1>0, ExecsIs
<1>2. a = [s EXCEPT !.active = @ \ {c}]
  BY <1>1 DEF Activated, Typed, Schedulers
<1>3. r \in IF s.thr[t].marked THEN LeaveToSleep(a, t, c) ELSE LeaveRunning(a, t, c)
  BY <1>1, <1>2 DEF Leave, Asserting
<1>4. /\ Tables(a) /\ a.thr = s.thr /\ a.cur = s.cur /\ a.runQueue = s.runQueue
      /\ ~a.broken
  BY InactiveIs
<1>5. SchedContext(a, c) = x
  BY <1>4 DEF SchedContext
<1>6. a \in Schedulers /\ a = Activated(s, s.active \ {s.thr[t].cid})
  BY <1>4 DEF Tables
<1>7. ASSUME NEW m, LeavesFor(s, t, c, a, m), r \in LeaveBarrier(m, c) PROVE ~r.broken
  <2>1. Departs(s, m, t, c)
    BY <1>6, <1>7, DepartsIs
  <2>2. m.bar = s.bar /\ Tables(m) /\ Asleep(m) /\ ~m.broken
    BY <2>1 DEF Departs, Ready
  <2>3. r \in WithBarrier(m, Leaving(s.bar, c))
    BY <1>1, <1>7, <2>2 DEF LeaveBarrier
  <2>4. WF(Leaving(s.bar, c))
    BY <1>0, <2>1, DepartsFits
  <2> QED
    BY <2>2, <2>3, <2>4, WithBarrierSafe
<1> HIDE DEF a, c
<1>8. CASE x = None
  <2>1. CASE s.thr[t].marked
    <3>1. r \in LeaveBarrier(Freed(a, t, c), c)
      BY <1>3, <1>5, <1>8, <2>1 DEF LeaveToSleep, Freed, NapBegun
    <3>2. WentToSleep(a, Freed(a, t, c), t, c)
      BY <1>1, <1>4, <1>5, <1>8, FreedIs
    <3>3. LeavesFor(s, t, c, a, Freed(a, t, c))
      BY <2>1, <3>2 DEF LeavesFor
    <3> QED
      BY <1>7, <3>1, <3>3
  <2>2. CASE ~s.thr[t].marked
    <3>1. r \in LeaveBarrier(ToOut(a, t), c)
      BY <1>3, <1>5, <1>8, <2>2 DEF LeaveRunning, ToOut
    <3>2. GoneOut(a, ToOut(a, t), t)
      BY <1>1, <1>4, <1>5, <1>8, ToOutIs DEF c
    <3>3. LeavesFor(s, t, c, a, ToOut(a, t))
      BY <2>2, <3>2 DEF LeavesFor
    <3> QED
      BY <1>7, <3>1, <3>3
  <2> QED
    BY <2>1, <2>2
<1>9. CASE x # None
  <2>1. x \in Members(s.runQueue) /\ x \in Threads
    BY <1>1, <1>9, SchedContextIs
  <2>2. a.thr[x].state = "QUEUED" /\ a.thr[x].word = 1 /\ x # t /\ x \in Members(a.runQueue)
    BY <1>1, <1>4, <2>1, QueuedFacts
  <2> HIDE DEF x
  <2>3. ASSUME NEW k \in Schedulers, k.cur = [a.cur EXCEPT ![c] = None], k.thr[x] = a.thr[x],
               k.broken = a.broken, r \in TakeOver(k, x, c)
        PROVE  ~r.broken
    <3>1. CanSchedule(k, x, c) /\ CanWake(k, x)
      BY <1>1, <1>4, <2>2, <2>3 DEF CanSchedule, CanWake, Typed
    <3>2. r = TakenOver(k, x, c)
      BY <2>3, <3>1 DEF TakeOver, Asserting, TakenOver
    <3>3. TookOver(k, TakenOver(k, x, c), x, c)
      BY <1>1, <2>1, TakenOverIs
    <3> QED
      BY <1>4, <2>3, <3>2, <3>3 DEF TookOver
  <2>4. CASE s.thr[t].marked
    <3>1. r \in TakeOver(NapBegun(a, t, c), x, c)
      BY <1>3, <1>5, <1>9, <2>4 DEF LeaveToSleep, NapBegun
    <3>2. FellAsleep(a, NapBegun(a, t, c), t, c)
      BY <1>1, <1>6, NapBegunIs
    <3> QED
      BY <2>1, <2>2, <2>3, <3>1, <3>2 DEF FellAsleep, OneThread
  <2>5. CASE ~s.thr[t].marked
    <3>1. r \in TakeOver(Deschedule(a, t, c, "BLOCKED"), x, c)
      BY <1>3, <1>5, <1>9, <2>5 DEF LeaveRunning
    <3>2. "BLOCKED" \in ThreadStates
      BY DEF ThreadStates
    <3>3. Descheduled(a, Deschedule(a, t, c, "BLOCKED"), t, c, "BLOCKED")
      BY <1>1, <1>6, <3>2, DescheduleIs
    <3> QED
      BY <2>1, <2>2, <2>3, <3>1, <3>3 DEF Descheduled, OneThread
  <2> QED
    BY <2>4, <2>5
<1> QED
  BY <1>8, <1>9


\* The phase goes on after it, or it ends.
LEMMA LeaveGoes ==
    ASSUME NEW s, Good(s), NEW t \in Threads, MayLeave(s, t), NEW D, Scanned(s.bar, D),
           NoneOwes(s, D), NEW r \in Leave(s, t, s.thr[t].cid)
    PROVE  /\ Lands(s, r, t, D) \/ Closes(s, r, t, D)
           /\ Absent(s.thr[t], r.thr[t])
           /\ SameFakes(s, r)
<1> DEFINE c == s.thr[t].cid
           a == Activated(s, s.active \ {c})
<1>1. /\ Consistent(s) /\ Tables(s) /\ Typed(s) /\ ~s.broken /\ Ready(s, {}) /\ Asleep(s)
      /\ IndicesKnown(s.bar) /\ WF(s.bar) /\ c \in Cores /\ c \in Tids /\ s.cur[c] = t
      /\ s.bar.state[c] = "RUNNING" /\ s.thr[t].state = "RUNNING" /\ c \notin D
      /\ s.thr[t] \in ThreadInfos
  BY ExecsIs DEF MayLeave, Typed
<1>2. ~r.broken
  BY LeaveSafe
<1>3. Left(s, t, c, r)
  BY <1>1, <1>2, LeaveIs
<1>4. Consistent(r) /\ r.fakeLeaves = s.fakeLeaves
  BY Zenon, <1>1, <1>3, LeftKeeps
<1>5. Execs(s, t) /\ a = Activated(s, s.active \ {c})
  BY DEF MayLeave
<1> HIDE DEF a
<1>6. /\ Ready(a, {}) /\ Tables(a) /\ a.thr = s.thr /\ a.cur = s.cur
      /\ a.runQueue = s.runQueue /\ a.bar = s.bar
      /\ a.sleepQueue = s.sleepQueue /\ ~a.broken /\ Asleep(a)
  BY <1>5, InactiveIs
<1>7. ASSUME NEW m, LeavesFor(s, t, c, a, m), LeftBarrier(m, c, r)
      PROVE  /\ Lands(s, r, t, D) \/ Closes(s, r, t, D)
             /\ Absent(s.thr[t], r.thr[t])
  <2> DEFINE b == Leaving(s.bar, c)
  <2>1. Departs(s, m, t, c)
    BY <1>5, <1>7, DepartsIs
  <2>2. /\ m.bar = s.bar /\ Tables(m) /\ Ready(m, {}) /\ Calm(s, m, {t})
        /\ m.cur[c] \in {t, None} /\ \A d \in Cores \ {c} : m.cur[d] = s.cur[d]
        /\ \A u \in Threads \ {t} : m.thr[u] = s.thr[u]
        /\ Absent(s.thr[t], m.thr[t])
    BY <2>1 DEF Departs, Ready
  <2>3. /\ WF(b) /\ Fits(m, b) /\ IndicesKnown(b) /\ b.phaseCount = s.bar.phaseCount
        /\ \A d \in Cores \ {c} : b.state[d] = s.bar.state[d]
    BY <1>5, <2>1, DepartsFits
  <2>4. Woken(m, b, r)
    BY <1>1, <1>7, <2>2 DEF LeftBarrier
  <2>5. Scanned(b, D)
    BY Zenon, <1>1, StopScanned
  <2> HIDE DEF b
  <2>6. NoneOwes(m, D)
    <3> SUFFICES ASSUME NEW d \in D, m.cur[d] # None PROVE m.thr[m.cur[d]].handoff = None
      BY DEF NoneOwes
    <3>1. d \in Cores /\ d # c
      BY <1>1 DEF Scanned, InState, Cores
    <3>2. m.cur[d] = s.cur[d] /\ s.cur[d] \in Threads /\ s.cur[d] # t
      BY <1>5, <2>2, <3>1, ExecsIs DEF Typed
    <3> QED
      BY <2>2, <3>2 DEF NoneOwes
  <2>7. Stops(s, m, t, c, b, D)
    BY <2>2, <2>3, <2>5, <2>6 DEF Stops
  <2>8. D \ {c} \subseteq D
    OBVIOUS
  <2> HIDE DEF c
  <2>9. /\ (Lands(s, r, t, D) /\ r.thr[t] = m.thr[t]) \/ Closes(s, r, t, D)
        /\ Dawns(m.thr[t], r.thr[t])
    BY <1>1, <2>4, <2>7, <2>8, StopsGoes
  <2>10. Absent(s.thr[t], r.thr[t])
    BY <2>2, <2>9 DEF Absent, Dawns
  <2> QED
    BY <2>9, <2>10
<1>8. ASSUME NEW x \in Threads, GaveWay(s, t, c, x, a, r)
      PROVE  Lands(s, r, t, D) /\ Absent(s.thr[t], r.thr[t])
  <2> DEFINE i == Leaver(a.thr[t])
             j == Awakened(a.thr[x], c)
  <2>1. /\ x \in Members(s.runQueue) /\ c \in Mask[x] /\ Exchanged(a, r, t, i, x, j, c)
        /\ r.sleepQueue = IF s.thr[t].marked THEN InsertSleeper(a, t) ELSE a.sleepQueue
    BY <1>8 DEF GaveWay
  <2>2. s.thr[x].state = "QUEUED"
    BY <1>1, <2>1, QueuedFacts
  <2>3. /\ i \in ThreadInfos /\ i.state \in {"BLOCKED", "SLEEPING"} /\ i.handoff = None
        /\ i.word = s.thr[t].word
    BY <1>1, <1>6, LeaverIs DEF MayLeave
  <2>4. j.state = "RUNNING"
    BY <1>1, <1>6, AwakenedIs DEF Typed
  <2>5. Asleep(r) /\ Absent(s.thr[t], i)
    <3>1. CASE s.thr[t].marked
      <4>1. i = Napping(a.thr[t]) /\ r.sleepQueue = InsertSleeper(a, t)
        BY <1>6, <2>1, <3>1 DEF Leaver
      <4>2. i.state = "SLEEPING" /\ ~i.marked
        BY <1>1, <1>6, <4>1 DEF Napping, ThreadInfos
      <4>3. a.thr[t].wakeIn > 0 /\ a.thr[t].word = 1
        BY <1>6, <3>1 DEF MayLeave
      <4> HIDE DEF i, j
      <4>4. /\ r.thr[t] = i /\ r.thr[x] = j /\ \A u \in Threads \ {t, x} : r.thr[u] = a.thr[u]
        BY <2>1 DEF Exchanged, TwoThreads
      <4>5. \A u \in Threads \ {t} : r.thr[u].state = "SLEEPING" \/ a.thr[u].state = "SLEEPING" =>
              r.thr[u] = a.thr[u]
        BY <1>6, <2>2, <2>4, <4>4
      <4>6. r.thr[t] = Napping(a.thr[t])
        BY <4>1, <4>4
      <4>7. Asleep(r)
        BY <1>6, <4>1, <4>3, <4>5, <4>6, NapAsleep
      <4> QED
        BY <2>3, <3>1, <4>2, <4>7 DEF Absent
    <3>2. CASE ~s.thr[t].marked
      <4>1. i = Blocked(a.thr[t]) /\ r.sleepQueue = a.sleepQueue
        BY <1>6, <2>1, <3>2 DEF Leaver
      <4>2. i.state = "BLOCKED" /\ ~i.marked
        BY <1>1, <1>6, <3>2, <4>1 DEF Blocked, ThreadInfos
      <4> HIDE DEF i, j
      <4>3. Asleep(r)
        BY <1>1, <1>6, <2>1, <2>2, <2>4, <4>1, <4>2, ExchangedAsleep
      <4> QED
        BY <2>3, <3>2, <4>2, <4>3 DEF Absent
    <3> QED
      BY <3>1, <3>2
  <2> HIDE DEF i
  <2>6. /\ a.thr[x].state = "QUEUED" /\ a.bar.state[c] = "RUNNING"
        /\ a.thr[t].handoff \in {x, None}
    BY <1>1, <1>6, <2>2 DEF MayLeave
  <2>7. Ready(r, {}) /\ Calm(a, r, {t})
    <3>1. /\ Ready(r, {t}) /\ Calm(a, r, {t})
          /\ i.state # "QUEUED" => Ready(r, {})
      BY Zenon, <1>1, <1>6, <2>1, <2>3, <2>5, <2>6, ExchangedReady
    <3> QED
      BY <2>3, <3>1
  <2> HIDE DEF j
  <2>8. r.bar = s.bar /\ r.thr[t] = i
    BY <1>6, <2>1 DEF Exchanged, TwoThreads
  <2>9. Calm(s, a, {t})
    BY <1>6, CalmSame
  <2>10. Calm(s, r, {t})
    BY <2>7, <2>9, CalmCompose
  <2> QED
    BY <1>1, <1>4, <2>5, <2>7, <2>8, <2>10 DEF Lands, Good
<1>9. \/ \E m : LeavesFor(s, t, c, a, m) /\ LeftBarrier(m, c, r)
      \/ \E x \in Threads : GaveWay(s, t, c, x, a, r)
  BY <1>3 DEF Left, a
<1> QED
  BY <1>4, <1>7, <1>8, <1>9 DEF SameFakes

-----------------------------------------------------------------------------
(* Where the threads are                                                   *)

\* A thread that is to do neither: no sleep, no handoff.
Plain(i) == ~i.marked /\ i.handoff = None

\* The watchdog w is about to leave for thread u.
CaughtBy(w, u) == w.at = "leaving" /\ w.th = u

\* What the place of thread u says about it.
AtPlace(s, p, w, u) ==
    /\ p[u] = "out" => s.thr[u].state = "NONE"
    /\ p[u] = "start" => s.thr[u].state = "STARTED" /\ Plain(s.thr[u])
    /\ p[u] = "bjoin" => s.thr[u].state = "RUNNING" /\ Plain(s.thr[u])
    /\ p[u] = "bsync" => s.thr[u].state = "RUNNING" /\ ~s.thr[u].marked
    /\ p[u] = "ctx" => /\ Plain(s.thr[u])
                       /\ \/ s.thr[u].state = "QUEUED"
                          \/ Execs(s, u) /\ s.thr[u].word = 0
    /\ p[u] \in {"run", "finleave"} => Execs(s, u) /\ Plain(s.thr[u])
    /\ p[u] = "handoff" => Execs(s, u) /\ ~s.thr[u].marked /\ s.thr[u].handoff # None
    /\ p[u] = "sys" =>
         /\ Plain(s.thr[u])
         /\ \/ Execs(s, u) /\ (u \in Members(s.fakeLeaves) \/ CaughtBy(w, u))
            \/ s.thr[u].state \in {"OUT", "BLOCKED"} /\ ~CaughtBy(w, u)
    /\ p[u] \in {"tonap", "totimed"} =>
         /\ Execs(s, u) /\ s.thr[u].marked /\ s.thr[u].handoff = None
         /\ s.thr[u].wakeIn > 0 /\ s.thr[u].word = 1
    /\ p[u] \in {"nap", "timed"} =>
         /\ Plain(s.thr[u])
         /\ \/ s.thr[u].state = "SLEEPING"
            \/ s.thr[u].state = "BLOCKED" /\ s.thr[u].word = 0
    /\ p[u] \in {"awake", "intr"} =>
         Plain(s.thr[u]) /\ s.thr[u].state \in {"SLEEPING", "BLOCKED"}
    /\ p[u] = "woken" => Plain(s.thr[u]) /\ s.thr[u].state = "BLOCKED"
    /\ p[u] = "finish" => Plain(s.thr[u]) /\ s.thr[u].state \in {"OUT", "BLOCKED"}
    /\ p[u] \notin {"dead", "deadnap", "doomed"}

\* A thread that the watchdog is about to leave for is still in its call,
\* on the core it was on.
Watched(s, p, w) ==
    /\ w.at # "reaping"
    /\ w.at = "leaving" =>
         /\ w.th \in Threads /\ w.th \notin Members(s.fakeLeaves)
         /\ p[w.th] = "sys" /\ Execs(s, w.th) /\ w.cid = s.thr[w.th].cid

\* The cores in D are done with the phase: their threads wait in the barrier
\* and have no handoff to do.
Done(s, p, D) ==
    \A c \in D : /\ s.cur[c] \in Threads /\ p[s.cur[c]] = "bsync"
                 /\ s.thr[s.cur[c]].handoff = None

\* The tables, the threads' places, and the cores done with this phase.
Orderly(s, p, w) ==
    /\ Good(s) /\ Watched(s, p, w) /\ \A u \in Threads : AtPlace(s, p, w, u)
    /\ \E D : Scanned(s.bar, D) /\ Done(s, p, D)

\* Thread u, for which nobody does anything, as the step of another leaves it.
Aside(s, p, w, r, p2, w2, u) ==
    /\ p2[u] = p[u]
    /\ CaughtBy(w2, u) <=> CaughtBy(w, u)
    /\ u \in Members(r.fakeLeaves) <=> u \in Members(s.fakeLeaves)

\* ... is where it was, within a phase,
LEMMA CalmPlace ==
    ASSUME NEW s, NEW p, NEW w, NEW u \in Threads, AtPlace(s, p, w, u),
           NEW r, NEW p2, NEW w2, Undisturbed(s, r, u), Aside(s, p, w, r, p2, w2, u)
    PROVE  AtPlace(r, p2, w2, u)
<1>1. Execs(s, u) => s.thr[u].state = "RUNNING"
  BY DEF Execs
<1>2. /\ r.thr[u].marked = s.thr[u].marked /\ r.thr[u].handoff = s.thr[u].handoff
      /\ \/ /\ r.thr[u].state = s.thr[u].state /\ r.thr[u].word = s.thr[u].word
            /\ r.thr[u].cid = s.thr[u].cid /\ r.thr[u].wakeIn = s.thr[u].wakeIn
         \/ s.thr[u].state = "OUT" /\ r.thr[u].state = "BLOCKED"
         \/ s.thr[u].state = "QUEUED" /\ r.thr[u].word = 0 /\ Execs(r, u)
      /\ Execs(s, u) => Execs(r, u)
  BY DEF Undisturbed
<1> QED
  BY <1>1, <1>2 DEF Aside, AtPlace, Plain

\* ... and at the end of a phase if it is not inside the simulation or waits.
LEMMA DawnPlace ==
    ASSUME NEW s, NEW p, NEW w, NEW u \in Threads, AtPlace(s, p, w, u),
           s.thr[u].state = "RUNNING" => p[u] = "bsync",
           NEW r, NEW p2, NEW w2, Dawns(s.thr[u], r.thr[u]), Aside(s, p, w, r, p2, w2, u)
    PROVE  AtPlace(r, p2, w2, u)
<1>1. Execs(s, u) => s.thr[u].state = "RUNNING"
  BY DEF Execs
<1> QED
  BY <1>1 DEF Aside, AtPlace, Plain, Dawns

\* The threads that are done stay so within a phase.
LEMMA DoneKeeps ==
    ASSUME NEW s, Good(s), NEW p, NEW D, Scanned(s.bar, D), Done(s, p, D),
           NEW t \in Threads, \A c \in D : s.cur[c] # t,
           \A u \in Threads : p[u] = "bsync" => s.thr[u].state = "RUNNING",
           NEW r, Good(r), Calm(s, r, {t}), NEW p2, \A u \in Threads \ {t} : p2[u] = p[u]
    PROVE  Done(r, p2, D)
<1> SUFFICES ASSUME NEW c \in D
             PROVE  r.cur[c] \in Threads /\ p2[r.cur[c]] = "bsync" /\ r.thr[r.cur[c]].handoff = None
  BY DEF Done
<1> DEFINE u == s.cur[c]
<1>1. Typed(s) /\ Typed(r)
  BY TableTypes DEF Good, Ready
<1>2. c \in Cores
  BY DEF Scanned, InState, Cores
<1>3. u \in Threads \ {t} /\ p[u] = "bsync" /\ s.thr[u].handoff = None /\ s.thr[u].state = "RUNNING"
  BY DEF Done
<1>4. s.thr[u].cid = c
  BY <1>1, <1>2, <1>3 DEF Typed, Contexts
<1> HIDE DEF u
<1>5. r.thr[u].handoff = None /\ r.thr[u].state = "RUNNING" /\ r.thr[u].cid = c
  BY <1>3, <1>4 DEF Calm, Undisturbed
<1>6. r.cur[c] = u
  BY <1>1, <1>3, <1>5 DEF Typed, Contexts, InStates
<1> QED
  BY <1>3, <1>5, <1>6

\* When the phase ends, the others that run are done with it.
LEMMA OthersDone ==
    ASSUME NEW s, Good(s), NEW p, NEW D, Scanned(s.bar, D), Done(s, p, D),
           NEW t \in Threads, NEW m, Tables(m), m.bar = s.bar, Calm(s, m, {t}),
           NEW u \in Threads \ {t}, m.thr[u].state = "RUNNING" => m.thr[u].cid \in D
    PROVE  /\ m.thr[u].state = "RUNNING" => p[u] = "bsync"
           /\ s.thr[u].state = "RUNNING" => p[u] = "bsync" /\ s.thr[u].handoff = None
<1>1. Typed(s) /\ Undisturbed(s, m, u)
  BY TableTypes DEF Good, Ready, Calm
<1>2. \A c \in D : s.bar.state[c] = "WAITING"
  BY DEF Scanned, InState
<1>3. ASSUME m.thr[u].state = "RUNNING"
      PROVE  s.thr[u].state = "RUNNING" /\ m.thr[u].cid = s.thr[u].cid
  <2>1. s.bar.state[m.thr[u].cid] # "RUNNING"
    BY <1>2, <1>3
  <2> QED
    BY <1>1, <1>3, <2>1 DEF Undisturbed, Execs
<1>4. s.thr[u].state = "RUNNING" => m.thr[u].state = "RUNNING"
  BY <1>1 DEF Undisturbed
<1>5. s.thr[u].state = "RUNNING" => s.cur[s.thr[u].cid] = u
  BY <1>1 DEF Typed, Contexts, InStates
<1> QED
  BY <1>3, <1>4, <1>5 DEF Done

-----------------------------------------------------------------------------
(* The steps                                                               *)

\* Everybody but t is out of the simulation or done with the phase.
AllDone(s, p, t) ==
    \A u \in Threads \ {t} : s.thr[u].state = "RUNNING" => p[u] = "bsync" /\ s.thr[u].handoff = None

\* Thread t moved, or was moved by the watchdog, from a place where it is not
\* done with the phase.
Moves(s, p, w, r, p2, w2, t, D) ==
    /\ Orderly(s, p, w) /\ Scanned(s.bar, D) /\ Done(s, p, D)
    /\ \A c \in D : s.cur[c] # t
    /\ \A u \in Threads \ {t} : Aside(s, p, w, r, p2, w2, u)
    /\ \/ w2.at = "idle"
       \/ w2 = w /\ ~CaughtBy(w, t)
       \/ Watched(r, p2, w2)

\* The watchdog sees the thread it is about to leave for as it was.
LEMMA WatchedStays ==
    ASSUME NEW s, NEW p, NEW w, NEW r, NEW p2, NEW w2, NEW t \in Threads, NEW D,
           Moves(s, p, w, r, p2, w2, t, D), \A u \in Threads \ {t} : AtPlace(r, p2, w2, u),
           \A u \in Threads \ {t} : Execs(s, u) /\ p[u] = "sys" => r.thr[u].cid = s.thr[u].cid
    PROVE  Watched(r, p2, w2)
<1>1. CASE w2 = w /\ ~CaughtBy(w, t) /\ w.at = "leaving"
  <2> DEFINE u == w.th
  <2>1. /\ u \in Threads \ {t} /\ u \notin Members(s.fakeLeaves) /\ p[u] = "sys" /\ Execs(s, u)
        /\ w.cid = s.thr[u].cid
    BY <1>1 DEF Moves, Orderly, Watched, CaughtBy
  <2>2. Aside(s, p, w, r, p2, w2, u) /\ AtPlace(r, p2, w2, u) /\ r.thr[u].cid = s.thr[u].cid
    BY <2>1 DEF Moves
  <2>3. CaughtBy(w2, u) /\ p2[u] = "sys" /\ u \notin Members(r.fakeLeaves)
    BY <1>1, <2>1, <2>2 DEF CaughtBy, Aside
  <2>4. Execs(r, u)
    BY <2>2, <2>3 DEF AtPlace
  <2> QED
    BY <1>1, <2>1, <2>2, <2>3, <2>4 DEF Watched
<1>2. CASE w2 = w /\ w.at # "leaving"
  BY <1>2 DEF Moves, Orderly, Watched
<1>3. CASE w2.at = "idle"
  BY <1>3 DEF Watched
<1> QED
  BY <1>1, <1>2, <1>3 DEF Moves

\* After an operation within the phase everything is in order,
LEMMA LandsOrderly ==
    ASSUME NEW s, NEW p, NEW w, NEW r, NEW p2, NEW w2, NEW t \in Threads, NEW D,
           Moves(s, p, w, r, p2, w2, t, D), AtPlace(r, p2, w2, t),
           NEW X, Done(r, p2, X), Lands(s, r, t, D \cup X)
    PROVE  Orderly(r, p2, w2)
<1>1. /\ Good(s) /\ Good(r) /\ Calm(s, r, {t}) /\ Scanned(s.bar, D) /\ Done(s, p, D)
      /\ Scanned(r.bar, D \cup X) /\ \A c \in D : s.cur[c] # t
      /\ \A u \in Threads : AtPlace(s, p, w, u)
      /\ \A u \in Threads \ {t} : Aside(s, p, w, r, p2, w2, u)
  BY DEF Moves, Orderly, Lands
<1>2. ASSUME NEW u \in Threads \ {t} PROVE AtPlace(r, p2, w2, u)
  BY <1>1, CalmPlace DEF Calm
<1>3. Done(r, p2, D)
  <2>1. \A u \in Threads : p[u] = "bsync" => s.thr[u].state = "RUNNING"
    BY <1>1 DEF AtPlace
  <2>2. \A u \in Threads \ {t} : p2[u] = p[u]
    BY <1>1 DEF Aside
  <2> QED
    BY <1>1, <2>1, <2>2, DoneKeeps
<1>4. Done(r, p2, D \cup X)
  BY <1>3 DEF Done
<1>5. \A u \in Threads \ {t} : Execs(s, u) /\ p[u] = "sys" => r.thr[u].cid = s.thr[u].cid
  BY <1>1 DEF Calm, Undisturbed, Execs
<1>6. Watched(r, p2, w2)
  BY <1>2, <1>5, WatchedStays
<1> QED
  BY <1>1, <1>2, <1>4, <1>6 DEF Orderly

\* ... and after one that ends it; then the others were done.
LEMMA ClosesOrderly ==
    ASSUME NEW s, NEW p, NEW w, NEW r, NEW p2, NEW w2, NEW t \in Threads, NEW D,
           Moves(s, p, w, r, p2, w2, t, D), AtPlace(r, p2, w2, t), Closes(s, r, t, D)
    PROVE  Orderly(r, p2, w2) /\ AllDone(s, p, t)
<1>1. /\ Good(s) /\ Good(r) /\ Scanned(s.bar, D) /\ Done(s, p, D) /\ Scanned(r.bar, {})
      /\ \A u \in Threads : AtPlace(s, p, w, u)
      /\ \A u \in Threads \ {t} : Aside(s, p, w, r, p2, w2, u)
  BY DEF Moves, Orderly, Closes
<1>2. PICK m : /\ Tables(m) /\ m.bar = s.bar /\ Calm(s, m, {t}) /\ Dawned(m, r)
               /\ \A u \in Threads \ {t} : m.thr[u].state = "RUNNING" => m.thr[u].cid \in D
  BY DEF Closes
<1>3. ASSUME NEW u \in Threads \ {t}
      PROVE  /\ m.thr[u].state = "RUNNING" => p[u] = "bsync"
             /\ s.thr[u].state = "RUNNING" => p[u] = "bsync" /\ s.thr[u].handoff = None
  <2>1. m.thr[u].state = "RUNNING" => m.thr[u].cid \in D
    BY <1>2
  <2> QED
    BY <1>1, <1>2, <2>1, OthersDone
<1> DEFINE k == [m EXCEPT !.fakeLeaves = s.fakeLeaves]
<1>4. ASSUME NEW u \in Threads \ {t} PROVE AtPlace(r, p2, w2, u)
  <2>1. AtPlace(s, p, w, u) /\ Undisturbed(s, m, u) /\ Aside(s, p, w, r, p2, w2, u)
        /\ Dawns(m.thr[u], r.thr[u])
    BY <1>1, <1>2 DEF Calm, Dawned
  <2>2. k.thr = m.thr /\ k.bar = m.bar /\ k.fakeLeaves = s.fakeLeaves
    BY <1>2 DEF Tables, Schedulers
  <2> HIDE DEF k
  <2>3. Undisturbed(s, k, u)
    BY <2>1, <2>2 DEF Undisturbed, Execs
  <2>4. Aside(s, p, w, k, p, w, u)
    BY <2>2 DEF Aside
  <2>5. AtPlace(k, p, w, u)
    BY <2>1, <2>3, <2>4, CalmPlace
  <2>6. Aside(k, p, w, r, p2, w2, u)
    BY <2>1, <2>2 DEF Aside
  <2>7. k.thr[u].state = "RUNNING" => p[u] = "bsync"
    BY <1>3, <2>2
  <2>8. Dawns(k.thr[u], r.thr[u])
    BY <2>1, <2>2
  <2> QED
    BY <2>5, <2>6, <2>7, <2>8, DawnPlace
<1>5. Watched(r, p2, w2)
  <2>1. \A u \in Threads \ {t} : Execs(s, u) /\ p[u] = "sys" => FALSE
    BY <1>3 DEF Execs
  <2> QED
    BY <1>4, <2>1, WatchedStays
<1>6. AllDone(s, p, t)
  BY <1>3 DEF AllDone
<1>7. Done(r, p2, {})
  BY DEF Done
<1> QED
  BY <1>1, <1>4, <1>5, <1>6, <1>7 DEF Orderly

-----------------------------------------------------------------------------
(* The invariant of the orderly system, and what its steps keep            *)

\* The inductive invariant.
OrderInv == KInv /\ Orderly(sched, pc, wd)

\* Nobody executes, is in a fake leave or has a handoff to do.
Resting(s, p, p2) ==
    /\ \A t \in Threads : p[t] = "run" => p2[t] # "run"
    /\ s.fakeLeaves = <<>>
    /\ \A t \in Threads : s.thr[t].handoff = None

\* What a step owes.
InOrder ==
    /\ Orderly(sched', pc', wd')
    /\ sched'.bar.phaseCount # sched.bar.phaseCount => Resting(sched, pc, pc')

\* What the invariant says of one thread.
LEMMA OrderFacts ==
    ASSUME OrderInv
    PROVE  /\ Good(sched) /\ Consistent(sched) /\ Tables(sched) /\ Typed(sched) /\ ~sched.broken
           /\ IndicesKnown(sched.bar) /\ Ready(sched, {})
           /\ pc \in [Threads -> PCs] /\ Watched(sched, pc, wd) /\ Orderly(sched, pc, wd)
           /\ \A t \in Threads :
                /\ AtPlace(sched, pc, wd, t)
                /\ t \in Members(sched.fakeLeaves) =>
                     pc[t] = "sys" /\ sched.thr[t].state = "RUNNING" /\ Execs(sched, t)
                /\ CaughtBy(wd, t) => pc[t] = "sys" /\ Execs(sched, t)
                /\ sched.thr[t].state # "RUNNING" => sched.thr[t].handoff = None
<1>1. /\ Good(sched) /\ pc \in [Threads -> PCs] /\ Watched(sched, pc, wd)
      /\ Orderly(sched, pc, wd) /\ \A t \in Threads : AtPlace(sched, pc, wd, t)
  BY DEF OrderInv, Orderly, KInv
<1>2. /\ Consistent(sched) /\ Tables(sched) /\ Typed(sched) /\ ~sched.broken
      /\ IndicesKnown(sched.bar) /\ Ready(sched, {})
  BY <1>1, TableTypes DEF Good, Ready
<1>3. Places(sched, pc, wd)
  BY <1>2 DEF OrderInv, KInv
<1>4. ASSUME NEW t \in Threads
      PROVE  /\ t \in Members(sched.fakeLeaves) =>
                  pc[t] = "sys" /\ sched.thr[t].state = "RUNNING" /\ Execs(sched, t)
             /\ CaughtBy(wd, t) => pc[t] = "sys" /\ Execs(sched, t)
             /\ sched.thr[t].state # "RUNNING" => sched.thr[t].handoff = None
  <2>1. AtPlace(sched, pc, wd, t)
    BY <1>1
  <2>2. t \in Members(sched.fakeLeaves) => pc[t] = "sys" /\ sched.thr[t].state = "RUNNING"
    BY <1>3, <2>1 DEF Places, PlaceOf, AtPlace
  <2>3. t \in Members(sched.fakeLeaves) => Execs(sched, t)
    BY <2>1, <2>2 DEF AtPlace
  <2> QED
    BY <1>1, <1>2, <2>2, <2>3 DEF Watched, CaughtBy, Ready, Allowed, HandsTo
<1> QED
  BY <1>1, <1>2, <1>4

\* When all outcomes are good, one of them is taken.
LEMMA OneBecomes ==
    ASSUME NEW S, Becomes(S), \A r \in S : ~r.broken
    PROVE  sched' \in S
BY DEF Becomes

\* A step of t that lands, or closes the phase, keeps order.
LEMMA StepKept ==
    ASSUME OrderInv, NEW t \in Threads, NEW D, NEW X,
           Moves(sched, pc, wd, sched', pc', wd', t, D), AtPlace(sched', pc', wd', t),
           \/ Lands(sched, sched', t, D \cup X) /\ Done(sched', pc', X)
           \/ /\ Closes(sched, sched', t, D) /\ t \notin Members(sched.fakeLeaves)
              /\ sched.thr[t].handoff = None /\ pc'[t] # "run"
    PROVE  InOrder
<1>1. CASE Lands(sched, sched', t, D \cup X) /\ Done(sched', pc', X)
  <2>1. Orderly(sched', pc', wd')
    BY <1>1, LandsOrderly
  <2> QED
    BY <1>1, <2>1 DEF InOrder, Lands
<1>2. CASE /\ Closes(sched, sched', t, D) /\ t \notin Members(sched.fakeLeaves)
           /\ sched.thr[t].handoff = None /\ pc'[t] # "run"
  <2>1. Orderly(sched', pc', wd') /\ AllDone(sched, pc, t)
    BY <1>2, ClosesOrderly
  <2>2. ASSUME NEW u \in Threads, u \in Members(sched.fakeLeaves) PROVE FALSE
    BY <1>2, <2>1, <2>2, OrderFacts DEF AllDone
  <2>3. sched.fakeLeaves = <<>>
    BY <2>2, OrderFacts DEF Members, Typed
  <2>4. ASSUME NEW u \in Threads PROVE sched.thr[u].handoff = None
    BY <1>2, <2>1, OrderFacts DEF AllDone
  <2>5. ASSUME NEW u \in Threads, pc[u] = "run" PROVE pc'[u] # "run"
    <3>1. sched.thr[u].state = "RUNNING"
      BY <2>5, OrderFacts DEF AtPlace, Execs
    <3> QED
      BY <1>2, <2>1, <2>5, <3>1 DEF AllDone
  <2> QED
    BY <2>1, <2>3, <2>4, <2>5 DEF InOrder, Resting
<1> QED
  BY <1>1, <1>2

\* A step of t, which does not wait in the barrier, is not held up, and of
\* which nobody else takes notice.
Alone(t) ==
    /\ \A u \in Threads \ {t} :
         /\ pc'[u] = pc[u]
         /\ CaughtBy(wd', u) <=> CaughtBy(wd, u)
         /\ u \in Members(sched'.fakeLeaves) <=> u \in Members(sched.fakeLeaves)
    /\ pc[t] # "bsync" \/ Execs(sched, t)
    /\ \/ wd'.at = "idle"
       \/ wd' = wd /\ ~CaughtBy(wd, t)
       \/ Watched(sched', pc', wd')

\* Such a step is one of Moves.
LEMMA AloneMoves ==
    ASSUME OrderInv, NEW t \in Threads, Alone(t), NEW D, Scanned(sched.bar, D), Done(sched, pc, D)
    PROVE  Moves(sched, pc, wd, sched', pc', wd', t, D)
<1>1. ASSUME NEW c \in D PROVE sched.cur[c] # t
  <2>1. c \in Cores
    BY DEF Scanned, InState, Cores
  <2>2. CASE pc[t] # "bsync"
    BY <2>2 DEF Done
  <2>3. CASE Execs(sched, t)
    BY <2>1, <2>3, OrderFacts, ExecsIs
  <2> QED
    BY <2>2, <2>3 DEF Alone
<1> QED
  BY <1>1, OrderFacts DEF Moves, Alone, Aside

\* So it keeps order if the phase goes on.
LEMMA AloneKept ==
    ASSUME OrderInv, NEW t \in Threads, Alone(t), AtPlace(sched', pc', wd', t),
           \A D : Scanned(sched.bar, D) /\ Done(sched, pc, D) => Lands(sched, sched', t, D)
    PROVE  InOrder
<1>1. PICK D : Scanned(sched.bar, D) /\ Done(sched, pc, D)
  BY OrderFacts DEF Orderly
<1>2. Moves(sched, pc, wd, sched', pc', wd', t, D)
  BY <1>1, AloneMoves
<1>3. Done(sched', pc', {}) /\ D = D \cup {}
  BY DEF Done
<1>4. Lands(sched, sched', t, D \cup {})
  BY <1>1, <1>3
<1> QED
  BY <1>2, <1>3, <1>4, StepKept

\* Only t's place changes, and the watchdog does not have it.
LEMMA MoveAlone ==
    ASSUME OrderInv, NEW t \in Threads, NEW to, pc' = [pc EXCEPT ![t] = to], wd' = wd,
           pc[t] # "sys" \/ ~CaughtBy(wd, t), pc[t] # "bsync" \/ Execs(sched, t),
           \A u \in Threads \ {t} :
             u \in Members(sched'.fakeLeaves) <=> u \in Members(sched.fakeLeaves)
    PROVE  Alone(t) /\ pc'[t] = to
<1>1. pc \in [Threads -> PCs] /\ ~CaughtBy(wd, t)
  BY OrderFacts
<1>2. pc'[t] = to /\ \A u \in Threads \ {t} : pc'[u] = pc[u]
  BY <1>1
<1> QED
  BY <1>1, <1>2 DEF Alone

\* Nothing but t's place changes.
LEMMA StandingKept ==
    ASSUME OrderInv, NEW t \in Threads, NEW to, pc' = [pc EXCEPT ![t] = to], wd' = wd,
           sched' = sched, pc[t] # "sys", pc[t] # "bsync" \/ Execs(sched, t),
           AtPlace(sched, pc', wd, t)
    PROVE  InOrder
<1>1. Alone(t)
  BY Zenon, MoveAlone
<1>2. Calm(sched, sched, {t})
  BY CalmSame
<1>3. \A D : Scanned(sched.bar, D) /\ Done(sched, pc, D) => Lands(sched, sched', t, D)
  BY <1>2, OrderFacts DEF Lands
<1> QED
  BY Zenon, <1>1, <1>3, AloneKept

\* Each step keeps order: a thread comes back from the barrier,
LEMMA BarrierReturnKept ==
    ASSUME OrderInv, NEW t \in Threads, BarrierReturn(t)
    PROVE  InOrder
<1> DEFINE to == IF pc[t] = "bjoin" \/ sched.thr[t].handoff = None THEN "run" ELSE "handoff"
<1>1. /\ pc[t] \in {"bjoin", "bsync"} /\ pc' = [pc EXCEPT ![t] = to] /\ wd' = wd /\ sched' = sched
      /\ sched.bar.state[sched.thr[t].cid] = "RUNNING"
  BY DEF BarrierReturn, Step
<1>2. AtPlace(sched, pc, wd, t) /\ pc \in [Threads -> PCs]
  BY OrderFacts
<1>3. Execs(sched, t) /\ ~sched.thr[t].marked /\ (pc[t] = "bjoin" => sched.thr[t].handoff = None)
  BY <1>1, <1>2 DEF AtPlace, Execs, Plain
<1>4. pc'[t] = to
  BY <1>1, <1>2
<1>5. AtPlace(sched, pc', wd, t)
  BY <1>3, <1>4 DEF AtPlace, Plain
<1> HIDE DEF to
<1> QED
  BY Zenon, <1>1, <1>3, <1>5, StandingKept

\* ... or from the wait for a context,
LEMMA ContextReturnKept ==
    ASSUME OrderInv, NEW t \in Threads, ContextReturn(t)
    PROVE  InOrder
<1>1. /\ pc[t] = "ctx" /\ pc' = [pc EXCEPT ![t] = "run"] /\ wd' = wd /\ sched' = sched
      /\ sched.thr[t].word = 0
  BY DEF ContextReturn, Step
<1>2. AtPlace(sched, pc, wd, t) /\ pc \in [Threads -> PCs]
  BY OrderFacts
<1>3. sched.thr[t].state # "QUEUED"
  <2> SUFFICES ASSUME sched.thr[t].state = "QUEUED" PROVE FALSE
    OBVIOUS
  <2>1. t \in Members(sched.runQueue) \/ Promised(sched, t)
    BY OrderFacts DEF Ready, Awaited
  <2> QED
    BY <1>1, <2>1, OrderFacts, QueuedFacts
<1>4. Execs(sched, t) /\ Plain(sched.thr[t])
  BY <1>1, <1>2, <1>3 DEF AtPlace
<1>5. pc'[t] = "run"
  BY <1>1, <1>2
<1>6. AtPlace(sched, pc', wd, t)
  BY <1>4, <1>5 DEF AtPlace
<1> QED
  BY Zenon, <1>1, <1>6, StandingKept

\* ... from its sleep, woken or interrupted,
LEMMA NapEndsKept ==
    ASSUME OrderInv, NEW t \in Threads, NapEnds(t) \/ NapInterrupted(t)
    PROVE  InOrder
<1>1. AtPlace(sched, pc, wd, t) /\ pc \in [Threads -> PCs]
  BY OrderFacts
<1>2. CASE NapEnds(t)
  <2>1. /\ pc[t] = "nap" /\ pc' = [pc EXCEPT ![t] = "woken"] /\ wd' = wd /\ sched' = sched
        /\ sched.thr[t].word # 1
    BY <1>2 DEF NapEnds, Step
  <2>2. Plain(sched.thr[t]) /\ sched.thr[t].state = "BLOCKED"
    BY <1>1, <2>1, OrderFacts DEF AtPlace, Ready, Asleep, SleepFor
  <2>3. pc'[t] = "woken"
    BY <1>1, <2>1
  <2>4. AtPlace(sched, pc', wd, t)
    BY <2>2, <2>3 DEF AtPlace
  <2> QED
    BY Zenon, <2>1, <2>4, StandingKept
<1>3. CASE NapInterrupted(t)
  <2>1. pc[t] = "nap" /\ pc' = [pc EXCEPT ![t] = "intr"] /\ wd' = wd /\ sched' = sched
    BY <1>3 DEF NapInterrupted, Step
  <2>2. pc'[t] = "intr"
    BY <1>1, <2>1
  <2>3. AtPlace(sched, pc', wd, t)
    BY <1>1, <2>1, <2>2 DEF AtPlace
  <2> QED
    BY Zenon, <2>1, <2>3, StandingKept
<1> QED
  BY <1>2, <1>3

\* ... or from a timed call.
LEMMA TimedReturnKept ==
    ASSUME OrderInv, NEW t \in Threads, TimedReturn(t)
    PROVE  InOrder
<1> DEFINE to == IF sched.thr[t].state = "SLEEPING" THEN "awake" ELSE "woken"
<1>1. pc[t] = "timed" /\ pc' = [pc EXCEPT ![t] = to] /\ wd' = wd /\ sched' = sched
  BY DEF TimedReturn, Step
<1>2. AtPlace(sched, pc, wd, t) /\ pc \in [Threads -> PCs]
  BY OrderFacts
<1>3. pc'[t] = to
  BY <1>1, <1>2
<1>4. AtPlace(sched, pc', wd, t)
  BY <1>1, <1>2, <1>3 DEF AtPlace
<1> HIDE DEF to
<1> QED
  BY Zenon, <1>1, <1>4, StandingKept

\* A change of t's entry that no other thread sees.
LEMMA QuietLands ==
    ASSUME NEW s, Good(s), NEW t \in Threads, s.thr[t].handoff = None,
           NEW r, NEW i, Quiet(s, r, t, i), Consistent(r)
    PROVE  \A D : Scanned(s.bar, D) => Lands(s, r, t, D)
<1>1. Ready(r, {}) /\ Calm(s, r, {t})
  BY QuietReady, ReadyMore DEF Good
<1>2. r.bar = s.bar
  BY DEF Quiet
<1> QED
  BY <1>1, <1>2 DEF Good, Lands

\* A thread starts.
LEMMA ThreadStartKept ==
    ASSUME OrderInv, NEW t \in Threads, ThreadStart(t)
    PROVE  InOrder
<1> DEFINE r == Start(sched, t)
<1>1. pc[t] = "out" /\ pc' = [pc EXCEPT ![t] = "start"] /\ wd' = wd /\ sched' = r
  BY DEF ThreadStart, Step
<1>2. AtPlace(sched, pc, wd, t) /\ pc \in [Threads -> PCs]
  BY OrderFacts
<1>3. sched.thr[t].state = "NONE" /\ sched.thr[t].handoff = None
  BY <1>1, <1>2, OrderFacts DEF AtPlace
<1>4. Entered(sched, r, t)
  BY <1>3, OrderFacts, StartIs
<1> HIDE DEF r
<1>5. Started.state = "STARTED" /\ Started.handoff = None /\ Started.marked = FALSE
  BY NoThreadIs DEF Started, NoThread
<1>6. Quiet(sched, r, t, Started)
  BY <1>4, <1>5 DEF Entered, Quiet
<1>7. Consistent(r)
  BY Zenon, <1>4, OrderFacts, EnteredKeeps
<1>8. \A D : Scanned(sched.bar, D) => Lands(sched, r, t, D)
  BY <1>3, <1>6, <1>7, OrderFacts, QuietLands
<1>9. Alone(t) /\ pc'[t] = "start"
  <2>1. r.fakeLeaves = sched.fakeLeaves
    BY <1>4 DEF Entered
  <2> QED
    BY Zenon, <1>1, <2>1, MoveAlone
<1>10. r.thr[t] = Started
  BY <1>6 DEF Quiet, OneThread
<1>11. AtPlace(sched', pc', wd', t)
  BY <1>1, <1>5, <1>9, <1>10 DEF AtPlace, Plain
<1> QED
  BY Zenon, <1>1, <1>8, <1>9, <1>11, AloneKept

\* A suppressed leave begins or ends.
LEMMA FakesLand ==
    ASSUME NEW s, Good(s), NEW t \in Threads, NEW q, NEW r, r = [s EXCEPT !.fakeLeaves = q],
           Consistent(r)
    PROVE  /\ \A D : Scanned(s.bar, D) => Lands(s, r, t, D)
           /\ r.thr = s.thr /\ r.bar = s.bar /\ r.fakeLeaves = q
<1>1. Ready(s, {}) /\ IndicesKnown(s.bar) /\ Tables(s) /\ s \in Schedulers
  BY DEF Good, Ready, Tables
<1>2. /\ r.thr = s.thr /\ r.bar = s.bar /\ r.cur = s.cur /\ r.runQueue = s.runQueue
      /\ r.sleepQueue = s.sleepQueue /\ r.broken = s.broken /\ r.fakeLeaves = q
  BY <1>1 DEF Schedulers
<1>3. Ready(r, {})
  BY <1>1, <1>2 DEF Ready, Consistent, Awaited, Promised, Asleep, Sorted, Allowed
<1>4. Calm(s, r, {t})
  BY Zenon, <1>2, CalmSame
<1> QED
  BY <1>1, <1>2, <1>3, <1>4 DEF Lands, Good

\* A thread enters a call, and its leave is suppressed.
LEMMA FakeLeaveKept ==
    ASSUME OrderInv, NEW t \in Threads, FakeLeave(t)
    PROVE  InOrder
<1> DEFINE q == Append(sched.fakeLeaves, t)
           r == [sched EXCEPT !.fakeLeaves = q]
<1>1. pc[t] = "run" /\ pc' = [pc EXCEPT ![t] = "sys"] /\ wd' = wd /\ sched' = r
  BY DEF FakeLeave, Step
<1>2. /\ AtPlace(sched, pc, wd, t) /\ t \notin Members(sched.fakeLeaves) /\ Good(sched)
      /\ Consistent(sched)
  BY <1>1, OrderFacts
<1>3. /\ Consistent(r) /\ Members(r.fakeLeaves) = Members(sched.fakeLeaves) \cup {t}
  BY <1>2, FakeLeavesKeep
<1> HIDE DEF q
<1>4. /\ \A D : Scanned(sched.bar, D) => Lands(sched, r, t, D)
      /\ r.thr = sched.thr /\ r.bar = sched.bar
  BY <1>2, <1>3, FakesLand
<1> HIDE DEF r
<1>5. Alone(t) /\ pc'[t] = "sys"
  BY Zenon, <1>1, <1>3, MoveAlone
<1>6. Execs(r, t) /\ Plain(r.thr[t]) /\ t \in Members(r.fakeLeaves)
  BY <1>1, <1>2, <1>3, <1>4 DEF AtPlace, Execs
<1>7. AtPlace(sched', pc', wd', t)
  BY <1>1, <1>5, <1>6 DEF AtPlace
<1> QED
  BY Zenon, <1>1, <1>4, <1>5, <1>7, AloneKept

\* The place a thread goes to after join or a handoff.
LEMMA FreshPlace ==
    ASSUME NEW s, NEW p, NEW w, NEW t, NEW i, ~i.marked, Fresh(i, s.thr[t]),
           p[t] = IF s.thr[t].state = "QUEUED" THEN "ctx" ELSE "bjoin"
    PROVE  AtPlace(s, p, w, t)
BY DEF Fresh, AtPlace, Plain

\* A thread joins, after its start or a call.
LEMMA ThreadJoinKept ==
    ASSUME OrderInv, NEW t \in Threads, ~CaughtBy(wd, t), ThreadJoin(t)
    PROVE  InOrder
<1> DEFINE to == AfterJoin(sched', t)
<1>1. /\ pc[t] \in {"start", "sys", "woken", "intr"} /\ Becomes(Join(sched, t))
      /\ pc' = [pc EXCEPT ![t] = to] /\ wd' = wd
  BY DEF ThreadJoin
<1>2. /\ AtPlace(sched, pc, wd, t) /\ Good(sched) /\ Consistent(sched) /\ ~sched.broken
  BY OrderFacts
<1>3. Plain(sched.thr[t])
  BY <1>1, <1>2 DEF AtPlace
<1>4. CASE t \in Members(sched.fakeLeaves)
  <2> DEFINE r == FinishFakeLeave(sched, t)
             q == Remove(sched.fakeLeaves, t)
  <2>1. pc[t] = "sys" /\ Execs(sched, t) /\ sched.thr[t].state = "RUNNING"
    BY <1>4, OrderFacts
  <2>2. Join(sched, t) = {r}
    BY <1>4, <2>1 DEF Join, Asserting
  <2>3. Consistent(r) /\ Members(r.fakeLeaves) = Members(sched.fakeLeaves) \ {t}
        /\ r.broken = sched.broken
    BY <1>2, FinishFakeLeaveKeeps
  <2>4. r = [sched EXCEPT !.fakeLeaves = q]
    BY <1>2 DEF FinishFakeLeave, Consistent, Tables, Schedulers
  <2> HIDE DEF q, r
  <2>5. /\ \A D : Scanned(sched.bar, D) => Lands(sched, r, t, D)
        /\ r.thr = sched.thr /\ r.bar = sched.bar
    BY <1>2, <2>3, <2>4, FakesLand
  <2>6. sched' = r
    BY <1>1, <1>2, <2>2, <2>3, OneBecomes
  <2>7. to = "run"
    BY <1>4 DEF AfterJoin
  <2> HIDE DEF to
  <2>8. Alone(t) /\ pc'[t] = "run"
    BY Zenon, <1>1, <2>1, <2>3, <2>6, <2>7, MoveAlone
  <2>9. Execs(r, t) /\ Plain(r.thr[t])
    BY <1>3, <2>1, <2>5 DEF Execs
  <2>10. AtPlace(sched', pc', wd', t)
    BY <2>6, <2>8, <2>9 DEF AtPlace
  <2> QED
    BY <2>5, <2>6, <2>8, <2>10, AloneKept
<1>5. CASE t \notin Members(sched.fakeLeaves)
  <2>1. sched.thr[t].state \in {"STARTED", "OUT", "BLOCKED", "SLEEPING"}
    BY <1>1, <1>2, <1>5 DEF AtPlace
  <2>2. ASSUME NEW D, Scanned(sched.bar, D), NEW r \in Join(sched, t)
        PROVE  Lands(sched, r, t, D) /\ Fresh(sched.thr[t], r.thr[t]) /\ SameFakes(sched, r)
    BY <1>2, <1>3, <1>5, <2>1, <2>2, JoinGoes DEF Plain
  <2>3. PICK D : Scanned(sched.bar, D)
    BY OrderFacts DEF Orderly
  <2>4. sched' \in Join(sched, t)
    <3>1. \A r \in Join(sched, t) : ~r.broken
      BY <2>2, <2>3 DEF Lands, Good, Ready
    <3> QED
      BY <1>1, <3>1, OneBecomes
  <2>5. Fresh(sched.thr[t], sched'.thr[t]) /\ SameFakes(sched, sched')
    BY <2>2, <2>3, <2>4
  <2>6. to = IF sched'.thr[t].state = "QUEUED" THEN "ctx" ELSE "bjoin"
    BY <1>5 DEF AfterJoin
  <2> HIDE DEF to
  <2>7. Alone(t) /\ pc'[t] = to
    BY Zenon, <1>1, <2>5, MoveAlone DEF SameFakes
  <2>8. AtPlace(sched', pc', wd', t)
    <3>1. ~sched.thr[t].marked
      BY <1>3 DEF Plain
    <3>2. pc'[t] = IF sched'.thr[t].state = "QUEUED" THEN "ctx" ELSE "bjoin"
      BY <2>6, <2>7
    <3> QED
      BY <2>5, <3>1, <3>2, FreshPlace
  <2>9. \A E : Scanned(sched.bar, E) => Lands(sched, sched', t, E)
    BY <2>2, <2>4
  <2> QED
    BY <2>7, <2>8, <2>9, AloneKept
<1> QED
  BY <1>4, <1>5

\* A thread hands its core over.
LEMMA ThreadHandoffKept ==
    ASSUME OrderInv, NEW t \in Threads, ThreadHandoff(t)
    PROVE  InOrder
<1> DEFINE to == IF sched'.thr[t].state = "QUEUED" THEN "ctx" ELSE "bjoin"
<1>1. /\ pc[t] = "handoff" /\ Becomes(Handoff(sched, t))
      /\ pc' = [pc EXCEPT ![t] = to] /\ wd' = wd
  BY DEF ThreadHandoff
<1>2. /\ AtPlace(sched, pc, wd, t) /\ Good(sched)
  BY OrderFacts
<1>3. Execs(sched, t) /\ ~sched.thr[t].marked /\ sched.thr[t].handoff # None
  BY <1>1, <1>2 DEF AtPlace
<1>4. ASSUME NEW D, Scanned(sched.bar, D), NEW r \in Handoff(sched, t)
      PROVE  Lands(sched, r, t, D) /\ Fresh(sched.thr[t], r.thr[t]) /\ SameFakes(sched, r)
  BY <1>2, <1>3, <1>4, HandoffGoes
<1>5. PICK D : Scanned(sched.bar, D)
  BY OrderFacts DEF Orderly
<1>6. sched' \in Handoff(sched, t)
  <2>1. \A r \in Handoff(sched, t) : ~r.broken
    BY <1>4, <1>5 DEF Lands, Good, Ready
  <2> QED
    BY <1>1, <2>1, OneBecomes
<1>7. Fresh(sched.thr[t], sched'.thr[t]) /\ SameFakes(sched, sched')
  BY <1>4, <1>5, <1>6
<1> HIDE DEF to
<1>8. Alone(t) /\ pc'[t] = to
  BY Zenon, <1>1, <1>7, MoveAlone DEF SameFakes
<1>9. AtPlace(sched', pc', wd', t)
  <2>1. pc'[t] = IF sched'.thr[t].state = "QUEUED" THEN "ctx" ELSE "bjoin"
    BY <1>8 DEF to
  <2> QED
    BY <1>3, <1>7, <2>1, FreshPlace
<1>10. \A E : Scanned(sched.bar, E) => Lands(sched, sched', t, E)
  BY <1>4, <1>6
<1> QED
  BY <1>8, <1>9, <1>10, AloneKept

\* Nobody who is done owes a handoff.
LEMMA DoneOwesNone ==
    ASSUME NEW s, NEW p, NEW D, Done(s, p, D)
    PROVE  NoneOwes(s, D)
BY DEF Done, NoneOwes

\* A thread waits for the end of the phase.
LEMMA ThreadSyncKept ==
    ASSUME OrderInv, NEW t \in Threads, ThreadSync(t)
    PROVE  InOrder
<1> DEFINE c == sched.thr[t].cid
<1>1. /\ pc[t] = "run" /\ Becomes(Sync(sched, t, c))
      /\ pc' = [pc EXCEPT ![t] = "bsync"] /\ wd' = wd
  BY DEF ThreadSync, Step
<1>2. /\ AtPlace(sched, pc, wd, t) /\ Good(sched) /\ t \notin Members(sched.fakeLeaves)
  BY <1>1, OrderFacts
<1>3. Execs(sched, t) /\ ~sched.thr[t].marked /\ sched.thr[t].handoff = None
      /\ sched.thr[t].state = "RUNNING"
  BY <1>1, <1>2 DEF AtPlace, Plain, Execs
<1>4. PICK D : Scanned(sched.bar, D) /\ Done(sched, pc, D)
  BY OrderFacts DEF Orderly
<1>5. NoneOwes(sched, D)
  BY <1>4, DoneOwesNone
<1>6. ASSUME NEW r \in Sync(sched, t, c)
      PROVE  /\ \/ Lands(sched, r, t, D \cup {c}) /\ r.thr[t] = sched.thr[t]
                \/ Closes(sched, r, t, D)
             /\ Dawns(sched.thr[t], r.thr[t])
             /\ SameFakes(sched, r)
  BY <1>2, <1>3, <1>4, <1>5, SyncGoes
<1> HIDE DEF c
<1>7. sched' \in Sync(sched, t, c)
  <2>1. \A r \in Sync(sched, t, c) : ~r.broken
    BY <1>6 DEF Lands, Closes, Good, Ready
  <2> QED
    BY <1>1, <2>1, OneBecomes
<1>8. /\ \/ Lands(sched, sched', t, D \cup {c}) /\ sched'.thr[t] = sched.thr[t]
         \/ Closes(sched, sched', t, D)
      /\ Dawns(sched.thr[t], sched'.thr[t])
      /\ SameFakes(sched, sched')
  BY Zenon, <1>6, <1>7
<1>9. Alone(t) /\ pc'[t] = "bsync"
  BY Zenon, <1>1, <1>8, MoveAlone DEF SameFakes
<1>10. AtPlace(sched', pc', wd', t)
  BY <1>3, <1>8, <1>9 DEF AtPlace, Dawns
<1>11. ASSUME Lands(sched, sched', t, D \cup {c}), sched'.thr[t] = sched.thr[t]
       PROVE  Done(sched', pc', {c})
  <2>1. Typed(sched')
    BY <1>11, TableTypes DEF Lands, Good, Ready
  <2>2. sched'.cur[c] = t
    BY <1>3, <1>11, <2>1 DEF Typed, Contexts, InStates, c
  <2> QED
    BY <1>3, <1>9, <1>11, <2>2 DEF Done
<1>12. Moves(sched, pc, wd, sched', pc', wd', t, D)
  BY <1>4, <1>9, AloneMoves
<1>13. \/ Lands(sched, sched', t, D \cup {c}) /\ Done(sched', pc', {c})
       \/ /\ Closes(sched, sched', t, D) /\ t \notin Members(sched.fakeLeaves)
          /\ sched.thr[t].handoff = None /\ pc'[t] # "run"
  BY <1>2, <1>3, <1>8, <1>9, <1>11
<1> QED
  BY Zenon, <1>10, <1>12, <1>13, StepKept

\* t leaves, of its own accord or the watchdog's.
LEMMA LeaveKept ==
    ASSUME OrderInv, NEW t \in Threads, MayLeave(sched, t),
           Becomes(Leave(sched, t, sched.thr[t].cid)), t \notin Members(sched.fakeLeaves),
           pc'[t] # "run", SameFakes(sched, sched') => Alone(t),
           Absent(sched.thr[t], sched'.thr[t]) => AtPlace(sched', pc', wd', t)
    PROVE  InOrder
<1> DEFINE S == Leave(sched, t, sched.thr[t].cid)
<1>1. Good(sched)
  BY OrderFacts
<1>2. PICK D : Scanned(sched.bar, D) /\ Done(sched, pc, D)
  BY OrderFacts DEF Orderly
<1>3. NoneOwes(sched, D)
  BY <1>2, DoneOwesNone
<1>4. ASSUME NEW r \in S
      PROVE  /\ Lands(sched, r, t, D) \/ Closes(sched, r, t, D)
             /\ Absent(sched.thr[t], r.thr[t])
             /\ SameFakes(sched, r)
  BY <1>1, <1>2, <1>3, LeaveGoes
<1>5. Becomes(S) /\ \A r \in S : ~r.broken
  BY <1>4 DEF Lands, Closes, Good, Ready
<1> HIDE DEF S
<1>6. sched' \in S
  BY <1>5, OneBecomes
<1>7. /\ Lands(sched, sched', t, D) \/ Closes(sched, sched', t, D)
      /\ Absent(sched.thr[t], sched'.thr[t])
      /\ SameFakes(sched, sched')
  BY <1>4, <1>6
<1>8. Alone(t) /\ AtPlace(sched', pc', wd', t) /\ sched.thr[t].handoff = None
  BY <1>7 DEF MayLeave
<1>9. Moves(sched, pc, wd, sched', pc', wd', t, D)
  BY <1>2, <1>8, AloneMoves
<1>10. Done(sched', pc', {}) /\ D = D \cup {}
  BY DEF Done
<1>11. \/ Lands(sched, sched', t, D \cup {}) /\ Done(sched', pc', {})
       \/ /\ Closes(sched, sched', t, D) /\ t \notin Members(sched.fakeLeaves)
          /\ sched.thr[t].handoff = None /\ pc'[t] # "run"
  BY <1>7, <1>8, <1>10
<1> QED
  BY <1>8, <1>9, <1>11, StepKept

\* The leaves of a thread.
LEMMA OwnLeaveKept ==
    ASSUME OrderInv, NEW t \in Threads, NEW to,
           \/ pc[t] = "run" /\ to = "sys"
           \/ pc[t] = "tonap" /\ to = "nap"
           \/ pc[t] = "totimed" /\ to = "timed"
           \/ pc[t] = "finleave" /\ to = "finish",
           pc' = [pc EXCEPT ![t] = to], wd' = wd, Becomes(Leave(sched, t, sched.thr[t].cid))
    PROVE  InOrder
<1>1. AtPlace(sched, pc, wd, t) /\ t \notin Members(sched.fakeLeaves) /\ ~CaughtBy(wd, t)
      /\ pc \in [Threads -> PCs]
  BY OrderFacts
<1>2. MayLeave(sched, t)
  BY <1>1 DEF AtPlace, MayLeave, Plain
<1>3. pc'[t] = to /\ to # "run"
  BY <1>1
<1>4. SameFakes(sched, sched') => Alone(t)
  BY Zenon, MoveAlone DEF SameFakes
<1>5. Absent(sched.thr[t], sched'.thr[t]) => AtPlace(sched', pc', wd', t)
  <2> SUFFICES ASSUME Absent(sched.thr[t], sched'.thr[t]) PROVE AtPlace(sched', pc', wd', t)
    OBVIOUS
  <2>1. CASE pc[t] \in {"run", "finleave"}
    <3>1. Plain(sched'.thr[t]) /\ sched'.thr[t].state \in {"OUT", "BLOCKED"}
      BY <1>1, <2>1 DEF AtPlace, Plain, Absent
    <3>2. to \in {"sys", "finish"}
      BY <2>1
    <3> QED
      BY <1>1, <1>3, <3>1, <3>2 DEF AtPlace
  <2>2. CASE pc[t] \in {"tonap", "totimed"}
    <3>1. /\ Plain(sched'.thr[t])
          /\ \/ sched'.thr[t].state = "SLEEPING"
             \/ sched'.thr[t].state = "BLOCKED" /\ sched'.thr[t].word = 0
      BY <1>1, <2>2 DEF AtPlace, Plain, Absent
    <3>2. to \in {"nap", "timed"}
      BY <2>2
    <3> QED
      BY <1>1, <1>3, <3>1, <3>2 DEF AtPlace
  <2> QED
    BY <2>1, <2>2
<1> QED
  BY Zenon, <1>1, <1>2, <1>3, <1>4, <1>5, LeaveKept

\* The watchdog leaves for a thread that is still in its call.
LEMMA WatchdogLeaveKept ==
    ASSUME OrderInv, WatchdogLeave
    PROVE  InOrder
<1> DEFINE t == wd.th
<1>1. /\ wd.at = "leaving" /\ Becomes(Leave(sched, t, wd.cid)) /\ wd' = Idle /\ pc' = pc
  BY DEF WatchdogLeave
<1>2. /\ t \in Threads /\ t \notin Members(sched.fakeLeaves) /\ pc[t] = "sys"
      /\ Execs(sched, t) /\ wd.cid = sched.thr[t].cid
  BY <1>1, OrderFacts DEF Watched
<1>3. AtPlace(sched, pc, wd, t)
  BY <1>2, OrderFacts
<1>4. wd'.at = "idle"
  BY <1>1 DEF Idle
<1>5. \A u \in Threads \ {t} : ~CaughtBy(wd', u) /\ ~CaughtBy(wd, u)
  BY <1>1, <1>4 DEF CaughtBy
<1>6. ~CaughtBy(wd', t)
  BY <1>4 DEF CaughtBy
<1> HIDE DEF t
<1>7. MayLeave(sched, t)
  BY <1>2, <1>3 DEF AtPlace, MayLeave, Plain
<1>8. SameFakes(sched, sched') => Alone(t)
  BY <1>1, <1>2, <1>4, <1>5 DEF Alone, SameFakes
<1>9. Absent(sched.thr[t], sched'.thr[t]) => AtPlace(sched', pc', wd', t)
  BY <1>1, <1>2, <1>3, <1>6 DEF AtPlace, Plain, Absent
<1> QED
  BY <1>1, <1>2, <1>7, <1>8, <1>9, LeaveKept

\* A thread enters a call that it is to spend asleep.
LEMMA EnterSleepKept ==
    ASSUME OrderInv, NEW t \in Threads, EnterSleep(t)
    PROVE  InOrder
<1>1. PICK phases \in 1..MaxSleep :
        /\ \/ Step(t, {"run"}, "tonap")
           \/ Step(t, {"run"}, "totimed")
        /\ Becomes(MarkForSleep(sched, t, phases))
        /\ wd' = wd
  BY DEF EnterSleep
<1>2. PICK to \in {"tonap", "totimed"} : pc[t] = "run" /\ pc' = [pc EXCEPT ![t] = to]
  BY <1>1 DEF Step
<1>3. /\ AtPlace(sched, pc, wd, t) /\ Good(sched) /\ Consistent(sched) /\ Tables(sched)
      /\ Typed(sched) /\ ~sched.broken
  BY OrderFacts
<1>4. Execs(sched, t) /\ Plain(sched.thr[t])
  BY <1>2, <1>3 DEF AtPlace
<1>5. phases \in 0..MaxSleep /\ phases > 0
  BY NoWait
<1> DEFINE i == Dozy(sched.thr[t], phases)
<1>6. /\ i.state = "RUNNING" /\ i.cid = sched.thr[t].cid /\ i.handoff = None /\ i.word = 1
      /\ i.marked /\ i.wakeIn = phases
  <2>1. sched.thr[t] \in ThreadInfos /\ sched.thr[t].state = "RUNNING"
    BY <1>3, <1>4 DEF Typed, Execs
  <2>2. i.marked /\ i.wakeIn = phases
    BY <2>1 DEF Dozy, ThreadInfos
  <2> HIDE DEF i
  <2>3. i.state = "RUNNING" /\ i.cid = sched.thr[t].cid /\ i.handoff = None /\ i.word = 1
    BY <1>4, <1>5, <2>1, DozyIs DEF i, Plain
  <2> QED
    BY <2>2, <2>3
<1> HIDE DEF i
<1>7. ASSUME NEW r \in MarkForSleep(sched, t, phases) PROVE ~r.broken /\ Marked(sched, r, t, phases)
  <2>1. r = [sched EXCEPT !.thr[t].marked = TRUE, !.thr[t].wakeIn = phases, !.thr[t].word = 1]
    BY <1>4 DEF MarkForSleep, Asserting, Plain
  <2>2. ~r.broken
    BY <1>3, <2>1 DEF Typed, Schedulers
  <2> QED
    BY <1>3, <1>5, <2>2, MarkIs
<1>8. Marked(sched, sched', t, phases)
  <2>1. sched' \in MarkForSleep(sched, t, phases)
    BY <1>1, <1>7, OneBecomes
  <2> QED
    BY <1>7, <2>1
<1>9. OneThread(sched, sched', t, i) /\ sched'.bar = sched.bar
      /\ sched'.fakeLeaves = sched.fakeLeaves
  BY <1>8 DEF Marked, i
<1>10. Quiet(sched, sched', t, i)
  BY <1>6, <1>8, <1>9 DEF Quiet, Marked
<1>11. Consistent(sched')
  BY Zenon, <1>3, <1>5, <1>8, MarkedKeeps
<1>12. \A D : Scanned(sched.bar, D) => Lands(sched, sched', t, D)
  BY <1>3, <1>4, <1>10, <1>11, QuietLands DEF Plain
<1>13. Alone(t) /\ pc'[t] = to
  BY Zenon, <1>1, <1>2, <1>9, MoveAlone
<1>14. Execs(sched', t) /\ sched'.thr[t] = i
  BY <1>4, <1>6, <1>9 DEF Execs, OneThread
<1>15. AtPlace(sched', pc', wd', t)
  BY <1>5, <1>6, <1>13, <1>14 DEF AtPlace
<1> QED
  BY <1>12, <1>13, <1>15, AloneKept

\* A sleep is over, or cut short.
LEMMA SleepEndKept ==
    ASSUME OrderInv, NEW t \in Threads, SleepEnd(t)
    PROVE  InOrder
<1>1. /\ pc[t] = "awake" /\ pc' = [pc EXCEPT ![t] = "woken"] /\ wd' = wd
      /\ Becomes(NotifySleepEnd(sched, t))
  BY DEF SleepEnd, Step
<1>2. /\ AtPlace(sched, pc, wd, t) /\ Good(sched) /\ Consistent(sched) /\ Tables(sched)
      /\ ~sched.broken
  BY OrderFacts
<1>3. Plain(sched.thr[t]) /\ sched.thr[t].state \in {"SLEEPING", "BLOCKED"}
  BY <1>1, <1>2 DEF AtPlace
<1> DEFINE r == IF sched.thr[t].state = "SLEEPING" THEN WakeEarly(sched, t) ELSE sched
<1>4. NotifySleepEnd(sched, t) = {r}
  BY <1>3 DEF NotifySleepEnd, Asserting, Plain
<1>5. /\ \A D : Scanned(sched.bar, D) => Lands(sched, r, t, D)
      /\ Plain(r.thr[t]) /\ r.thr[t].state = "BLOCKED" /\ r.fakeLeaves = sched.fakeLeaves
      /\ ~r.broken
  <2>1. CASE sched.thr[t].state = "SLEEPING"
    <3> DEFINE q == WakeEarly(sched, t)
    <3>1. WokenEarly(sched, q, t)
      BY <1>2, <2>1, WakeEarlyIs
    <3> HIDE DEF q
    <3>2. /\ Good(q) /\ Calm(sched, q, {t}) /\ q.bar = sched.bar /\ q.fakeLeaves = sched.fakeLeaves
          /\ q.thr[t].state = "BLOCKED" /\ q.thr[t].handoff = None
          /\ q.thr[t].marked = sched.thr[t].marked
      BY <1>2, <1>3, <3>1, WokenEarlyGood DEF Plain
    <3>3. r = q
      BY <2>1 DEF q
    <3> HIDE DEF r
    <3> QED
      BY <1>3, <3>2, <3>3 DEF Lands, Plain, Good, Ready
  <2>2. CASE sched.thr[t].state = "BLOCKED"
    <3>1. r = sched /\ Calm(sched, sched, {t})
      BY <2>2, CalmSame
    <3> HIDE DEF r
    <3> QED
      BY <1>2, <1>3, <2>2, <3>1 DEF Lands
  <2> QED
    BY <1>3, <2>1, <2>2
<1> HIDE DEF r
<1>6. sched' = r
  BY <1>1, <1>4, <1>5, OneBecomes
<1>7. Alone(t) /\ pc'[t] = "woken"
  BY Zenon, <1>1, <1>5, <1>6, MoveAlone
<1>8. AtPlace(sched', pc', wd', t)
  BY <1>5, <1>6, <1>7 DEF AtPlace
<1> QED
  BY <1>5, <1>6, <1>7, <1>8, AloneKept

\* finish takes t, which has no handoff to do, off its list.
LEMMA UnlinkKept ==
    ASSUME OrderInv, NEW t \in Threads, Becomes(FinishUnlinks(sched, t)), Plain(sched.thr[t]),
           sched.thr[t].state \in {"STARTED", "OUT", "BLOCKED"}, ~CaughtBy(wd, t),
           pc[t] # "bsync", pc' = [pc EXCEPT ![t] = "out"], wd' = WatchdogAfter(t)
    PROVE  InOrder
<1>1. /\ Good(sched) /\ Consistent(sched) /\ Tables(sched) /\ Typed(sched) /\ ~sched.broken
      /\ Watched(sched, pc, wd)
  BY OrderFacts
<1>2. wd' = wd
  BY <1>1 DEF WatchdogAfter, Watched
<1>3. ASSUME NEW r \in FinishUnlinks(sched, t) PROVE ~r.broken
  <2> DEFINE c == sched.thr[t].cid
             gone == [sched EXCEPT !.thr[t] = NoThread]
  <2>1. sched \in Schedulers
    BY <1>1 DEF Tables
  <2>2. gone.broken = sched.broken /\ gone \in Schedulers
    BY <2>1, GoneIs
  <2>3. CASE sched.thr[t].state = "OUT"
    <3>1. t \in Members(sched.outQueue) /\ CanDeschedule(sched, t, c)
      BY <1>1, <2>3 DEF Typed, Lists, Holds, InStates, Contexts, CanDeschedule
    <3> HIDE DEF gone, c
    <3>2. r = [gone EXCEPT !.outQueue = Remove(@, t), !.cur[c] = None, !.freeList = Append(@, c)]
      BY <2>3, <3>1 DEF FinishUnlinks, Asserting, gone, c
    <3> QED
      BY <1>1, <2>2, <3>2 DEF Schedulers
  <2>4. CASE sched.thr[t].state \in {"STARTED", "BLOCKED"}
    <3>1. r = gone
      BY <2>4 DEF FinishUnlinks
    <3> QED
      BY <1>1, <2>2, <3>1
  <2> QED
    BY <2>3, <2>4
<1>4. sched' \in FinishUnlinks(sched, t)
  BY <1>3, OneBecomes
<1>5. Unlinked(sched, sched', t)
  BY <1>1, <1>3, <1>4, UnlinksIs
<1>6. Quiet(sched, sched', t, NoThread)
  BY <1>5, NoThreadIs DEF Unlinked, Quiet
<1>7. Consistent(sched') /\ sched'.thr[t] = NoThread /\ sched'.fakeLeaves = sched.fakeLeaves
  BY Zenon, <1>1, <1>5, UnlinkedKeeps
<1>8. \A D : Scanned(sched.bar, D) => Lands(sched, sched', t, D)
  BY <1>1, <1>6, <1>7, QuietLands DEF Plain
<1>9. Alone(t) /\ pc'[t] = "out"
  BY Zenon, <1>2, <1>7, MoveAlone
<1>10. AtPlace(sched', pc', wd', t)
  BY <1>7, <1>9, NoThreadIs DEF AtPlace
<1> QED
  BY Zenon, <1>8, <1>9, <1>10, AloneKept

\* A thread ends.
LEMMA FinishKept ==
    ASSUME OrderInv, NEW t \in Threads,
           \/ ~CaughtBy(wd, t) /\ pc[t] # "intr" /\ ThreadFinish(t)
           \/ FinishEnd(t)
    PROVE  InOrder
<1>1. /\ AtPlace(sched, pc, wd, t) /\ Good(sched) /\ Consistent(sched) /\ ~sched.broken
      /\ pc \in [Threads -> PCs]
  BY OrderFacts
<1>2. CASE FinishEnd(t)
  <2>1. /\ pc[t] = "finish" /\ pc' = [pc EXCEPT ![t] = "out"] /\ wd' = WatchdogAfter(t)
        /\ Becomes(FinishUnlinks(sched, t))
    BY <1>2 DEF FinishEnd, Step
  <2>2. Plain(sched.thr[t]) /\ sched.thr[t].state \in {"OUT", "BLOCKED"} /\ ~CaughtBy(wd, t)
    BY <1>1, <2>1, OrderFacts DEF AtPlace
  <2> QED
    BY Zenon, <2>1, <2>2, UnlinkKept
<1>3. CASE ~CaughtBy(wd, t) /\ pc[t] # "intr" /\ ThreadFinish(t)
  <2>1. pc[t] \in {"start", "sys", "woken"} /\ FinishBegins(t)
    BY <1>3 DEF ThreadFinish
  <2>2. Plain(sched.thr[t])
    BY <1>1, <2>1 DEF AtPlace
  <2>3. CASE sched.thr[t].state # "RUNNING"
    <3>1. sched.thr[t].state \in {"STARTED", "OUT", "BLOCKED"}
      BY <1>1, <2>1, <2>3 DEF AtPlace, Execs
    <3>2. /\ pc' = [pc EXCEPT ![t] = "out"] /\ wd' = WatchdogAfter(t)
          /\ Becomes(FinishUnlinks(sched, t))
      BY <2>1, <2>3 DEF FinishBegins
    <3> QED
      BY Zenon, <1>3, <2>1, <2>2, <3>1, <3>2, UnlinkKept
  <2>4. CASE sched.thr[t].state = "RUNNING"
    <3> DEFINE r == FinishFakeLeave(sched, t)
               q == Remove(sched.fakeLeaves, t)
    <3>1. pc[t] = "sys" /\ Execs(sched, t)
      BY <1>1, <2>1, <2>4 DEF AtPlace
    <3>2. pc' = [pc EXCEPT ![t] = "finleave"] /\ sched' = r /\ wd' = wd
      BY <2>1, <2>4 DEF FinishBegins
    <3>3. Consistent(r) /\ Members(r.fakeLeaves) = Members(sched.fakeLeaves) \ {t}
      BY <1>1, FinishFakeLeaveKeeps
    <3>4. r = [sched EXCEPT !.fakeLeaves = q]
      BY <1>1 DEF FinishFakeLeave, Consistent, Tables, Schedulers
    <3> HIDE DEF q, r
    <3>5. /\ \A D : Scanned(sched.bar, D) => Lands(sched, r, t, D)
          /\ r.thr = sched.thr /\ r.bar = sched.bar
      BY <1>1, <3>3, <3>4, FakesLand
    <3>6. Alone(t) /\ pc'[t] = "finleave"
      BY Zenon, <1>3, <3>1, <3>2, <3>3, MoveAlone
    <3>7. Execs(r, t) /\ Plain(r.thr[t])
      BY <2>2, <3>1, <3>5 DEF Execs
    <3>8. AtPlace(sched', pc', wd', t)
      BY <3>2, <3>6, <3>7 DEF AtPlace
    <3> QED
      BY Zenon, <3>2, <3>5, <3>6, <3>8, AloneKept
  <2> QED
    BY <2>3, <2>4
<1> QED
  BY <1>2, <1>3

\* The watchdog finds a thread to leave for, which still is in its call.
LEMMA WatchdogStallKept ==
    ASSUME OrderInv, WatchdogStall
    PROVE  InOrder
<1> DEFINE t == Head(sched.fakeLeaves)
           r == FinishFakeLeave(sched, t)
           q == Remove(sched.fakeLeaves, t)
<1>1. /\ wd.at = "idle" /\ sched.fakeLeaves # <<>> /\ sched' = r /\ pc' = pc
      /\ wd' = [at |-> "leaving", th |-> t, cid |-> sched.thr[t].cid]
  BY DEF WatchdogStall
<1>2. /\ Good(sched) /\ Consistent(sched) /\ Typed(sched) /\ ~sched.broken
  BY OrderFacts
<1>3. t \in Threads /\ t \in Members(sched.fakeLeaves)
  BY <1>1, <1>2 DEF Typed, Members
<1>4. r = [sched EXCEPT !.fakeLeaves = q]
  BY <1>2 DEF FinishFakeLeave, Consistent, Tables, Schedulers
<1>5. wd'.at = "leaving" /\ wd'.th = t /\ wd'.cid = sched.thr[t].cid
  BY <1>1
<1> HIDE DEF t
<1>6. Consistent(r) /\ Members(r.fakeLeaves) = Members(sched.fakeLeaves) \ {t}
  BY <1>2, FinishFakeLeaveKeeps
<1> HIDE DEF r, q
<1>7. /\ pc[t] = "sys" /\ Execs(sched, t) /\ AtPlace(sched, pc, wd, t)
  BY <1>3, OrderFacts
<1>8. /\ \A D : Scanned(sched.bar, D) => Lands(sched, r, t, D)
      /\ r.thr = sched.thr /\ r.bar = sched.bar
  BY <1>2, <1>3, <1>4, <1>6, FakesLand
<1>9. Execs(r, t) /\ Plain(r.thr[t])
  BY <1>7, <1>8 DEF Execs, AtPlace
<1>10. Watched(sched', pc', wd') /\ CaughtBy(wd', t)
  BY <1>1, <1>3, <1>5, <1>6, <1>7, <1>8, <1>9 DEF Watched, CaughtBy
<1>11. AtPlace(sched', pc', wd', t)
  BY <1>1, <1>7, <1>9, <1>10 DEF AtPlace
<1>12. \A u \in Threads \ {t} : ~CaughtBy(wd', u) /\ ~CaughtBy(wd, u)
  BY <1>1, <1>5 DEF CaughtBy
<1>13. Alone(t)
  BY <1>1, <1>6, <1>7, <1>10, <1>12 DEF Alone
<1> QED
  BY <1>1, <1>3, <1>8, <1>11, <1>13, AloneKept

\* When as many cores have a thread as threads are OUT, nobody runs.
LEMMA NobodyRuns ==
    ASSUME NEW s, Tables(s), Cardinality({c \in Cores : s.cur[c] # None}) = Len(s.outQueue)
    PROVE  \A t \in Threads : s.thr[t].state # "RUNNING"
<1> DEFINE q == s.outQueue
           n == Len(q)
           U == {c \in Cores : s.cur[c] # None}
           f == [i \in 1..n |-> s.thr[q[i]].cid]
<1>1. Typed(s) /\ q \in Seq(Threads) /\ n \in Nat
  BY TableTypes DEF Typed
<1>2. \A i \in 1..n : q[i] \in Threads /\ s.thr[q[i]].state = "OUT"
  BY <1>1 DEF Typed, Lists, Holds, Members, InStates
<1>3. \A i \in 1..n : s.thr[q[i]].cid \in Cores /\ s.cur[s.thr[q[i]].cid] = q[i]
  BY Zenon, <1>1, <1>2 DEF Typed, Contexts, InStates
<1>4. IsInjective(q) /\ DOMAIN q = 1..n
  BY <1>1 DEF Typed, Lists, Holds
<1>5. IsFiniteSet(U)
  <2>1. U \subseteq Tids
    BY DEF Cores
  <2> QED
    BY <2>1, CoresFinite
<1>6. IsFiniteSet(1..n) /\ Cardinality(1..n) = n
  <2> HIDE DEF n
  <2>1. n \in Int /\ 1 \in Int /\ (1 > n => n = 0)
    BY <1>1
  <2>2. /\ IsFiniteSet(1..n)
        /\ Cardinality(1..n) = IF 1 > n THEN 0 ELSE n - 1 + 1
    BY <2>1, FS_Interval
  <2> QED
    BY <2>1, <2>2
<1>7. f \in Injection(1..n, U)
  <2>1. f \in [1..n -> U]
    BY <1>1, <1>2, <1>3 DEF Typed
  <2>2. IsInjective(f)
    BY <1>3, <1>4 DEF IsInjective
  <2> QED
    BY <2>1, <2>2 DEF Injection
<1>8. Cardinality(U) = n
  OBVIOUS
<1>9. ASSUME NEW t \in Threads, s.thr[t].state = "RUNNING" PROVE FALSE
  <2> DEFINE c == s.thr[t].cid
  <2>1. c \in U /\ s.cur[c] = t
    BY <1>1, <1>9 DEF Typed, Contexts, InStates
  <2> HIDE DEF U, f
  <2>2. f \in Surjection(1..n, U)
    BY <1>5, <1>6, <1>7, <1>8, FS_Injection
  <2>3. PICK i \in 1..n : f[i] = c
    BY <2>1, <2>2 DEF Surjection
  <2>4. s.cur[c] = q[i]
    BY <1>3, <2>3 DEF f
  <2> QED
    BY <1>2, <1>9, <2>1, <2>4
<1> QED
  BY <1>9

\* The watchdog's tick: time moves while nobody runs.
LEMMA WatchdogTickKept ==
    ASSUME OrderInv, WatchdogTick
    PROVE  InOrder /\ Resting(sched, pc, pc')
<1>1. /\ ScheduledThreads = Len(sched.outQueue) /\ Becomes(Callback(sched))
      /\ wd.at = "idle" /\ pc' = pc /\ wd' = wd
  BY DEF WatchdogTick
<1>2. /\ Good(sched) /\ Consistent(sched) /\ Tables(sched) /\ Typed(sched) /\ ~sched.broken
      /\ Ready(sched, {}) /\ Asleep(sched) /\ IndicesKnown(sched.bar)
      /\ \A t \in Threads : AtPlace(sched, pc, wd, t)
  BY OrderFacts DEF Ready
<1>3. \A t \in Threads : sched.thr[t].state # "RUNNING"
  <2>1. Cardinality({c \in Cores : sched.cur[c] # None}) = Len(sched.outQueue)
    BY <1>1 DEF ScheduledThreads
  <2> QED
    BY <1>2, <2>1, NobodyRuns
<1>4. \A t \in Threads : sched.thr[t].handoff = None
  BY <1>3, OrderFacts
<1>5. \A r \in Callback(sched) : ~r.broken
  BY <1>2, CallbackSafe
<1>6. sched' \in Callback(sched) /\ ~sched'.broken
  BY <1>1, <1>5, OneBecomes
<1>7. CalledBack(sched, sched')
  BY <1>2, <1>6, CallbackIs
<1>8. Ready(sched', {}) /\ Dawned(sched, sched')
  BY <1>2, <1>4, <1>7, CalledBackReady
<1>9. sched'.fakeLeaves = sched.fakeLeaves /\ sched'.bar = sched.bar
  BY <1>7, CalledBackKeeps
<1>10. Consistent(sched')
  BY <1>2, <1>6, CallbackKeeps
<1>11. Good(sched')
  BY <1>2, <1>8, <1>9, <1>10 DEF Good
<1>12. ASSUME NEW u \in Threads PROVE AtPlace(sched', pc', wd', u)
  <2>1. Aside(sched, pc, wd, sched', pc', wd', u)
    BY <1>1, <1>9 DEF Aside
  <2>2. Dawns(sched.thr[u], sched'.thr[u])
    BY <1>8 DEF Dawned
  <2> QED
    BY <1>2, <1>3, <2>1, <2>2, DawnPlace
<1>13. Watched(sched', pc', wd')
  BY <1>1 DEF Watched
<1>14. PICK D : Scanned(sched.bar, D) /\ Done(sched, pc, D)
  BY OrderFacts DEF Orderly
<1>15. Scanned(sched'.bar, D) /\ Done(sched', pc', D)
  <2>1. ASSUME NEW c \in D PROVE FALSE
    <3>1. sched.cur[c] \in Threads /\ pc[sched.cur[c]] = "bsync"
      BY <1>14 DEF Done
    <3> QED
      BY <1>2, <1>3, <3>1 DEF AtPlace
  <2> QED
    BY <1>9, <1>14, <2>1 DEF Done
<1>16. Orderly(sched', pc', wd')
  BY <1>11, <1>12, <1>13, <1>15 DEF Orderly
<1>17. Resting(sched, pc, pc')
  <2>1. \A t \in Threads : t \notin Members(sched.fakeLeaves)
    BY <1>3, OrderFacts
  <2>2. sched.fakeLeaves = <<>>
    <3> DEFINE q == sched.fakeLeaves
    <3>1. q \in Seq(Threads)
      BY <1>2 DEF Typed
    <3>2. \A i \in 1..Len(q) : q[i] \in Threads /\ q[i] \in Members(q)
      BY <3>1 DEF Members
    <3>3. \A i \in 1..Len(q) : FALSE
      BY <2>1, <3>2
    <3> HIDE DEF q
    <3>4. q = <<>>
      BY <3>1, <3>3
    <3> QED
      BY <3>4 DEF q
  <2>3. \A t \in Threads : pc[t] # "run"
    BY <1>2, <1>3 DEF AtPlace, Execs
  <2> QED
    BY <1>4, <2>2, <2>3 DEF Resting
<1> QED
  BY <1>16, <1>17 DEF InOrder

\* At first everything is in order.
LEMMA InitOrder == Init => OrderInv
<1> SUFFICES ASSUME Init PROVE OrderInv
  OBVIOUS
<1> DEFINE s == InitSched
<1>1. sched = s /\ pc = [t \in Threads |-> "out"] /\ wd = Idle
  BY DEF Init
<1>2. KInv /\ Consistent(s) /\ ~s.broken
  BY InitKInv, InitConsistent
<1>3. /\ s.thr = [t \in Threads |-> NoThread] /\ s.cur = [c \in Cores |-> None]
      /\ s.runQueue = <<>> /\ s.sleepQueue = <<>>
      /\ s.bar = NewBarrier([c \in Cores |-> 1])
  BY DEF InitSched
<1> HIDE DEF s
<1>4. \A t \in Threads : s.thr[t] = NoThread
  BY <1>3
<1>5. Tables(s) /\ Typed(s)
  BY <1>2, TableTypes DEF Consistent
<1>6. Awaited(s, {})
  BY <1>4, NoThreadIs DEF Awaited
<1>7. Asleep(s)
  BY <1>3, <1>4, NoThreadIs DEF Asleep, Sorted, SleepFor
<1>8. Allowed(s)
  BY <1>3, <1>4, NoThreadIs DEF Allowed, HandsTo
<1>9. \A t \in Tids : s.bar.state[t] = "OFFLINE"
  BY <1>3, NewBarrierIs DEF Cores
<1>10. s.bar.runList = <<>>
  BY <1>3 DEF NewBarrier
<1>11. IndicesKnown(s.bar)
  BY <1>9 DEF IndicesKnown
<1>12. Scanned(s.bar, {})
  BY <1>10 DEF Scanned
<1>13. Done(s, pc, {})
  BY DEF Done
<1>14. Good(s)
  BY <1>2, <1>5, <1>6, <1>7, <1>8, <1>11 DEF Good, Ready
<1>15. \A u \in Threads : AtPlace(s, pc, wd, u)
  BY <1>1, <1>4, NoThreadIs DEF AtPlace
<1>16. Watched(s, pc, wd)
  BY <1>1 DEF Watched, Idle
<1> QED
  BY <1>1, <1>2, <1>12, <1>13, <1>14, <1>15, <1>16 DEF OrderInv, Orderly

\* Every step keeps order.
LEMMA OrderNextKept ==
    ASSUME OrderInv, OrderlyNext
    PROVE  InOrder
<1>1. CASE \E t \in Threads : ThreadStep(t)
  <2>1. PICK t \in Threads : ThreadStep(t)
    BY <1>1
  <2>2. CASE ThreadStart(t)
    BY <2>2, ThreadStartKept
  <2>3. CASE BarrierReturn(t)
    BY <2>3, BarrierReturnKept
  <2>4. CASE ContextReturn(t)
    BY <2>4, ContextReturnKept
  <2>5. CASE ThreadSync(t)
    BY <2>5, ThreadSyncKept
  <2>6. CASE ThreadHandoff(t)
    BY <2>6, ThreadHandoffKept
  <2>7. CASE FakeLeave(t)
    BY <2>7, FakeLeaveKept
  <2>8. CASE BlockingLeave(t)
    <3>1. /\ pc[t] = "run" /\ pc' = [pc EXCEPT ![t] = "sys"] /\ wd' = wd
          /\ Becomes(Leave(sched, t, sched.thr[t].cid))
      BY <2>8 DEF BlockingLeave, Step
    <3> QED
      BY Zenon, <3>1, OwnLeaveKept
  <2>9. CASE EnterSleep(t)
    BY <2>9, EnterSleepKept
  <2>10. CASE SleepLeave(t)
    <3>1. /\ wd' = wd /\ Becomes(Leave(sched, t, sched.thr[t].cid))
          /\ \/ pc[t] = "tonap" /\ pc' = [pc EXCEPT ![t] = "nap"]
             \/ pc[t] = "totimed" /\ pc' = [pc EXCEPT ![t] = "timed"]
      BY <2>10 DEF SleepLeave, Step
    <3> QED
      BY <3>1, OwnLeaveKept
  <2>11. CASE NapEnds(t)
    BY <2>11, NapEndsKept
  <2>12. CASE NapInterrupted(t)
    BY <2>12, NapEndsKept
  <2>13. CASE TimedReturn(t)
    BY <2>13, TimedReturnKept
  <2>14. CASE SleepEnd(t)
    BY <2>14, SleepEndKept
  <2>15. CASE FinishLeave(t)
    <3>1. /\ pc[t] = "finleave" /\ pc' = [pc EXCEPT ![t] = "finish"] /\ wd' = wd
          /\ Becomes(Leave(sched, t, sched.thr[t].cid))
      BY <2>15 DEF FinishLeave, Step
    <3> QED
      BY Zenon, <3>1, OwnLeaveKept
  <2>16. CASE FinishEnd(t)
    BY <2>16, FinishKept
  <2> QED
    BY <2>1, <2>2, <2>3, <2>4, <2>5, <2>6, <2>7, <2>8, <2>9, <2>10, <2>11, <2>12, <2>13,
       <2>14, <2>15, <2>16 DEF ThreadStep, Finishing
<1>2. ASSUME NEW t \in Threads, ~Caught(t), ThreadJoin(t) PROVE InOrder
  BY <1>2, ThreadJoinKept DEF Caught, CaughtBy
<1>3. ASSUME NEW t \in Threads, ~Caught(t), pc[t] # "intr", ThreadFinish(t) PROVE InOrder
  BY <1>3, FinishKept DEF Caught, CaughtBy
<1>4. CASE WatchdogStep
  BY <1>4, WatchdogStallKept, WatchdogLeaveKept, WatchdogTickKept DEF WatchdogStep
<1> QED
  BY <1>1, <1>2, <1>3, <1>4 DEF OrderlyNext

\* The invariant is inductive.
LEMMA OrderInvKept ==
    ASSUME OrderInv, [OrderlyNext]_vars
    PROVE  OrderInv'
<1>1. CASE OrderlyNext
  <2>1. Orderly(sched', pc', wd')
    BY <1>1, OrderNextKept DEF InOrder
  <2>2. KInv'
    BY <1>1, KillNextKeeps DEF KillNext, OrderInv
  <2> QED
    BY <2>1, <2>2 DEF OrderInv
<1>2. CASE UNCHANGED vars
  BY <1>2 DEF vars, OrderInv, KInv
<1> QED
  BY <1>1, <1>2

\* The invariant holds throughout.
THEOREM OrderHolds == OrderlySpec => []OrderInv
<1>1. Init => OrderInv
  BY InitOrder
<1>2. OrderInv /\ [OrderlyNext]_vars => OrderInv'
  BY OrderInvKept
<1> QED
  BY <1>1, <1>2, PTL DEF OrderlySpec

-----------------------------------------------------------------------------
(* The theorems                                                            *)

\* No assert or panic of the scheduler, the barrier or the core recorders
\* fires, and everything keeps its type.
THEOREM NothingPanics == OrderlySpec => []NoPanic
<1>1. OrderInv => NoPanic
  BY OrderFacts DEF OrderInv, KInv, NoPanic, TypeOK, Consistent, Tables
<1> QED
  BY <1>1, OrderHolds, PTL

\* A queued thread is in the run queue, or one thread, which runs, is to
\* hand its context over to it.
LEMMA GoodQueues ==
    ASSUME OrderInv
    PROVE  QueuedIsPending
<1> SUFFICES ASSUME NEW t \in Threads
             PROVE  LET givers == {u \in Threads : sched.thr[u].handoff = t}
                    IN  /\ StateIn(t, {"QUEUED"}) <=> (t \in Members(sched.runQueue) \/ givers # {})
                        /\ StateIn(t, {"QUEUED"}) => sched.thr[t].word = 1
                        /\ t \in Members(sched.runQueue) => givers = {}
                        /\ Cardinality(givers) <= 1
                        /\ \A u \in givers : StateIn(u, {"RUNNING"})
  BY DEF QueuedIsPending
<1> DEFINE givers == {u \in Threads : sched.thr[u].handoff = t}
<1>1. Tables(sched) /\ Typed(sched) /\ Ready(sched, {}) /\ t # None
  BY OrderFacts DEF Typed
<1>2. /\ t \in Members(sched.runQueue) => sched.thr[t].state = "QUEUED" /\ sched.thr[t].word = 1
      /\ Promised(sched, t) => /\ sched.thr[t].state = "QUEUED" /\ sched.thr[t].word = 1
                               /\ t \notin Members(sched.runQueue)
                               /\ \A u, v \in Threads : sched.thr[u].handoff = t
                                                       /\ sched.thr[v].handoff = t => u = v
  BY <1>1, QueuedFacts
<1>3. sched.thr[t].state = "QUEUED" => t \in Members(sched.runQueue) \/ Promised(sched, t)
  BY <1>1 DEF Ready, Awaited
<1>4. Promised(sched, t) <=> givers # {}
  BY DEF Promised
<1>5. Cardinality(givers) <= 1
  <2>1. CASE givers = {}
    <3>1. Cardinality({}) = 0
      BY FS_EmptySet
    <3> HIDE DEF givers
    <3> QED
      BY <2>1, <3>1
  <2>2. CASE givers # {}
    <3>1. PICK u \in givers : TRUE
      BY <2>2
    <3>2. givers = {u}
      BY <1>2, <1>4, <3>1
    <3>3. Cardinality({u}) = 1
      BY FS_Singleton
    <3> HIDE DEF givers
    <3> QED
      BY <3>2, <3>3
  <2> QED
    BY <2>1, <2>2
<1>6. \A u \in givers : sched.thr[u].state = "RUNNING"
  BY <1>1 DEF Ready, Allowed, HandsTo
<1> QED
  BY <1>2, <1>3, <1>4, <1>5, <1>6 DEF StateIn

\* No thread that queues or sleeps is forgotten.
THEOREM NobodyIsForgotten == OrderlySpec => []NobodyForgotten
<1>1. OrderInv => NobodyForgotten
  <2> SUFFICES ASSUME OrderInv PROVE NobodyForgotten
    OBVIOUS
  <2>1. Tables(sched) /\ Typed(sched) /\ Asleep(sched) /\ Sorted(sched, sched.sleepQueue)
    BY OrderFacts DEF Ready, Asleep
  <2>2. ASSUME NEW t \in Threads, pc[t] = "nap" /\ sched.thr[t].word = 1
        PROVE  StateIn(t, {"SLEEPING"})
    BY <2>2, OrderFacts DEF AtPlace, StateIn
  <2>3. ASSUME NEW i \in 1..Len(sched.sleepQueue)
        PROVE  /\ sched.thr[sched.sleepQueue[i]].wakeIn > 0
               /\ \A j \in 1..(i - 1) :
                    sched.thr[sched.sleepQueue[j]].wakeIn <= sched.thr[sched.sleepQueue[i]].wakeIn
    <3>1. /\ sched.sleepQueue[i] \in Threads
          /\ sched.thr[sched.sleepQueue[i]].state = "SLEEPING"
      BY <2>1, SleepersAre DEF Members
    <3>2. sched.thr[sched.sleepQueue[i]].wakeIn > 0
      BY <2>1, <3>1 DEF Asleep, SleepFor
    <3>3. Len(sched.sleepQueue) \in Nat
      BY <2>1 DEF Typed
    <3>4. \A j \in 1..(i - 1) : j \in 1..Len(sched.sleepQueue) /\ j < i
      BY <3>3
    <3> QED
      BY <2>1, <3>2, <3>4 DEF Sorted
  <2> QED
    BY <2>2, <2>3, GoodQueues DEF NobodyForgotten, SleepersPending
<1> QED
  BY <1>1, OrderHolds, PTL

\* A thread only has, and only keeps, a core that its mask allows.
THEOREM MasksAreKept == OrderlySpec => []MasksKept
<1>1. OrderInv => MasksKept
  BY OrderFacts DEF MasksKept, On, Ready, Allowed
<1> QED
  BY <1>1, OrderHolds, PTL

\* Every thread has a core it may use, will be given one, or sleeps until its
\* deadline.
THEOREM EveryoneInPlace == OrderlySpec => []ThreadsInPlace
<1>1. NobodyForgotten /\ MasksKept => ThreadsInPlace
  BY DEF ThreadsInPlace
<1> QED
  BY <1>1, NobodyIsForgotten, MasksAreKept, PTL

\* No phase ends, by the barrier or by the watchdog, while a thread executes,
\* is in a fake leave or has a handoff to do.
THEOREM TimeStandsStill == OrderlySpec => PhaseWaitsForRunners
<1> DEFINE A == sched'.bar.phaseCount # sched.bar.phaseCount \/ WatchdogTick =>
                  /\ \A t \in Threads : pc[t] = "run" => pc'[t] # "run"
                  /\ sched.fakeLeaves = <<>>
                  /\ \A t \in Threads : sched.thr[t].handoff = None
<1>1. OrderInv /\ [OrderlyNext]_vars => [A]_vars
  <2> SUFFICES ASSUME OrderInv, OrderlyNext PROVE A
    OBVIOUS
  <2>1. InOrder /\ (WatchdogTick => Resting(sched, pc, pc'))
    BY OrderNextKept, WatchdogTickKept
  <2> QED
    BY <2>1 DEF InOrder, Resting
<1> HIDE DEF A
<1>2. OrderlySpec => [][A]_vars
  BY <1>1, OrderHolds, PTL DEF OrderlySpec
<1> QED
  BY <1>2 DEF PhaseWaitsForRunners, A
=============================================================================
