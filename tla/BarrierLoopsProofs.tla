------------------------- MODULE BarrierLoopsProofs -------------------------
(***************************************************************************)
(* The loops of tryWakeNext compute the closed forms of BarrierOps, for     *)
(* any cores, slots and run list: a loop invariant for each of the three    *)
(* loops, and the call that goes through them in turn.                      *)
(***************************************************************************)
EXTENDS BarrierLoops, BarrierOpsProofs

-----------------------------------------------------------------------------
(* Barrier objects                                                         *)

\* A Barrier object by its fields.
Object(st, fw, li, rl, cu, ru, le, ph) ==
    [state |-> st, futexWord |-> fw, lastIdx |-> li, runList |-> rl, curThreadIdx |-> cu,
     runningThreads |-> ru, leftThreads |-> le, phaseCount |-> ph]

\* b has the fields of a Barrier object and no others.
IsObject(b) ==
    b = Object(b.state, b.futexWord, b.lastIdx, b.runList, b.curThreadIdx, b.runningThreads,
               b.leftThreads, b.phaseCount)

\* The object with given fields.
ObjectWith(st, fw, li, rl, cu, ru, le, ph) ==
    [state : {st}, futexWord : {fw}, lastIdx : {li}, runList : {rl}, curThreadIdx : {cu},
     runningThreads : {ru}, leftThreads : {le}, phaseCount : {ph}]

\* There is one only.
LEMMA ObjectIs ==
    ASSUME NEW st, NEW fw, NEW li, NEW rl, NEW cu, NEW ru, NEW le, NEW ph,
           NEW e \in ObjectWith(st, fw, li, rl, cu, ru, le, ph)
    PROVE  e = Object(st, fw, li, rl, cu, ru, le, ph)
BY DEF ObjectWith, Object

\* A well-formed object is one.
LEMMA WellFormedIs ==
    ASSUME NEW b, WF(b)
    PROVE  /\ IsObject(b)
           /\ b.state \in [Tids -> States] /\ b.futexWord \in [Tids -> {0, 1}]
           /\ b.lastIdx \in [Tids -> Nat \ {0}]
           /\ b.runList \in Seq(Tids) /\ IsInjective(b.runList) /\ Len(b.runList) \in Nat
           /\ b.curThreadIdx \in 0..Len(b.runList)
           /\ b.runningThreads \in Nat /\ b.leftThreads \in Nat /\ b.phaseCount \in Nat
           /\ ParallelThreads \in Nat \ {0}
<1>1. b \in Barriers /\ IsInjective(b.runList) /\ b.curThreadIdx <= Len(b.runList)
  BY DEF WF, Listing
<1>2. IsObject(b)
  BY <1>1 DEF Barriers, IsObject, Object
<1> QED
  BY <1>1, <1>2, BarrierAssumption DEF Barriers, BarrierAssumption

\* b with other values in the fields that a walk changes.
Altered(b, st, fw, li, cu, ru) ==
    [b EXCEPT !.state = st, !.futexWord = fw, !.lastIdx = li, !.curThreadIdx = cu,
              !.runningThreads = ru]

\* It has the other fields of b.
LEMMA AlteredIs ==
    ASSUME NEW b, IsObject(b), NEW st, NEW fw, NEW li, NEW cu, NEW ru
    PROVE  Altered(b, st, fw, li, cu, ru)
             = Object(st, fw, li, b.runList, cu, ru, b.leftThreads, b.phaseCount)
<1>1. Altered(b, st, fw, li, cu, ru)
        \in ObjectWith(st, fw, li, b.runList, cu, ru, b.leftThreads, b.phaseCount)
  BY DEF IsObject, Object, ObjectWith, Altered
<1> QED
  BY <1>1, ObjectIs

-----------------------------------------------------------------------------
(* The walk                                                                *)

\* The positions that the walk from a wakes up to position c, and their cores.
Wakes(a, c) == WaitingBetween(a, a.curThreadIdx, c)

WokenTo(a, c) == {a.runList[i] : i \in Wakes(a, c)}

\* What a has become when the walk has come to position c.
Walked(a, c) ==
    [a EXCEPT
        !.state = [t \in Tids |-> IF t \in WokenTo(a, c) THEN "RUNNING" ELSE @[t]],
        !.futexWord = [t \in Tids |-> IF t \in WokenTo(a, c) THEN 0 ELSE @[t]],
        !.lastIdx = [t \in Tids |-> IF t \in WokenTo(a, c) THEN PositionOf(a, t) ELSE @[t]],
        !.curThreadIdx = c,
        !.runningThreads = @ + Cardinality(Wakes(a, c))]

\* The walk from a may have come to b.
Walks(a, b) ==
    \E c \in a.curThreadIdx..Len(a.runList) :
        /\ b = Walked(a, c)
        /\ \A d \in a.curThreadIdx..(c - 1) :
              a.runningThreads + Cardinality(Wakes(a, d)) < ParallelThreads

\* The fields of an object that has been walked.
LEMMA WalkedIs ==
    ASSUME NEW a, WF(a), NEW c
    PROVE  Walked(a, c) =
               Object([t \in Tids |-> IF t \in WokenTo(a, c) THEN "RUNNING" ELSE a.state[t]],
                      [t \in Tids |-> IF t \in WokenTo(a, c) THEN 0 ELSE a.futexWord[t]],
                      [t \in Tids |-> IF t \in WokenTo(a, c) THEN PositionOf(a, t)
                                      ELSE a.lastIdx[t]],
                      a.runList, c, a.runningThreads + Cardinality(Wakes(a, c)),
                      a.leftThreads, a.phaseCount)
<1> DEFINE st == [t \in Tids |-> IF t \in WokenTo(a, c) THEN "RUNNING" ELSE a.state[t]]
           fw == [t \in Tids |-> IF t \in WokenTo(a, c) THEN 0 ELSE a.futexWord[t]]
           li == [t \in Tids |-> IF t \in WokenTo(a, c) THEN PositionOf(a, t) ELSE a.lastIdx[t]]
           ru == a.runningThreads + Cardinality(Wakes(a, c))
<1>1. IsObject(a)
  BY WellFormedIs
<1>2. Walked(a, c) = Altered(a, st, fw, li, c, ru)
  BY Zenon DEF Walked, Altered
<1> HIDE DEF st, fw, li, ru
<1>3. Walked(a, c) = Object(st, fw, li, a.runList, c, ru, a.leftThreads, a.phaseCount)
  BY <1>1, <1>2, AlteredIs
<1> QED
  BY <1>3 DEF st, fw, li, ru

\* At first nobody has been woken.
LEMMA WalkBegins ==
    ASSUME NEW a, WF(a)
    PROVE  Walks(a, a)
<1> DEFINE c == a.curThreadIdx
<1>1. /\ c \in Nat /\ c <= Len(a.runList) /\ Len(a.runList) \in Nat
      /\ a.state \in [Tids -> States] /\ a.futexWord \in [Tids -> {0, 1}]
      /\ a.lastIdx \in [Tids -> Nat \ {0}] /\ a.runningThreads \in Nat
      /\ IsObject(a)
  BY WellFormedIs
<1>2. Wakes(a, c) = {} /\ WokenTo(a, c) = {}
  BY <1>1 DEF Wakes, WokenTo, WaitingBetween
<1>3. Cardinality(Wakes(a, c)) = 0
  BY <1>2, FS_EmptySet
<1>4. /\ [t \in Tids |-> IF t \in WokenTo(a, c) THEN "RUNNING" ELSE a.state[t]] = a.state
      /\ [t \in Tids |-> IF t \in WokenTo(a, c) THEN 0 ELSE a.futexWord[t]] = a.futexWord
      /\ [t \in Tids |-> IF t \in WokenTo(a, c) THEN PositionOf(a, t) ELSE a.lastIdx[t]] = a.lastIdx
  BY <1>1, <1>2
<1>5. a.runningThreads + Cardinality(Wakes(a, c)) = a.runningThreads
  BY <1>1, <1>3
<1>6. Walked(a, c) = a
  BY <1>1, <1>4, <1>5, WalkedIs DEF IsObject
<1> QED
  BY <1>1, <1>6 DEF Walks

\* One more position may wake its core.
LEMMA OneMoreWoken ==
    ASSUME NEW a, WF(a), NEW c \in a.curThreadIdx..(Len(a.runList) - 1)
    PROVE  LET t == a.runList[c + 1]
           IN  /\ t \in Tids /\ t \notin WokenTo(a, c) /\ PositionOf(a, t) = c + 1
               /\ Cardinality(Wakes(a, c)) \in Nat
               /\ a.state[t] = "WAITING" =>
                     /\ WokenTo(a, c + 1) = WokenTo(a, c) \cup {t}
                     /\ Cardinality(Wakes(a, c + 1)) = Cardinality(Wakes(a, c)) + 1
               /\ a.state[t] # "WAITING" => Wakes(a, c + 1) = Wakes(a, c)
<1> DEFINE t == a.runList[c + 1]
           lo == a.curThreadIdx
<1>1. /\ lo \in Nat /\ Len(a.runList) \in Nat /\ a.runList \in Seq(Tids) /\ IsInjective(a.runList)
      /\ c \in Nat /\ c + 1 \in 1..Len(a.runList)
  BY WellFormedIs
<1>2. t \in Tids /\ PositionOf(a, t) = c + 1
  BY <1>1, PositionIs
<1>3. Wakes(a, c) \subseteq 1..c /\ IsFiniteSet(Wakes(a, c)) /\ Cardinality(Wakes(a, c)) \in Nat
  <2>1. c \in Int
    BY <1>1
  <2>2. Wakes(a, c) \subseteq 1..c
    BY <1>1 DEF Wakes, WaitingBetween
  <2> QED
    BY <1>1, <2>1, <2>2, WaitingFinite DEF Wakes
<1>4. t \notin WokenTo(a, c)
  <2>1. \A i \in 1..c : a.runList[i] # t
    BY <1>1 DEF IsInjective
  <2> QED
    BY <1>3, <2>1 DEF WokenTo
<1>5. Wakes(a, c + 1) = IF a.state[t] = "WAITING" THEN Wakes(a, c) \cup {c + 1} ELSE Wakes(a, c)
  BY <1>1 DEF Wakes, WaitingBetween
<1>6. c + 1 \notin Wakes(a, c)
  BY <1>1, <1>3
<1>7. ASSUME a.state[t] = "WAITING"
      PROVE  /\ WokenTo(a, c + 1) = WokenTo(a, c) \cup {t}
             /\ Cardinality(Wakes(a, c + 1)) = Cardinality(Wakes(a, c)) + 1
  <2>1. Wakes(a, c + 1) = Wakes(a, c) \cup {c + 1}
    BY <1>5, <1>7
  <2>2. WokenTo(a, c + 1) = WokenTo(a, c) \cup {t}
    BY <2>1 DEF WokenTo
  <2>3. Cardinality(Wakes(a, c) \cup {c + 1}) = Cardinality(Wakes(a, c)) + 1
    BY <1>3, <1>6, FS_AddElement
  <2> QED
    BY <2>1, <2>2, <2>3
<1> QED
  BY <1>2, <1>3, <1>4, <1>5, <1>7

\* An iteration takes the walk one position further.
LEMMA WalkGoesOn ==
    ASSUME NEW a, WF(a), NEW b, Walks(a, b),
           b.runningThreads < ParallelThreads, b.curThreadIdx < Len(b.runList)
    PROVE  LET i == b.curThreadIdx + 1
               t == b.runList[i]
           IN  IF b.state[t] = "WAITING"
               THEN b.futexWord[t] = 1 /\ Walks(a, Woken(Examined(b), t, i))
               ELSE Walks(a, Examined(b))
<1>1. PICK c \in a.curThreadIdx..Len(a.runList) :
          /\ b = Walked(a, c)
          /\ \A d \in a.curThreadIdx..(c - 1) :
                a.runningThreads + Cardinality(Wakes(a, d)) < ParallelThreads
  BY DEF Walks
<1> DEFINE t == a.runList[c + 1]
           st == [u \in Tids |-> IF u \in WokenTo(a, c) THEN "RUNNING" ELSE a.state[u]]
           fw == [u \in Tids |-> IF u \in WokenTo(a, c) THEN 0 ELSE a.futexWord[u]]
           li == [u \in Tids |-> IF u \in WokenTo(a, c) THEN PositionOf(a, u) ELSE a.lastIdx[u]]
           ru == a.runningThreads + Cardinality(Wakes(a, c))
<1>2. /\ b = Object(st, fw, li, a.runList, c, ru, a.leftThreads, a.phaseCount)
  BY <1>1, WalkedIs
<1>3. /\ b.curThreadIdx = c /\ b.runList = a.runList /\ b.runningThreads = ru
      /\ b.state = st /\ b.futexWord = fw
  BY <1>2 DEF Object
<1>4. /\ a.curThreadIdx \in Nat /\ Len(a.runList) \in Nat /\ a.runningThreads \in Nat
      /\ ParallelThreads \in Nat
  BY WellFormedIs
<1>5. c \in a.curThreadIdx..(Len(a.runList) - 1) /\ c + 1 \in a.curThreadIdx..Len(a.runList)
      /\ (c + 1) - 1 = c
  BY <1>3, <1>4
<1>6. /\ t \in Tids /\ t \notin WokenTo(a, c) /\ PositionOf(a, t) = c + 1
      /\ Cardinality(Wakes(a, c)) \in Nat
      /\ a.state[t] = "WAITING" =>
            /\ WokenTo(a, c + 1) = WokenTo(a, c) \cup {t}
            /\ Cardinality(Wakes(a, c + 1)) = Cardinality(Wakes(a, c)) + 1
      /\ a.state[t] # "WAITING" => Wakes(a, c + 1) = Wakes(a, c)
  BY <1>5, OneMoreWoken
<1>7. \A d \in a.curThreadIdx..c : a.runningThreads + Cardinality(Wakes(a, d)) < ParallelThreads
  <2> TAKE d \in a.curThreadIdx..c
  <2>1. CASE d = c
    BY <1>3, <2>1
  <2>2. CASE d # c
    BY <1>1, <1>4, <2>2
  <2> QED
    BY <2>1, <2>2
<1>8. st[t] = a.state[t] /\ fw[t] = a.futexWord[t]
  BY <1>6
<1>9. CASE a.state[t] = "WAITING"
  <2>1. a.futexWord[t] = 1
    BY <1>6, <1>9 DEF WF, Listing, WordsMatch
  <2>2. Woken(Examined(b), t, c + 1)
          = Object([st EXCEPT ![t] = "RUNNING"], [fw EXCEPT ![t] = 0], [li EXCEPT ![t] = c + 1],
                   a.runList, c + 1, ru + 1, a.leftThreads, a.phaseCount)
    <3>1. IsObject(b) /\ b.lastIdx = li /\ b.leftThreads = a.leftThreads
          /\ b.phaseCount = a.phaseCount
      BY <1>2 DEF IsObject, Object
    <3> DEFINE s2 == [b.state EXCEPT ![t] = "RUNNING"]
               f2 == [b.futexWord EXCEPT ![t] = 0]
               l2 == [b.lastIdx EXCEPT ![t] = c + 1]
               r2 == b.runningThreads + 1
    <3>2. Woken(Examined(b), t, c + 1) = Altered(b, s2, f2, l2, c + 1, r2)
      <4> HIDE DEF st, fw, li, ru, t
      <4> QED
        BY <1>3, <3>1 DEF Woken, Examined, IsObject, Object, Altered
    <3> HIDE DEF s2, f2, l2, r2
    <3>3. Woken(Examined(b), t, c + 1)
            = Object(s2, f2, l2, b.runList, c + 1, r2, b.leftThreads, b.phaseCount)
      BY <3>1, <3>2, AlteredIs
    <3> HIDE DEF st, fw, li, ru, t
    <3> QED
      BY <1>3, <3>1, <3>3 DEF s2, f2, l2, r2
  <2>3. [st EXCEPT ![t] = "RUNNING"]
          = [u \in Tids |-> IF u \in WokenTo(a, c + 1) THEN "RUNNING" ELSE a.state[u]]
    BY <1>6, <1>9
  <2>4. [fw EXCEPT ![t] = 0]
          = [u \in Tids |-> IF u \in WokenTo(a, c + 1) THEN 0 ELSE a.futexWord[u]]
    BY <1>6, <1>9
  <2>5. [li EXCEPT ![t] = c + 1]
          = [u \in Tids |-> IF u \in WokenTo(a, c + 1) THEN PositionOf(a, u) ELSE a.lastIdx[u]]
    BY <1>6, <1>9
  <2>6. ru + 1 = a.runningThreads + Cardinality(Wakes(a, c + 1))
    BY <1>4, <1>6, <1>9
  <2>7. Woken(Examined(b), t, c + 1) = Walked(a, c + 1)
    BY <2>2, <2>3, <2>4, <2>5, <2>6, WalkedIs
  <2>8. Walks(a, Woken(Examined(b), t, c + 1))
    BY <1>5, <1>7, <2>7 DEF Walks
  <2> QED
    BY <1>3, <1>8, <1>9, <2>1, <2>8
<1>10. CASE a.state[t] # "WAITING"
  <2>1. Examined(b) = Object(st, fw, li, a.runList, c + 1, ru, a.leftThreads, a.phaseCount)
    <3> HIDE DEF st, fw, li, ru, t
    <3> QED
      BY <1>2 DEF Examined, Object
  <2>2. Wakes(a, c + 1) = Wakes(a, c) /\ WokenTo(a, c + 1) = WokenTo(a, c)
    BY <1>6, <1>10 DEF WokenTo
  <2>3. Examined(b) = Walked(a, c + 1)
    BY <2>1, <2>2, WalkedIs
  <2>4. Walks(a, Examined(b))
    BY <1>5, <1>7, <2>3 DEF Walks
  <2> QED
    BY <1>3, <1>8, <1>10, <2>4
<1> QED
  BY <1>9, <1>10

\* When no iteration follows, the walk is where checkRunList ends.
LEMMA WalkEnds ==
    ASSUME NEW a, WF(a), NEW b, Walks(a, b),
           ~(b.runningThreads < ParallelThreads /\ b.curThreadIdx < Len(b.runList))
    PROVE  b = CheckRunList(a)
<1>1. PICK c \in a.curThreadIdx..Len(a.runList) :
          /\ b = Walked(a, c)
          /\ \A d \in a.curThreadIdx..(c - 1) :
                a.runningThreads + Cardinality(Wakes(a, d)) < ParallelThreads
  BY DEF Walks
<1> DEFINE lo == a.curThreadIdx
           len == Len(a.runList)
           count(d) == a.runningThreads + Cardinality(Wakes(a, d))
           stops(d) == d = len \/ count(d) >= ParallelThreads
           first(d) == \A e \in lo..(d - 1) : count(e) < ParallelThreads
<1>2. b.curThreadIdx = c /\ b.runList = a.runList /\ b.runningThreads = count(c)
  BY <1>1, WalkedIs DEF Object
<1>3. lo \in Nat /\ len \in Nat /\ a.runningThreads \in Nat /\ ParallelThreads \in Nat
  BY WellFormedIs
<1>4. \A d \in lo..len : count(d) \in Nat
  BY <1>3, WaitingFinite DEF Wakes
<1>5. stops(c) /\ first(c)
  BY <1>1, <1>2, <1>3, <1>4
<1>6. ASSUME NEW d \in lo..len, stops(d), first(d)
      PROVE  d = c
  <2>1. ~(d < c)
    <3> SUFFICES ASSUME d < c PROVE FALSE
      OBVIOUS
    <3>1. d \in lo..(c - 1) /\ d # len
      BY <1>3
    <3> HIDE DEF count
    <3> QED
      BY <1>3, <1>4, <1>5, <1>6, <3>1
  <2>2. ~(c < d)
    <3> SUFFICES ASSUME c < d PROVE FALSE
      OBVIOUS
    <3>1. c \in lo..(d - 1) /\ c # len
      BY <1>3
    <3> HIDE DEF count
    <3> QED
      BY <1>3, <1>4, <1>5, <1>6, <3>1
  <2> QED
    BY <1>3, <2>1, <2>2
<1>7. ScanEnd(a) = CHOOSE d \in lo..len : stops(d) /\ first(d)
  BY DEF ScanEnd, Wakes
<1> HIDE DEF stops, first
<1>8. ScanEnd(a) = c
  BY <1>5, <1>6, <1>7
<1>9. CheckRunList(a) = Walked(a, c)
  BY <1>8 DEF CheckRunList, Walked, ToWake, WokenTo, Wakes
<1> QED
  BY <1>1, <1>9

-----------------------------------------------------------------------------
(* The shuffle                                                             *)

\* Two places of f trade their values.
Trade(f, i, j) == [[f EXCEPT ![i] = f[j]] EXCEPT ![j] = f[i]]

\* An order of the list: every position once.
Order(n, p) ==
    /\ p \in [1..n -> 1..n]
    /\ \A x, y \in 1..n : p[x] = p[y] => x = y
    /\ \A y \in 1..n : \E x \in 1..n : p[x] = y

\* The orders are the bijections that BarrierOps draws from.
LEMMA OrderIs ==
    ASSUME NEW n \in Nat
    PROVE  \A p : p \in Bijection(1..n, 1..n) <=> Order(n, p)
BY DEF Bijection, Injection, Surjection, IsInjective, Order

\* R in the order p.
Ordered(n, R, p) == [x \in 1..n |-> R[p[x]]]

\* Two values written one after the other.
LEMMA TwoWritten ==
    ASSUME NEW S, NEW T, NEW f \in [S -> T], NEW u \in S, NEW v \in S, NEW x \in T, NEW y \in T
    PROVE  LET g == [[f EXCEPT ![u] = x] EXCEPT ![v] = y]
           IN  /\ g \in [S -> T]
               /\ \A t \in S : g[t] = IF t = v THEN y ELSE IF t = u THEN x ELSE f[t]
OBVIOUS

\* The shuffle of list R, with indices old at first, before the swap at
\* position i: the list is in order p, the indices are li.  An entry that
\* nothing has been swapped with is in its old place, and the places up to i
\* hold such entries or later ones.
Drawn(n, T, R, old, i, p, li) ==
    /\ Order(n, p)
    /\ i \in 1..n
    /\ \A x \in 1..i : p[x] = x \/ p[x] > i
    /\ li \in [T -> Nat \ {0}]
    /\ \A x \in 1..n : li[R[p[x]]] = IF x <= i /\ p[x] = x THEN old[R[x]] ELSE x
    /\ \A t \in T : (\A x \in 1..n : R[x] # t) => li[t] = old[t]

\* The list follows the order.
LEMMA TradeOrdered ==
    ASSUME NEW n \in Nat, NEW T, NEW R \in [1..n -> T], NEW p \in [1..n -> 1..n],
           NEW i \in 1..n, NEW j \in 1..n
    PROVE  Trade(Ordered(n, R, p), i, j) = Ordered(n, R, Trade(p, i, j))
<1>1. i \in 1..n /\ j \in 1..n /\ p \in [1..n -> 1..n]
  OBVIOUS
<1>2. PICK q \in [1..n -> 1..n] :
          /\ q = Trade(p, i, j)
          /\ \A x \in 1..n : q[x] = IF x = j THEN p[i] ELSE IF x = i THEN p[j] ELSE p[x]
  <2>1. /\ Trade(p, i, j) \in [1..n -> 1..n]
        /\ \A x \in 1..n : Trade(p, i, j)[x] = IF x = j THEN p[i] ELSE IF x = i THEN p[j] ELSE p[x]
    BY ONLY <1>1 DEF Trade
  <2> QED
    BY ONLY <2>1
<1>3. \A x \in 1..n : p[x] \in 1..n
  OBVIOUS
<1>4. Ordered(n, R, p) \in [1..n -> T]
  BY <1>3 DEF Ordered
<1>5. Trade(Ordered(n, R, p), i, j) = Ordered(n, R, q)
  <2>0. PICK o \in [1..n -> T] : o = Ordered(n, R, p)
    BY <1>4
  <2>1. PICK s \in [1..n -> T] :
            /\ s = Trade(o, i, j)
            /\ \A x \in 1..n : s[x] = IF x = j THEN o[i] ELSE IF x = i THEN o[j] ELSE o[x]
    <3>1. o \in [1..n -> T]
      BY <2>0
    <3>2. /\ Trade(o, i, j) \in [1..n -> T]
          /\ \A x \in 1..n : Trade(o, i, j)[x] = IF x = j THEN o[i] ELSE IF x = i THEN o[j] ELSE o[x]
      BY ONLY <1>1, <3>1 DEF Trade
    <3> QED
      BY ONLY <3>2
  <2>2. \A x \in 1..n : o[x] = R[p[x]]
    BY <2>0 DEF Ordered
  <2>3. \A x \in 1..n : s[x] = R[q[x]]
    <3> TAKE x \in 1..n
    <3>1. /\ q[x] = IF x = j THEN p[i] ELSE IF x = i THEN p[j] ELSE p[x]
          /\ s[x] = IF x = j THEN o[i] ELSE IF x = i THEN o[j] ELSE o[x]
          /\ o[i] = R[p[i]] /\ o[j] = R[p[j]] /\ o[x] = R[p[x]]
      BY <1>1, <1>2, <2>1, <2>2
    <3> QED
      BY ONLY <3>1
  <2>4. s = [x \in 1..n |-> R[q[x]]]
    BY <2>1, <2>3
  <2> QED
    BY <2>0, <2>1, <2>4 DEF Ordered
<1> QED
  BY <1>2, <1>5

\* A swap at position i settles it.
LEMMA TradeSettles ==
    ASSUME NEW n \in Nat, NEW T, NEW R \in [1..n -> T], NEW old,
           \A x, y \in 1..n : R[x] = R[y] => x = y,
           NEW i, NEW p, NEW li, Drawn(n, T, R, old, i, p, li), i > 1, NEW j \in 1..i
    PROVE  Drawn(n, T, R, old, i - 1, Trade(p, i, j),
                   [[li EXCEPT ![R[p[i]]] = j] EXCEPT ![R[p[j]]] = i])
<1> DEFINE l2 == [[li EXCEPT ![R[p[i]]] = j] EXCEPT ![R[p[j]]] = i]
<1>1. i \in 1..n
  BY DEF Drawn
<1>2. /\ i \in Nat /\ i \in 1..n /\ j \in 1..n /\ j \in Nat /\ i - 1 \in 1..n /\ j <= i
  BY <1>1
<1>3. /\ i \in 1..n /\ j \in 1..n
      /\ p \in [1..n -> 1..n]
      /\ \A x, y \in 1..n : p[x] = p[y] => x = y
      /\ \A y \in 1..n : \E x \in 1..n : p[x] = y
      /\ li \in [T -> Nat \ {0}]
  BY <1>2 DEF Drawn, Order
<1>4. \A x \in 1..i : p[x] = x \/ p[x] > i
  BY Zenon DEF Drawn
<1>5. p[i] \in Nat /\ (p[i] = i \/ p[i] > i)
  <2>1. i \in 1..i
    BY <1>2
  <2>2. p[i] \in 1..n
    BY <1>3
  <2> QED
    BY <1>4, <2>1, <2>2
<1>6. PICK q \in [1..n -> 1..n] :
          /\ q = Trade(p, i, j)
          /\ \A x \in 1..n : q[x] = IF x = j THEN p[i] ELSE IF x = i THEN p[j] ELSE p[x]
  <2>1. /\ Trade(p, i, j) \in [1..n -> 1..n]
        /\ \A x \in 1..n : Trade(p, i, j)[x] = IF x = j THEN p[i] ELSE IF x = i THEN p[j] ELSE p[x]
    BY ONLY <1>3 DEF Trade
  <2> QED
    BY ONLY <2>1
<1>7. \A x \in 1..n : p[x] \in 1..n /\ q[x] \in 1..n
  BY <1>3, <1>6
<1>8. Order(n, q)
  <2>1. \A x, y \in 1..n : q[x] = q[y] => x = y
    <3> TAKE x \in 1..n, y \in 1..n
    <3>1. /\ q[x] = IF x = j THEN p[i] ELSE IF x = i THEN p[j] ELSE p[x]
          /\ q[y] = IF y = j THEN p[i] ELSE IF y = i THEN p[j] ELSE p[y]
      BY <1>6
    <3>2. /\ p[x] = p[y] => x = y
          /\ p[x] = p[i] => x = i
          /\ p[x] = p[j] => x = j
          /\ p[i] = p[y] => y = i
          /\ p[j] = p[y] => y = j
          /\ p[i] = p[j] => i = j
      BY <1>3
    <3> QED
      BY ONLY <3>1, <3>2
  <2>2. \A y \in 1..n : \E x \in 1..n : q[x] = y
    <3> TAKE y \in 1..n
    <3>1. PICK x \in 1..n : p[x] = y
      BY <1>3
    <3>2. q[IF x = j THEN i ELSE IF x = i THEN j ELSE x] = y
      BY <1>3, <1>6, <3>1
    <3> QED
      BY <1>3, <3>2
  <2> QED
    BY <1>6, <2>1, <2>2 DEF Order
<1>9. \A x \in 1..(i - 1) : q[x] = x \/ q[x] > i - 1
  <2> TAKE x \in 1..(i - 1)
  <2>1. x \in 1..n /\ x # i /\ x \in 1..i /\ x \in Nat /\ x < i
    BY <1>2
  <2>2. p[x] \in Nat /\ (p[x] = x \/ p[x] > i)
    <3>1. p[x] \in 1..n /\ (p[x] = x \/ p[x] > i)
      BY <1>4, <1>7, <2>1
    <3> QED
      BY <3>1
  <2>3. q[x] = IF x = j THEN p[i] ELSE p[x]
    BY <1>6, <2>1
  <2>4. \A u, v \in Int : u > v => u > v - 1
    OBVIOUS
  <2>5. i > i - 1 /\ (p[i] > i => p[i] > i - 1) /\ (p[x] > i => p[x] > i - 1)
    BY <1>2, <1>5, <2>2, <2>4
  <2> QED
    BY ONLY <1>5, <2>2, <2>3, <2>5
<1>10. \A x, y \in 1..n : R[p[x]] \in T /\ (R[p[x]] = R[p[y]] => x = y)
  BY <1>3, <1>7
<1>11. /\ l2 \in [T -> Nat \ {0}]
      /\ \A t \in T : l2[t] = IF t = R[p[j]] THEN i ELSE IF t = R[p[i]] THEN j ELSE li[t]
  <2>1. R[p[i]] \in T /\ R[p[j]] \in T
    BY <1>3, <1>10
  <2>2. i \in Nat \ {0} /\ j \in Nat \ {0}
    BY <1>2
  <2> QED
    BY Zenon, <1>3, <2>1, <2>2, TwoWritten
<1> HIDE DEF l2
<1>12. \A x \in 1..n : l2[R[q[x]]] = IF x <= i - 1 /\ q[x] = x THEN old[R[x]] ELSE x
  <2> TAKE x \in 1..n
  <2>1. CASE x = j
    <3>1. q[x] = p[i]
      BY <1>6, <2>1
    <3>2. l2[R[p[i]]] = j
      <4>1. R[p[i]] \in T /\ (R[p[i]] = R[p[j]] => i = j)
        BY <1>3, <1>10
      <4>2. l2[R[p[i]]] = IF R[p[i]] = R[p[j]] THEN i ELSE j
        BY <1>11, <4>1
      <4> QED
        BY <4>1, <4>2
    <3>4. ~(x <= i - 1 /\ q[x] = x)
      BY <1>2, <1>5, <2>1, <3>1
    <3> QED
      BY <2>1, <3>1, <3>2, <3>4
  <2>2. CASE x = i /\ x # j
    <3>1. q[x] = p[j]
      BY <1>6, <2>2
    <3>2. l2[R[p[j]]] = i
      BY <1>3, <1>10, <1>11
    <3>3. ~(x <= i - 1)
      BY <1>2, <2>2
    <3> QED
      BY <2>2, <3>1, <3>2, <3>3
  <2>3. CASE x # i /\ x # j
    <3>1. q[x] = p[x]
      BY <1>6, <2>3
    <3>2. R[p[x]] # R[p[i]] /\ R[p[x]] # R[p[j]]
      BY <1>3, <1>10, <2>3
    <3>3. l2[R[p[x]]] = li[R[p[x]]]
      BY <1>10, <1>11, <3>2
    <3>4. li[R[p[x]]] = IF x <= i /\ p[x] = x THEN old[R[x]] ELSE x
      BY DEF Drawn
    <3>5. x <= i <=> x <= i - 1
      BY <1>2, <2>3
    <3> QED
      BY <3>1, <3>3, <3>4, <3>5
  <2> QED
    BY <2>1, <2>2, <2>3
<1>13. \A t \in T : (\A x \in 1..n : R[x] # t) => l2[t] = old[t]
  <2> TAKE t \in T
  <2> HAVE \A x \in 1..n : R[x] # t
  <2>1. li[t] = old[t]
    BY DEF Drawn
  <2>2. R[p[i]] # t /\ R[p[j]] # t
    BY <1>3, <1>7
  <2> QED
    BY <1>11, <2>1, <2>2
<1>14. Drawn(n, T, R, old, i - 1, q, l2)
  BY <1>2, <1>8, <1>9, <1>11, <1>12, <1>13 DEF Drawn
<1> QED
  BY <1>6, <1>14 DEF l2

\* b with another run list and other indices.
Rearranged(b, rl, li) == [b EXCEPT !.runList = rl, !.lastIdx = li]

\* It has the other fields of b.
LEMMA RearrangedIs ==
    ASSUME NEW b, IsObject(b), NEW rl, NEW li
    PROVE  Rearranged(b, rl, li) =
               Object(b.state, b.futexWord, li, rl, b.curThreadIdx, b.runningThreads,
                      b.leftThreads, b.phaseCount)
<1>1. Rearranged(b, rl, li)
        \in ObjectWith(b.state, b.futexWord, li, rl, b.curThreadIdx, b.runningThreads,
                       b.leftThreads, b.phaseCount)
  BY DEF IsObject, Object, ObjectWith, Rearranged
<1> QED
  BY <1>1, ObjectIs

\* b is a, shuffled down to position i.
Shuffles(a, b, i) ==
    LET n == Len(a.runList)
    IN  \E p, li : /\ Drawn(n, Tids, a.runList, a.lastIdx, i, p, li)
                   /\ b = Rearranged(a, Ordered(n, a.runList, p), li)

\* At first every entry is in its place.
LEMMA ShuffleBegins ==
    ASSUME NEW a, WF(a), Len(a.runList) > 0
    PROVE  Shuffles(a, a, Len(a.runList))
<1>1. PICK n \in Nat : n = Len(a.runList)
  BY WellFormedIs
<1>2. PICK R \in [1..n -> Tids] : R = a.runList
  BY <1>1, WellFormedIs
<1>3. PICK p \in [1..n -> 1..n] : \A x \in 1..n : p[x] = x
  <2>1. [x \in 1..n |-> x] \in [1..n -> 1..n]
    OBVIOUS
  <2> QED
    BY <2>1
<1>4. PICK old \in [Tids -> Nat \ {0}] : old = a.lastIdx
  BY WellFormedIs
<1>5. Drawn(n, Tids, R, old, n, p, old)
  BY <1>1, <1>3 DEF Drawn, Order
<1>6. Ordered(n, R, p) = R
  BY <1>3 DEF Ordered
<1>7. a = Rearranged(a, R, old)
  BY <1>2, <1>4, RearrangedIs, WellFormedIs DEF IsObject
<1> QED
  BY <1>1, <1>2, <1>4, <1>5, <1>6, <1>7 DEF Shuffles

\* An iteration takes the shuffle one position down.
LEMMA ShuffleGoesOn ==
    ASSUME NEW a, WF(a), NEW b, NEW i, Shuffles(a, b, i), i > 1, NEW j \in 1..i
    PROVE  Shuffles(a, Swapped(b, i, j), i - 1)
<1>1. PICK n \in Nat : n = Len(a.runList)
  BY WellFormedIs
<1>2. PICK R \in [1..n -> Tids] : R = a.runList /\ \A x, y \in 1..n : R[x] = R[y] => x = y
  BY <1>1, WellFormedIs DEF IsInjective
<1>3. PICK p, li : /\ Drawn(n, Tids, R, a.lastIdx, i, p, li)
                   /\ b = Rearranged(a, Ordered(n, R, p), li)
  BY <1>1, <1>2 DEF Shuffles
<1>4. PICK rl : rl = Ordered(n, R, p)
  OBVIOUS
<1>5. i \in 1..n /\ j \in 1..n
  BY <1>3 DEF Drawn
<1>6. rl[i] = R[p[i]] /\ rl[j] = R[p[j]]
  BY <1>4, <1>5 DEF Ordered
<1>7. PICK l2 : l2 = [[li EXCEPT ![R[p[i]]] = j] EXCEPT ![R[p[j]]] = i]
  OBVIOUS
<1>8. IsObject(a)
  BY WellFormedIs
<1>9. Swapped(b, i, j) = Rearranged(a, Trade(rl, i, j), l2)
  <2>1. b = Object(a.state, a.futexWord, li, rl, a.curThreadIdx, a.runningThreads,
                   a.leftThreads, a.phaseCount)
    BY <1>3, <1>4, <1>8, RearrangedIs
  <2>2. b.runList = rl /\ b.lastIdx = li /\ IsObject(b) /\ b.state = a.state
        /\ b.futexWord = a.futexWord /\ b.curThreadIdx = a.curThreadIdx
        /\ b.runningThreads = a.runningThreads /\ b.leftThreads = a.leftThreads
        /\ b.phaseCount = a.phaseCount
    BY <2>1 DEF IsObject, Object
  <2>3. Swapped(b, i, j) = Rearranged(b, Trade(rl, i, j), l2)
    BY Zenon, <1>6, <1>7, <2>2 DEF Swapped, Rearranged, Trade
  <2> QED
    BY <1>8, <2>2, <2>3, RearrangedIs
<1>10. /\ Drawn(n, Tids, R, a.lastIdx, i - 1, Trade(p, i, j), l2)
       /\ Trade(rl, i, j) = Ordered(n, R, Trade(p, i, j))
  <2>1. Drawn(n, Tids, R, a.lastIdx, i - 1, Trade(p, i, j),
                [[li EXCEPT ![R[p[i]]] = j] EXCEPT ![R[p[j]]] = i])
    <3>1. \A x, y \in 1..n : R[x] = R[y] => x = y
      BY <1>2
    <3>2. Drawn(n, Tids, R, a.lastIdx, i, p, li)
      BY <1>3
    <3>3. n \in Nat /\ R \in [1..n -> Tids] /\ i > 1 /\ j \in 1..i
      OBVIOUS
    <3> QED
      BY ONLY SMT, <3>1, <3>2, <3>3, TradeSettles
  <2>2. p \in [1..n -> 1..n]
    BY <1>3 DEF Drawn, Order
  <2>3. Trade(Ordered(n, R, p), i, j) = Ordered(n, R, Trade(p, i, j))
    BY <1>5, <2>2, TradeOrdered
  <2> QED
    BY <1>4, <1>7, <2>1, <2>3
<1> QED
  BY <1>1, <1>2, <1>9, <1>10 DEF Shuffles

\* When no swap follows, the list is one that Shuffled allows.
LEMMA ShuffleEnds ==
    ASSUME NEW a, WF(a), NEW b, NEW i, Shuffles(a, b, i), i <= 1
    PROVE  \E p \in Bijection(1..Len(a.runList), 1..Len(a.runList)) : b = Shuffled(a, p)
<1>1. PICK n \in Nat : n = Len(a.runList)
  BY WellFormedIs
<1>2. PICK R \in [1..n -> Tids] : R = a.runList /\ \A x, y \in 1..n : R[x] = R[y] => x = y
  BY <1>1, WellFormedIs DEF IsInjective
<1>3. PICK old \in [Tids -> Nat \ {0}] : old = a.lastIdx
  BY WellFormedIs
<1>4. PICK p, li : /\ Drawn(n, Tids, R, old, i, p, li)
                   /\ b = Rearranged(a, Ordered(n, R, p), li)
  BY <1>1, <1>2, <1>3 DEF Shuffles
<1>5. i \in 1..n
  BY <1>4 DEF Drawn
<1>6. i = 1 /\ 1 \in 1..n
  BY <1>1, <1>5
<1>7. /\ i = 1 /\ 1 \in 1..n
      /\ p \in [1..n -> 1..n]
      /\ \A x, y \in 1..n : p[x] = p[y] => x = y
      /\ \A y \in 1..n : \E x \in 1..n : p[x] = y
      /\ li \in [Tids -> Nat \ {0}]
  BY <1>4, <1>6 DEF Drawn, Order
<1>8. \A x \in 1..n : p[x] \in 1..n /\ R[p[x]] \in Tids
  BY <1>7
<1>9. PICK rl \in [1..n -> Tids] : rl = Ordered(n, R, p) /\ \A x \in 1..n : rl[x] = R[p[x]]
  <2>1. Ordered(n, R, p) \in [1..n -> Tids]
    BY <1>8 DEF Ordered
  <2> QED
    BY <2>1 DEF Ordered
<1> DEFINE list == [x \in 1..Len(a.runList) |-> a.runList[p[x]]]
<1>10. list = rl
  BY <1>1, <1>2, <1>9
<1>11. \A x \in 1..n : li[rl[x]] = IF x = 1 /\ p[1] = 1 THEN old[R[1]] ELSE x
  <2> TAKE x \in 1..n
  <2>1. li[R[p[x]]] = IF x <= 1 /\ p[x] = x THEN old[R[x]] ELSE x
    BY <1>4, <1>6 DEF Drawn
  <2>2. x <= 1 <=> x = 1
    BY <1>1
  <2> QED
    BY <1>9, <2>1, <2>2
<1>12. PICK l2 : l2 = [t \in Tids |-> IF t \in OnList(a) /\ (PositionOf(a, t) # 1 \/ p[1] # 1)
                                     THEN CHOOSE x \in 1..Len(a.runList) : list[x] = t
                                     ELSE a.lastIdx[t]]
  OBVIOUS
<1>13. Shuffled(a, p) = Rearranged(a, list, l2)
  BY Zenon, <1>12 DEF Shuffled, Rearranged
<1> HIDE DEF list
<1>14. OnList(a) = {R[x] : x \in 1..n}
  BY <1>1, <1>2 DEF OnList
<1>15. ASSUME NEW x \in 1..n PROVE l2[rl[x]] = li[rl[x]]
  <2>1. p[x] \in 1..n /\ rl[x] = R[p[x]] /\ rl[x] \in Tids
    BY <1>7, <1>9
  <2>2. rl[x] \in OnList(a)
    BY <1>14, <2>1
  <2>3. PositionOf(a, rl[x]) = p[x]
    BY <1>1, <1>2, <2>1, PositionIs, WellFormedIs
  <2>4. \A y \in 1..n : rl[y] = rl[x] => y = x
    <3> TAKE y \in 1..n
    <3> HAVE rl[y] = rl[x]
    <3>1. R[p[x]] = R[p[y]] /\ p[x] \in 1..n /\ p[y] \in 1..n
      BY <1>9, <1>8
    <3>2. p[x] = p[y]
      BY <1>2, <3>1
    <3> QED
      BY <1>7, <3>2
  <2>5. (CHOOSE y \in 1..Len(a.runList) : list[y] = rl[x]) = x
    BY <1>1, <1>10, <2>4
  <2>6. l2[rl[x]] = IF p[x] # 1 \/ p[1] # 1 THEN x ELSE old[rl[x]]
    BY <1>3, <1>12, <2>1, <2>2, <2>3, <2>5
  <2>7. p[x] = 1 /\ p[1] = 1 => x = 1
    BY <1>7
  <2> QED
    BY <1>11, <2>1, <2>6, <2>7
<1>16. l2 = li
  <2>1. \A t \in Tids : l2[t] = li[t]
    <3> TAKE t \in Tids
    <3>1. CASE t \in OnList(a)
      <4>1. PICK y \in 1..n : t = R[y]
        BY <1>14, <3>1
      <4>2. PICK x \in 1..n : p[x] = y
        BY <1>7
      <4> QED
        BY <1>9, <1>15, <4>1, <4>2
    <3>2. CASE t \notin OnList(a)
      <4>1. \A x \in 1..n : R[x] # t
        BY <1>14, <3>2
      <4>2. li[t] = old[t]
        BY <1>4, <4>1 DEF Drawn
      <4> QED
        BY <1>3, <1>12, <3>2, <4>2
    <3> QED
      BY <3>1, <3>2
  <2>2. li = [t \in Tids |-> li[t]]
    BY <1>7
  <2>3. l2 = [t \in Tids |-> l2[t]]
    BY <1>12
  <2> QED
    BY <2>1, <2>2, <2>3
<1>17. p \in Bijection(1..n, 1..n)
  BY <1>4, OrderIs DEF Drawn
<1> QED
  BY <1>1, <1>4, <1>9, <1>10, <1>13, <1>16, <1>17
-----------------------------------------------------------------------------
(* The compaction                                                          *)

\* The compaction of a list of n cores R, of which those at K are kept, has
\* come to position i and cut the list to N.  hole says that i is a hole, into
\* which the core at N + 1 has been put.

\* The holes passed.
Passed(K, i) == {x \in 1..(i - 1) : x \notin K}

\* One position further there is one more hole at most.
LEMMA PassedNext ==
    ASSUME NEW K, NEW i \in Nat \ {0}
    PROVE  /\ i \in K => Passed(K, i + 1) = Passed(K, i)
           /\ i \notin K => Passed(K, i + 1) = Passed(K, i) \cup {i}
           /\ i \notin Passed(K, i)
           /\ \A x \in Passed(K, i) : x \in Nat /\ x < i
<1>1. 1..((i + 1) - 1) = (1..(i - 1)) \cup {i}
  OBVIOUS
<1>2. Passed(K, i + 1) = {x \in (1..(i - 1)) \cup {i} : x \notin K}
  BY <1>1 DEF Passed
<1>3. \A x \in 1..(i - 1) : x \in Nat /\ x < i
  OBVIOUS
<1>4. Passed(K, i) \subseteq 1..(i - 1)
  BY DEF Passed
<1>5. i \notin Passed(K, i) /\ \A x \in Passed(K, i) : x \in Nat /\ x < i
  BY <1>3, <1>4
<1>6. i \in K => Passed(K, i + 1) = Passed(K, i)
  BY ONLY <1>2 DEF Passed
<1>7. i \notin K => Passed(K, i + 1) = Passed(K, i) \cup {i}
  BY ONLY <1>2 DEF Passed
<1> QED
  BY <1>5, <1>6, <1>7

\* f maps every hole passed to the core that fills it, the later ones first;
\* the core in an open hole is still to be examined.
Matched(n, K, i, N, hole, f) ==
    /\ i \in Nat \ {0} /\ N \in Nat /\ i <= N + 1 /\ N <= n
    /\ hole => i \notin K /\ N < n
    /\ f \in [Passed(K, i) -> K]
    /\ \A x \in Passed(K, i) : f[x] > N /\ (hole => f[x] > N + 1)
    /\ \A x, y \in Passed(K, i) : x < y => f[x] > f[y]
    /\ \A y \in K : y > N /\ ~(hole /\ y = N + 1) => \E x \in Passed(K, i) : f[x] = y

\* A core that stays where it is changes nothing.
LEMMA MatchedStays ==
    ASSUME NEW n \in Nat, NEW K \in SUBSET (1..n), NEW i, NEW N, NEW f,
           Matched(n, K, i, N, FALSE, f), i <= N, i \in K
    PROVE  Matched(n, K, i + 1, N, FALSE, f)
<1>1. i \in Nat \ {0} /\ N \in Nat /\ N <= n
  BY DEF Matched
<1>2. Passed(K, i + 1) = Passed(K, i)
  BY <1>1, PassedNext
<1>3. i + 1 \in Nat \ {0} /\ i + 1 <= N + 1
  BY <1>1
<1> QED
  BY <1>1, <1>2, <1>3 DEF Matched

\* f with the core at y in the hole i.
With(K, f, i, y) == [x \in Passed(K, i + 1) |-> IF x = i THEN y ELSE f[x]]

\* It maps the hole i to y and the others as before.
LEMMA WithIs ==
    ASSUME NEW K, NEW i \in Nat \ {0}, i \notin K, NEW f \in [Passed(K, i) -> K], NEW y \in K
    PROVE  /\ With(K, f, i, y) \in [Passed(K, i + 1) -> K]
           /\ With(K, f, i, y)[i] = y
           /\ \A x \in Passed(K, i) : With(K, f, i, y)[x] = f[x]
<1>1. /\ Passed(K, i + 1) = Passed(K, i) \cup {i} /\ i \notin Passed(K, i)
  BY PassedNext
<1> QED
  BY <1>1 DEF With

\* A core that stays in the hole fills it.
LEMMA MatchedFills ==
    ASSUME NEW n \in Nat, NEW K \in SUBSET (1..n), NEW i, NEW N, NEW f,
           Matched(n, K, i, N, TRUE, f), i <= N, N + 1 \in K
    PROVE  Matched(n, K, i + 1, N, FALSE, With(K, f, i, N + 1))
<1>1. i \in Nat \ {0} /\ N \in Nat /\ N <= n /\ i \notin K /\ f \in [Passed(K, i) -> K]
  BY DEF Matched
<1>2. /\ Passed(K, i + 1) = Passed(K, i) \cup {i}
      /\ \A x \in Passed(K, i) : x \in Nat /\ x < i
  BY <1>1, PassedNext
<1>3. PICK g : /\ g = With(K, f, i, N + 1)
               /\ g \in [Passed(K, i + 1) -> K] /\ g[i] = N + 1
               /\ \A x \in Passed(K, i) : g[x] = f[x]
  BY <1>1, WithIs
<1>4. \A x \in Passed(K, i) : f[x] \in Nat /\ f[x] > N + 1
  <2>1. \A y \in K : y \in Nat
    OBVIOUS
  <2>2. \A x \in Passed(K, i) : f[x] \in K
    BY <1>1
  <2>3. \A x \in Passed(K, i) : f[x] > N + 1
    BY DEF Matched
  <2> QED
    BY <2>1, <2>2, <2>3
<1>5. \A x \in Passed(K, i + 1) : g[x] > N
  BY <1>1, <1>2, <1>3, <1>4
<1>6. \A x, y \in Passed(K, i + 1) : x < y => g[x] > g[y]
  <2> TAKE x \in Passed(K, i + 1), y \in Passed(K, i + 1)
  <2> HAVE x < y
  <2>1. x \in Passed(K, i)
    BY <1>1, <1>2
  <2>2. CASE y = i
    BY <1>3, <1>4, <2>1, <2>2
  <2>3. CASE y \in Passed(K, i)
    BY <1>3, <2>1, <2>3 DEF Matched
  <2> QED
    BY <1>2, <2>2, <2>3
<1>7. \A y \in K : y > N => \E x \in Passed(K, i + 1) : g[x] = y
  <2> TAKE y \in K
  <2> HAVE y > N
  <2>1. CASE y = N + 1
    BY <1>2, <1>3, <2>1
  <2>2. CASE y # N + 1
    <3>1. PICK x \in Passed(K, i) : f[x] = y
      BY <2>2 DEF Matched
    <3> QED
      BY <1>2, <1>3, <3>1
  <2> QED
    BY <2>1, <2>2
<1>8. i + 1 \in Nat \ {0} /\ i + 1 <= N + 1
  BY <1>1
<1>9. Matched(n, K, i + 1, N, FALSE, g)
  BY <1>1, <1>3, <1>5, <1>6, <1>7, <1>8 DEF Matched
<1> QED
  BY <1>3, <1>9

\* The position that the core at i comes from.
Origin(i, N, hole) == IF hole THEN N + 1 ELSE i

\* A core that is dropped leaves a hole.
LEMMA MatchedDrops ==
    ASSUME NEW n \in Nat, NEW K \in SUBSET (1..n), NEW i, NEW N, NEW hole \in BOOLEAN, NEW f,
           Matched(n, K, i, N, hole, f), i <= N, Origin(i, N, hole) \notin K
    PROVE  Matched(n, K, i, N - 1, TRUE, f)
<1>1. /\ i \in Nat \ {0} /\ N \in Nat /\ N <= n /\ f \in [Passed(K, i) -> K]
      /\ \A x \in Passed(K, i) : f[x] > N
  BY DEF Matched
<1>2. i \notin K
  BY DEF Matched, Origin
<1>3. N - 1 \in Nat /\ i <= (N - 1) + 1 /\ N - 1 <= n /\ N - 1 < n /\ (N - 1) + 1 = N
  BY <1>1
<1>4. \A x \in Passed(K, i) : f[x] > N - 1 /\ f[x] > (N - 1) + 1
  <2>1. \A x \in Passed(K, i) : f[x] \in Nat
    <3>1. \A y \in K : y \in Nat
      OBVIOUS
    <3>2. \A x \in Passed(K, i) : f[x] \in K
      BY <1>1
    <3> QED
      BY <3>1, <3>2
  <2> QED
    BY <1>1, <1>3, <2>1
<1>5. ASSUME NEW y \in K, y > N - 1, ~(y = (N - 1) + 1)
      PROVE  \E x \in Passed(K, i) : f[x] = y
  <2>1. y > N
    BY <1>1, <1>5
  <2>2. ~(hole /\ y = N + 1)
    BY DEF Origin
  <2> QED
    BY <2>1, <2>2 DEF Matched
<1> QED
  BY <1>1, <1>2, <1>3, <1>4, <1>5 DEF Matched

\* Where the cores in the list come from.
Placed(n, T, R, K, i, N, hole, f, r) ==
    /\ r \in [1..n -> T]
    /\ \A x \in 1..n : x > i /\ x <= N => r[x] = R[x]
    /\ i <= N => r[i] = R[Origin(i, N, hole)]
    /\ \A x \in 1..n : x < i => r[x] = R[IF x \in K THEN x ELSE f[x]]

\* A core that stays is where it was.
LEMMA PlacedStays ==
    ASSUME NEW n \in Nat, NEW T, NEW R, NEW K \in SUBSET (1..n), NEW i, NEW N, NEW f, NEW r,
           Matched(n, K, i, N, FALSE, f), i <= N, i \in K,
           Placed(n, T, R, K, i, N, FALSE, f, r)
    PROVE  Placed(n, T, R, K, i + 1, N, FALSE, f, r)
<1>1. i \in Nat \ {0} /\ N \in Nat /\ N <= n
  BY DEF Matched
<1>2. /\ r \in [1..n -> T]
      /\ \A x \in 1..n : x > i /\ x <= N => r[x] = R[x]
      /\ r[i] = R[i]
      /\ \A x \in 1..n : x < i => r[x] = R[IF x \in K THEN x ELSE f[x]]
  BY DEF Placed, Origin
<1>3. \A x \in 1..n : x > i + 1 /\ x <= N => r[x] = R[x]
  BY <1>1, <1>2
<1>4. i + 1 <= N => r[i + 1] = R[i + 1]
  BY <1>1, <1>2
<1>5. \A x \in 1..n : x < i + 1 => r[x] = R[IF x \in K THEN x ELSE f[x]]
  <2> TAKE x \in 1..n
  <2> HAVE x < i + 1
  <2>1. x < i \/ x = i
    BY <1>1
  <2> QED
    BY <1>2, <2>1
<1> QED
  BY <1>2, <1>3, <1>4, <1>5 DEF Placed, Origin

\* A core that fills a hole comes from beyond the end of the list.
LEMMA PlacedFills ==
    ASSUME NEW n \in Nat, NEW T, NEW R, NEW K \in SUBSET (1..n), NEW i, NEW N, NEW f, NEW r,
           Matched(n, K, i, N, TRUE, f), i <= N, N + 1 \in K,
           Placed(n, T, R, K, i, N, TRUE, f, r)
    PROVE  Placed(n, T, R, K, i + 1, N, FALSE, With(K, f, i, N + 1), r)
<1>1. i \in Nat \ {0} /\ N \in Nat /\ N <= n /\ i \notin K /\ f \in [Passed(K, i) -> K]
  BY DEF Matched
<1>2. /\ r \in [1..n -> T]
      /\ \A x \in 1..n : x > i /\ x <= N => r[x] = R[x]
      /\ r[i] = R[N + 1]
      /\ \A x \in 1..n : x < i => r[x] = R[IF x \in K THEN x ELSE f[x]]
  BY DEF Placed, Origin
<1>3. PICK g : /\ g = With(K, f, i, N + 1)
               /\ g[i] = N + 1
               /\ \A x \in Passed(K, i) : g[x] = f[x]
  BY <1>1, WithIs
<1>4. \A x \in 1..n : x > i + 1 /\ x <= N => r[x] = R[x]
  BY <1>1, <1>2
<1>5. i + 1 <= N => r[i + 1] = R[i + 1]
  BY <1>1, <1>2
<1>6. \A x \in 1..n : x < i + 1 => r[x] = R[IF x \in K THEN x ELSE g[x]]
  <2> TAKE x \in 1..n
  <2> HAVE x < i + 1
  <2>1. x < i \/ x = i
    BY <1>1
  <2>2. CASE x = i
    BY <1>1, <1>2, <1>3, <2>2
  <2>3. CASE x < i
    <3>1. x \in 1..(i - 1)
      BY <1>1, <2>3
    <3>2. x \notin K => g[x] = f[x]
      BY <1>3, <3>1 DEF Passed
    <3> QED
      BY <1>2, <2>3, <3>2
  <2> QED
    BY <2>1, <2>2, <2>3
<1>7. Placed(n, T, R, K, i + 1, N, FALSE, g, r)
  BY <1>2, <1>4, <1>5, <1>6 DEF Placed, Origin
<1> QED
  BY <1>3, <1>7

\* The core put into a hole comes from the end of the list.
LEMMA PlacedDrops ==
    ASSUME NEW n \in Nat, NEW T, NEW R, NEW K \in SUBSET (1..n), NEW i, NEW N,
           NEW hole \in BOOLEAN, NEW f, NEW r,
           Matched(n, K, i, N, hole, f), i <= N,
           Placed(n, T, R, K, i, N, hole, f, r)
    PROVE  Placed(n, T, R, K, i, N - 1, TRUE, f, [r EXCEPT ![i] = r[N]])
<1>1. i \in Nat \ {0} /\ N \in Nat /\ N <= n /\ i \in 1..n /\ N \in 1..n
  BY DEF Matched
<1>2. /\ r \in [1..n -> T]
      /\ \A x \in 1..n : x > i /\ x <= N => r[x] = R[x]
      /\ \A x \in 1..n : x < i => r[x] = R[IF x \in K THEN x ELSE f[x]]
  BY DEF Placed
<1>3. PICK q \in [1..n -> T] :
          /\ q = [r EXCEPT ![i] = r[N]] /\ q[i] = r[N]
          /\ \A x \in 1..n : x # i => q[x] = r[x]
  <2>1. r \in [1..n -> T] /\ i \in 1..n /\ N \in 1..n
    BY <1>1, <1>2
  <2>2. /\ [r EXCEPT ![i] = r[N]] \in [1..n -> T]
        /\ [r EXCEPT ![i] = r[N]][i] = r[N]
        /\ \A x \in 1..n : x # i => [r EXCEPT ![i] = r[N]][x] = r[x]
    BY ONLY <2>1
  <2> QED
    BY ONLY <2>2
<1>4. \A x \in 1..n : x > i /\ x <= N - 1 => q[x] = R[x]
  BY <1>1, <1>2, <1>3
<1>5. i <= N - 1 => q[i] = R[(N - 1) + 1]
  <2> HAVE i <= N - 1
  <2>1. N > i /\ (N - 1) + 1 = N
    BY <1>1
  <2> QED
    BY <1>1, <1>2, <1>3, <2>1
<1>6. \A x \in 1..n : x < i => q[x] = R[IF x \in K THEN x ELSE f[x]]
  <2> TAKE x \in 1..n
  <2> HAVE x < i
  <2>1. x # i
    BY <1>1
  <2> QED
    BY <1>2, <1>3, <2>1
<1>7. Placed(n, T, R, K, i, N - 1, TRUE, f, q)
  BY <1>3, <1>4, <1>5, <1>6 DEF Placed, Origin
<1> QED
  BY <1>3, <1>7

\* The positions whose cores are OFFLINE by now.
Offline(n, K, i, N, hole) ==
    {x \in 1..n : x \notin K /\ (x < i \/ x > N + 1 \/ x = (IF hole THEN i ELSE N + 1))}

\* A core that stays is not dropped.
LEMMA OfflineStays ==
    ASSUME NEW n \in Nat, NEW K, NEW i \in Nat \ {0}, NEW N \in Nat, i \in K
    PROVE  Offline(n, K, i + 1, N, FALSE) = Offline(n, K, i, N, FALSE)
<1>1. \A x \in 1..n : x # i => (x < i + 1 <=> x < i)
  OBVIOUS
<1>2. \A x \in 1..n : x \notin K => (x < i + 1 <=> x < i)
  BY <1>1
<1> QED
  BY <1>2 DEF Offline

\* Nor is one that fills a hole.
LEMMA OfflineFills ==
    ASSUME NEW n \in Nat, NEW K, NEW i \in Nat \ {0}, NEW N \in Nat, N + 1 \in K
    PROVE  Offline(n, K, i + 1, N, FALSE) = Offline(n, K, i, N, TRUE)
<1>1. \A x \in 1..n : x < i + 1 <=> x < i \/ x = i
  OBVIOUS
<1>2. \A x \in 1..n : x \notin K => x # N + 1
  OBVIOUS
<1> QED
  BY <1>1, <1>2 DEF Offline

\* Y is X and o.
OneMore(Y, X, o) == Y = X \cup {o}

\* A core that is dropped is one more.
LEMMA OfflineDrops ==
    ASSUME NEW n \in Nat, NEW K \in SUBSET (1..n), NEW i, NEW N, NEW hole \in BOOLEAN, NEW f,
           Matched(n, K, i, N, hole, f), i <= N, Origin(i, N, hole) \notin K
    PROVE  /\ OneMore(Offline(n, K, i, N - 1, TRUE), Offline(n, K, i, N, hole),
                      Origin(i, N, hole))
           /\ Origin(i, N, hole) \in 1..n
           /\ Origin(i, N, hole) \notin Offline(n, K, i, N, hole)
<1>1. /\ i \in Nat \ {0} /\ N \in Nat /\ N <= n
      /\ (hole => N < n /\ i \notin K)
  BY DEF Matched
<1>2. (N - 1) + 1 = N /\ i \in 1..n
  BY <1>1
<1>3. \A x \in 1..n : x > N <=> x > N + 1 \/ x = N + 1
  BY <1>1
<1>4. i \notin K /\ i < N + 1 /\ ~(i < i) /\ ~(i > N + 1) /\ i # N + 1
  BY <1>1 DEF Origin
<1>5. CASE hole
  <2>1. N + 1 \in 1..n /\ ~(N + 1 < i) /\ ~(N + 1 > N + 1) /\ N + 1 # i /\ N + 1 \notin K
    BY <1>1, <1>5 DEF Origin
  <2> QED
    BY <1>2, <1>3, <1>4, <1>5, <2>1 DEF Offline, Origin, OneMore
<1>6. CASE ~hole
  BY <1>2, <1>3, <1>4, <1>6 DEF Offline, Origin, OneMore
<1> QED
  BY <1>5, <1>6

\* The indices that the compaction has written, of the cores taken from the end
\* of the list: into which hole the core was put.  again says that the last
\* core was put there once more, so that the one at position i is not taken.
Entered(i, N, again, j) == j > N /\ ~(again /\ j = i)

Indexed(n, T, R, K, old, i, N, hole, again, f, li) ==
    /\ li \in [T -> Nat \ {0}]
    /\ again => hole /\ i = N + 1 /\ N + 2 <= n /\ li[R[N + 2]] = i
    /\ hole /\ ~again => li[R[N + 1]] = i
    /\ hole /\ ~again /\ i = N + 1 => \A j \in 1..n : j > N + 1 => li[R[j]] < i
    /\ \A j \in 1..n : Entered(i, N, again, j) =>
          /\ li[R[j]] \notin K
          /\ (li[R[j]] < i /\ f[li[R[j]]] <= j) \/ (li[R[j]] = i /\ hole)
          /\ \A h \in Passed(K, i) : h < li[R[j]] => f[h] > j
    /\ \A t \in T : (\A j \in 1..n : Entered(i, N, again, j) => R[j] # t) => li[t] = old[t]

\* A core that stays writes no index.
LEMMA IndexedStays ==
    ASSUME NEW n \in Nat, NEW T, NEW R \in [1..n -> T], NEW K \in SUBSET (1..n), NEW old,
           NEW i, NEW N, NEW f, NEW li,
           Matched(n, K, i, N, FALSE, f), i <= N, i \in K,
           Indexed(n, T, R, K, old, i, N, FALSE, FALSE, f, li)
    PROVE  Indexed(n, T, R, K, old, i + 1, N, FALSE, FALSE, f, li)
<1>1. i \in Nat \ {0} /\ N \in Nat /\ N <= n
  BY DEF Matched
<1>2. Passed(K, i + 1) = Passed(K, i)
  BY <1>1, PassedNext
<1>3. /\ li \in [T -> Nat \ {0}]
      /\ \A j \in 1..n : j > N =>
            /\ li[R[j]] \notin K
            /\ li[R[j]] < i /\ f[li[R[j]]] <= j
            /\ \A h \in Passed(K, i) : h < li[R[j]] => f[h] > j
      /\ \A t \in T : (\A j \in 1..n : j > N => R[j] # t) => li[t] = old[t]
  BY DEF Indexed, Entered
<1>4. \A j \in 1..n : j > N => li[R[j]] < i + 1
  <2> TAKE j \in 1..n
  <2> HAVE j > N
  <2>1. li[R[j]] \in Nat
    BY <1>3
  <2> QED
    BY <1>1, <1>3, <2>1
<1> QED
  BY <1>2, <1>3, <1>4 DEF Indexed, Entered

\* A core that fills a hole was entered there when it was put there.
LEMMA IndexedFills ==
    ASSUME NEW n \in Nat, NEW T, NEW R \in [1..n -> T], NEW K \in SUBSET (1..n), NEW old,
           NEW i, NEW N, NEW f, NEW li,
           Matched(n, K, i, N, TRUE, f), i <= N, N + 1 \in K,
           Indexed(n, T, R, K, old, i, N, TRUE, FALSE, f, li)
    PROVE  Indexed(n, T, R, K, old, i + 1, N, FALSE, FALSE, With(K, f, i, N + 1), li)
<1>1. i \in Nat \ {0} /\ N \in Nat /\ N <= n /\ i \notin K /\ f \in [Passed(K, i) -> K]
  BY DEF Matched
<1>2. Passed(K, i + 1) = Passed(K, i) \cup {i}
  BY <1>1, PassedNext
<1>3. PICK g : /\ g = With(K, f, i, N + 1)
               /\ g[i] = N + 1
               /\ \A x \in Passed(K, i) : g[x] = f[x]
  BY <1>1, WithIs
<1>4. /\ li \in [T -> Nat \ {0}]
      /\ \A j \in 1..n : j > N =>
            /\ li[R[j]] \notin K
            /\ (li[R[j]] < i /\ f[li[R[j]]] <= j) \/ li[R[j]] = i
            /\ \A h \in Passed(K, i) : h < li[R[j]] => f[h] > j
      /\ \A t \in T : (\A j \in 1..n : j > N => R[j] # t) => li[t] = old[t]
  BY DEF Indexed, Entered
<1>5. ASSUME NEW j \in 1..n, j > N
      PROVE  /\ li[R[j]] < i + 1 /\ g[li[R[j]]] <= j
             /\ \A h \in Passed(K, i + 1) : h < li[R[j]] => g[h] > j
  <2>1. PICK o \in Nat \ {0} : o = li[R[j]]
    BY <1>4
  <2>2. /\ o \notin K /\ ((o < i /\ f[o] <= j) \/ o = i)
        /\ \A h \in Passed(K, i) : h < o => f[h] > j
    BY <1>4, <1>5, <2>1
  <2>3. o < i + 1
    BY <1>1, <2>1, <2>2
  <2>4. g[o] <= j
    <3>1. CASE o = i
      BY <1>1, <1>3, <1>5, <3>1
    <3>2. CASE o < i /\ f[o] <= j
      <4>1. o \in Passed(K, i)
        BY <1>1, <2>1, <2>2, <3>2 DEF Passed
      <4> QED
        BY <1>3, <3>2, <4>1
    <3> QED
      BY <2>2, <3>1, <3>2
  <2>5. \A h \in Passed(K, i + 1) : h < o => g[h] > j
    <3> TAKE h \in Passed(K, i + 1)
    <3> HAVE h < o
    <3>1. h # i
      BY <1>1, <2>1, <2>3
    <3>2. h \in Passed(K, i)
      BY <1>2, <3>1
    <3> QED
      BY <1>3, <2>2, <3>2
  <2> QED
    BY <2>1, <2>3, <2>4, <2>5
<1>6. Indexed(n, T, R, K, old, i + 1, N, FALSE, FALSE, g, li)
  BY <1>4, <1>5 DEF Indexed, Entered
<1> QED
  BY <1>3, <1>6

\* The core at the end is put into the hole.
LEMMA IndexedDrops ==
    ASSUME NEW n \in Nat, NEW T, NEW R \in [1..n -> T], NEW K \in SUBSET (1..n), NEW old,
           \A x, y \in 1..n : R[x] = R[y] => x = y,
           NEW i, NEW N, NEW hole \in BOOLEAN, NEW f, NEW li,
           Matched(n, K, i, N, hole, f), i <= N, Origin(i, N, hole) \notin K,
           i = N => ~hole,
           Indexed(n, T, R, K, old, i, N, hole, FALSE, f, li)
    PROVE  Indexed(n, T, R, K, old, i, N - 1, TRUE, FALSE, f, [li EXCEPT ![R[N]] = i])
<1>1. /\ i \in Nat \ {0} /\ N \in Nat /\ N <= n /\ f \in [Passed(K, i) -> K]
      /\ N \in 1..n /\ (N - 1) + 1 = N
  BY DEF Matched
<1>2. i \notin K
  BY DEF Matched, Origin
<1>3. /\ li \in [T -> Nat \ {0}]
      /\ \A j \in 1..n : j > N =>
            /\ li[R[j]] \notin K
            /\ (li[R[j]] < i /\ f[li[R[j]]] <= j) \/ (li[R[j]] = i /\ hole)
            /\ \A h \in Passed(K, i) : h < li[R[j]] => f[h] > j
      /\ \A t \in T : (\A j \in 1..n : j > N => R[j] # t) => li[t] = old[t]
  BY DEF Indexed, Entered
<1>4. PICK l2 \in [T -> Nat \ {0}] :
          /\ l2 = [li EXCEPT ![R[N]] = i] /\ l2[R[N]] = i
          /\ \A t \in T : t # R[N] => l2[t] = li[t]
  <2>1. R[N] \in T /\ i \in Nat \ {0}
    BY <1>1
  <2>2. /\ [li EXCEPT ![R[N]] = i] \in [T -> Nat \ {0}]
        /\ [li EXCEPT ![R[N]] = i][R[N]] = i
        /\ \A t \in T : t # R[N] => [li EXCEPT ![R[N]] = i][t] = li[t]
    BY <1>3, <2>1
  <2> QED
    BY ONLY <2>2
<1>5. \A j \in 1..n : j > N => l2[R[j]] = li[R[j]]
  <2> TAKE j \in 1..n
  <2> HAVE j > N
  <2>1. R[j] \in T /\ R[j] # R[N]
    BY <1>1
  <2> QED
    BY <1>4, <2>1
<1>6. \A j \in 1..n : j > N - 1 <=> j > N \/ j = N
  BY <1>1
<1>7. \A h \in Passed(K, i) : f[h] > N
  BY DEF Matched
<1>8. \A j \in 1..n : j > N - 1 =>
          /\ l2[R[j]] \notin K
          /\ (l2[R[j]] < i /\ f[l2[R[j]]] <= j) \/ l2[R[j]] = i
          /\ \A h \in Passed(K, i) : h < l2[R[j]] => f[h] > j
  <2> TAKE j \in 1..n
  <2> HAVE j > N - 1
  <2>1. CASE j = N
    BY <1>2, <1>4, <1>7, <2>1
  <2>2. CASE j > N
    BY <1>3, <1>5, <2>2
  <2> QED
    BY <1>6, <2>1, <2>2
<1>9. ASSUME i = (N - 1) + 1, NEW j \in 1..n, j > (N - 1) + 1
      PROVE  l2[R[j]] < i
  <2>1. ~hole /\ j > N
    BY <1>1, <1>9
  <2> QED
    BY <1>3, <1>5, <2>1
<1>10. ASSUME NEW t \in T, \A j \in 1..n : j > N - 1 => R[j] # t
       PROVE  l2[t] = old[t]
  <2>1. R[N] # t /\ \A j \in 1..n : j > N => R[j] # t
    BY <1>1, <1>6, <1>10
  <2> QED
    BY <1>3, <1>4, <2>1
<1>11. l2[R[(N - 1) + 1]] = i
  BY <1>1, <1>4
<1>12. Indexed(n, T, R, K, old, i, N - 1, TRUE, FALSE, f, l2)
  BY <1>4, <1>8, <1>9, <1>10, <1>11 DEF Indexed, Entered
<1> QED
  BY <1>4, <1>12

\* The hole is at the end: the core in it is written into it again.
LEMMA IndexedAgain ==
    ASSUME NEW n \in Nat, NEW T, NEW R \in [1..n -> T], NEW K \in SUBSET (1..n), NEW old,
           NEW i, NEW f, NEW li,
           Matched(n, K, i, i, TRUE, f), i + 1 \notin K,
           Indexed(n, T, R, K, old, i, i, TRUE, FALSE, f, li)
    PROVE  Indexed(n, T, R, K, old, i, i - 1, TRUE, TRUE, f, [li EXCEPT ![R[i + 1]] = i])
<1>1. i \in Nat \ {0} /\ i < n /\ (i - 1) + 1 = i /\ (i - 1) + 2 = i + 1 /\ i + 1 \in 1..n
  BY DEF Matched
<1>2. /\ li \in [T -> Nat \ {0}]
      /\ li[R[i + 1]] = i
      /\ \A j \in 1..n : j > i =>
            /\ li[R[j]] \notin K
            /\ (li[R[j]] < i /\ f[li[R[j]]] <= j) \/ li[R[j]] = i
            /\ \A h \in Passed(K, i) : h < li[R[j]] => f[h] > j
      /\ \A t \in T : (\A j \in 1..n : j > i => R[j] # t) => li[t] = old[t]
  BY DEF Indexed, Entered
<1>3. [li EXCEPT ![R[i + 1]] = i] = li
  <2>1. R[i + 1] \in T
    BY <1>1
  <2> QED
    BY <1>2, <2>1
<1>4. \A j \in 1..n : Entered(i, i - 1, TRUE, j) <=> j > i
  BY <1>1 DEF Entered
<1>5. Indexed(n, T, R, K, old, i, i - 1, TRUE, TRUE, f, li)
  <2>1. i = (i - 1) + 1 /\ (i - 1) + 2 <= n
    BY <1>1
  <2>2. li[R[(i - 1) + 2]] = i
    BY <1>1, <1>2
  <2>3. \A t \in T : (\A j \in 1..n : Entered(i, i - 1, TRUE, j) => R[j] # t) => li[t] = old[t]
    BY <1>2, <1>4
  <2>4. \A j \in 1..n : Entered(i, i - 1, TRUE, j) =>
            /\ li[R[j]] \notin K
            /\ (li[R[j]] < i /\ f[li[R[j]]] <= j) \/ li[R[j]] = i
            /\ \A h \in Passed(K, i) : h < li[R[j]] => f[h] > j
    BY <1>2, <1>4
  <2>5. li \in [T -> Nat \ {0}]
    BY <1>2
  <2> QED
    BY <2>1, <2>2, <2>3, <2>4, <2>5 DEF Indexed
<1> QED
  BY <1>3, <1>5

\* When the position is beyond what is left of the list, the cores that are
\* kept fill that part, each hole by one from beyond it.
Filled(K, i, N, f) ==
    /\ i = N + 1 /\ Passed(K, i) = (1..N) \ K
    /\ f \in Bijection((1..N) \ K, K \ (1..N))
    /\ \A x, y \in (1..N) \ K : x < y => f[x] > f[y]
    /\ Cardinality(K) = N

\* It is what the compaction ends with.
LEMMA MatchedEnds ==
    ASSUME NEW n \in Nat, NEW K \in SUBSET (1..n), NEW i, NEW N, NEW hole \in BOOLEAN, NEW f,
           Matched(n, K, i, N, hole, f), i > N
    PROVE  Filled(K, i, N, f)
<1>1. /\ i \in Nat \ {0} /\ N \in Nat /\ i <= N + 1 /\ N <= n
      /\ hole => i \notin K
  BY DEF Matched
<1>2. i = N + 1 /\ i - 1 = N
  BY <1>1
<1>3. Passed(K, i) = (1..N) \ K
  BY ONLY <1>2 DEF Passed
<1> DEFINE P == (1..N) \ K
           U == K \ (1..N)
<1>4. \A y \in K : y \in Nat \ {0}
  OBVIOUS
<1>5. \A y \in K : y \in U <=> y > N
  BY <1>1, <1>4
<1>6. /\ f \in [P -> K]
      /\ \A x \in P : f[x] > N
      /\ \A x, y \in P : x < y => f[x] > f[y]
  BY <1>3 DEF Matched
<1>7. \A y \in U : \E x \in P : f[x] = y
  <2> TAKE y \in U
  <2>1. y \in K /\ y > N
    BY <1>5
  <2>2. ~(hole /\ y = N + 1)
    BY <1>1, <1>2, <2>1
  <2> QED
    BY <1>3, <2>1, <2>2 DEF Matched
<1>8. \A x \in P : f[x] \in U
  BY <1>5, <1>6
<1>9. \A x \in P : x \in Nat
  BY <1>1
<1>10. \A x, y \in P : f[x] = f[y] => x = y
  <2> TAKE x \in P, y \in P
  <2> HAVE f[x] = f[y]
  <2>1. f[x] \in Nat
    BY <1>4, <1>6
  <2>2. ~(x < y) /\ ~(y < x)
    BY <1>6, <2>1
  <2> QED
    BY <1>9, <2>2
<1>11. f \in [P -> U]
  BY <1>6, <1>8
<1>12. f \in Bijection(P, U)
  BY <1>7, <1>10, <1>11 DEF Bijection, Injection, Surjection, IsInjective
<1> DEFINE g == [x \in 1..N |-> IF x \in K THEN x ELSE f[x]]
<1>13. g \in [1..N -> K]
  BY <1>6
<1>14. \A x, y \in 1..N : g[x] = g[y] => x = y
  <2> TAKE x \in 1..N, y \in 1..N
  <2> HAVE g[x] = g[y]
  <2>1. CASE x \in K /\ y \in K
    BY <2>1
  <2>2. CASE x \notin K /\ y \notin K
    BY <1>10, <2>2
  <2>3. CASE x \in K /\ y \notin K
    BY <1>8, <2>3
  <2>4. CASE x \notin K /\ y \in K
    BY <1>8, <2>4
  <2> QED
    BY <2>1, <2>2, <2>3, <2>4
<1>15. \A y \in K : \E x \in 1..N : g[x] = y
  <2> TAKE y \in K
  <2>1. CASE y \in 1..N
    BY <2>1
  <2>2. CASE y \notin 1..N
    BY <1>7, <2>2
  <2> QED
    BY <2>1, <2>2
<1>16. \E h : h \in Bijection(1..N, K)
  <2> HIDE DEF g
  <2>1. g \in Bijection(1..N, K)
    BY <1>13, <1>14, <1>15 DEF Bijection, Injection, Surjection, IsInjective
  <2> QED
    BY <2>1
<1>17. Cardinality(K) = N
  <2>1. IsFiniteSet(1..N) /\ Cardinality(1..N) = N
    BY <1>1, FS_Interval
  <2> QED
    BY <1>16, <2>1, FS_Bijection DEF ExistsBijection
<1> QED
  BY <1>2, <1>3, <1>6, <1>12, <1>17 DEF Filled

\* ... and all that are dropped are OFFLINE.
LEMMA OfflineEnds ==
    ASSUME NEW n \in Nat, NEW K, NEW N \in Nat, NEW hole \in BOOLEAN
    PROVE  Offline(n, K, N + 1, N, hole) = (1..n) \ K
<1>1. \A x \in 1..n : x < N + 1 \/ x > N + 1 \/ x = N + 1
  OBVIOUS
<1> QED
  BY <1>1 DEF Offline

\* The hole that is open for the core at j.
LEMMA OpenHoleIs ==
    ASSUME NEW b, Cardinality(Kept(b)) \in Nat, NEW f, \A h \in Holes(b) : f[h] \in Nat,
           NEW j \in Nat, NEW o \in Holes(b) \cup {Cardinality(Kept(b)) + 1},
           o \in Holes(b) => f[o] <= j, \A h \in Holes(b) : h < o => f[h] > j
    PROVE  OpenHole(b, f, j) = o
<1> DEFINE H == Holes(b)
           S == H \cup {Cardinality(Kept(b)) + 1}
           P(i) == (i \in H => f[i] <= j) /\ \A h \in H : h < i => f[h] > j
<1>1. \A h \in H : h \in Nat /\ h <= Cardinality(Kept(b))
  BY DEF Holes
<1>2. P(o) /\ o \in S
  OBVIOUS
<1>3. ASSUME NEW u \in S, P(u)
      PROVE  u = o
  <2>1. u \in Nat /\ o \in Nat
    BY <1>1
  <2>2. CASE u < o
    <3>1. u \in H
      BY <1>1, <1>2, <2>2
    <3> QED
      BY <1>2, <1>3, <2>2, <3>1
  <2>3. CASE o < u
    <3>1. o \in H
      BY <1>1, <1>2, <2>3
    <3> QED
      BY <1>2, <1>3, <2>3, <3>1
  <2> QED
    BY <2>1, <2>2, <2>3
<1>4. OpenHole(b, f, j) = CHOOSE i \in S : P(i)
  BY DEF OpenHole
<1> HIDE DEF S, P
<1> QED
  BY <1>2, <1>3, <1>4

\* At the end the indices are those of Compacted.
LEMMA IndexedEnds ==
    ASSUME NEW a, WF(a), NEW N, NEW hole \in BOOLEAN, NEW again \in BOOLEAN, NEW f, NEW li,
           Matched(Len(a.runList), Kept(a), N + 1, N, hole, f),
           Indexed(Len(a.runList), Tids, a.runList, Kept(a), a.lastIdx, N + 1, N, hole, again,
                   f, li)
    PROVE  li = [t \in Tids |-> IF t \in OnList(a) /\ Taken(a, f, PositionOf(a, t))
                                THEN OpenHole(a, f, PositionOf(a, t))
                                ELSE a.lastIdx[t]]
<1> DEFINE n == Len(a.runList)
           K == Kept(a)
           R == a.runList
<1>1. /\ n \in Nat /\ R \in [1..n -> Tids] /\ R \in Seq(Tids) /\ IsInjective(R)
      /\ \A x, y \in 1..n : R[x] = R[y] => x = y
  BY WellFormedIs DEF IsInjective
<1>2. K \in SUBSET (1..n)
  BY DEF Kept
<1>3. N \in Nat /\ N <= n /\ (hole => N + 1 \notin K)
  BY DEF Matched
<1>4. /\ Passed(K, N + 1) = (1..N) \ K /\ Cardinality(K) = N
      /\ f \in [(1..N) \ K -> K \ (1..N)]
  <2>1. N + 1 > N /\ n \in Nat /\ Matched(n, K, N + 1, N, hole, f)
    BY <1>1, <1>3
  <2> HIDE DEF n, K
  <2>2. Filled(K, N + 1, N, f)
    BY <1>2, <2>1, MatchedEnds
  <2> QED
    BY <2>2 DEF Filled, Bijection, Injection
<1>5. Holes(a) = (1..N) \ K
  BY <1>4 DEF Holes
<1>6. \A h \in Holes(a) : f[h] \in Nat
  BY <1>2, <1>4, <1>5
<1>7. /\ li \in [Tids -> Nat \ {0}]
      /\ again => hole /\ N + 2 <= n /\ li[R[N + 2]] = N + 1
      /\ hole /\ ~again => \A j \in 1..n : j > N + 1 => li[R[j]] < N + 1
      /\ \A j \in 1..n : Entered(N + 1, N, again, j) =>
            /\ li[R[j]] \notin K
            /\ (li[R[j]] < N + 1 /\ f[li[R[j]]] <= j) \/ (li[R[j]] = N + 1 /\ hole)
            /\ \A h \in (1..N) \ K : h < li[R[j]] => f[h] > j
      /\ \A t \in Tids : (\A j \in 1..n : Entered(N + 1, N, again, j) => R[j] # t)
                         => li[t] = a.lastIdx[t]
  BY <1>4 DEF Indexed
<1>8. ASSUME NEW j \in 1..n, Entered(N + 1, N, again, j)
      PROVE  OpenHole(a, f, j) = li[R[j]]
  <2>1. PICK o \in Nat \ {0} : o = li[R[j]]
    BY <1>1, <1>7
  <2>2. /\ o \notin K
        /\ (o < N + 1 /\ f[o] <= j) \/ (o = N + 1 /\ hole)
        /\ \A h \in (1..N) \ K : h < o => f[h] > j
    BY <1>7, <1>8, <2>1
  <2>3. o \in Holes(a) \cup {Cardinality(Kept(a)) + 1}
    BY <1>3, <1>4, <1>5, <2>2
  <2>4. o \in Holes(a) => f[o] <= j
    BY <1>3, <1>5, <2>2
  <2>5. j \in Nat /\ Cardinality(Kept(a)) \in Nat
    BY <1>1, <1>3, <1>4
  <2>6. OpenHole(a, f, j) = o
    <3>1. \A h \in Holes(a) : h < o => f[h] > j
      BY <1>5, <2>2
    <3> QED
      BY ONLY <1>6, <2>3, <2>4, <2>5, <3>1, OpenHoleIs
  <2> QED
    BY <2>1, <2>6
<1>9. ASSUME NEW j \in 1..n
      PROVE  Taken(a, f, j) <=> Entered(N + 1, N, again, j)
  <2>1. Taken(a, f, j) <=> j > N /\ ~(j = N + 1 /\ j \notin K /\ j < n /\ OpenHole(a, f, j + 1) = j)
    BY <1>4 DEF Taken
  <2>2. Entered(N + 1, N, again, j) <=> j > N /\ ~(again /\ j = N + 1)
    BY DEF Entered
  <2>3. ASSUME j = N + 1
        PROVE  again <=> j \notin K /\ j < n /\ OpenHole(a, f, j + 1) = j
    <3>1. ASSUME j < n
          PROVE  OpenHole(a, f, j + 1) = li[R[N + 2]]
      <4>1. j + 1 = N + 2 /\ j + 1 \in 1..n /\ j + 1 > N /\ j + 1 # N + 1
        BY <1>1, <1>3, <2>3, <3>1
      <4>2. Entered(N + 1, N, again, j + 1)
        BY <4>1 DEF Entered
      <4> QED
        BY <1>8, <4>1, <4>2
    <3>2. CASE again
      <4>1. j < n
        BY <1>1, <1>3, <1>7, <2>3, <3>2
      <4> QED
        BY <1>3, <1>7, <2>3, <3>1, <3>2, <4>1
    <3>3. CASE ~again
      <4>1. ASSUME j < n
            PROVE  li[R[N + 2]] # N + 1
        <5>1. N + 2 \in 1..n /\ N + 2 > N + 1
          BY <1>1, <1>3, <2>3, <4>1
        <5>2. li[R[N + 2]] \in Nat /\ Entered(N + 1, N, again, N + 2)
          BY <1>1, <1>3, <1>7, <3>3, <5>1 DEF Entered
        <5>3. li[R[N + 2]] < N + 1
          BY <1>7, <3>3, <5>1, <5>2
        <5> QED
          BY <1>3, <5>2, <5>3
      <4> QED
        BY <2>3, <3>1, <3>3, <4>1
    <3> QED
      BY <3>2, <3>3
  <2> QED
    BY <2>1, <2>2, <2>3
<1>10. ASSUME NEW t \in Tids
       PROVE  li[t] = IF t \in OnList(a) /\ Taken(a, f, PositionOf(a, t))
                      THEN OpenHole(a, f, PositionOf(a, t)) ELSE a.lastIdx[t]
  <2>1. CASE t \in OnList(a)
    <3>1. PICK j \in 1..n : R[j] = t
      BY <2>1 DEF OnList
    <3>2. PositionOf(a, t) = j
      BY <1>1, <3>1, PositionIs
    <3>3. CASE Taken(a, f, j)
      BY <1>8, <1>9, <2>1, <3>1, <3>2, <3>3
    <3>4. CASE ~Taken(a, f, j)
      <4>1. \A x \in 1..n : Entered(N + 1, N, again, x) => R[x] # t
        BY <1>1, <1>9, <3>1, <3>4
      <4> QED
        BY <1>7, <3>2, <3>4, <4>1
    <3> QED
      BY <3>3, <3>4
  <2>2. CASE t \notin OnList(a)
    BY <1>7, <2>2 DEF OnList
  <2> QED
    BY <2>1, <2>2
<1> QED
  BY <1>7, <1>10

\* The states of a's cores with those at the positions X OFFLINE.
StatesAt(a, X) ==
    [t \in Tids |-> IF \E x \in X : a.runList[x] = t THEN "OFFLINE" ELSE a.state[t]]

\* The compaction that ends a phase in a may have come to b, at position i of
\* a list cut to N.
Compacts(a, b, i, N) ==
    LET n == Len(a.runList)
        K == Kept(a)
    IN  \E hole, again, f, r, li :
            /\ hole \in BOOLEAN /\ again \in BOOLEAN
            /\ Matched(n, K, i, N, hole, f)
            /\ Placed(n, Tids, a.runList, K, i, N, hole, f, r)
            /\ Indexed(n, Tids, a.runList, K, a.lastIdx, i, N, hole, again, f, li)
            /\ b = Object(StatesAt(a, Offline(n, K, i, N, hole)), a.futexWord, li, r, 0,
                          a.runningThreads, a.leftThreads, (a.phaseCount + 1) % PhaseWrap)

\* What the proofs need to know of the list that is compacted.
LEMMA ListIs ==
    ASSUME NEW a, WF(a)
    PROVE  /\ Len(a.runList) \in Nat /\ a.runList \in [1..Len(a.runList) -> Tids]
           /\ Kept(a) \in SUBSET (1..Len(a.runList))
           /\ \A x, y \in 1..Len(a.runList) : a.runList[x] = a.runList[y] => x = y
           /\ \A x \in 1..Len(a.runList) : x \in Kept(a) <=> a.state[a.runList[x]] # "LEFT"
<1>1. a.runList \in Seq(Tids) /\ IsInjective(a.runList) /\ Len(a.runList) \in Nat
  BY WellFormedIs
<1> QED
  BY <1>1 DEF IsInjective, Kept

\* The operations on an object by its fields.
Put(f, x, v) == [f EXCEPT ![x] = v]

\* Dropping a core changes three fields.
LEMMA DroppedIs ==
    ASSUME NEW st, NEW fw, NEW li, NEW r, NEW cu, NEW ru, NEW le, NEW ph, NEW i, NEW N
    PROVE  Dropped(Object(st, fw, li, r, cu, ru, le, ph), i, N)
             = Object(Put(st, r[i], "OFFLINE"), fw, Put(li, r[N], i), Put(r, i, r[N]), cu, ru,
                      le, ph)
<1>1. Dropped(Object(st, fw, li, r, cu, ru, le, ph), i, N)
        \in ObjectWith(Put(st, r[i], "OFFLINE"), fw, Put(li, r[N], i), Put(r, i, r[N]), cu, ru,
                       le, ph)
  BY DEF Dropped, Object, ObjectWith, Put
<1> QED
  BY <1>1, ObjectIs

\* A new phase changes two.
LEMMA RewoundIs ==
    ASSUME NEW b, IsObject(b)
    PROVE  Rewound(b)
             = Object(b.state, b.futexWord, b.lastIdx, b.runList, 0, b.runningThreads,
                      b.leftThreads, (b.phaseCount + 1) % PhaseWrap)
<1>1. Rewound(b)
        \in ObjectWith(b.state, b.futexWord, b.lastIdx, b.runList, 0, b.runningThreads,
                       b.leftThreads, (b.phaseCount + 1) % PhaseWrap)
  BY DEF IsObject, Object, ObjectWith, Rewound
<1> QED
  BY <1>1, ObjectIs

Cut(b, list) == [b EXCEPT !.runList = list, !.leftThreads = 0]

\* Cutting the list changes two.
LEMMA CutIs ==
    ASSUME NEW st, NEW fw, NEW li, NEW r, NEW cu, NEW ru, NEW le, NEW ph, NEW list
    PROVE  Cut(Object(st, fw, li, r, cu, ru, le, ph), list)
             = Object(st, fw, li, list, cu, ru, 0, ph)
<1>1. Cut(Object(st, fw, li, r, cu, ru, le, ph), list)
        \in ObjectWith(st, fw, li, list, cu, ru, 0, ph)
  BY DEF Object, ObjectWith, Cut
<1> QED
  BY <1>1, ObjectIs

\* At first nothing has been dropped.
LEMMA CompactionBegins ==
    ASSUME NEW a, WF(a)
    PROVE  Compacts(a, Rewound(a), 1, Len(a.runList))
<1> DEFINE n == Len(a.runList)
           K == Kept(a)
           f == [x \in Passed(K, 1) |-> x]
           ph == (a.phaseCount + 1) % PhaseWrap
<1>1. /\ n \in Nat /\ a.runList \in [1..n -> Tids] /\ K \in SUBSET (1..n)
  BY ListIs
<1>2. Passed(K, 1) = {}
  BY DEF Passed
<1>3. f \in [Passed(K, 1) -> K]
  BY <1>2
<1>4. \A y \in 1..n : ~(y > n)
  BY <1>1
<1>5. Matched(n, K, 1, n, FALSE, f)
  <2> HIDE DEF n, K, f
  <2> QED
    BY <1>1, <1>2, <1>3, <1>4 DEF Matched
<1>6. \A x \in 1..n : ~(x < 1)
  BY <1>1
<1>7. Placed(n, Tids, a.runList, K, 1, n, FALSE, f, a.runList)
  <2> HIDE DEF n, K, f
  <2> QED
    BY <1>1, <1>6 DEF Placed, Origin
<1>8. Indexed(n, Tids, a.runList, K, a.lastIdx, 1, n, FALSE, FALSE, f, a.lastIdx)
  <2>1. a.lastIdx \in [Tids -> Nat \ {0}]
    BY WellFormedIs
  <2> HIDE DEF n, K, f
  <2> QED
    BY <1>4, <2>1 DEF Indexed, Entered
<1>9. Offline(n, K, 1, n, FALSE) = {}
  BY <1>1 DEF Offline
<1>10. StatesAt(a, {}) = a.state
  BY WellFormedIs DEF StatesAt
<1>11. IsObject(a)
  BY WellFormedIs
<1>12. Rewound(a)
         = Object(StatesAt(a, Offline(n, K, 1, n, FALSE)), a.futexWord, a.lastIdx, a.runList, 0,
                  a.runningThreads, a.leftThreads, ph)
  BY <1>9, <1>10, <1>11, RewoundIs
<1> HIDE DEF f
<1> QED
  BY <1>5, <1>7, <1>8, <1>12 DEF Compacts

\* The core at the position is dropped unless it is kept.
LEMMA DroppedWhen ==
    ASSUME NEW a, WF(a), NEW i, NEW N, NEW hole \in BOOLEAN, NEW f, NEW r,
           Matched(Len(a.runList), Kept(a), i, N, hole, f), i <= N,
           Placed(Len(a.runList), Tids, a.runList, Kept(a), i, N, hole, f, r)
    PROVE  LET o == Origin(i, N, hole)
               X == Offline(Len(a.runList), Kept(a), i, N, hole)
           IN  /\ r[i] = a.runList[o] /\ o \in 1..Len(a.runList)
               /\ StatesAt(a, X)[r[i]] = "LEFT" <=> o \notin Kept(a)
<1> DEFINE n == Len(a.runList)
           K == Kept(a)
           R == a.runList
           o == Origin(i, N, hole)
           X == Offline(n, K, i, N, hole)
<1>1. /\ n \in Nat /\ R \in [1..n -> Tids] /\ K \in SUBSET (1..n)
      /\ \A x, y \in 1..n : R[x] = R[y] => x = y
      /\ \A x \in 1..n : x \in K <=> a.state[R[x]] # "LEFT"
  BY ListIs
<1>2. i \in Nat \ {0} /\ N \in Nat /\ N <= n /\ (hole => N < n /\ i \notin K)
  BY DEF Matched
<1>3. o \in 1..n
  BY <1>1, <1>2 DEF Origin
<1>4. r[i] = R[o]
  BY DEF Placed
<1>5. o \notin X
  <2>1. CASE o \in K
    BY <2>1 DEF Offline
  <2>2. CASE o \notin K
    <3>1. Matched(n, K, i, N, hole, f) /\ n \in Nat /\ K \in SUBSET (1..n) /\ o \notin K
      BY <1>1, <2>2
    <3> HIDE DEF n, K
    <3> QED
      BY <3>1, OfflineDrops
  <2> QED
    BY <2>1, <2>2
<1>6. X \subseteq 1..n
  BY DEF Offline
<1>7. StatesAt(a, X)[R[o]] = a.state[R[o]]
  <2> HIDE DEF n, X, o
  <2> QED
    BY <1>1, <1>3, <1>5, <1>6 DEF StatesAt
<1> QED
  BY <1>1, <1>3, <1>4, <1>7

\* An iteration that keeps the core goes one position further.
LEMMA CompactionKeeps ==
    ASSUME NEW a, WF(a), NEW b, NEW i, NEW N, Compacts(a, b, i, N), i <= N, ~Drops(b, i)
    PROVE  Compacts(a, b, i + 1, N)
<1> DEFINE n == Len(a.runList)
           K == Kept(a)
           R == a.runList
           ph == (a.phaseCount + 1) % PhaseWrap
<1>1. PICK hole, again, f, r, li :
          /\ hole \in BOOLEAN /\ again \in BOOLEAN
          /\ Matched(n, K, i, N, hole, f)
          /\ Placed(n, Tids, R, K, i, N, hole, f, r)
          /\ Indexed(n, Tids, R, K, a.lastIdx, i, N, hole, again, f, li)
          /\ b = Object(StatesAt(a, Offline(n, K, i, N, hole)), a.futexWord, li, r, 0,
                        a.runningThreads, a.leftThreads, ph)
  BY DEF Compacts
<1>2. /\ n \in Nat /\ R \in [1..n -> Tids] /\ K \in SUBSET (1..n)
      /\ \A x, y \in 1..n : R[x] = R[y] => x = y
  BY ListIs
<1>3. i \in Nat \ {0} /\ N \in Nat /\ N <= n /\ (hole => N < n /\ i \notin K)
  BY <1>1 DEF Matched
<1>4. ~again
  BY <1>1, <1>3 DEF Indexed
<1>5. Origin(i, N, hole) \in K
  <2>1. b.state[b.runList[i]] # "LEFT"
    BY DEF Drops
  <2>2. StatesAt(a, Offline(n, K, i, N, hole))[r[i]] # "LEFT"
    <3> HIDE DEF n, K, ph
    <3> QED
      BY <1>1, <2>1 DEF Object
  <2> QED
    BY <1>1, <2>2, DroppedWhen
<1> HIDE DEF n, K, R, ph
<1>6. CASE ~hole
  <2>1. i \in K
    BY <1>5, <1>6 DEF Origin
  <2>2. /\ Matched(n, K, i, N, FALSE, f)
        /\ Placed(n, Tids, R, K, i, N, FALSE, f, r)
        /\ Indexed(n, Tids, R, K, a.lastIdx, i, N, FALSE, FALSE, f, li)
        /\ b = Object(StatesAt(a, Offline(n, K, i, N, FALSE)), a.futexWord, li, r, 0,
                      a.runningThreads, a.leftThreads, ph)
    BY <1>1, <1>4, <1>6
  <2>3. Matched(n, K, i + 1, N, FALSE, f)
    BY <1>2, <2>1, <2>2, MatchedStays
  <2>4. Placed(n, Tids, R, K, i + 1, N, FALSE, f, r)
    BY <1>2, <2>1, <2>2, PlacedStays
  <2>5. Indexed(n, Tids, R, K, a.lastIdx, i + 1, N, FALSE, FALSE, f, li)
    BY <1>2, <2>1, <2>2, IndexedStays
  <2>6. Offline(n, K, i + 1, N, FALSE) = Offline(n, K, i, N, FALSE)
    BY <1>2, <1>3, <2>1, OfflineStays
  <2>7. b = Object(StatesAt(a, Offline(n, K, i + 1, N, FALSE)), a.futexWord, li, r, 0,
                   a.runningThreads, a.leftThreads, ph)
    BY <2>2, <2>6
  <2> QED
    BY <2>3, <2>4, <2>5, <2>7 DEF Compacts, n, K, R, ph
<1>7. CASE hole
  <2>1. N + 1 \in K
    BY <1>5, <1>7 DEF Origin
  <2>2. /\ Matched(n, K, i, N, TRUE, f)
        /\ Placed(n, Tids, R, K, i, N, TRUE, f, r)
        /\ Indexed(n, Tids, R, K, a.lastIdx, i, N, TRUE, FALSE, f, li)
        /\ b = Object(StatesAt(a, Offline(n, K, i, N, TRUE)), a.futexWord, li, r, 0,
                      a.runningThreads, a.leftThreads, ph)
    BY <1>1, <1>4, <1>7
  <2>3. Matched(n, K, i + 1, N, FALSE, With(K, f, i, N + 1))
    BY <1>2, <2>1, <2>2, MatchedFills
  <2>4. Placed(n, Tids, R, K, i + 1, N, FALSE, With(K, f, i, N + 1), r)
    BY <1>2, <2>1, <2>2, PlacedFills
  <2>5. Indexed(n, Tids, R, K, a.lastIdx, i + 1, N, FALSE, FALSE, With(K, f, i, N + 1), li)
    BY <1>2, <2>1, <2>2, IndexedFills
  <2>6. Offline(n, K, i + 1, N, FALSE) = Offline(n, K, i, N, TRUE)
    BY <1>2, <1>3, <2>1, OfflineFills
  <2>7. b = Object(StatesAt(a, Offline(n, K, i + 1, N, FALSE)), a.futexWord, li, r, 0,
                   a.runningThreads, a.leftThreads, ph)
    BY <2>2, <2>6
  <2> QED
    BY <2>3, <2>4, <2>5, <2>7 DEF Compacts, n, K, R, ph
<1> QED
  BY <1>6, <1>7

\* One core more is OFFLINE.
LEMMA StatesAtMore ==
    ASSUME NEW a, NEW X, NEW Y, NEW o, a.runList[o] \in Tids, a.state \in [Tids -> States],
           OneMore(Y, X, o)
    PROVE  Put(StatesAt(a, X), a.runList[o], "OFFLINE") = StatesAt(a, Y)
<1>1. \A t \in Tids : (\E x \in Y : a.runList[x] = t)
                      <=> (\E x \in X : a.runList[x] = t) \/ t = a.runList[o]
  BY DEF OneMore
<1> QED
  BY <1>1 DEF StatesAt, Put

\* One that drops it cuts the list.
LEMMA CompactionDrops ==
    ASSUME NEW a, WF(a), NEW b, NEW i, NEW N, Compacts(a, b, i, N), i <= N, Drops(b, i)
    PROVE  Compacts(a, Dropped(b, i, N), i, N - 1)
<1> DEFINE n == Len(a.runList)
           K == Kept(a)
           R == a.runList
           ph == (a.phaseCount + 1) % PhaseWrap
<1>1. PICK hole, again, f, r, li :
          /\ hole \in BOOLEAN /\ again \in BOOLEAN
          /\ Matched(n, K, i, N, hole, f)
          /\ Placed(n, Tids, R, K, i, N, hole, f, r)
          /\ Indexed(n, Tids, R, K, a.lastIdx, i, N, hole, again, f, li)
          /\ b = Object(StatesAt(a, Offline(n, K, i, N, hole)), a.futexWord, li, r, 0,
                        a.runningThreads, a.leftThreads, ph)
  BY DEF Compacts
<1>2. /\ n \in Nat /\ R \in [1..n -> Tids] /\ K \in SUBSET (1..n)
      /\ \A x, y \in 1..n : R[x] = R[y] => x = y
  BY ListIs
<1>3. /\ i \in Nat \ {0} /\ N \in Nat /\ N <= n /\ (hole => N < n /\ i \notin K)
      /\ N \in 1..n
  BY <1>1 DEF Matched
<1>4. ~again
  BY <1>1, <1>3 DEF Indexed
<1> DEFINE o == Origin(i, N, hole)
           X == Offline(n, K, i, N, hole)
<1>5. r[i] = R[o] /\ o \in 1..n
  <2>1. r[i] = R[o]
    BY <1>1 DEF Placed
  <2>2. o \in 1..n
    BY <1>2, <1>3 DEF Origin
  <2> QED
    BY <2>1, <2>2
<1>6. o \notin K
  <2>1. b.state[b.runList[i]] = "LEFT"
    BY DEF Drops
  <2>2. StatesAt(a, X)[r[i]] = "LEFT"
    <3> HIDE DEF n, K, ph, X
    <3> QED
      BY <1>1, <2>1 DEF Object, X
  <2> QED
    BY <1>1, <2>2, DroppedWhen
<1> HIDE DEF n, K, R, ph
<1>7. Dropped(b, i, N)
        = Object(Put(StatesAt(a, X), r[i], "OFFLINE"), a.futexWord, Put(li, r[N], i),
                 Put(r, i, r[N]), 0, a.runningThreads, a.leftThreads, ph)
  BY <1>1, DroppedIs
<1>8. Put(StatesAt(a, X), r[i], "OFFLINE") = StatesAt(a, Offline(n, K, i, N - 1, TRUE))
  <2>1. a.state \in [Tids -> States] /\ a.runList[o] \in Tids
    BY <1>2, <1>5, WellFormedIs DEF R
  <2>2. OneMore(Offline(n, K, i, N - 1, TRUE), X, o)
    BY <1>1, <1>2, <1>6, OfflineDrops
  <2>3. PICK Y : Y = Offline(n, K, i, N - 1, TRUE)
    OBVIOUS
  <2> HIDE DEF X, o
  <2>4. Put(StatesAt(a, X), a.runList[o], "OFFLINE") = StatesAt(a, Y)
    BY <2>1, <2>2, <2>3, StatesAtMore
  <2> QED
    BY <1>5, <2>3, <2>4 DEF R
<1>9. Matched(n, K, i, N - 1, TRUE, f)
  BY <1>1, <1>2, <1>6, MatchedDrops
<1>10. Placed(n, Tids, R, K, i, N - 1, TRUE, f, Put(r, i, r[N]))
  BY <1>1, <1>2, PlacedDrops DEF Put
<1>11. \E again2 \in BOOLEAN :
          Indexed(n, Tids, R, K, a.lastIdx, i, N - 1, TRUE, again2, f, Put(li, r[N], i))
  <2>1. Indexed(n, Tids, R, K, a.lastIdx, i, N, hole, FALSE, f, li)
    BY <1>1, <1>4
  <2>2. CASE i = N /\ hole
    <3>1. r[N] = R[i + 1]
      BY <1>5, <2>2 DEF Origin
    <3>2. i + 1 \notin K
      BY <1>6, <2>2 DEF Origin
    <3>3. /\ Matched(n, K, i, i, TRUE, f)
          /\ Indexed(n, Tids, R, K, a.lastIdx, i, i, TRUE, FALSE, f, li)
      BY <1>1, <2>1, <2>2
    <3>4. Indexed(n, Tids, R, K, a.lastIdx, i, i - 1, TRUE, TRUE, f, Put(li, R[i + 1], i))
      BY <1>2, <3>2, <3>3, IndexedAgain DEF Put
    <3>5. Indexed(n, Tids, R, K, a.lastIdx, i, N - 1, TRUE, TRUE, f, Put(li, r[N], i))
      BY <2>2, <3>1, <3>4
    <3> QED
      BY <3>5
  <2>3. CASE ~(i = N /\ hole)
    <3>1. r[N] = R[N]
      <4>1. CASE i = N
        BY <1>5, <2>3, <4>1 DEF Origin
      <4>2. CASE i # N
        <5>1. N > i
          BY <1>3, <4>2
        <5> QED
          BY <1>1, <1>3, <5>1 DEF Placed
      <4> QED
        BY <4>1, <4>2
    <3>2. i = N => ~hole
      BY <2>3
    <3>3. Indexed(n, Tids, R, K, a.lastIdx, i, N - 1, TRUE, FALSE, f, Put(li, R[N], i))
      BY <1>1, <1>2, <1>6, <2>1, <3>2, IndexedDrops DEF Put
    <3> QED
      BY <3>1, <3>3
  <2> QED
    BY <2>2, <2>3
<1>12. Dropped(b, i, N)
         = Object(StatesAt(a, Offline(n, K, i, N - 1, TRUE)), a.futexWord, Put(li, r[N], i),
                  Put(r, i, r[N]), 0, a.runningThreads, a.leftThreads, ph)
  BY <1>7, <1>8
<1> QED
  BY <1>9, <1>10, <1>11, <1>12 DEF Compacts, n, K, R, ph

\* The fields that BarrierOps compacts.
CompactedStates(a) ==
    [t \in Tids |-> IF a.state[t] = "LEFT" THEN "OFFLINE" ELSE a.state[t]]

CompactedIndices(a, m) ==
    [t \in Tids |-> IF t \in OnList(a) /\ Taken(a, m, PositionOf(a, t))
                    THEN OpenHole(a, m, PositionOf(a, t))
                    ELSE a.lastIdx[t]]

CompactedList(a, m) ==
    [x \in 1..Cardinality(Kept(a)) |-> IF x \in Holes(a) THEN a.runList[m[x]] ELSE a.runList[x]]

\* They are the fields of the object that the next phase begins with.
LEMMA CompactedIs ==
    ASSUME NEW a, IsObject(a), NEW m
    PROVE  Rewound(Compacted(a, m))
             = Object(CompactedStates(a), a.futexWord, CompactedIndices(a, m),
                      CompactedList(a, m), 0, a.runningThreads, 0,
                      (a.phaseCount + 1) % PhaseWrap)
<1> DEFINE c == [a EXCEPT !.runList = CompactedList(a, m), !.state = CompactedStates(a),
                          !.lastIdx = CompactedIndices(a, m), !.leftThreads = 0]
<1>1. Compacted(a, m) = c
  BY Zenon DEF Compacted, CompactedStates, CompactedIndices, CompactedList
<1>2. Rewound(c)
        \in ObjectWith(CompactedStates(a), a.futexWord, CompactedIndices(a, m),
                       CompactedList(a, m), 0, a.runningThreads, 0,
                       (a.phaseCount + 1) % PhaseWrap)
  BY DEF IsObject, Object, ObjectWith, Rewound
<1> HIDE DEF c
<1> QED
  BY <1>1, <1>2, ObjectIs

\* When nothing is left to examine, the list is cut: that is what BarrierOps
\* makes of it, and as many cores have been dropped as had left.
LEMMA CompactionEnds ==
    ASSUME NEW a, WF(a), NEW b, NEW i, NEW N, Compacts(a, b, i, N), i > N
    PROVE  /\ Len(b.runList) - N = b.leftThreads
           /\ \E m \in Fillings(a) :
                 Cut(b, SubSeq(b.runList, 1, N)) = Rewound(Compacted(a, m))
<1> DEFINE n == Len(a.runList)
           K == Kept(a)
           R == a.runList
           ph == (a.phaseCount + 1) % PhaseWrap
<1>1. PICK hole, again, f, r, li :
          /\ hole \in BOOLEAN /\ again \in BOOLEAN
          /\ Matched(n, K, i, N, hole, f)
          /\ Placed(n, Tids, R, K, i, N, hole, f, r)
          /\ Indexed(n, Tids, R, K, a.lastIdx, i, N, hole, again, f, li)
          /\ b = Object(StatesAt(a, Offline(n, K, i, N, hole)), a.futexWord, li, r, 0,
                        a.runningThreads, a.leftThreads, ph)
  BY DEF Compacts
<1>2. /\ n \in Nat /\ R \in [1..n -> Tids] /\ K \in SUBSET (1..n)
      /\ \A x, y \in 1..n : R[x] = R[y] => x = y
      /\ \A x \in 1..n : x \in K <=> a.state[R[x]] # "LEFT"
  BY ListIs
<1>3. i \in Nat \ {0} /\ N \in Nat /\ N <= n /\ i > N
  <2>1. i \in Nat \ {0} /\ N \in Nat /\ N <= n
    BY <1>1 DEF Matched
  <2> QED
    BY <2>1
<1>4. /\ i = N + 1 /\ Passed(K, i) = (1..N) \ K
      /\ f \in Bijection((1..N) \ K, K \ (1..N))
      /\ \A x, y \in (1..N) \ K : x < y => f[x] > f[y]
      /\ Cardinality(K) = N
  <2> HIDE DEF n, K, R, ph
  <2>1. Matched(n, K, i, N, hole, f) /\ i > N /\ n \in Nat /\ K \in SUBSET (1..n)
    BY <1>1, <1>2, <1>3
  <2>2. Filled(K, i, N, f)
    BY <1>1, <2>1, MatchedEnds
  <2> QED
    BY <2>2 DEF Filled
<1>5. Holes(a) = (1..N) \ K /\ TailKept(a) = K \ (1..N)
  BY <1>4 DEF Holes, TailKept
<1>6. f \in Fillings(a)
  BY <1>4, <1>5 DEF Fillings
<1>7. n - N = a.leftThreads
  BY <1>4, KeptFacts
<1>8. r \in Seq(Tids) /\ Len(r) = n
  <2>1. r \in [1..n -> Tids]
    BY <1>1 DEF Placed
  <2> HIDE DEF n
  <2> QED
    BY <1>2, <2>1
<1>9. SubSeq(r, 1, N) = CompactedList(a, f)
  <2>1. \A x \in 1..N : r[x] = R[IF x \in K THEN x ELSE f[x]]
    <3>1. \A x \in 1..n : x < i => r[x] = R[IF x \in K THEN x ELSE f[x]]
      BY <1>1 DEF Placed
    <3>2. \A x \in 1..N : x \in 1..n /\ x < i
      BY <1>2, <1>3, <1>4
    <3> QED
      BY <3>1, <3>2
  <2>2. SubSeq(r, 1, N) = [x \in 1..N |-> r[x]]
    <3> HIDE DEF n
    <3> QED
      BY <1>2, <1>3, <1>8
  <2>3. \A x \in 1..N : x \in Holes(a) <=> x \notin K
    BY <1>5
  <2>4. \A x \in 1..N : r[x] = IF x \in Holes(a) THEN R[f[x]] ELSE R[x]
    BY <2>1, <2>3
  <2> QED
    BY <1>4, <2>2, <2>4 DEF CompactedList
<1>10. StatesAt(a, Offline(n, K, i, N, hole)) = CompactedStates(a)
  <2>1. Offline(n, K, i, N, hole) = (1..n) \ K
    <3> HIDE DEF n, K
    <3> QED
      BY <1>1, <1>2, <1>3, <1>4, OfflineEnds
  <2>2. ASSUME NEW t \in Tids
        PROVE  (\E x \in (1..n) \ K : R[x] = t) <=> a.state[t] = "LEFT"
    <3>1. ASSUME a.state[t] = "LEFT"
          PROVE  \E x \in 1..n : R[x] = t
      BY <3>1 DEF WF, Listing, OnList
    <3> QED
      BY <1>2, <3>1
  <2>3. \A t \in Tids : (\E x \in Offline(n, K, i, N, hole) : a.runList[x] = t)
                         <=> a.state[t] = "LEFT"
    BY <2>1, <2>2
  <2> HIDE DEF n, K
  <2> QED
    BY <2>3 DEF StatesAt, CompactedStates
<1>11. li = CompactedIndices(a, f)
  <2>1. /\ Matched(Len(a.runList), Kept(a), N + 1, N, hole, f)
        /\ Indexed(Len(a.runList), Tids, a.runList, Kept(a), a.lastIdx, N + 1, N, hole, again,
                   f, li)
    BY <1>1, <1>4
  <2> QED
    BY <1>1, <2>1, IndexedEnds DEF CompactedIndices
<1>12. Len(b.runList) - N = b.leftThreads
  <2>1. b.runList = r /\ b.leftThreads = a.leftThreads
    <3> HIDE DEF n, K, R, ph
    <3> QED
      BY <1>1 DEF Object
  <2> QED
    BY <1>7, <1>8, <2>1
<1>13. Cut(b, SubSeq(b.runList, 1, N))
         = Object(CompactedStates(a), a.futexWord, CompactedIndices(a, f), CompactedList(a, f),
                  0, a.runningThreads, 0, ph)
  <2> HIDE DEF n, K, R, ph
  <2>1. b = Object(CompactedStates(a), a.futexWord, li, r, 0, a.runningThreads, a.leftThreads, ph)
    BY <1>1, <1>10
  <2>2. b.runList = r
    BY <2>1 DEF Object
  <2>3. Cut(b, CompactedList(a, f))
          = Object(CompactedStates(a), a.futexWord, li, CompactedList(a, f), 0,
                   a.runningThreads, 0, ph)
    BY <2>1, CutIs
  <2> QED
    BY <1>9, <1>11, <2>2, <2>3
<1>14. Cut(b, SubSeq(b.runList, 1, N)) = Rewound(Compacted(a, f))
  <2>1. IsObject(a)
    BY WellFormedIs
  <2> HIDE DEF n, K, R
  <2> QED
    BY <1>13, <2>1, CompactedIs
<1> QED
  BY <1>6, <1>12, <1>14

-----------------------------------------------------------------------------
(* The call                                                                *)

\* A well-formed object stays so when a phase begins.
LEMMA RewoundWF ==
    ASSUME NEW c, Listing(c)
    PROVE  WF(Rewound(c)) /\ Rewound(c).runList = c.runList
<1> DEFINE e == Rewound(c)
<1>1. (c.phaseCount + 1) % PhaseWrap \in 0..(PhaseWrap - 1)
  BY BarrierAssumption DEF BarrierAssumption, Listing, Barriers
<1>2. /\ e.curThreadIdx = 0 /\ e.state = c.state /\ e.futexWord = c.futexWord
      /\ e.runList = c.runList /\ e.runningThreads = c.runningThreads
      /\ e.leftThreads = c.leftThreads
      /\ e \in Barriers
  BY <1>1 DEF Listing, Barriers, Rewound
<1> HIDE DEF e
<1>3. Listing(e)
  BY <1>2 DEF Listing, WordsMatch, OnList, InState
<1>4. Len(e.runList) \in Nat
  BY <1>3 DEF Listing, Barriers
<1> QED
  BY <1>2, <1>3, <1>4 DEF WF, e

\* The object whose list is shuffled.
LEMMA StartedWF ==
    ASSUME NEW a, WF(a), NEW c \in Cleanup(a)
    PROVE  /\ WF(Rewound(c)) /\ Rewound(c).runList = c.runList
           /\ Shuffle(Rewound(c)) \subseteq NextPhase(a)
<1>1. Listing(c)
  <2>1. CASE c = a
    BY <2>1 DEF WF
  <2>2. CASE \E m \in Fillings(a) : c = Compacted(a, m)
    <3>1. PICK m \in Fillings(a) : c = Compacted(a, m)
      BY <2>2
    <3> QED
      BY <3>1, CompactionKeepsListing
  <2> QED
    BY <2>1, <2>2 DEF Cleanup
<1>2. Shuffle(Rewound(c)) \subseteq NextPhase(a)
  BY Zenon DEF NextPhase, Rewound
<1> QED
  BY <1>1, <1>2, RewoundWF

\* What each loop has done so far.
CallInv ==
    LET a == CheckRunList(input)
    IN  /\ WF(input) /\ ~callFailed
        /\ loop \in {"walk", "phase", "compact", "shuffle", "walkAgain", "done"}
        /\ loop = "walk" => Walks(input, object)
        /\ loop = "phase" => object = a
        /\ loop = "compact" =>
              PhaseEnds(a) /\ a.phaseCount % CleanupPeriod = 0 /\ Compacts(a, object, idx, newSize)
        /\ loop = "shuffle" =>
              /\ PhaseEnds(a)
              /\ \E c \in Cleanup(a) : /\ ParallelThreads < Len(c.runList)
                                       /\ Shuffles(Rewound(c), object, idx)
        /\ loop = "walkAgain" => \E d \in CheckEndPhase(a) : WF(d) /\ Walks(d, object)
        /\ loop = "done" => object \in TryWakeNext(input)

\* The loop that follows the compaction begins.
LEMMA ShuffleOrWalk ==
    ASSUME CallInv, PhaseEnds(CheckRunList(input)),
           NEW c \in Cleanup(CheckRunList(input)), NEW b, b.runList = c.runList,
           object' = Rewound(c), ThenShuffle(b), UNCHANGED input, ~callFailed'
    PROVE  CallInv'
<1> DEFINE a == CheckRunList(input)
<1>1. WF(input)
  BY DEF CallInv
<1>2. WF(a)
  BY <1>1, WalkKeepsWF
<1>3. /\ WF(Rewound(c)) /\ Rewound(c).runList = c.runList
      /\ Shuffle(Rewound(c)) \subseteq NextPhase(a)
  BY <1>2, StartedWF
<1>4. WF(input') /\ CheckRunList(input)' = a
  BY DEF CallInv
<1>5. CASE ParallelThreads < Len(c.runList)
  <2>1. loop' = "shuffle" /\ idx' = Len(c.runList)
    BY <1>5 DEF ThenShuffle
  <2>2. Len(c.runList) > 0
    BY <1>3, <1>5, WellFormedIs
  <2>3. Shuffles(Rewound(c), object', idx')
    BY <1>3, <2>1, <2>2, ShuffleBegins
  <2> QED
    BY <1>4, <1>5, <2>1, <2>3 DEF CallInv
<1>6. CASE ~(ParallelThreads < Len(c.runList))
  <2>1. loop' = "walkAgain"
    BY <1>6 DEF ThenShuffle
  <2>2. Rewound(c) \in CheckEndPhase(a)
    BY <1>3, <1>6 DEF Shuffle, CheckEndPhase
  <2>3. Walks(Rewound(c), object')
    BY <1>3, WalkBegins
  <2> QED
    BY <1>3, <1>4, <2>1, <2>2, <2>3 DEF CallInv
<1> QED
  BY <1>5, <1>6

\* It holds at the call,
LEMMA CallBegins ==
    ASSUME CallInit
    PROVE  CallInv
<1>1. WF(input) /\ object = input /\ loop = "walk" /\ callFailed = FALSE
  BY InputsAssumption DEF CallInit
<1>2. Walks(input, object)
  BY <1>1, WalkBegins
<1> QED
  BY <1>1, <1>2 DEF CallInv

\* and every iteration of every loop keeps it.
LEMMA CallGoesOn == CallInv /\ [CallNext]_callVars => CallInv'
<1> SUFFICES ASSUME CallInv, [CallNext]_callVars PROVE CallInv'
  OBVIOUS
<1> DEFINE a == CheckRunList(input)
<1>1. WF(input) /\ ~callFailed
  BY DEF CallInv
<1>2. WF(a)
  BY <1>1, WalkKeepsWF
<1>3. ASSUME Examine
      PROVE  CallInv'
  <2> DEFINE i == object.curThreadIdx + 1
             t == object.runList[i]
  <2>1. /\ object.runningThreads < ParallelThreads /\ object.curThreadIdx < Len(object.runList)
        /\ loop \in {"walk", "walkAgain"} /\ UNCHANGED <<input, loop>>
        /\ IF object.state[t] = "WAITING"
           THEN object' = Woken(Examined(object), t, i) /\ Asserts(object.futexWord[t] = 1)
           ELSE object' = Examined(object) /\ UNCHANGED callFailed
    BY <1>3 DEF Examine, MoreToWake
  <2>2. ASSUME NEW d, WF(d), Walks(d, object)
        PROVE  Walks(d, object') /\ ~callFailed'
    <3>1. IF object.state[t] = "WAITING"
          THEN object.futexWord[t] = 1 /\ Walks(d, Woken(Examined(object), t, i))
          ELSE Walks(d, Examined(object))
      BY <2>1, <2>2, WalkGoesOn
    <3> HIDE DEF i, t
    <3>2. CASE object.state[t] = "WAITING"
      BY <1>1, <2>1, <3>1, <3>2 DEF Asserts
    <3>3. CASE object.state[t] # "WAITING"
      BY <1>1, <2>1, <3>1, <3>3
    <3> QED
      BY <3>2, <3>3
  <2>3. CheckRunList(input)' = a
    BY <2>1
  <2>4. CASE loop = "walk"
    BY <1>1, <2>1, <2>2, <2>4 DEF CallInv
  <2>5. CASE loop = "walkAgain"
    <3>1. PICK d \in CheckEndPhase(a) : WF(d) /\ Walks(d, object)
      BY <2>5 DEF CallInv
    <3>2. Walks(d, object') /\ ~callFailed'
      BY <2>2, <3>1
    <3> QED
      BY <1>1, <2>1, <2>3, <2>5, <3>1, <3>2 DEF CallInv
  <2> QED
    BY <2>1, <2>4, <2>5
<1>4. ASSUME EndWalk
      PROVE  CallInv'
  <2>1. /\ ~(object.runningThreads < ParallelThreads /\ object.curThreadIdx < Len(object.runList))
        /\ loop \in {"walk", "walkAgain"} /\ UNCHANGED <<input, object, callFailed>>
        /\ loop' = IF loop = "walk" THEN "phase" ELSE "done"
    BY <1>4 DEF EndWalk, MoreToWake
  <2>2. CheckRunList(input)' = a /\ TryWakeNext(input)' = TryWakeNext(input)
    BY <2>1
  <2>3. CASE loop = "walk"
    <3>1. Walks(input, object)
      BY <2>3 DEF CallInv
    <3>2. object = a
      BY <1>1, <2>1, <3>1, WalkEnds
    <3> QED
      BY <1>1, <2>1, <2>2, <2>3, <3>2 DEF CallInv
  <2>4. CASE loop = "walkAgain"
    <3>1. PICK d \in CheckEndPhase(a) : WF(d) /\ Walks(d, object)
      BY <2>4 DEF CallInv
    <3>2. object = CheckRunList(d)
      BY <2>1, <3>1, WalkEnds
    <3>3. object \in TryWakeNext(input)
      BY <3>1, <3>2 DEF TryWakeNext
    <3> QED
      BY <1>1, <2>1, <2>2, <2>4, <3>3 DEF CallInv
  <2> QED
    BY <2>1, <2>3, <2>4
<1>5. ASSUME SamePhase
      PROVE  CallInv'
  <2>1. /\ loop = "phase" /\ loop' = "walkAgain" /\ ~PhaseEnds(object)
        /\ UNCHANGED <<input, object, callFailed>>
    BY <1>5 DEF SamePhase
  <2>2. object = a
    BY <2>1 DEF CallInv
  <2>3. object \in CheckEndPhase(a) /\ Walks(object, object)
    BY <1>2, <2>1, <2>2, WalkBegins DEF CheckEndPhase
  <2>4. CheckRunList(input)' = a
    BY <2>1
  <2> QED
    BY <1>1, <1>2, <2>1, <2>2, <2>3, <2>4 DEF CallInv
<1>6. ASSUME EndPhase
      PROVE  CallInv'
  <2>1. /\ loop = "phase" /\ PhaseEnds(object) /\ object' = Rewound(object) /\ UNCHANGED input
        /\ IF object.phaseCount % CleanupPeriod = 0
           THEN /\ loop' = "compact" /\ idx' = 1 /\ newSize' = Len(object.runList)
                /\ Asserts(Len(object.runList) > 0)
           ELSE ThenShuffle(object) /\ UNCHANGED <<newSize, callFailed>>
    BY <1>6 DEF EndPhase
  <2>2. object = a
    BY <2>1 DEF CallInv
  <2>3. CheckRunList(input)' = a
    BY <2>1
  <2>4. CASE a.phaseCount % CleanupPeriod = 0
    <3>1. Compacts(a, object', 1, Len(a.runList))
      BY <1>2, <2>1, <2>2, CompactionBegins
    <3>2. Len(a.runList) > 0
      BY <1>1, <2>1, <2>2, <2>4, TryWakeNextIsSafe DEF TryWakeNextAsserts
    <3>3. ~callFailed'
      BY <1>1, <2>1, <2>2, <2>4, <3>2 DEF Asserts
    <3> QED
      BY <1>1, <2>1, <2>2, <2>3, <2>4, <3>1, <3>3 DEF CallInv
  <2>5. CASE a.phaseCount % CleanupPeriod # 0
    <3>1. a \in Cleanup(a)
      BY <2>5 DEF Cleanup
    <3>2. ThenShuffle(a) /\ ~callFailed' /\ object' = Rewound(a) /\ PhaseEnds(a)
      BY <1>1, <2>1, <2>2, <2>5
    <3> QED
      BY <2>1, <3>1, <3>2, ShuffleOrWalk
  <2> QED
    BY <2>4, <2>5
<1>7. ASSUME Compact
      PROVE  CallInv'
  <2>1. /\ loop = "compact" /\ idx <= newSize /\ UNCHANGED <<input, loop, callFailed>>
        /\ IF Drops(object, idx)
           THEN object' = Dropped(object, idx, newSize) /\ newSize' = newSize - 1 /\ idx' = idx
           ELSE idx' = idx + 1 /\ object' = object /\ newSize' = newSize
    BY <1>7 DEF Compact
  <2>2. PhaseEnds(a) /\ a.phaseCount % CleanupPeriod = 0 /\ Compacts(a, object, idx, newSize)
    BY <2>1 DEF CallInv
  <2>3. Compacts(a, object', idx', newSize')
    <3>1. CASE Drops(object, idx)
      BY <1>2, <2>1, <2>2, <3>1, CompactionDrops
    <3>2. CASE ~Drops(object, idx)
      BY <1>2, <2>1, <2>2, <3>2, CompactionKeeps
    <3> QED
      BY <3>1, <3>2
  <2>4. CheckRunList(input)' = a
    BY <2>1
  <2> QED
    BY <1>1, <2>1, <2>2, <2>3, <2>4 DEF CallInv
<1>8. ASSUME EndCompaction
      PROVE  CallInv'
  <2>1. /\ loop = "compact" /\ idx > newSize /\ UNCHANGED input
        /\ object' = Cut(object, SubSeq(object.runList, 1, newSize))
        /\ Asserts(Len(object.runList) - newSize = object.leftThreads)
        /\ ThenShuffle(object')
    BY <1>8 DEF EndCompaction, Cut
  <2>2. PhaseEnds(a) /\ a.phaseCount % CleanupPeriod = 0 /\ Compacts(a, object, idx, newSize)
    BY <2>1 DEF CallInv
  <2>3. /\ Len(object.runList) - newSize = object.leftThreads
        /\ \E m \in Fillings(a) :
              Cut(object, SubSeq(object.runList, 1, newSize)) = Rewound(Compacted(a, m))
    BY <1>2, <2>1, <2>2, CompactionEnds
  <2>4. PICK m \in Fillings(a) : object' = Rewound(Compacted(a, m))
    BY <2>1, <2>3
  <2>5. Compacted(a, m) \in Cleanup(a)
    BY <2>2 DEF Cleanup
  <2>6. object'.runList = Compacted(a, m).runList
    BY <1>2, <2>4, <2>5, StartedWF
  <2>7. ~callFailed'
    BY <1>1, <2>1, <2>3 DEF Asserts
  <2> QED
    BY <2>1, <2>2, <2>4, <2>5, <2>6, <2>7, ShuffleOrWalk
<1>9. ASSUME Shuffling
      PROVE  CallInv'
  <2>1. /\ loop = "shuffle" /\ idx > 1 /\ UNCHANGED <<input, loop, callFailed>> /\ idx' = idx - 1
        /\ \E j \in 1..idx : object' = Swapped(object, idx, j)
    BY <1>9 DEF Shuffling, Draws
  <2>2. PICK c \in Cleanup(a) : PhaseEnds(a) /\ ParallelThreads < Len(c.runList)
                                /\ Shuffles(Rewound(c), object, idx)
    BY <2>1 DEF CallInv
  <2>3. WF(Rewound(c))
    BY <1>2, StartedWF
  <2>4. PICK j \in 1..idx : object' = Swapped(object, idx, j)
    BY <2>1
  <2>5. Shuffles(Rewound(c), object', idx')
    BY <2>1, <2>2, <2>3, <2>4, ShuffleGoesOn
  <2>6. CheckRunList(input)' = a
    BY <2>1
  <2> QED
    BY <1>1, <2>1, <2>2, <2>5, <2>6 DEF CallInv
<1>10. ASSUME EndShuffle
       PROVE  CallInv'
  <2>1. /\ loop = "shuffle" /\ idx <= 1 /\ loop' = "walkAgain" /\ UNCHANGED <<input, object, callFailed>>
    BY <1>10 DEF EndShuffle
  <2>2. PICK c \in Cleanup(a) : PhaseEnds(a) /\ ParallelThreads < Len(c.runList)
                                /\ Shuffles(Rewound(c), object, idx)
    BY <2>1 DEF CallInv
  <2>3. /\ WF(Rewound(c)) /\ Rewound(c).runList = c.runList
        /\ Shuffle(Rewound(c)) \subseteq NextPhase(a)
    BY <1>2, StartedWF
  <2>4. \E p \in Bijection(1..Len(Rewound(c).runList), 1..Len(Rewound(c).runList)) :
            object = Shuffled(Rewound(c), p)
    BY <2>1, <2>2, <2>3, ShuffleEnds
  <2>5. object \in NextPhase(a)
    BY <2>2, <2>3, <2>4 DEF Shuffle
  <2>6. WF(object) /\ object \in CheckEndPhase(a)
    BY <1>2, <2>2, <2>5, PhaseEndKeepsWF DEF CheckEndPhase
  <2>7. Walks(object, object)
    BY <2>6, WalkBegins
  <2>8. CheckRunList(input)' = a
    BY <2>1
  <2> QED
    BY <1>1, <2>1, <2>6, <2>7, <2>8 DEF CallInv
<1>11. ASSUME UNCHANGED callVars
       PROVE  CallInv'
  BY <1>11 DEF CallInv, callVars
<1> QED
  BY <1>3, <1>4, <1>5, <1>6, <1>7, <1>8, <1>9, <1>10, <1>11 DEF CallNext

\* When tryWakeNext returns, its loops have left what the closed forms of
\* BarrierOps say, and no assertion in them has failed.
THEOREM LoopsTheorem == CallSpec => []LoopsAsModelled
<1>1. CallInv => LoopsAsModelled
  BY DEF CallInv, LoopsAsModelled
<1>2. CallInit => CallInv
  BY CallBegins
<1> QED
  BY <1>1, <1>2, CallGoesOn, PTL DEF CallSpec

\* The numbers that the iterations are counted by.
LEMMA CountersAre ==
    ASSUME CallInv
    PROVE  /\ loop \in {"walk", "walkAgain"} =>
                 IsObject(object) /\ object.curThreadIdx \in Nat /\ Len(object.runList) \in Nat
           /\ loop = "compact" => idx \in Nat /\ newSize \in Nat
           /\ loop = "shuffle" => idx \in Nat
<1> DEFINE a == CheckRunList(input)
<1>1. WF(a)
  BY WalkKeepsWF DEF CallInv
<1>2. ASSUME NEW d, WF(d), Walks(d, object)
      PROVE  IsObject(object) /\ object.curThreadIdx \in Nat /\ Len(object.runList) \in Nat
  <2>1. PICK c \in d.curThreadIdx..Len(d.runList) : object = Walked(d, c)
    BY <1>2 DEF Walks
  <2>2. IsObject(object) /\ object.curThreadIdx = c /\ object.runList = d.runList
    BY <1>2, <2>1, WalkedIs DEF IsObject, Object
  <2>3. d.curThreadIdx \in Nat /\ Len(d.runList) \in Nat
    BY <1>2, WellFormedIs
  <2> QED
    BY <2>2, <2>3
<1>3. loop \in {"walk", "walkAgain"} => \E d : WF(d) /\ Walks(d, object)
  BY DEF CallInv
<1>4. loop = "compact" => Compacts(a, object, idx, newSize)
  BY DEF CallInv
<1>5. loop = "compact" => idx \in Nat /\ newSize \in Nat
  BY <1>4 DEF Compacts, Matched
<1>6. loop = "shuffle" => idx \in Nat
  <2>1. SUFFICES ASSUME loop = "shuffle" PROVE idx \in Nat
    OBVIOUS
  <2>2. PICK c \in Cleanup(a) : PhaseEnds(a) /\ Shuffles(Rewound(c), object, idx)
    BY <2>1 DEF CallInv
  <2>3. WF(Rewound(c))
    BY <1>1, <2>2, StartedWF
  <2>4. Len(Rewound(c).runList) \in Nat
    BY <2>3, WellFormedIs
  <2> QED
    BY <2>2, <2>4 DEF Shuffles, Drawn
<1> QED
  BY <1>2, <1>3, <1>5, <1>6

\* An iteration of the walk examines one position.
LEMMA ExaminedIs ==
    ASSUME NEW b, NEW t, NEW i, IsObject(b)
    PROVE  /\ Examined(b).curThreadIdx = b.curThreadIdx + 1 /\ Examined(b).runList = b.runList
           /\ Woken(Examined(b), t, i).curThreadIdx = b.curThreadIdx + 1
           /\ Woken(Examined(b), t, i).runList = b.runList
BY DEF IsObject, Object, Examined, Woken

\* tryWakeNext returns, since each iteration of a loop takes one off those
\* that are left to it.
THEOREM LoopsTerminate == CallSpec => LoopsEnd
<1>1. CallInv /\ [CallNext]_callVars => [CountsDown]_callVars
  <2> SUFFICES ASSUME CallInv, CallNext PROVE CountsDown
    BY DEF callVars
  <2>1. CASE Examine
    <3>1. /\ loop \in {"walk", "walkAgain"} /\ loop' = loop
          /\ object.curThreadIdx < Len(object.runList)
          /\ \/ object' = Examined(object)
             \/ \E t, i : object' = Woken(Examined(object), t, i)
      BY <2>1 DEF Examine, MoreToWake
    <3>2. IsObject(object) /\ object.curThreadIdx \in Nat /\ Len(object.runList) \in Nat
      BY <3>1, CountersAre
    <3>3. object'.curThreadIdx = object.curThreadIdx + 1 /\ object'.runList = object.runList
      BY <3>1, <3>2, ExaminedIs
    <3>4. Remaining = Len(object.runList) - object.curThreadIdx /\ Remaining' = Remaining - 1
      BY <3>1, <3>2, <3>3 DEF Remaining
    <3> QED
      BY <3>1, <3>2, <3>4 DEF CountsDown
  <2>2. CASE Compact
    <3>1. loop = "compact" /\ loop' = loop /\ idx <= newSize
          /\ \/ idx' = idx /\ newSize' = newSize - 1
             \/ idx' = idx + 1 /\ newSize' = newSize
      BY <2>2 DEF Compact
    <3>2. idx \in Nat /\ newSize \in Nat
      BY <3>1, CountersAre
    <3>3. Remaining = newSize - idx + 1 /\ Remaining' = newSize' - idx' + 1
      BY <3>1 DEF Remaining
    <3> QED
      BY <3>1, <3>2, <3>3 DEF CountsDown
  <2>3. CASE Shuffling
    <3>1. loop = "shuffle" /\ loop' = loop /\ idx > 1 /\ idx' = idx - 1
      BY <2>3 DEF Shuffling
    <3>2. idx \in Nat
      BY <3>1, CountersAre
    <3>3. Remaining = idx - 1 /\ Remaining' = idx' - 1
      BY <3>1 DEF Remaining
    <3> QED
      BY <3>1, <3>2, <3>3 DEF CountsDown
  <2>4. CASE EndWalk \/ SamePhase \/ EndPhase \/ EndCompaction \/ EndShuffle
    BY <2>4 DEF EndWalk, SamePhase, EndPhase, EndCompaction, EndShuffle, ThenShuffle,
                CountsDown, Follows
  <2> QED
    BY <2>1, <2>2, <2>3, <2>4 DEF CallNext
<1>2. CallInit => CallInv
  BY CallBegins
<1> QED
  BY <1>1, <1>2, CallGoesOn, PTL DEF CallSpec, LoopsEnd
=============================================================================
