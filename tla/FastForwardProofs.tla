-------------------------- MODULE FastForwardProofs --------------------------
(***************************************************************************)
(* Fast-forwarding, for any processes and setups: no toggle is heard that  *)
(* was not made, processes enter fast-forward in a callback of the event   *)
(* queue, and no assertion fails if a process that uses FFI is not told    *)
(* otherwise to fast-forward.                                              *)
(***************************************************************************)
EXTENDS FastForward, SequenceTheorems, WellFoundedInduction, TLAPS

-----------------------------------------------------------------------------
(* The inductive invariants                                                *)

AppPlaces == {"join", "sim", "barrier", "returning", "ff", "track"}

EnderPlaces == {"bound", "pause", "ticking", "callback", "ticked"}

CtlPlaces == {"init", "listen", "decide", "insert", "arrival", "arrived"}

Events == [kind : {"sync", "ffi", "dump"}, proc : Procs, due : Int]

Futexes == [word : Int, at : [{Control, Toggler} -> Places]]

Types ==
    /\ setup \in Setups
    /\ inFF \in [Procs -> BOOLEAN]
    /\ events \in Seq(Events)
    /\ app \in [Procs -> AppPlaces]
    /\ ender \in EnderPlaces
    /\ ctl \in [Procs -> CtlPlaces]
    /\ toggle \in [Procs -> Futexes]
    /\ calls \in [Procs -> Int]
    /\ heard \in [Procs -> Int]
    /\ panicked \in BOOLEAN

\* The event whose callback runs is one of the queue's, marked by its callback.
Callback ==
    IF ender = "callback"
    THEN /\ \E kind \in {"sync", "left", "ffi", "fire", "dump"}, p \in Procs, due \in Int :
               current = Event(kind, p, due)
         /\ qLock = Ender
    ELSE current = NoEvent /\ (ender = "ticking" => qLock = Ender)

\* A control thread that has queued an event has started; the callback of its
\* event runs when it arrives.
Syncs ==
    /\ \A i \in 1..Len(events) : events[i].kind = "sync" => ctl[events[i].proc] # "init"
    /\ \A p \in Procs : ctl[p] = "arrived" =>
          ender = "callback" /\ current.kind = "sync" /\ current.proc = p

\* A toggle that is made and not heard: the lock l is free, but for its
\* initial freedom, or is about to be.  The control thread is at c.
Token(l, c) ==
    (IF l.at[Toggler] = "store" THEN 1 ELSE 0) + (IF l.word = 0 /\ c # "init" THEN 1 ELSE 0)

\* Toggles are still to be made, on their way, heard, or lost.
Toggles == \A p \in Procs : heard[p] + calls[p] + Token(toggle[p], ctl[p]) <= setup.toggles[p]

\* The invariant for every setup.
Inv == Types /\ Callback /\ Syncs /\ Toggles

\* The queue is in order, and nothing in it is late.
Ordered ==
    /\ \A i, j \in 1..Len(events) : i < j => events[i].due <= events[j].due
    /\ \A i \in 1..Len(events) :
          /\ events[i].due >= 0
          /\ ender = "ticked" => events[i].due > 0

\* The callback that runs is an FFI event's of p.
Firing(p) == current.kind \in {"ffi", "fire"} /\ current.proc = p

\* Process p has an FFI event in the queue q.
HasIn(q, p) == \E i \in 1..Len(q) : q[i].kind = "ffi" /\ q[i].proc = p

\* Process p has an FFI event.
HasFFI(p) == HasIn(events, p) \/ Firing(p)

\* No process has two FFI events in the queue q.
OneEach(q) ==
    \A i, j \in 1..Len(q) :
        q[i].kind = "ffi" /\ q[j].kind = "ffi" /\ q[i].proc = q[j].proc => i = j

\* A process has an FFI event while it is out of fast-forward, and only one.
FFI ==
    /\ \A p \in Procs :
          /\ HasFFI(p) => p \in setup.ffi /\ ~inFF[p] /\ app[p] \notin {"ff", "track"}
          /\ app[p] = "track" => p \in setup.ffi /\ ~inFF[p]
          /\ app[p] = "ff" /\ p \in setup.ffi => inFF[p]
          /\ Firing(p) => ~HasIn(events, p)
    /\ OneEach(events)

\* The control thread of a process that nobody toggles does nothing.
Untoggled ==
    \A p \in Procs : setup.toggles[p] = 0 => ctl[p] = "init" /\ toggle[p].at[Control] = "idle"

\* The invariant for setups that leave FFI alone.
OrderlyInv == Inv /\ Ordered /\ FFI /\ Untoggled /\ ~panicked

\* A process that uses FFI is not toggled and has no magic ops.
FFIAlone == \A s \in Setups : \A p \in s.ffi : p \notin s.magic /\ s.toggles[p] = 0

-----------------------------------------------------------------------------
(* The queue                                                               *)

\* A set of positions has a first one.
LEMMA First ==
    ASSUME NEW n \in Nat, NEW S \in SUBSET (1..n), S # {}
    PROVE  \E i \in S : \A j \in S : i <= j
<1>1. S \in SUBSET Nat
  OBVIOUS
<1>2. PICK i \in S : \A j \in S : ~(<<j, i>> \in OpToRel(<, Nat))
  BY <1>1, NatLessThanWellFounded, WFMin
<1>3. \A j \in S : ~(j < i)
  BY <1>1, <1>2 DEF OpToRel
<1> QED
  BY <1>1, <1>3

\* The event e comes to its place at, among those that are not later.
Comes(q, q2, e, at) ==
    /\ at \in 1..(Len(q) + 1)
    /\ Len(q2) = Len(q) + 1
    /\ \A i \in 1..(Len(q) + 1) :
          q2[i] = IF i < at THEN q[i] ELSE IF i = at THEN e ELSE q[i - 1]
    /\ \A i \in 1..Len(q) : i < at => q[i].due <= e.due
    /\ at <= Len(q) => e.due < q[at].due

\* An insertion puts the event before the first that is later.
LEMMA InsertedIs ==
    ASSUME NEW q \in Seq(Events), NEW e \in Events
    PROVE  /\ Inserted(q, e) \in Seq(Events)
           /\ \E at \in 1..(Len(q) + 1) : Comes(q, Inserted(q, e), e, at)
<1> DEFINE later == {i \in 1..Len(q) : q[i].due > e.due}
           first == CHOOSE i \in later : \A j \in later : i <= j
           at == IF later = {} THEN Len(q) + 1 ELSE first
<1>1. Len(q) \in Nat /\ \A i \in 1..Len(q) : q[i] \in Events
  OBVIOUS
<1>2. later # {} => first \in later /\ \A j \in later : first <= j
  <2> HAVE later # {}
  <2>1. \E i \in later : \A j \in later : i <= j
    BY <1>1, First
  <2> QED
    BY <2>1
<1>3. /\ at \in 1..(Len(q) + 1)
      /\ \A i \in 1..Len(q) : i < at => q[i].due <= e.due
      /\ at <= Len(q) => e.due < q[at].due
  <2>1. e.due \in Int /\ \A i \in 1..Len(q) : q[i].due \in Int
    BY <1>1 DEF Events
  <2>2. CASE later = {}
    <3>1. at = Len(q) + 1
      BY <2>2
    <3>2. \A i \in 1..Len(q) : ~(q[i].due > e.due)
      BY <2>2
    <3> QED
      BY <1>1, <2>1, <3>1, <3>2
  <2>3. CASE later # {}
    <3>1. at = first
      BY <2>3
    <3>2. at \in later /\ \A j \in later : at <= j
      BY <1>2, <2>3, <3>1
    <3> HIDE DEF at, first
    <3>3. \A i \in 1..Len(q) : i < at => ~(q[i].due > e.due)
      BY <1>1, <3>2
    <3> QED
      BY <1>1, <2>1, <3>2, <3>3
  <2> QED
    BY <2>2, <2>3
<1>4. Inserted(q, e) = SubSeq(q, 1, at - 1) \o <<e>> \o SubSeq(q, at, Len(q))
  BY DEF Inserted, InsertAt
<1> HIDE DEF at
<1>5. /\ SubSeq(q, 1, at - 1) \in Seq(Events)
      /\ Len(SubSeq(q, 1, at - 1)) = at - 1
      /\ \A i \in 1..(at - 1) : SubSeq(q, 1, at - 1)[i] = q[i]
  BY <1>1, <1>3
<1>6. /\ SubSeq(q, at, Len(q)) \in Seq(Events)
      /\ Len(SubSeq(q, at, Len(q))) = Len(q) + 1 - at
      /\ \A i \in 1..(Len(q) + 1 - at) : SubSeq(q, at, Len(q))[i] = q[at + i - 1]
  BY <1>1, <1>3
<1> DEFINE a == SubSeq(q, 1, at - 1)
           b == SubSeq(q, at, Len(q))
<1> HIDE DEF a, b
<1>7. /\ a \o <<e>> \in Seq(Events) /\ Len(a \o <<e>>) = at
      /\ \A i \in 1..at : (a \o <<e>>)[i] = IF i < at THEN q[i] ELSE e
  <2>1. a \in Seq(Events) /\ Len(a) = at - 1 /\ \A i \in 1..(at - 1) : a[i] = q[i]
    BY <1>5 DEF a
  <2>2. <<e>> \in Seq(Events) /\ Len(<<e>>) = 1 /\ <<e>>[1] = e
    OBVIOUS
  <2>3. a \o <<e>> \in Seq(Events) /\ Len(a \o <<e>>) = at
    BY <1>3, <2>1, <2>2
  <2>4. \A i \in 1..at : (a \o <<e>>)[i] = IF i <= at - 1 THEN a[i] ELSE <<e>>[i - (at - 1)]
    BY <1>3, <2>1, <2>2
  <2> QED
    BY <1>1, <1>3, <2>1, <2>2, <2>3, <2>4
<1> DEFINE c == a \o <<e>>
<1> HIDE DEF c
<1>8. /\ c \o b \in Seq(Events) /\ Len(c \o b) = Len(q) + 1
      /\ \A i \in 1..(Len(q) + 1) :
            (c \o b)[i] = IF i < at THEN q[i] ELSE IF i = at THEN e ELSE q[i - 1]
  <2>1. c \in Seq(Events) /\ Len(c) = at /\ b \in Seq(Events) /\ Len(b) = Len(q) + 1 - at
    BY <1>6, <1>7 DEF b, c
  <2>2. \A i \in 1..at : c[i] = IF i < at THEN q[i] ELSE e
    BY <1>7 DEF c
  <2>3. \A i \in 1..(Len(q) + 1 - at) : b[i] = q[at + i - 1]
    BY <1>6 DEF b
  <2>4. c \o b \in Seq(Events) /\ Len(c \o b) = Len(q) + 1
    BY <1>1, <1>3, <2>1
  <2> DEFINE d == c \o b
  <2>5. \A i \in 1..(Len(q) + 1) : d[i] = IF i <= at THEN c[i] ELSE b[i - at]
    BY <1>1, <1>3, <2>1
  <2> HIDE DEF d
  <2> SUFFICES ASSUME NEW i \in 1..(Len(q) + 1)
               PROVE  d[i] = IF i < at THEN q[i] ELSE IF i = at THEN e ELSE q[i - 1]
    BY <2>4 DEF d
  <2>6. i \in Nat /\ at \in Nat /\ Len(q) \in Nat /\ at >= 1 /\ i >= 1 /\ i <= Len(q) + 1
    BY <1>1, <1>3
  <2>7. CASE i <= at
    BY <2>2, <2>5, <2>6, <2>7
  <2>8. CASE i > at
    <3>1. i - at \in 1..(Len(q) + 1 - at) /\ at + (i - at) - 1 = i - 1
      BY <2>6, <2>8
    <3> QED
      BY <2>3, <2>5, <2>6, <2>8, <3>1
  <2> QED
    BY <2>6, <2>7, <2>8
<1>9. Inserted(q, e) = c \o b
  BY <1>4 DEF a, b, c
<1> QED
  BY <1>3, <1>8, <1>9 DEF Comes

\* What is in the queue after an insertion was in it before, or is the event.
LEMMA InsertedHas ==
    ASSUME NEW q \in Seq(Events), NEW e \in Events
    PROVE  LET q2 == Inserted(q, e)
           IN  /\ \A i \in 1..Len(q2) : q2[i] = e \/ \E j \in 1..Len(q) : q2[i] = q[j]
               /\ \A j \in 1..Len(q) : \E i \in 1..Len(q2) : q2[i] = q[j]
               /\ \E i \in 1..Len(q2) : q2[i] = e
<1> DEFINE q2 == Inserted(q, e)
<1>1. Len(q) \in Nat
  OBVIOUS
<1>2. PICK at \in 1..(Len(q) + 1) : Comes(q, q2, e, at)
  BY InsertedIs
<1> HIDE DEF q2
<1>3. \A i \in 1..Len(q2) : q2[i] = e \/ \E j \in 1..Len(q) : q2[i] = q[j]
  <2> SUFFICES ASSUME NEW i \in 1..Len(q2), i # at
               PROVE  \E j \in 1..Len(q) : q2[i] = q[j]
    BY <1>1, <1>2 DEF Comes
  <2>1. CASE i < at
    BY <1>1, <1>2, <2>1 DEF Comes
  <2>2. CASE i > at
    <3>1. i - 1 \in 1..Len(q) /\ q2[i] = q[i - 1]
      BY <1>1, <1>2, <2>2 DEF Comes
    <3> QED
      BY <3>1
  <2> QED
    BY <1>2, <2>1, <2>2 DEF Comes
<1>4. \A j \in 1..Len(q) : \E i \in 1..Len(q2) : q2[i] = q[j]
  <2> TAKE j \in 1..Len(q)
  <2>1. CASE j < at
    <3>1. j \in 1..Len(q2) /\ q2[j] = q[j]
      BY <1>1, <1>2, <2>1 DEF Comes
    <3> QED
      BY <3>1
  <2>2. CASE j >= at
    <3>1. j + 1 \in 1..Len(q2) /\ q2[j + 1] = q[j]
      BY <1>1, <1>2, <2>2 DEF Comes
    <3> QED
      BY <3>1
  <2> QED
    BY <1>1, <1>2, <2>1, <2>2
<1>5. at \in 1..Len(q2) /\ q2[at] = e
  BY <1>1, <1>2 DEF Comes
<1> QED
  BY <1>3, <1>4, <1>5 DEF q2

\* The queue q is in order.
Sorted(q) == \A i, j \in 1..Len(q) : i < j => q[i].due <= q[j].due

\* An insertion keeps the order.
LEMMA InsertedSorted ==
    ASSUME NEW q \in Seq(Events), NEW e \in Events, Sorted(q)
    PROVE  Sorted(Inserted(q, e))
<1> DEFINE q2 == Inserted(q, e)
<1>1. Len(q) \in Nat /\ \A i \in 1..Len(q) : q[i] \in Events
  OBVIOUS
<1>2. PICK at \in 1..(Len(q) + 1) : Comes(q, q2, e, at)
  BY InsertedIs
<1> HIDE DEF q2
<1>3. \A i \in 1..Len(q) : /\ q[i].due \in Int
                           /\ i < at => q[i].due <= e.due
                           /\ i >= at => e.due <= q[i].due
  <2> TAKE i \in 1..Len(q)
  <2>1. q[i].due \in Int /\ e.due \in Int
    BY <1>1 DEF Events
  <2>2. i < at => q[i].due <= e.due
    BY <1>2 DEF Comes
  <2>3. ASSUME i >= at PROVE e.due <= q[i].due
    <3>1. at \in 1..Len(q) /\ e.due < q[at].due /\ q[at].due \in Int
      BY <1>1, <1>2, <2>3 DEF Comes, Events
    <3>2. i = at \/ q[at].due <= q[i].due
      BY <1>1, <2>3, <3>1 DEF Sorted
    <3> QED
      BY <2>1, <3>1, <3>2
  <2> QED
    BY <2>1, <2>2, <2>3
<1> SUFFICES ASSUME NEW i \in 1..Len(q2), NEW j \in 1..Len(q2), i < j
             PROVE  q2[i].due <= q2[j].due
  BY DEF Sorted, q2
<1>4. Len(q2) = Len(q) + 1 /\ e.due \in Int
  BY <1>2 DEF Comes, Events
<1>5. CASE j < at
  <2>1. q2[i] = q[i] /\ q2[j] = q[j] /\ i \in 1..Len(q) /\ j \in 1..Len(q)
    BY <1>1, <1>2, <1>4, <1>5 DEF Comes
  <2> QED
    BY <2>1 DEF Sorted
<1>6. CASE j = at
  <2>1. q2[i] = q[i] /\ q2[j] = e /\ i \in 1..Len(q)
    BY <1>1, <1>2, <1>4, <1>6 DEF Comes
  <2> QED
    BY <1>3, <1>6, <2>1
<1>7. CASE j > at
  <2>1. q2[j] = q[j - 1] /\ j - 1 \in 1..Len(q) /\ j - 1 >= at
    BY <1>1, <1>2, <1>4, <1>7 DEF Comes
  <2>2. CASE i < at
    <3>1. q2[i] = q[i] /\ i \in 1..Len(q) /\ i < j - 1
      BY <1>1, <1>2, <1>4, <1>7, <2>2 DEF Comes
    <3> QED
      BY <2>1, <3>1 DEF Sorted
  <2>3. CASE i = at
    <3>1. q2[i] = e
      BY <1>1, <1>2, <1>4, <2>3 DEF Comes
    <3> QED
      BY <1>3, <2>1, <3>1
  <2>4. CASE i > at
    <3>1. q2[i] = q[i - 1] /\ i - 1 \in 1..Len(q) /\ i - 1 < j - 1
      BY <1>1, <1>2, <1>4, <2>4 DEF Comes
    <3> QED
      BY <2>1, <3>1 DEF Sorted
  <2> QED
    BY <1>2, <2>2, <2>3, <2>4
<1> QED
  BY <1>2, <1>4, <1>5, <1>6, <1>7

\* The queue without its first event.
LEMMA TailIs ==
    ASSUME NEW q \in Seq(Events), q # <<>>
    PROVE  /\ Len(q) \in Nat \ {0} /\ Head(q) = q[1] /\ Head(q) \in Events
           /\ Tail(q) \in Seq(Events) /\ Len(Tail(q)) = Len(q) - 1
           /\ \A i \in 1..(Len(q) - 1) : Tail(q)[i] = q[i + 1] /\ i + 1 \in 1..Len(q)
OBVIOUS

-----------------------------------------------------------------------------
(* The toggle locks                                                        *)

\* A thread moves to another place.
LEMMA PutIs ==
    ASSUME NEW l \in Futexes, NEW t \in {Control, Toggler}, NEW x \in Places
    PROVE  /\ Put(l, t, x) \in Futexes
           /\ Put(l, t, x).word = l.word
           /\ Put(l, t, x).at = [l.at EXCEPT ![t] = x]
BY DEF Put, Futexes

\* A thread moves to another place and sets the word.
LEMMA PutWordIs ==
    ASSUME NEW l \in Futexes, NEW t \in {Control, Toggler}, NEW x \in Places, NEW w \in Int
    PROVE  /\ PutWord(l, t, x, w) \in Futexes
           /\ PutWord(l, t, x, w).word = w
           /\ PutWord(l, t, x, w).at = [l.at EXCEPT ![t] = x]
BY DEF PutWord, Futexes

\* The place of a thread, and of the other, after such a step.
LEMMA PlacesAre ==
    ASSUME NEW l \in Futexes, NEW t \in {Control, Toggler}, NEW x
    PROVE  /\ [l.at EXCEPT ![t] = x][t] = x
           /\ \A u \in {Control, Toggler} \ {t} : [l.at EXCEPT ![t] = x][u] = l.at[u]
           /\ Control # Toggler /\ l.word \in Int
           /\ \A u \in {Control, Toggler} : l.at[u] \in Places
BY DEF Futexes, Control, Toggler

\* A toggle's decrement makes one token at most.
LEMMA DecrementIs ==
    ASSUME NEW l \in Futexes, NEW c, l.at[Toggler] = "idle"
    PROVE  /\ Decrement(l, Toggler) \in Futexes
           /\ Decrement(l, Toggler).at[Control] = l.at[Control]
           /\ Token(Decrement(l, Toggler), c) <= Token(l, c) + 1
<1> DEFINE x == IF l.word = 1 THEN "idle" ELSE "store"
           m == Decrement(l, Toggler)
<1>1. l.word \in Int /\ l.word - 1 \in Int /\ x \in Places
  BY PlacesAre DEF Places
<1>2. m = PutWord(l, Toggler, x, l.word - 1)
  BY DEF Decrement
<1>3. m \in Futexes /\ m.word = l.word - 1 /\ m.at = [l.at EXCEPT ![Toggler] = x]
  BY <1>1, <1>2, PutWordIs
<1>4. m.at[Toggler] = x /\ m.at[Control] = l.at[Control]
  BY <1>3, PlacesAre
<1>5. Token(m, c) <= Token(l, c) + 1
  BY <1>1, <1>3, <1>4 DEF Token
<1> QED
  BY <1>3, <1>4, <1>5

\* The store turns a token into the lock's freedom.
LEMMA StoreIs ==
    ASSUME NEW l \in Futexes, NEW c, l.at[Toggler] = "store"
    PROVE  /\ Store(l, Toggler) \in Futexes
           /\ Store(l, Toggler).at[Control] = l.at[Control]
           /\ Token(Store(l, Toggler), c) <= Token(l, c)
<1> DEFINE m == Store(l, Toggler)
<1>0. "wake" \in Places /\ 0 \in Int
  BY DEF Places
<1>1. m = PutWord(l, Toggler, "wake", 0)
  BY DEF Store
<1> HIDE DEF m
<1>2. m \in Futexes /\ m.word = 0 /\ m.at = [l.at EXCEPT ![Toggler] = "wake"]
  BY <1>0, <1>1, PutWordIs
<1>3. m.at[Toggler] = "wake" /\ m.at[Control] = l.at[Control]
  BY <1>2, PlacesAre
<1>4. Token(m, c) <= Token(l, c)
  BY <1>2, <1>3 DEF Token
<1> QED
  BY <1>2, <1>3, <1>4 DEF m

\* The wakeup moves no word, and only a thread that sleeps.
LEMMA WakingsAre ==
    ASSUME NEW l \in Futexes, NEW c, l.at[Toggler] = "wake", NEW m \in Wakings(l, Toggler)
    PROVE  /\ m \in Futexes
           /\ m.at[Control] = l.at[Control] \/ l.at[Control] = "asleep"
           /\ Token(m, c) <= Token(l, c)
<1> DEFINE done == Put(l, Toggler, "idle")
           asleep == {s \in DOMAIN l.at : l.at[s] = "asleep"}
<1>1. done \in Futexes /\ done.word = l.word /\ done.at = [l.at EXCEPT ![Toggler] = "idle"]
  BY PutIs DEF Places
<1>2. done.at[Toggler] = "idle" /\ done.at[Control] = l.at[Control] /\ Control # Toggler
  BY <1>1, PlacesAre
<1>3. asleep \subseteq {Control}
  BY DEF Futexes
<1>4. CASE asleep = {}
  <2>1. m = done
    BY <1>4 DEF Wakings
  <2> QED
    BY <1>1, <1>2, <2>1 DEF Token
<1>5. CASE asleep # {}
  <2>1. PICK s \in asleep : m = WakeUp(done, s)
    BY <1>5 DEF Wakings
  <2>2. s = Control /\ l.at[Control] = "asleep"
    BY <1>3, <2>1
  <2>3. m = Put(done, Control, "again")
    BY <2>1, <2>2 DEF WakeUp
  <2> HIDE DEF done
  <2>4. m \in Futexes /\ m.word = l.word /\ m.at = [done.at EXCEPT ![Control] = "again"]
    BY <1>1, <2>3, PutIs DEF Places
  <2>5. m.at[Toggler] = "idle"
    BY <1>1, <1>2, <2>4, PlacesAre
  <2> QED
    BY <2>2, <2>4, <2>5 DEF Token
<1> QED
  BY <1>4, <1>5

\* What the control thread's lock does next; timed says with a timeout.
Tried(l, timed) ==
    CASE l.at[Control] = "try" -> TryLock(l, Control)
      [] l.at[Control] = "swap" -> Swap(l, Control)
      [] l.at[Control] = "wait" -> Wait(l, Control)
      [] l.at[Control] = "asleep" -> WakeUp(l, Control)
      [] l.at[Control] = "again" -> SwapAgain(l, Control, timed)

\* The control thread takes the lock when it is free, and then it is not.
LEMMA TriedIs ==
    ASSUME NEW l \in Futexes, NEW timed,
           l.at[Control] \in {"try", "swap", "wait", "asleep", "again"}
    PROVE  LET m == Tried(l, timed)
           IN  /\ m \in Futexes
               /\ m.at[Toggler] = l.at[Toggler]
               /\ m.at[Control] = "held" => l.word = 0 /\ m.word # 0
               /\ m.word = 0 => l.word = 0
<1> DEFINE m == Tried(l, timed)
<1>1. l.word \in Int /\ Control # Toggler
  BY PlacesAre
<1>2. PICK x \in Places, w \in Int :
        /\ m = PutWord(l, Control, x, w) \/ (m = Put(l, Control, x) /\ w = l.word)
        /\ x = "held" => l.word = 0 /\ w # 0
        /\ w = 0 => l.word = 0
  <2>1. CASE l.at[Control] = "try"
    <3>1. m = IF l.word = 0 THEN PutWord(l, Control, "held", 1) ELSE Put(l, Control, "swap")
      BY <2>1 DEF Tried, TryLock
    <3> QED
      BY <1>1, <3>1 DEF Places
  <2>2. CASE l.at[Control] = "swap"
    <3>1. m = PutWord(l, Control, IF l.word = 0 THEN "held" ELSE "wait", 2)
      BY <2>2 DEF Tried, Swap
    <3> QED
      BY <1>1, <3>1 DEF Places
  <2>3. CASE l.at[Control] = "wait"
    <3>1. m = Put(l, Control, IF l.word = 2 THEN "asleep" ELSE "again")
      BY <2>3 DEF Tried, Wait
    <3> QED
      BY <1>1, <3>1 DEF Places
  <2>4. CASE l.at[Control] = "asleep"
    <3>1. m = Put(l, Control, "again")
      BY <2>4 DEF Tried, WakeUp
    <3> QED
      BY <1>1, <3>1 DEF Places
  <2>5. CASE l.at[Control] = "again"
    <3>1. m = PutWord(l, Control, IF l.word = 0 THEN "held" ELSE IF timed THEN "failed" ELSE "try", 2)
      BY <2>5 DEF Tried, SwapAgain
    <3> QED
      BY <1>1, <3>1 DEF Places
  <2> QED
    BY <2>1, <2>2, <2>3, <2>4, <2>5
<1> HIDE DEF m
<1>3. m \in Futexes /\ m.word = w /\ m.at = [l.at EXCEPT ![Control] = x]
  BY <1>2, PutIs, PutWordIs
<1>4. m.at[Toggler] = l.at[Toggler] /\ m.at[Control] = x
  BY <1>1, <1>3, PlacesAre
<1> QED
  BY <1>2, <1>3, <1>4 DEF m

-----------------------------------------------------------------------------
(* The invariant for every setup                                           *)

\* It holds at the start.
LEMMA InitHolds == Init => Inv
<1> SUFFICES ASSUME Init
             PROVE  Inv
  OBVIOUS
<1>1. setup.toggles \in [Procs -> Nat]
  BY SetupAssumption DEF Init
<1>2. FreeFutex({Control, Toggler}) = [word |-> 0, at |-> [u \in {Control, Toggler} |-> "idle"]]
  BY DEF FreeFutex
<1>3. FreeFutex({Control, Toggler}) \in Futexes
  BY <1>2 DEF Futexes, Places
<1>4. Types
  <2>1. calls \in [Procs -> Int] /\ heard \in [Procs -> Int]
    BY <1>1 DEF Init
  <2>2. toggle \in [Procs -> Futexes]
    BY <1>3 DEF Init
  <2>3. app \in [Procs -> AppPlaces] /\ ctl \in [Procs -> CtlPlaces] /\ inFF \in [Procs -> BOOLEAN]
    BY DEF Init, AppPlaces, CtlPlaces
  <2>4. setup \in Setups /\ events \in Seq(Events) /\ ender \in EnderPlaces /\ panicked \in BOOLEAN
    <3>1. setup \in Setups /\ ender = "bound" /\ panicked = FALSE /\ events = <<>>
      BY DEF Init
    <3>2. events \in Seq(Events)
      BY <3>1
    <3> QED
      BY <3>1, <3>2 DEF EnderPlaces
  <2> QED
    BY <2>1, <2>2, <2>3, <2>4 DEF Types
<1>5. Callback
  BY DEF Init, Callback
<1>6. Syncs
  BY DEF Init, Syncs
<1>7. \A p \in Procs : Token(toggle[p], ctl[p]) = 0
  BY <1>2 DEF Init, Token
<1>8. Toggles
  <2>1. \A p \in Procs : heard[p] = 0 /\ calls[p] = setup.toggles[p] /\ setup.toggles[p] \in Nat
    BY <1>1 DEF Init
  <2> QED
    BY <1>7, <2>1 DEF Toggles
<1> QED
  BY <1>4, <1>5, <1>6, <1>8 DEF Inv

\* The events that may come into the queue are events.
LEMMA EventIs ==
    ASSUME NEW kind \in {"sync", "ffi", "dump"}, NEW p \in Procs, NEW due \in Int
    PROVE  /\ Event(kind, p, due) \in Events
           /\ Event(kind, p, due).kind = kind /\ Event(kind, p, due).proc = p
           /\ Event(kind, p, due).due = due
BY DEF Event, Events

\* All events are a phase nearer.
LEMMA NearerIs ==
    ASSUME NEW q \in Seq(Events)
    PROVE  LET q2 == [i \in 1..Len(q) |-> [q[i] EXCEPT !.due = @ - 1]]
           IN  /\ q2 \in Seq(Events) /\ Len(q2) = Len(q)
               /\ \A i \in 1..Len(q) : /\ q2[i].kind = q[i].kind /\ q2[i].proc = q[i].proc
                                       /\ q2[i].due = q[i].due - 1
<1> DEFINE q2 == [i \in 1..Len(q) |-> [q[i] EXCEPT !.due = @ - 1]]
<1>1. Len(q) \in Nat /\ \A i \in 1..Len(q) : q[i] \in Events
  OBVIOUS
<1>2. \A i \in 1..Len(q) : /\ q2[i] \in Events
                           /\ q2[i].kind = q[i].kind /\ q2[i].proc = q[i].proc
                           /\ q2[i].due = q[i].due - 1
  BY <1>1 DEF Events
<1>3. q2 \in Seq(Events) /\ Len(q2) = Len(q)
  BY <1>1, <1>2, IsASeq
<1> QED
  BY <1>2, <1>3

\* What is in the queue.
LEMMA QueueIs ==
    ASSUME Types
    PROVE  /\ Len(events) \in Nat
           /\ \A i \in 1..Len(events) : /\ events[i] \in Events /\ events[i].proc \in Procs
                                       /\ events[i].due \in Int
<1>1. Len(events) \in Nat /\ \A i \in 1..Len(events) : events[i] \in Events
  BY DEF Types
<1> QED
  BY <1>1 DEF Events

\* The event that a callback's thread works on.
LEMMA CurrentIs ==
    ASSUME Callback, ender = "callback"
    PROVE  /\ \E kind \in {"sync", "left", "ffi", "fire", "dump"}, p \in Procs, due \in Int :
                  current = Event(kind, p, due)
           /\ current.kind \in {"sync", "left", "ffi", "fire", "dump"}
           /\ current.proc \in Procs
           /\ qLock = Ender
BY DEF Callback, Event

\* What the insertions put into the queue.
LEMMA InsertIs ==
    ASSUME Types, NEW e \in Events, Insert(e)
    PROVE  /\ events' \in Seq(Events)
           /\ \A i \in 1..Len(events') : events'[i] = e \/ \E j \in 1..Len(events) : events'[i] = events[j]
           /\ qLock = Free /\ InTime
BY InsertedIs, InsertedHas DEF Insert, Types

\* Each step keeps the types.
LEMMA TypesKept == Inv /\ [Next]_vars => Types'
<1> SUFFICES ASSUME Inv, [Next]_vars
             PROVE  Types'
  OBVIOUS
<1> USE DEF AppPlaces, EnderPlaces, CtlPlaces
<1>0. Types /\ Callback
  BY DEF Inv
<1>1. ASSUME NEW p \in Procs, ToggleBegin(p) PROVE Types'
  <2>1. Decrement(toggle[p], Toggler) \in Futexes
    BY <1>0, <1>1, DecrementIs DEF Types, ToggleBegin
  <2> QED
    BY <1>0, <1>1, <2>1 DEF Types, ToggleBegin
<1>2. ASSUME NEW p \in Procs, ToggleEnd(p) PROVE Types'
  <2>1. PICK l \in Futexes : toggle' = [toggle EXCEPT ![p] = l]
    BY <1>0, <1>2, StoreIs, WakingsAre DEF Types, ToggleEnd
  <2> QED
    BY <1>0, <1>2, <2>1 DEF Types, ToggleEnd
<1>3. ASSUME NEW p \in Procs, ControlRequest(p) PROVE Types'
  <2>1. Put(toggle[p], Control, "try") \in Futexes
    BY <1>0, PutIs DEF Types, Places
  <2> QED
    BY <1>0, <1>3, <2>1 DEF Types, ControlRequest
<1>4. ASSUME NEW p \in Procs, ControlTries(p) PROVE Types'
  <2>1. /\ toggle' = [toggle EXCEPT ![p] = Tried(toggle[p], ctl[p] = "listen")]
        /\ toggle[p].at[Control] \in {"try", "swap", "wait", "asleep", "again"}
    BY <1>4 DEF ControlTries, Tried
  <2>2. toggle' \in [Procs -> Futexes]
    BY <1>0, <2>1, TriedIs DEF Types
  <2>3. ctl' \in [Procs -> CtlPlaces] /\ heard' \in [Procs -> Int]
    BY <1>0, <1>4 DEF Types, ControlTries
  <2> QED
    BY <1>0, <1>4, <2>2, <2>3 DEF Types, ControlTries
<1>5. ASSUME NEW p \in Procs, ControlDecides(p) \/ ControlEnters(p) PROVE Types'
  BY <1>0, <1>5 DEF Types, ControlDecides, ControlEnters, ExitFastForward, EnterFastForward, Asserts
<1>6. ASSUME NEW p \in Procs, ControlInserts(p) PROVE Types'
  <2>1. events' \in Seq(Events)
    BY <1>0, <1>6, EventIs, InsertIs DEF ControlInserts
  <2> QED
    BY <1>0, <1>6, <2>1 DEF Types, ControlInserts
<1>7. ASSUME NEW p \in Procs, AppJoins(p) \/ AppArrives(p) \/ AppReturns(p) \/ AppNotices(p)
      PROVE  Types'
  BY <1>0, <1>7 DEF Types, AppJoins, AppArrives, AppReturns, AppNotices, AfterBarrier
<1>8. ASSUME NEW p \in Procs, FFITracks(p) PROVE Types'
  <2>1. events' \in Seq(Events)
    BY <1>0, <1>8, EventIs, InsertIs DEF FFITracks
  <2> QED
    BY <1>0, <1>8, <2>1 DEF Types, FFITracks, Asserts
<1>9. ASSUME NEW p \in Procs, RoiBegin(p) \/ RoiEnd(p) \/ FFIExits(p) PROVE Types'
  BY <1>0, <1>9 DEF Types, RoiBegin, RoiEnd, FFIExits, ExitFastForward, EnterFastForward, Asserts
<1>10. ASSUME NEW p \in Procs, Heartbeat(p) PROVE Types'
  <2>1. events' \in Seq(Events)
    BY <1>0, <1>10, EventIs, InsertIs DEF Heartbeat
  <2> QED
    BY <1>0, <1>10, <2>1 DEF Types, Heartbeat
<1>11. CASE PhaseOver \/ Tick \/ SyncDone \/ DumpDone \/ FFIReached \/ FFIFires \/ TickDone
  BY <1>0, <1>11, CurrentIs DEF Types, PhaseOver, Tick, SyncDone, DumpDone, FFIReached, FFIFires, TickDone,
                     EnterFastForward, Asserts
<1>12. CASE NextEvent
  <2>1. events # <<>> /\ events' = Tail(events) /\ Head(events) \in Events
    BY <1>0, <1>12, TailIs DEF Types, NextEvent
  <2>2. events' \in Seq(Events)
    BY <1>0, <2>1, TailIs DEF Types
  <2> QED
    BY <1>0, <1>12, <2>1, <2>2 DEF Types, NextEvent, Asserts
<1>13. CASE FFIAgain
  <2>1. PICK period \in 1..2 : events' = Inserted(events, [current EXCEPT !.due = period])
    BY <1>13 DEF FFIAgain
  <2>2. [current EXCEPT !.due = period] \in Events
    BY <1>0, <1>13, CurrentIs DEF FFIAgain, Events, Event
  <2>3. events' \in Seq(Events)
    BY <1>0, <2>1, <2>2, InsertedIs DEF Types
  <2> QED
    BY <1>0, <1>13, <2>3 DEF Types, FFIAgain
<1>14. CASE NextPhase
  <2>1. events' \in Seq(Events)
    BY <1>0, <1>14, NearerIs DEF Types, NextPhase
  <2> QED
    BY <1>0, <1>14, <2>1 DEF Types, NextPhase
<1>15. CASE UNCHANGED vars
  BY <1>0, <1>15 DEF Types, vars
<1> QED
  BY <1>1, <1>2, <1>3, <1>4, <1>5, <1>6, <1>7, <1>8, <1>9, <1>10, <1>11, <1>12, <1>13, <1>14, <1>15
     DEF Next, EndOfPhase, ControlThread, App, Magic


\* A step that touches neither the locks nor the counters, and starts no
\* control thread, invents no toggle.
LEMMA TogglesStay ==
    ASSUME Toggles, UNCHANGED <<setup, toggle, calls, heard>>,
           \A p \in Procs : ctl'[p] = "init" <=> ctl[p] = "init"
    PROVE  Toggles'
<1>1. \A p \in Procs : Token(toggle[p], ctl'[p]) = Token(toggle[p], ctl[p])
  BY DEF Token
<1> QED
  BY <1>1 DEF Toggles

\* A step on the toggle lock of p leaves l, its control thread at c, d calls
\* fewer to be made and h more heard.
Moves(p, l, c, d, h) ==
    /\ l \in Futexes /\ d \in Int /\ h \in Int
    /\ toggle'[p] = l /\ ctl'[p] = c /\ calls'[p] = calls[p] - d /\ heard'[p] = heard[p] + h
    /\ \A q \in Procs \ {p} : /\ toggle'[q] = toggle[q] /\ calls'[q] = calls[q]
                              /\ heard'[q] = heard[q] /\ ctl'[q] = ctl[q]
    /\ setup' = setup
    /\ h + Token(l, c) <= d + Token(toggle[p], ctl[p])

\* A step makes as many tokens at most as it uses calls, less those it hears.
LEMMA TogglesMove ==
    ASSUME Types, Toggles, NEW p \in Procs, NEW l, NEW c, NEW d, NEW h, Moves(p, l, c, d, h)
    PROVE  Toggles'
<1>1. \A q \in Procs : /\ calls[q] \in Int /\ heard[q] \in Int /\ setup.toggles[q] \in Int
                       /\ Token(toggle[q], ctl[q]) \in Int
  BY SetupAssumption DEF Types, Token
<1>2. Token(l, c) \in Int
  BY DEF Token
<1>3. heard[p] + calls[p] + Token(toggle[p], ctl[p]) <= setup.toggles[p]
  BY DEF Toggles
<1>4. heard'[p] + calls'[p] + Token(toggle'[p], ctl'[p]) <= setup'.toggles[p]
  <2>1. heard[p] + h + (calls[p] - d) + Token(l, c) <= setup.toggles[p]
    BY <1>1, <1>2, <1>3 DEF Moves
  <2> QED
    BY <2>1 DEF Moves
<1>5. \A q \in Procs \ {p} : heard'[q] + calls'[q] + Token(toggle'[q], ctl'[q]) <= setup'.toggles[q]
  BY DEF Toggles, Moves
<1> QED
  BY <1>4, <1>5 DEF Toggles

\* No step invents a toggle.
LEMMA TogglesKept == Inv /\ [Next]_vars => Toggles'
<1> SUFFICES ASSUME Inv, [Next]_vars
             PROVE  Toggles'
  OBVIOUS
<1>0. Types /\ Callback /\ Syncs /\ Toggles
  BY DEF Inv
<1>1. ASSUME NEW p \in Procs, ToggleBegin(p) PROVE Toggles'
  <2> DEFINE l == Decrement(toggle[p], Toggler)
  <2>1. toggle[p] \in Futexes /\ toggle[p].at[Toggler] = "idle"
    BY <1>0, <1>1 DEF Types, ToggleBegin
  <2>2. l \in Futexes /\ Token(l, ctl[p]) <= Token(toggle[p], ctl[p]) + 1
    BY <2>1, DecrementIs
  <2>3. 0 + Token(l, ctl[p]) <= 1 + Token(toggle[p], ctl[p])
    BY <2>2 DEF Token
  <2>4. /\ toggle' = [toggle EXCEPT ![p] = l] /\ calls' = [calls EXCEPT ![p] = calls[p] - 1]
        /\ UNCHANGED <<setup, heard, ctl>>
    BY <1>1 DEF ToggleBegin
  <2>5. heard[p] + 0 = heard[p]
    BY <1>0 DEF Types
  <2> HIDE DEF l
  <2>6. Moves(p, l, ctl[p], 1, 0)
    BY <1>0, <2>2, <2>3, <2>4, <2>5 DEF Moves, Types
  <2> QED
    BY <1>0, <2>6, TogglesMove
<1>2. ASSUME NEW p \in Procs, ToggleEnd(p) PROVE Toggles'
  <2>1. toggle[p] \in Futexes
    BY <1>0 DEF Types
  <2>2. PICK l \in Futexes : /\ toggle' = [toggle EXCEPT ![p] = l]
                             /\ Token(l, ctl[p]) <= Token(toggle[p], ctl[p])
    BY <1>2, <2>1, StoreIs, WakingsAre DEF ToggleEnd
  <2>3. UNCHANGED <<setup, heard, ctl, calls>>
    BY <1>2 DEF ToggleEnd
  <2>4. 0 + Token(l, ctl[p]) <= 0 + Token(toggle[p], ctl[p])
    BY <2>2 DEF Token
  <2>5. heard[p] + 0 = heard[p] /\ calls[p] - 0 = calls[p]
    BY <1>0 DEF Types
  <2>6. Moves(p, l, ctl[p], 0, 0)
    BY <1>0, <2>2, <2>3, <2>4, <2>5 DEF Moves, Types
  <2> QED
    BY <1>0, <2>6, TogglesMove
<1>3. ASSUME NEW p \in Procs, ControlRequest(p) PROVE Toggles'
  <2> DEFINE l == Put(toggle[p], Control, "try")
  <2>1. toggle[p] \in Futexes /\ toggle' = [toggle EXCEPT ![p] = l] /\ "try" \in Places
    BY <1>0, <1>3 DEF Types, ControlRequest, Places
  <2>2. l \in Futexes /\ l.word = toggle[p].word /\ l.at = [toggle[p].at EXCEPT ![Control] = "try"]
    BY <2>1, PutIs
  <2>3. l.at[Toggler] = toggle[p].at[Toggler]
    BY <2>1, <2>2, PlacesAre
  <2>4. UNCHANGED <<setup, heard, ctl, calls>>
    BY <1>3 DEF ControlRequest
  <2> HIDE DEF l
  <2>5. 0 + Token(l, ctl[p]) <= 0 + Token(toggle[p], ctl[p])
    BY <2>2, <2>3 DEF Token
  <2>6. heard[p] + 0 = heard[p] /\ calls[p] - 0 = calls[p]
    BY <1>0 DEF Types
  <2>7. Moves(p, l, ctl[p], 0, 0)
    BY <1>0, <2>1, <2>2, <2>4, <2>5, <2>6 DEF Moves, Types
  <2> QED
    BY <1>0, <2>7, TogglesMove
<1>4. ASSUME NEW p \in Procs, ControlTries(p) PROVE Toggles'
  <2> DEFINE l == Tried(toggle[p], ctl[p] = "listen")
             got == l.at[Control] = "held"
             c == IF ~got THEN ctl[p] ELSE IF ctl[p] = "init" THEN "listen" ELSE "decide"
             h == IF got /\ ctl[p] = "listen" THEN 1 ELSE 0
  <2>1. /\ toggle' = [toggle EXCEPT ![p] = l] /\ toggle[p] \in Futexes
        /\ toggle[p].at[Control] \in {"try", "swap", "wait", "asleep", "again"}
    BY <1>0, <1>4 DEF Types, ControlTries, Tried
  <2>2. /\ l \in Futexes /\ l.at[Toggler] = toggle[p].at[Toggler]
        /\ got => toggle[p].word = 0 /\ l.word # 0
        /\ l.word = 0 => toggle[p].word = 0
    BY <2>1, TriedIs
  <2>3. /\ ctl' = IF ~got THEN ctl ELSE [ctl EXCEPT ![p] = IF @ = "init" THEN "listen" ELSE "decide"]
        /\ heard' = IF got /\ ctl[p] = "listen" THEN [heard EXCEPT ![p] = @ + 1] ELSE heard
        /\ UNCHANGED <<setup, calls>>
    BY <1>4 DEF ControlTries, Tried
  <2> HIDE DEF l
  <2>4. h + Token(l, c) <= 0 + Token(toggle[p], ctl[p]) /\ h \in Int
    BY <2>2 DEF Token
  <2>5. calls[p] - 0 = calls[p] /\ calls[p] \in Int /\ heard[p] \in Int
    BY <1>0 DEF Types
  <2>6. ctl'[p] = c /\ \A q \in Procs \ {p} : ctl'[q] = ctl[q]
    BY <1>0, <2>3 DEF Types
  <2>7. heard'[p] = heard[p] + h /\ \A q \in Procs \ {p} : heard'[q] = heard[q]
    BY <1>0, <2>3, <2>5 DEF Types
  <2>8. toggle'[p] = l /\ \A q \in Procs \ {p} : toggle'[q] = toggle[q]
    BY <1>0, <2>1 DEF Types
  <2> HIDE DEF c, h
  <2>9. Moves(p, l, c, 0, h)
    BY <2>2, <2>3, <2>4, <2>5, <2>6, <2>7, <2>8 DEF Moves
  <2> QED
    BY <1>0, <2>9, TogglesMove
<1>5. ASSUME NEW p \in Procs, ControlDecides(p) \/ ControlEnters(p) \/ ControlInserts(p)
      PROVE  Toggles'
  <2>1. UNCHANGED <<setup, toggle, calls, heard>>
    BY <1>5 DEF ControlDecides, ControlEnters, ControlInserts
  <2>2. \A q \in Procs : ctl'[q] = "init" <=> ctl[q] = "init"
    BY <1>0, <1>5 DEF Types, ControlDecides, ControlEnters, ControlInserts
  <2> QED
    BY <1>0, <2>1, <2>2, TogglesStay
<1>6. ASSUME NEW p \in Procs, App(p) \/ Magic(p)
      PROVE  Toggles'
  <2>1. UNCHANGED <<setup, toggle, calls, heard, ctl>>
    BY <1>6 DEF App, Magic, AppJoins, AppArrives, AppReturns, AppNotices, FFITracks, RoiBegin, RoiEnd,
                Heartbeat, FFIExits
  <2> QED
    BY <1>0, <2>1, TogglesStay
<1>7. CASE EndOfPhase
  <2>1. UNCHANGED <<setup, toggle, calls, heard>>
    BY <1>7 DEF EndOfPhase, PhaseOver, Tick, NextEvent, SyncDone, DumpDone, FFIAgain, FFIReached,
                FFIFires, TickDone, NextPhase
  <2>2. CASE NextEvent
    <3>1. events \in Seq(Events) /\ events # <<>>
      BY <1>0, <2>2 DEF Types, NextEvent
    <3>2. Head(events) = events[1] /\ 1 \in 1..Len(events) /\ Head(events) \in Events
      BY <3>1, TailIs
    <3>3. Head(events).kind = "sync" => ctl[Head(events).proc] # "init"
      BY <1>0, <3>2 DEF Syncs
    <3>4. \A q \in Procs : ctl'[q] = "init" <=> ctl[q] = "init"
      BY <1>0, <2>2, <3>2, <3>3 DEF Types, NextEvent
    <3> QED
      BY <1>0, <2>1, <3>4, TogglesStay
  <2>3. CASE ~NextEvent
    <3>1. UNCHANGED ctl
      BY <1>7, <2>3 DEF EndOfPhase, PhaseOver, Tick, SyncDone, DumpDone, FFIAgain, FFIReached,
                FFIFires, TickDone, NextPhase
    <3> QED
      BY <1>0, <2>1, <3>1, TogglesStay
  <2> QED
    BY <2>2, <2>3
<1>8. CASE UNCHANGED vars
  <2>1. UNCHANGED <<setup, toggle, calls, heard, ctl>>
    BY <1>8 DEF vars
  <2> QED
    BY <1>0, <2>1, TogglesStay
<1> QED
  BY <1>1, <1>2, <1>3, <1>4, <1>5, <1>6, <1>7, <1>8 DEF Next, ControlThread


\* The end of a phase holds the queue's lock while callbacks run.
LEMMA CallbackKept == Inv /\ [Next]_vars => Callback'
<1> SUFFICES ASSUME Inv, [Next]_vars
             PROVE  Callback'
  OBVIOUS
<1>0. Types /\ Callback /\ Syncs
  BY DEF Inv
<1>1. ASSUME UNCHANGED <<ender, current, qLock>> PROVE Callback'
  BY <1>0, <1>1 DEF Callback
<1>2. ASSUME NEW p \in Procs, ToggleBegin(p) \/ ToggleEnd(p) \/ App(p) \/ Magic(p) PROVE Callback'
  <2>1. UNCHANGED <<ender, current, qLock>>
    BY <1>2 DEF ToggleBegin, ToggleEnd, App, Magic, AppJoins, AppArrives, AppReturns, AppNotices,
                FFITracks, RoiBegin, RoiEnd, Heartbeat, FFIExits
  <2> QED
    BY <1>1, <2>1
<1>3. ASSUME NEW p \in Procs, ControlRequest(p) \/ ControlTries(p) \/ ControlDecides(p) \/ ControlInserts(p)
      PROVE  Callback'
  <2>1. UNCHANGED <<ender, current, qLock>>
    BY <1>3 DEF ControlRequest, ControlTries, ControlDecides, ControlInserts
  <2> QED
    BY <1>1, <2>1
<1>4. ASSUME NEW p \in Procs, ControlEnters(p) PROVE Callback'
  <2>1. ender = "callback" /\ UNCHANGED <<ender, qLock>>
    BY <1>0, <1>4 DEF ControlEnters, Syncs
  <2>2. PICK kind \in {"sync", "left", "ffi", "fire", "dump"}, q \in Procs, due \in Int :
           current = Event(kind, q, due)
    BY <1>0, <2>1, CurrentIs
  <2>3. current' = Event("left", q, due)
    BY <1>4, <2>2 DEF ControlEnters, Signalled, Event
  <2> QED
    BY <1>0, <2>1, <2>3 DEF Callback
<1>5. CASE PhaseOver \/ Tick \/ SyncDone \/ DumpDone \/ FFIAgain \/ FFIFires \/ TickDone \/ NextPhase
  BY <1>0, <1>5 DEF Callback, PhaseOver, Tick, SyncDone, DumpDone, FFIAgain, FFIFires, TickDone, NextPhase
<1>6. CASE FFIReached
  <2>1. ender = "callback" /\ UNCHANGED <<ender, qLock>>
    BY <1>6 DEF FFIReached
  <2>2. PICK kind \in {"sync", "left", "ffi", "fire", "dump"}, q \in Procs, due \in Int :
           current = Event(kind, q, due)
    BY <1>0, <2>1, CurrentIs
  <2>3. current' = Event("fire", q, due)
    BY <1>6, <2>2 DEF FFIReached, Event
  <2> QED
    BY <1>0, <2>1, <2>3 DEF Callback
<1>7. CASE NextEvent
  <2>1. Head(events) \in Events /\ current' = Head(events) /\ ender' = "callback" /\ qLock' = Ender
    BY <1>0, <1>7, TailIs DEF Types, NextEvent, Callback
  <2>2. \E kind \in {"sync", "ffi", "dump"}, q \in Procs, due \in Int : Head(events) = Event(kind, q, due)
    BY <2>1 DEF Events, Event
  <2> QED
    BY <2>1, <2>2 DEF Callback
<1>8. CASE UNCHANGED vars
  BY <1>1, <1>8 DEF vars
<1> QED
  BY <1>2, <1>3, <1>4, <1>5, <1>6, <1>7, <1>8 DEF Next, ControlThread, EndOfPhase

\* The queue holds events of started control threads only, and one arrives in its callback.
LEMMA SyncsKept == Inv /\ [Next]_vars => Syncs'
<1> SUFFICES ASSUME Inv, [Next]_vars
             PROVE  Syncs'
  OBVIOUS
<1>0. Types /\ Callback /\ Syncs
  BY DEF Inv
<1>1. ASSUME UNCHANGED <<events, ctl, ender, current>> PROVE Syncs'
  BY <1>0, <1>1 DEF Syncs
<1>2. ASSUME NEW e \in Events, Insert(e), UNCHANGED <<ctl, ender, current>>, e.kind # "sync" PROVE Syncs'
  BY <1>0, <1>2, InsertIs DEF Syncs
<1>3. ASSUME NEW p \in Procs, ToggleBegin(p) \/ ToggleEnd(p) \/ ControlRequest(p) PROVE Syncs'
  BY <1>1, <1>3 DEF ToggleBegin, ToggleEnd, ControlRequest
<1>4. ASSUME NEW p \in Procs, AppJoins(p) \/ AppArrives(p) \/ AppReturns(p) \/ AppNotices(p)
      PROVE  Syncs'
  BY <1>1, <1>4 DEF AppJoins, AppArrives, AppReturns, AppNotices
<1>5. ASSUME NEW p \in Procs, RoiBegin(p) \/ RoiEnd(p) \/ FFIExits(p) PROVE Syncs'
  BY <1>1, <1>5 DEF RoiBegin, RoiEnd, FFIExits
<1>6. ASSUME NEW p \in Procs, FFITracks(p) PROVE Syncs'
  <2>1. PICK period \in 1..2 : Insert(Event("ffi", p, period))
    BY <1>6 DEF FFITracks
  <2>2. UNCHANGED <<ctl, ender, current>>
    BY <1>6 DEF FFITracks
  <2>3. Event("ffi", p, period) \in Events /\ Event("ffi", p, period).kind = "ffi"
    BY EventIs
  <2> QED
    BY <1>2, <2>1, <2>2, <2>3
<1>7. ASSUME NEW p \in Procs, Heartbeat(p) PROVE Syncs'
  <2>1. Insert(Event("dump", p, 0)) /\ UNCHANGED <<ctl, ender, current>>
    BY <1>7 DEF Heartbeat
  <2>2. Event("dump", p, 0) \in Events /\ Event("dump", p, 0).kind = "dump"
    BY EventIs
  <2> QED
    BY <1>2, <2>1, <2>2
<1>8. ASSUME NEW p \in Procs, ControlTries(p) \/ ControlDecides(p) PROVE Syncs'
  <2>1. UNCHANGED <<events, ender, current>>
    BY <1>8 DEF ControlTries, ControlDecides
  <2>2. \A q \in Procs : /\ ctl'[q] = "init" => ctl[q] = "init"
                         /\ ctl'[q] = "arrived" => ctl[q] = "arrived"
    BY <1>0, <1>8 DEF Types, ControlTries, ControlDecides
  <2>3. \A i \in 1..Len(events) : events[i].proc \in Procs
    BY <1>0, QueueIs
  <2> QED
    BY <1>0, <2>1, <2>2, <2>3 DEF Syncs
<1>9. ASSUME NEW p \in Procs, ControlInserts(p) PROVE Syncs'
  <2> DEFINE e == Event("sync", p, 0)
  <2>1. e \in Events /\ e.kind = "sync" /\ e.proc = p
    BY EventIs
  <2>2. Insert(e) /\ ctl' = [ctl EXCEPT ![p] = "arrival"] /\ UNCHANGED <<ender, current>>
    BY <1>9 DEF ControlInserts
  <2> HIDE DEF e
  <2>3. \A i \in 1..Len(events') : events'[i] = e \/ \E j \in 1..Len(events) : events'[i] = events[j]
    BY <1>0, <2>1, <2>2, InsertIs
  <2>4. \A i \in 1..Len(events) : events[i].proc \in Procs
    BY <1>0, QueueIs
  <2>5. \A q \in Procs : /\ ctl'[q] = "init" => ctl[q] = "init" /\ q # p
                         /\ ctl'[q] = "arrived" => ctl[q] = "arrived"
    BY <1>0, <2>2 DEF Types
  <2>6. \A i \in 1..Len(events') : events'[i].kind = "sync" => ctl'[events'[i].proc] # "init"
    <3> TAKE i \in 1..Len(events')
    <3>1. CASE events'[i] = e
      BY <2>1, <2>5, <3>1
    <3>2. CASE \E j \in 1..Len(events) : events'[i] = events[j]
      BY <1>0, <2>4, <2>5, <3>2 DEF Syncs
    <3> QED
      BY <2>3, <3>1, <3>2
  <2> QED
    BY <1>0, <2>2, <2>5, <2>6 DEF Syncs
<1>10. ASSUME NEW p \in Procs, ControlEnters(p) PROVE Syncs'
  <2>1. ctl[p] = "arrived" /\ ctl' = [ctl EXCEPT ![p] = "listen"] /\ UNCHANGED <<events, ender>>
    BY <1>10 DEF ControlEnters
  <2>2. current.proc = p /\ \A q \in Procs : ctl'[q] # "arrived"
    BY <1>0, <2>1 DEF Syncs, Types
  <2>3. \A i \in 1..Len(events) : events[i].proc \in Procs
    BY <1>0, QueueIs
  <2>4. \A q \in Procs : ctl'[q] = "init" => ctl[q] = "init"
    BY <1>0, <2>1 DEF Types
  <2> QED
    BY <1>0, <2>1, <2>2, <2>3, <2>4 DEF Syncs
<1>11. CASE PhaseOver \/ Tick \/ TickDone
  BY <1>0, <1>11 DEF Syncs, PhaseOver, Tick, TickDone
<1>12. CASE SyncDone \/ DumpDone \/ FFIFires \/ FFIReached
  <2>1. current.kind # "sync" /\ UNCHANGED <<events, ctl>>
    BY <1>12 DEF SyncDone, DumpDone, FFIFires, FFIReached, Left
  <2> QED
    BY <1>0, <2>1 DEF Syncs
<1>13. CASE FFIAgain
  <2>1. PICK period \in 1..2 : events' = Inserted(events, [current EXCEPT !.due = period])
    BY <1>13 DEF FFIAgain
  <2> DEFINE e == [current EXCEPT !.due = period]
  <2>2. e \in Events /\ e.kind = "ffi" /\ current.kind = "ffi" /\ UNCHANGED ctl
    BY <1>0, <1>13, CurrentIs DEF FFIAgain, Events, Event
  <2> HIDE DEF e
  <2>3. \A i \in 1..Len(events') : events'[i] = e \/ \E j \in 1..Len(events) : events'[i] = events[j]
    <3>1. events \in Seq(Events) /\ events' = Inserted(events, e)
      BY <1>0, <2>1 DEF Types, e
    <3> QED
      BY <2>2, <3>1, InsertedHas
  <2> QED
    BY <1>0, <2>2, <2>3 DEF Syncs
<1>14. CASE NextEvent
  <2>1. /\ events \in Seq(Events) /\ events # <<>> /\ events' = Tail(events)
        /\ current' = Head(events) /\ ender' = "callback" /\ ender = "ticking"
        /\ ctl' = IF Head(events).kind = "sync" THEN [ctl EXCEPT ![Head(events).proc] = "arrived"]
                  ELSE ctl
    BY <1>0, <1>14 DEF Types, NextEvent
  <2>2. /\ Head(events) \in Events
        /\ \A i \in 1..Len(events') : \E j \in 1..Len(events) : events'[i] = events[j]
    BY <2>1, TailIs
  <2>3. \A q \in Procs : ctl[q] # "arrived"
    BY <1>0, <2>1 DEF Syncs
  <2>4. \A q \in Procs : /\ ctl'[q] = "init" => ctl[q] = "init"
                         /\ ctl'[q] = "arrived" => Head(events).kind = "sync" /\ Head(events).proc = q
    BY <1>0, <2>1, <2>2, <2>3 DEF Types
  <2>5. \A j \in 1..Len(events) : events[j].proc \in Procs
    BY <1>0, QueueIs
  <2> QED
    BY <1>0, <2>1, <2>2, <2>4, <2>5 DEF Syncs
<1>15. CASE NextPhase
  <2>1. \A i \in 1..Len(events) : events'[i].kind = events[i].kind /\ events'[i].proc = events[i].proc
    BY <1>0, <1>15, NearerIs DEF Types, NextPhase
  <2>2. Len(events') = Len(events) /\ UNCHANGED <<ctl, current>> /\ ender = "ticked"
    BY <1>0, <1>15, NearerIs DEF Types, NextPhase
  <2> QED
    BY <1>0, <2>1, <2>2 DEF Syncs
<1>16. CASE UNCHANGED vars
  BY <1>1, <1>16 DEF vars
<1> QED
  BY <1>3, <1>4, <1>5, <1>6, <1>7, <1>8, <1>9, <1>10, <1>11, <1>12, <1>13, <1>14, <1>15, <1>16
     DEF Next, EndOfPhase, ControlThread, App, Magic

\* Every step keeps the invariant.
LEMMA StepKeeps == Inv /\ [Next]_vars => Inv'
  BY TypesKept, CallbackKept, SyncsKept, TogglesKept DEF Inv

\* The invariant holds for every setup.
LEMMA AlwaysInv == Spec => []Inv
  BY InitHolds, StepKeeps, PTL DEF Spec

\* No toggle is heard that was not made.
THEOREM OnlyTogglesAreHeard == Spec => []HeardToggles
<1>1. Inv => HeardToggles
  <2> SUFFICES ASSUME Inv, NEW p \in Procs
               PROVE  heard[p] + calls[p] <= setup.toggles[p]
    BY DEF HeardToggles
  <2>1. heard[p] \in Int /\ calls[p] \in Int /\ setup.toggles[p] \in Int
    BY SetupAssumption DEF Inv, Types
  <2>2. Token(toggle[p], ctl[p]) \in Nat
    BY DEF Token
  <2>3. heard[p] + calls[p] + Token(toggle[p], ctl[p]) <= setup.toggles[p]
    BY DEF Inv, Toggles
  <2> QED
    BY <2>1, <2>2, <2>3
<1> QED
  BY <1>1, AlwaysInv, PTL

\* What EntersAtPhaseEnd says of a step.
EntersRightly ==
    \A p \in Procs :
        ~inFF[p] /\ inFF'[p] =>
            \/ ender = "callback" /\ current.proc = p /\ qLock = Ender
            \/ p \in setup.magic \ setup.synced /\ app[p] \in {"sim", "ff"} /\ UNCHANGED ctl

\* A process enters fast-forward in a callback of the queue, or by its own magic ops.
LEMMA StepEntersRightly == Inv /\ [Next]_vars => EntersRightly
<1> SUFFICES ASSUME Inv, [Next]_vars, NEW p \in Procs, ~inFF[p], inFF'[p]
             PROVE  \/ ender = "callback" /\ current.proc = p /\ qLock = Ender
                    \/ p \in setup.magic \ setup.synced /\ app[p] \in {"sim", "ff"} /\ UNCHANGED ctl
  BY DEF EntersRightly
<1>0. Types /\ Callback /\ Syncs
  BY DEF Inv
<1>1. (\E q \in Procs : ControlEnters(q) \/ RoiEnd(q)) \/ FFIFires
  <2>1. ASSUME NEW q \in Procs, ToggleBegin(q) \/ ToggleEnd(q) \/ App(q) PROVE FALSE
    BY <2>1 DEF ToggleBegin, ToggleEnd, App, AppJoins, AppArrives, AppReturns, AppNotices, FFITracks
  <2>2. ASSUME NEW q \in Procs, RoiBegin(q) \/ FFIExits(q) \/ Heartbeat(q) PROVE FALSE
    BY <1>0, <2>2 DEF Types, RoiBegin, FFIExits, Heartbeat, ExitFastForward
  <2>3. ASSUME NEW q \in Procs,
               ControlRequest(q) \/ ControlTries(q) \/ ControlDecides(q) \/ ControlInserts(q) PROVE FALSE
    BY <1>0, <2>3 DEF Types, ControlRequest, ControlTries, ControlDecides, ControlInserts, ExitFastForward
  <2>4. ASSUME EndOfPhase, ~FFIFires PROVE FALSE
    BY <2>4 DEF EndOfPhase, PhaseOver, Tick, NextEvent, SyncDone, DumpDone, FFIAgain, FFIReached,
                TickDone, NextPhase
  <2>5. ASSUME UNCHANGED vars PROVE FALSE
    BY <2>5 DEF vars
  <2> QED
    BY <2>1, <2>2, <2>3, <2>4, <2>5 DEF Next, ControlThread, Magic
<1>2. ASSUME NEW q \in Procs, ControlEnters(q) PROVE ender = "callback" /\ current.proc = p /\ qLock = Ender
  <2>1. q = p /\ ctl[q] = "arrived"
    BY <1>0, <1>2 DEF Types, ControlEnters, EnterFastForward
  <2> QED
    BY <1>0, <2>1, CurrentIs DEF Syncs
<1>3. ASSUME NEW q \in Procs, RoiEnd(q)
      PROVE  p \in setup.magic \ setup.synced /\ app[p] \in {"sim", "ff"} /\ UNCHANGED ctl
  <2>1. q = p
    BY <1>0, <1>3 DEF Types, RoiEnd, EnterFastForward
  <2> QED
    BY <1>3, <2>1 DEF RoiEnd, Ignored
<1>4. CASE FFIFires
  <2>1. ender = "callback" /\ current.proc = p
    BY <1>0, <1>4 DEF Types, FFIFires, EnterFastForward
  <2> QED
    BY <1>0, <2>1, CurrentIs
<1> QED
  BY <1>1, <1>2, <1>3, <1>4

\* A process enters fast-forward while nothing is simulated: in a callback of
\* the event queue, but for magic ops of a process that pauses nobody.
THEOREM EntersWhenNobodySimulates == Spec => EntersAtPhaseEnd
<1>1. Inv /\ [Next]_vars => [EntersRightly]_vars
  BY StepEntersRightly
<1> QED
  BY <1>1, AlwaysInv, PTL DEF Spec, EntersAtPhaseEnd, EntersRightly

-----------------------------------------------------------------------------
(* The invariant for setups that leave FFI alone                           *)

\* The control thread of a process without toggles does not start.
LEMMA UntoggledKept == Inv /\ Untoggled /\ [Next]_vars => Untoggled'
<1> SUFFICES ASSUME Inv, Untoggled, [Next]_vars
             PROVE  Untoggled'
  OBVIOUS
<1>0. Types /\ Syncs /\ Callback /\ Toggles
  BY DEF Inv
<1>1. ASSUME UNCHANGED <<setup, ctl, toggle>> PROVE Untoggled'
  BY <1>1 DEF Untoggled
<1>2. ASSUME NEW p \in Procs, ToggleBegin(p) PROVE Untoggled'
  <2>1. /\ toggle[p] \in Futexes /\ toggle[p].at[Toggler] = "idle"
        /\ toggle' = [toggle EXCEPT ![p] = Decrement(toggle[p], Toggler)] /\ UNCHANGED <<setup, ctl>>
    BY <1>0, <1>2 DEF Types, ToggleBegin
  <2>2. Decrement(toggle[p], Toggler).at[Control] = toggle[p].at[Control]
    BY <2>1, DecrementIs
  <2>3. \A q \in Procs : toggle'[q].at[Control] = toggle[q].at[Control]
    BY <1>0, <2>1, <2>2 DEF Types
  <2> QED
    BY <2>1, <2>3 DEF Untoggled
<1>3. ASSUME NEW p \in Procs, ToggleEnd(p) PROVE Untoggled'
  <2>1. toggle[p] \in Futexes /\ UNCHANGED <<setup, ctl>>
    BY <1>0, <1>3 DEF Types, ToggleEnd
  <2>2. PICK l : /\ toggle' = [toggle EXCEPT ![p] = l]
                 /\ l.at[Control] = toggle[p].at[Control] \/ toggle[p].at[Control] = "asleep"
    BY <1>3, <2>1, StoreIs, WakingsAre DEF ToggleEnd
  <2>3. \A q \in Procs : \/ toggle'[q].at[Control] = toggle[q].at[Control]
                         \/ toggle[q].at[Control] = "asleep"
    BY <1>0, <2>2 DEF Types
  <2> QED
    BY <2>1, <2>3 DEF Untoggled
<1>4. ASSUME NEW p \in Procs, ControlRequest(p) PROVE Untoggled'
  <2>1. setup.toggles[p] # 0 /\ UNCHANGED <<setup, ctl>>
    BY <1>4 DEF ControlRequest, Listening
  <2>2. \A q \in Procs \ {p} : toggle'[q] = toggle[q]
    BY <1>0, <1>4 DEF Types, ControlRequest
  <2> QED
    BY <2>1, <2>2 DEF Untoggled
<1>5. ASSUME NEW p \in Procs, ControlTries(p) PROVE Untoggled'
  <2>1. setup.toggles[p] # 0 /\ setup' = setup
    BY <1>5 DEF ControlTries, Untoggled
  <2>2. \A q \in Procs \ {p} : toggle'[q] = toggle[q] /\ ctl'[q] = ctl[q]
    BY <1>0, <1>5 DEF Types, ControlTries
  <2> QED
    BY <2>1, <2>2 DEF Untoggled
<1>6. ASSUME NEW p \in Procs, ControlDecides(p) \/ ControlInserts(p) \/ ControlEnters(p) PROVE Untoggled'
  <2>1. setup.toggles[p] # 0 /\ UNCHANGED <<setup, toggle>>
    BY <1>6 DEF ControlDecides, ControlInserts, ControlEnters, Untoggled
  <2>2. \A q \in Procs \ {p} : ctl'[q] = ctl[q]
    BY <1>0, <1>6 DEF Types, ControlDecides, ControlInserts, ControlEnters
  <2> QED
    BY <2>1, <2>2 DEF Untoggled
<1>7. ASSUME NEW p \in Procs, App(p) \/ Magic(p) PROVE Untoggled'
  <2>1. UNCHANGED <<setup, ctl, toggle>>
    BY <1>7 DEF App, Magic, AppJoins, AppArrives, AppReturns, AppNotices, FFITracks, RoiBegin, RoiEnd,
                Heartbeat, FFIExits
  <2> QED
    BY <1>1, <2>1
<1>8. CASE NextEvent
  <2>1. /\ UNCHANGED <<setup, toggle>>
        /\ events # <<>>
        /\ ctl' = IF Head(events).kind = "sync" THEN [ctl EXCEPT ![Head(events).proc] = "arrived"] ELSE ctl
    BY <1>8 DEF NextEvent
  <2>2. Head(events) = events[1] /\ 1 \in 1..Len(events)
    BY <1>0, <2>1, TailIs DEF Types
  <2>3. Head(events).kind = "sync" => ctl[Head(events).proc] # "init"
    BY <1>0, <2>2 DEF Syncs
  <2>4. \A q \in Procs : ctl[q] = "init" => ctl'[q] = "init"
    BY <1>0, <2>1, <2>3 DEF Types
  <2> QED
    BY <2>1, <2>4 DEF Untoggled
<1>9. CASE PhaseOver \/ Tick \/ SyncDone \/ DumpDone \/ FFIAgain \/ FFIReached \/ FFIFires \/ TickDone
             \/ NextPhase
  <2>1. UNCHANGED <<setup, ctl, toggle>>
    BY <1>9 DEF PhaseOver, Tick, SyncDone, DumpDone, FFIAgain, FFIReached, FFIFires, TickDone, NextPhase
  <2> QED
    BY <1>1, <2>1
<1>10. CASE UNCHANGED vars
  BY <1>1, <1>10 DEF vars
<1> QED
  BY <1>2, <1>3, <1>4, <1>5, <1>6, <1>7, <1>8, <1>9, <1>10 DEF Next, EndOfPhase, ControlThread

\* The queue q is in order, and its events are not due before now.
InOrder(q, now) == Sorted(q) /\ \A i \in 1..Len(q) : q[i].due >= now

\* How far off the queue's events are at least: no event of the phase that
\* ends is left once its events have run.
Now == IF ender = "ticked" THEN 1 ELSE 0

\* Ordered in these words.
LEMMA OrderedIs ==
    ASSUME Types
    PROVE  Ordered <=> InOrder(events, Now)
<1>1. \A i \in 1..Len(events) : events[i].due \in Int
  BY QueueIs
<1>2. Ordered => InOrder(events, Now)
  BY <1>1 DEF Ordered, InOrder, Sorted, Now
<1>3. InOrder(events, Now) => Ordered
  BY <1>1 DEF Ordered, InOrder, Sorted, Now
<1> QED
  BY <1>2, <1>3

\* An insertion that is not late keeps the order.
LEMMA InOrderInserted ==
    ASSUME NEW q \in Seq(Events), NEW e \in Events, NEW now, InOrder(q, now), e.due >= now
    PROVE  InOrder(Inserted(q, e), now)
<1>1. Sorted(Inserted(q, e))
  BY InsertedSorted DEF InOrder
<1>2. \A i \in 1..Len(Inserted(q, e)) :
         Inserted(q, e)[i] = e \/ \E j \in 1..Len(q) : Inserted(q, e)[i] = q[j]
  BY InsertedHas
<1> QED
  BY <1>1, <1>2 DEF InOrder

\* The queue stays in order, if nothing is inserted late.
LEMMA OrderedKept == ~LateInserts /\ Inv /\ Ordered /\ [Next]_vars => Ordered'
<1> SUFFICES ASSUME ~LateInserts, Inv, Ordered, [Next]_vars
             PROVE  Ordered'
  OBVIOUS
<1>0. Types /\ Callback /\ Types' /\ InOrder(events, Now)
  BY TypesKept, OrderedIs DEF Inv
<1> SUFFICES InOrder(events', Now')
  <2>1. Types' => (Ordered' <=> InOrder(events', Now'))
    <3>1. \A i \in 1..Len(events') : events'[i].due \in Int
      <4>1. Len(events') \in Nat /\ \A i \in 1..Len(events') : events'[i] \in Events
        BY <1>0 DEF Types
      <4> QED
        BY <4>1 DEF Events
    <3> QED
      BY <3>1 DEF Ordered, InOrder, Sorted, Now
  <2> QED
    BY <1>0, <2>1
<1>1. ASSUME UNCHANGED <<events, ender>> PROVE InOrder(events', Now')
  BY <1>0, <1>1 DEF Now
<1>2. ASSUME NEW e \in Events, Insert(e), e.due >= 0, UNCHANGED ender PROVE InOrder(events', Now')
  <2>1. Now = 0 /\ Now' = 0 /\ events' = Inserted(events, e)
    BY <1>2 DEF Now, Insert, InTime
  <2>2. events \in Seq(Events)
    BY <1>0 DEF Types
  <2>3. InOrder(Inserted(events, e), 0)
    BY <1>0, <1>2, <2>1, <2>2, InOrderInserted
  <2> QED
    BY <2>1, <2>3
<1>3. ASSUME NEW p \in Procs, ToggleBegin(p) \/ ToggleEnd(p) PROVE InOrder(events', Now')
  BY <1>1, <1>3 DEF ToggleBegin, ToggleEnd
<1>4. ASSUME NEW p \in Procs, ControlRequest(p) \/ ControlTries(p) \/ ControlDecides(p) \/ ControlEnters(p)
      PROVE  InOrder(events', Now')
  BY <1>1, <1>4 DEF ControlRequest, ControlTries, ControlDecides, ControlEnters
<1>5. ASSUME NEW p \in Procs, ControlInserts(p) PROVE InOrder(events', Now')
  <2>1. Insert(Event("sync", p, 0)) /\ UNCHANGED ender
    BY <1>5 DEF ControlInserts
  <2>2. Event("sync", p, 0) \in Events /\ Event("sync", p, 0).due >= 0
    BY EventIs
  <2> QED
    BY <1>2, <2>1, <2>2
<1>6. ASSUME NEW p \in Procs, AppJoins(p) \/ AppArrives(p) \/ AppReturns(p) \/ AppNotices(p)
      PROVE  InOrder(events', Now')
  BY <1>1, <1>6 DEF AppJoins, AppArrives, AppReturns, AppNotices
<1>7. ASSUME NEW p \in Procs, RoiBegin(p) \/ RoiEnd(p) \/ FFIExits(p) PROVE InOrder(events', Now')
  BY <1>1, <1>7 DEF RoiBegin, RoiEnd, FFIExits
<1>8. ASSUME NEW p \in Procs, FFITracks(p) PROVE InOrder(events', Now')
  <2>1. PICK period \in 1..2 : Insert(Event("ffi", p, period)) /\ UNCHANGED ender
    BY <1>8 DEF FFITracks
  <2>2. Event("ffi", p, period) \in Events /\ Event("ffi", p, period).due >= 0
    BY EventIs
  <2> QED
    BY <1>2, <2>1, <2>2
<1>9. ASSUME NEW p \in Procs, Heartbeat(p) PROVE InOrder(events', Now')
  <2>1. Insert(Event("dump", p, 0)) /\ UNCHANGED ender
    BY <1>9 DEF Heartbeat
  <2>2. Event("dump", p, 0) \in Events /\ Event("dump", p, 0).due >= 0
    BY EventIs
  <2> QED
    BY <1>2, <2>1, <2>2
<1>10. CASE PhaseOver \/ Tick \/ SyncDone \/ DumpDone \/ FFIReached \/ FFIFires
  <2>1. UNCHANGED events /\ Now = 0 /\ Now' = 0
    BY <1>10 DEF PhaseOver, Tick, SyncDone, DumpDone, FFIReached, FFIFires, Now
  <2> QED
    BY <1>0, <2>1
<1>11. CASE NextEvent
  <2>1. /\ events \in Seq(Events) /\ events # <<>> /\ events' = Tail(events)
        /\ Now = 0 /\ Now' = 0
    BY <1>0, <1>11 DEF Types, NextEvent, Now
  <2>2. /\ Len(events) \in Nat \ {0} /\ Len(events') = Len(events) - 1
        /\ \A i \in 1..(Len(events) - 1) : events'[i] = events[i + 1] /\ i + 1 \in 1..Len(events)
    BY <2>1, TailIs
  <2> QED
    BY <1>0, <2>1, <2>2 DEF InOrder, Sorted
<1>12. CASE FFIAgain
  <2>1. PICK period \in 1..2 : events' = Inserted(events, [current EXCEPT !.due = period])
    BY <1>12 DEF FFIAgain
  <2> DEFINE e == [current EXCEPT !.due = period]
  <2>2. e \in Events /\ e.due >= 0
    BY <1>0, <1>12, CurrentIs DEF FFIAgain, Events, Event
  <2>3. Now = 0 /\ Now' = 0 /\ events' = Inserted(events, e) /\ events \in Seq(Events)
    BY <1>0, <1>12, <2>1 DEF FFIAgain, Now, Types
  <2> HIDE DEF e
  <2>4. InOrder(Inserted(events, e), 0)
    BY <1>0, <2>2, <2>3, InOrderInserted
  <2> QED
    BY <2>3, <2>4
<1>13. CASE TickDone
  <2>1. UNCHANGED events /\ Now = 0 /\ Now' = 1 /\ (events # <<>> => Head(events).due > 0)
    BY <1>13 DEF TickDone, Now
  <2>2. \A i \in 1..Len(events) : events[i].due >= 1
    <3> TAKE i \in 1..Len(events)
    <3>1. events # <<>> /\ events \in Seq(Events)
      BY <1>0 DEF Types
    <3>2. Head(events) = events[1] /\ 1 \in 1..Len(events) /\ i \in Nat /\ i >= 1
      BY <3>1, TailIs
    <3>3. events[1].due \in Int /\ events[i].due \in Int /\ events[1].due > 0
      BY <1>0, <2>1, <3>1, <3>2, QueueIs
    <3>4. i = 1 \/ events[1].due <= events[i].due
      BY <1>0, <3>2 DEF InOrder, Sorted
    <3> QED
      BY <3>3, <3>4
  <2> QED
    BY <1>0, <2>1, <2>2 DEF InOrder
<1>14. CASE NextPhase
  <2>1. Now = 1 /\ Now' = 0
    BY <1>14 DEF NextPhase, Now
  <2>2. Len(events') = Len(events) /\ \A i \in 1..Len(events) : events'[i].due = events[i].due - 1
    BY <1>0, <1>14, NearerIs DEF Types, NextPhase
  <2>3. \A i \in 1..Len(events) : events[i].due \in Int
    BY <1>0, QueueIs
  <2> QED
    BY <1>0, <2>1, <2>2, <2>3 DEF InOrder, Sorted
<1>15. CASE UNCHANGED vars
  BY <1>1, <1>15 DEF vars
<1> QED
  BY <1>3, <1>4, <1>5, <1>6, <1>7, <1>8, <1>9, <1>10, <1>11, <1>12, <1>13, <1>14, <1>15
     DEF Next, EndOfPhase, ControlThread, App, Magic


\* The FFI events after an insertion.
LEMMA InsertedFFI ==
    ASSUME NEW q \in Seq(Events), NEW e \in Events, OneEach(q), e.kind = "ffi" => ~HasIn(q, e.proc)
    PROVE  /\ OneEach(Inserted(q, e))
           /\ \A p : HasIn(Inserted(q, e), p) <=> HasIn(q, p) \/ (e.kind = "ffi" /\ p = e.proc)
<1> DEFINE q2 == Inserted(q, e)
<1>1. /\ \A i \in 1..Len(q2) : q2[i] = e \/ \E j \in 1..Len(q) : q2[i] = q[j]
      /\ \A j \in 1..Len(q) : \E i \in 1..Len(q2) : q2[i] = q[j]
      /\ \E i \in 1..Len(q2) : q2[i] = e
  BY InsertedHas
<1>2. PICK at \in 1..(Len(q) + 1) : Comes(q, q2, e, at)
  BY InsertedIs
<1>3. Len(q) \in Nat
  OBVIOUS
<1> HIDE DEF q2
<1>4. \A p : HasIn(q2, p) <=> HasIn(q, p) \/ (e.kind = "ffi" /\ p = e.proc)
  BY <1>1 DEF HasIn
<1>5. OneEach(q2)
  <2> SUFFICES ASSUME NEW i \in 1..Len(q2), NEW j \in 1..Len(q2),
                      q2[i].kind = "ffi", q2[j].kind = "ffi", q2[i].proc = q2[j].proc
               PROVE  i = j
    BY DEF OneEach
  <2> DEFINE Was(k) == IF k < at THEN k ELSE k - 1
  <2>1. \A k \in 1..Len(q2) : k = at \/ (Was(k) \in 1..Len(q) /\ q2[k] = q[Was(k)])
    BY <1>2, <1>3 DEF Comes
  <2>2. \A k \in 1..Len(q2) : k = at => q2[k] = e
    BY <1>2, <1>3 DEF Comes
  <2>3. CASE i = at \/ j = at
    <3>1. \A k \in 1..Len(q2) : k # at /\ q2[k].kind = "ffi" => HasIn(q, q2[k].proc)
      BY <2>1 DEF HasIn
    <3> QED
      BY <2>2, <2>3, <3>1
  <2>4. CASE i # at /\ j # at
    <3>1. Was(i) = Was(j)
      BY <2>1, <2>4 DEF OneEach
    <3>2. i \in Nat /\ j \in Nat /\ at \in Nat
      BY <1>2, <1>3 DEF Comes
    <3> QED
      BY <2>4, <3>1, <3>2
  <2> QED
    BY <2>3, <2>4
<1> QED
  BY <1>4, <1>5 DEF q2

\* The FFI events after the first event has left the queue.
LEMMA TailFFI ==
    ASSUME NEW q \in Seq(Events), q # <<>>, OneEach(q)
    PROVE  /\ OneEach(Tail(q))
           /\ \A p : HasIn(Tail(q), p) <=> HasIn(q, p) /\ ~(Head(q).kind = "ffi" /\ Head(q).proc = p)
<1> DEFINE q2 == Tail(q)
<1>1. /\ Len(q) \in Nat \ {0} /\ Head(q) = q[1] /\ Len(q2) = Len(q) - 1
      /\ \A i \in 1..(Len(q) - 1) : q2[i] = q[i + 1] /\ i + 1 \in 1..Len(q)
  BY TailIs
<1> HIDE DEF q2
<1>2. OneEach(q2)
  <2> SUFFICES ASSUME NEW i \in 1..Len(q2), NEW j \in 1..Len(q2),
                      q2[i].kind = "ffi", q2[j].kind = "ffi", q2[i].proc = q2[j].proc
               PROVE  i = j
    BY DEF OneEach
  <2>1. i + 1 = j + 1
    BY <1>1 DEF OneEach
  <2> QED
    BY <1>1, <2>1
<1>3. ASSUME NEW p, HasIn(q2, p) PROVE HasIn(q, p) /\ ~(Head(q).kind = "ffi" /\ Head(q).proc = p)
  <2>1. PICK i \in 1..Len(q2) : q2[i].kind = "ffi" /\ q2[i].proc = p
    BY <1>3 DEF HasIn
  <2>2. i + 1 \in 1..Len(q) /\ q[i + 1].kind = "ffi" /\ q[i + 1].proc = p /\ 1 \in 1..Len(q) /\ i + 1 # 1
    BY <1>1, <2>1
  <2> QED
    BY <1>1, <2>2 DEF HasIn, OneEach
<1>4. ASSUME NEW p, HasIn(q, p), ~(Head(q).kind = "ffi" /\ Head(q).proc = p) PROVE HasIn(q2, p)
  <2>1. PICK i \in 1..Len(q) : q[i].kind = "ffi" /\ q[i].proc = p
    BY <1>4 DEF HasIn
  <2>2. i - 1 \in 1..Len(q2) /\ (i - 1) + 1 = i
    BY <1>1, <1>4, <2>1
  <2>3. q2[i - 1] = q[i]
    BY <1>1, <2>2
  <2> QED
    BY <2>1, <2>2, <2>3 DEF HasIn
<1> QED
  BY <1>2, <1>3, <1>4 DEF q2

\* What FFI says of process p, given whether it has an event in the queue and
\* one that runs, whether it is in fast-forward, and where its thread is.
Fits(p, queued, firing, in, at) ==
    /\ queued \/ firing => p \in setup.ffi /\ ~in /\ at \notin {"ff", "track"}
    /\ at = "track" => p \in setup.ffi /\ ~in
    /\ at = "ff" /\ p \in setup.ffi => in
    /\ firing => ~queued

\* FFI in these words.
FFIFits == (\A p \in Procs : Fits(p, HasIn(events, p), Firing(p), inFF[p], app[p])) /\ OneEach(events)

\* It says the same.
LEMMA FFIIs == FFI <=> FFIFits
  BY DEF FFI, FFIFits, Fits, HasFFI

\* A process of FFI is neither toggled nor has it magic ops.
LEMMA AloneIs ==
    ASSUME FFIAlone, Types, NEW p \in setup.ffi
    PROVE  p \notin setup.magic /\ setup.toggles[p] = 0
BY DEF FFIAlone, Types

\* Every step keeps FFI's events and modes together.
LEMMA FFIKept == FFIAlone /\ Inv /\ Untoggled /\ FFI /\ [Next]_vars => FFIFits'
<1> SUFFICES ASSUME FFIAlone, Inv, Untoggled, FFI, [Next]_vars
             PROVE  FFIFits'
  OBVIOUS
<1>0. Types /\ Callback /\ Syncs /\ FFIFits /\ setup' = setup
  <2>1. setup' = setup
    BY DEF Next, EndOfPhase, ControlThread, App, Magic, ToggleBegin, ToggleEnd, AppJoins, AppArrives,
           AppReturns, AppNotices, FFITracks, RoiBegin, RoiEnd, Heartbeat, FFIExits,
           ControlRequest, ControlTries, ControlDecides, ControlInserts, ControlEnters,
           PhaseOver, Tick, NextEvent, SyncDone, DumpDone, FFIAgain, FFIReached, FFIFires, TickDone,
           NextPhase, vars
  <2> QED
    BY <2>1, FFIIs DEF Inv
<1>1. ASSUME UNCHANGED <<events, current, inFF, app>> PROVE FFIFits'
  BY <1>0, <1>1 DEF FFIFits, Fits, HasIn, Firing, OneEach
<1>2. ASSUME UNCHANGED events, NEW p \in Procs,
             \A q \in Procs \ {p} : inFF'[q] = inFF[q] /\ app'[q] = app[q],
             \A q \in Procs \ {p} : Firing(q)' <=> Firing(q),
             Fits(p, HasIn(events, p), Firing(p)', inFF'[p], app'[p])
      PROVE  FFIFits'
  <2>1. \A q \in Procs : HasIn(events', q) <=> HasIn(events, q)
    BY <1>2
  <2>2. \A q \in Procs : Fits(q, HasIn(events, q), Firing(q)', inFF'[q], app'[q])
    BY <1>0, <1>2 DEF FFIFits, Fits
  <2> QED
    BY <1>0, <1>2, <2>1, <2>2 DEF FFIFits, Fits
<1>3. ASSUME NEW e \in Events, e.kind # "ffi", Insert(e), UNCHANGED <<current, inFF, app>>
      PROVE  FFIFits'
  <2>1. events \in Seq(Events) /\ OneEach(events) /\ events' = Inserted(events, e)
    BY <1>0, <1>3 DEF Types, FFIFits, Insert
  <2>2. OneEach(events') /\ \A p : HasIn(events', p) <=> HasIn(events, p)
    BY <1>3, <2>1, InsertedFFI
  <2>3. \A p \in Procs : Firing(p)' <=> Firing(p)
    BY <1>3 DEF Firing
  <2> QED
    BY <1>0, <1>3, <2>2, <2>3 DEF FFIFits, Fits
<1>4. ASSUME NEW p \in Procs, ToggleBegin(p) \/ ToggleEnd(p) \/ ControlRequest(p) \/ ControlTries(p)
      PROVE  FFIFits'
  <2>1. UNCHANGED <<events, current, inFF, app>>
    BY <1>4 DEF ToggleBegin, ToggleEnd, ControlRequest, ControlTries
  <2> QED
    BY <1>1, <2>1
<1>5. ASSUME NEW p \in Procs, ControlDecides(p) \/ RoiBegin(p) \/ RoiEnd(p) PROVE FFIFits'
  <2>1. p \notin setup.ffi
    BY <1>0, <1>5, AloneIs DEF ControlDecides, RoiBegin, RoiEnd, Untoggled
  <2>2. UNCHANGED <<events, current, app>> /\ \A q \in Procs \ {p} : inFF'[q] = inFF[q]
    BY <1>0, <1>5 DEF Types, ControlDecides, RoiBegin, RoiEnd, ExitFastForward, EnterFastForward
  <2>3. \A q \in Procs : Firing(q)' <=> Firing(q)
    BY <2>2 DEF Firing
  <2>4. Fits(p, HasIn(events, p), Firing(p)', inFF'[p], app'[p])
    BY <1>0, <2>1, <2>2, <2>3 DEF FFIFits, Fits
  <2> QED
    BY <1>2, <2>2, <2>3, <2>4
<1>6. ASSUME NEW p \in Procs, ControlInserts(p) PROVE FFIFits'
  <2>1. Insert(Event("sync", p, 0)) /\ UNCHANGED <<current, inFF, app>>
    BY <1>6 DEF ControlInserts
  <2>2. Event("sync", p, 0) \in Events /\ Event("sync", p, 0).kind # "ffi"
    BY EventIs
  <2> QED
    BY <1>3, <2>1, <2>2
<1>7. ASSUME NEW p \in Procs, ControlEnters(p) PROVE FFIFits'
  <2>1. p \notin setup.ffi
    BY <1>0, <1>7, AloneIs DEF ControlEnters, Untoggled
  <2>2. UNCHANGED <<events, app>> /\ \A q \in Procs \ {p} : inFF'[q] = inFF[q]
    BY <1>0, <1>7 DEF Types, ControlEnters, EnterFastForward
  <2>3. ender = "callback" /\ current.kind = "sync" /\ current' = [current EXCEPT !.kind = "left"]
    BY <1>0, <1>7 DEF Syncs, ControlEnters, Signalled
  <2>4. current'.kind = "left"
    BY <1>0, <2>3, CurrentIs DEF Event
  <2>5. \A q \in Procs : Firing(q)' <=> Firing(q)
    BY <2>3, <2>4 DEF Firing
  <2>6. Fits(p, HasIn(events, p), Firing(p)', inFF'[p], app'[p])
    BY <1>0, <2>1, <2>2, <2>5 DEF FFIFits, Fits
  <2> QED
    BY <1>2, <2>2, <2>5, <2>6
<1>8. ASSUME NEW p \in Procs, AppJoins(p) \/ AppArrives(p) \/ AppReturns(p) \/ AppNotices(p) \/ FFIExits(p)
      PROVE  FFIFits'
  <2>1. /\ UNCHANGED <<events, current>>
        /\ \A q \in Procs \ {p} : inFF'[q] = inFF[q] /\ app'[q] = app[q]
    BY <1>0, <1>8 DEF Types, AppJoins, AppArrives, AppReturns, AppNotices, FFIExits, ExitFastForward
  <2>2. \A q \in Procs : Firing(q)' <=> Firing(q)
    BY <2>1 DEF Firing
  <2>3. Fits(p, HasIn(events, p), Firing(p), inFF[p], app[p])
    BY <1>0 DEF FFIFits
  <2>4. CASE AppJoins(p) \/ AppArrives(p) \/ AppReturns(p) \/ AppNotices(p)
    <3>1. inFF'[p] = inFF[p] /\ app'[p] \in {"sim", "barrier", "ff", "join"} /\ app[p] # "track"
      BY <1>0, <2>4 DEF Types, AppJoins, AppArrives, AppReturns, AppNotices, AfterBarrier
    <3>2. app'[p] = "ff" => inFF[p]
      BY <1>0, <2>4 DEF Types, AppJoins, AppArrives, AppReturns, AppNotices, AfterBarrier
    <3>3. Fits(p, HasIn(events, p), Firing(p)', inFF'[p], app'[p])
      BY <2>2, <2>3, <3>1, <3>2 DEF Fits
    <3> QED
      BY <1>2, <2>1, <2>2, <3>3
  <2>5. CASE FFIExits(p)
    <3>1. p \in setup.ffi /\ app[p] = "ff" /\ inFF'[p] = FALSE /\ app'[p] = "track"
      BY <1>0, <2>5 DEF Types, FFIExits, ExitFastForward
    <3>2. Fits(p, HasIn(events, p), Firing(p)', inFF'[p], app'[p])
      BY <2>2, <2>3, <3>1 DEF Fits
    <3> QED
      BY <1>2, <2>1, <2>2, <3>2
  <2> QED
    BY <1>8, <2>4, <2>5
<1>9. ASSUME NEW p \in Procs, FFITracks(p) PROVE FFIFits'
  <2>1. PICK period \in 1..2 : Insert(Event("ffi", p, period))
    BY <1>9 DEF FFITracks
  <2> DEFINE e == Event("ffi", p, period)
  <2>2. e \in Events /\ e.kind = "ffi" /\ e.proc = p
    BY EventIs
  <2>3. /\ events \in Seq(Events) /\ OneEach(events) /\ events' = Inserted(events, e)
        /\ app[p] = "track" /\ UNCHANGED <<current, inFF>> /\ app' = [app EXCEPT ![p] = "join"]
    BY <1>0, <1>9, <2>1 DEF Types, FFIFits, FFITracks, Insert
  <2>4. Fits(p, HasIn(events, p), Firing(p), inFF[p], app[p])
    BY <1>0 DEF FFIFits
  <2>5. ~HasIn(events, p) /\ ~Firing(p) /\ p \in setup.ffi /\ ~inFF[p]
    BY <2>3, <2>4 DEF Fits
  <2> HIDE DEF e
  <2>6. OneEach(events') /\ \A q : HasIn(events', q) <=> HasIn(events, q) \/ q = p
    BY <2>2, <2>3, <2>5, InsertedFFI
  <2>7. \A q \in Procs : Firing(q)' <=> Firing(q)
    BY <2>3 DEF Firing
  <2>8. app'[p] = "join" /\ \A q \in Procs \ {p} : app'[q] = app[q]
    BY <1>0, <2>3 DEF Types
  <2>9. Fits(p, HasIn(events', p), Firing(p)', inFF'[p], app'[p])
    BY <2>3, <2>5, <2>7, <2>8 DEF Fits
  <2>10. \A q \in Procs \ {p} : Fits(q, HasIn(events', q), Firing(q)', inFF'[q], app'[q])
    BY <1>0, <2>3, <2>6, <2>7, <2>8 DEF FFIFits, Fits
  <2> QED
    BY <1>0, <2>6, <2>9, <2>10 DEF FFIFits, Fits
<1>10. ASSUME NEW p \in Procs, Heartbeat(p) PROVE FFIFits'
  <2>1. Insert(Event("dump", p, 0)) /\ UNCHANGED <<current, inFF, app>>
    BY <1>10 DEF Heartbeat
  <2>2. Event("dump", p, 0) \in Events /\ Event("dump", p, 0).kind # "ffi"
    BY EventIs
  <2> QED
    BY <1>3, <2>1, <2>2
<1>11. CASE PhaseOver \/ Tick \/ TickDone
  <2>1. UNCHANGED <<events, current, inFF, app>>
    BY <1>11 DEF PhaseOver, Tick, TickDone
  <2> QED
    BY <1>1, <2>1
<1>12. CASE NextEvent
  <2>1. /\ events \in Seq(Events) /\ events # <<>> /\ OneEach(events) /\ events' = Tail(events)
        /\ current' = Head(events) /\ current = NoEvent /\ UNCHANGED <<inFF, app>>
    BY <1>0, <1>12 DEF Types, FFIFits, NextEvent, Callback
  <2>2. /\ OneEach(events')
        /\ \A p : HasIn(events', p) <=> HasIn(events, p) /\ ~(current'.kind = "ffi" /\ current'.proc = p)
    BY <2>1, TailFFI
  <2>3. current' \in Events /\ (current'.kind = "ffi" => HasIn(events, current'.proc))
    <3>1. 1 \in 1..Len(events) /\ current' = events[1] /\ Head(events) \in Events
      BY <2>1, TailIs
    <3> QED
      BY <2>1, <3>1 DEF HasIn
  <2>4. \A p \in Procs : /\ ~Firing(p)
                         /\ Firing(p)' <=> current'.kind = "ffi" /\ current'.proc = p
    BY <2>1, <2>3 DEF Firing, NoEvent, Event, Events
  <2> QED
    BY <1>0, <2>1, <2>2, <2>3, <2>4 DEF FFIFits, Fits
<1>13. CASE SyncDone \/ DumpDone
  <2>1. /\ UNCHANGED <<events, inFF, app>> /\ current' = NoEvent
        /\ current.kind \in {"left", "dump"}
    BY <1>13 DEF SyncDone, DumpDone, Left
  <2>2. \A p \in Procs : ~Firing(p) /\ ~Firing(p)'
    BY <2>1 DEF Firing, NoEvent, Event
  <2> QED
    BY <1>0, <2>1, <2>2 DEF FFIFits, Fits
<1>14. CASE FFIAgain
  <2>1. PICK period \in 1..2 : events' = Inserted(events, [current EXCEPT !.due = period])
    BY <1>14 DEF FFIAgain
  <2> DEFINE e == [current EXCEPT !.due = period]
             p == current.proc
  <2>2. ender = "callback" /\ current.kind = "ffi" /\ current' = NoEvent /\ UNCHANGED <<inFF, app>>
    BY <1>14 DEF FFIAgain
  <2>3. e \in Events /\ e.kind = "ffi" /\ e.proc = p /\ p \in Procs
    BY <1>0, <2>2, CurrentIs DEF Events, Event
  <2>4. Firing(p) /\ ~HasIn(events, p)
    BY <1>0, <2>2, <2>3 DEF Firing, FFIFits, Fits
  <2>5. events \in Seq(Events) /\ OneEach(events) /\ events' = Inserted(events, e)
    BY <1>0, <2>1 DEF Types, FFIFits
  <2> HIDE DEF e
  <2>6. OneEach(events') /\ \A q : HasIn(events', q) <=> HasIn(events, q) \/ q = p
    BY <2>3, <2>4, <2>5, InsertedFFI
  <2>7. \A q \in Procs : ~Firing(q)' /\ (Firing(q) <=> q = p)
    BY <2>2, <2>4 DEF Firing, NoEvent, Event
  <2> HIDE DEF p
  <2> QED
    BY <1>0, <2>2, <2>6, <2>7 DEF FFIFits, Fits
<1>15. CASE FFIReached
  <2>1. /\ ender = "callback" /\ current.kind = "ffi" /\ current' = [current EXCEPT !.kind = "fire"]
        /\ UNCHANGED <<events, inFF, app>>
    BY <1>15 DEF FFIReached
  <2>2. current'.kind = "fire" /\ current'.proc = current.proc
    BY <1>0, <2>1, CurrentIs DEF Event
  <2>3. \A q \in Procs : Firing(q)' <=> Firing(q)
    BY <2>1, <2>2 DEF Firing
  <2> QED
    BY <1>0, <2>1, <2>3 DEF FFIFits, Fits
<1>16. CASE FFIFires
  <2>0. PICK p \in Procs : p = current.proc
    BY <1>0, <1>16, CurrentIs DEF FFIFires
  <2>1. /\ ender = "callback" /\ current.kind = "fire" /\ current' = NoEvent
        /\ UNCHANGED <<events, app>> /\ inFF' = [inFF EXCEPT ![p] = TRUE]
    BY <1>16, <2>0 DEF FFIFires, EnterFastForward
  <2>2. Firing(p) /\ \A q \in Procs : ~Firing(q)' /\ (Firing(q) <=> q = p)
    BY <2>0, <2>1 DEF Firing, NoEvent, Event
  <2>3. ~HasIn(events, p) /\ app[p] # "track" /\ p \in setup.ffi
    BY <1>0, <2>2 DEF FFIFits, Fits
  <2>4. inFF'[p] /\ \A q \in Procs \ {p} : inFF'[q] = inFF[q]
    BY <1>0, <2>1, <2>2 DEF Types
  <2>5. Fits(p, HasIn(events, p), Firing(p)', inFF'[p], app'[p])
    BY <2>1, <2>2, <2>3, <2>4 DEF Fits
  <2>6. \A q \in Procs \ {p} : Firing(q)' <=> Firing(q)
    BY <2>2
  <2> QED
    BY <1>2, <2>1, <2>2, <2>4, <2>5, <2>6
<1>17. CASE NextPhase
  <2>1. /\ Len(events') = Len(events)
        /\ \A i \in 1..Len(events) : events'[i].kind = events[i].kind /\ events'[i].proc = events[i].proc
    BY <1>0, <1>17, NearerIs DEF Types, NextPhase
  <2>2. OneEach(events') /\ \A p \in Procs : HasIn(events', p) <=> HasIn(events, p)
    BY <1>0, <2>1 DEF FFIFits, OneEach, HasIn
  <2>3. UNCHANGED <<inFF, current>>
        /\ \A p \in Procs : app'[p] = app[p] \/ (app[p] = "barrier" /\ app'[p] = "returning")
    BY <1>17 DEF NextPhase
  <2>4. \A p \in Procs : Firing(p)' <=> Firing(p)
    BY <2>3 DEF Firing
  <2> QED
    BY <1>0, <2>2, <2>3, <2>4 DEF FFIFits, Fits
<1>18. CASE UNCHANGED vars
  BY <1>1, <1>18 DEF vars
<1> QED
  BY <1>4, <1>5, <1>6, <1>7, <1>8, <1>9, <1>10, <1>11, <1>12, <1>13, <1>14, <1>15, <1>16, <1>17, <1>18
     DEF Next, EndOfPhase, ControlThread, App, Magic


\* No step fails an assertion.
LEMMA PanicKept ==
    FFIAlone /\ Inv /\ Untoggled /\ Ordered /\ FFI /\ ~panicked /\ [Next]_vars => ~panicked'
<1> SUFFICES ASSUME FFIAlone, Inv, Untoggled, Ordered, FFI, ~panicked, [Next]_vars
             PROVE  ~panicked'
  OBVIOUS
<1>0. Types /\ Callback /\ FFIFits
  BY FFIIs DEF Inv
<1>1. ASSUME UNCHANGED panicked PROVE ~panicked'
  BY <1>1
<1>2. ASSUME NEW p \in Procs, ToggleBegin(p) \/ ToggleEnd(p) \/ ControlRequest(p) \/ ControlTries(p)
      PROVE  ~panicked'
  BY <1>1, <1>2 DEF ToggleBegin, ToggleEnd, ControlRequest, ControlTries
<1>3. ASSUME NEW p \in Procs,
             ControlDecides(p) \/ ControlInserts(p) \/ ControlEnters(p) \/ RoiBegin(p) \/ RoiEnd(p)
      PROVE  ~panicked'
  BY <1>1, <1>3 DEF ControlDecides, ControlInserts, ControlEnters, RoiBegin, RoiEnd, StillOutside,
                    ExitFastForward, EnterFastForward, Asserts
<1>4. ASSUME NEW p \in Procs, AppJoins(p) \/ AppArrives(p) \/ AppReturns(p) \/ AppNotices(p) \/ Heartbeat(p)
      PROVE  ~panicked'
  BY <1>1, <1>4 DEF AppJoins, AppArrives, AppReturns, AppNotices, Heartbeat
<1>5. ASSUME NEW p \in Procs, FFIExits(p) \/ FFITracks(p) PROVE ~panicked'
  <2>1. FFIExits(p) => inFF[p]
    BY <1>0 DEF FFIExits, FFIFits, Fits
  <2>2. FFITracks(p) => ~inFF[p]
    BY <1>0 DEF FFITracks, FFIFits, Fits
  <2> QED
    BY <1>5, <2>1, <2>2 DEF FFIExits, FFITracks, ExitFastForward, Asserts
<1>6. CASE NextEvent
  <2>1. events \in Seq(Events) /\ events # <<>> /\ Head(events).due <= 0
    BY <1>0, <1>6 DEF Types, NextEvent
  <2>2. Head(events) = events[1] /\ 1 \in 1..Len(events)
    BY <2>1, TailIs
  <2>3. Head(events).due \in Int /\ Head(events).due >= 0
    BY <1>0, <2>2, QueueIs DEF Ordered
  <2>4. PICK due : due = Head(events).due
    OBVIOUS
  <2>5. due = 0
    BY <2>1, <2>3, <2>4
  <2>6. Head(events).due = 0
    BY <2>4, <2>5, Zenon
  <2>7. panicked' = (panicked \/ ~(Head(events).due = 0))
    BY <1>6, Zenon DEF NextEvent, Asserts
  <2> QED
    BY <2>6, <2>7, Zenon
<1>7. CASE FFIFires
  <2>1. current.kind = "fire" /\ current.proc \in Procs
    BY <1>0, <1>7, CurrentIs DEF FFIFires
  <2>2. ~inFF[current.proc]
    BY <1>0, <2>1 DEF Firing, FFIFits, Fits
  <2> QED
    BY <1>7, <2>2 DEF FFIFires, EnterFastForward, Asserts
<1>8. CASE PhaseOver \/ Tick \/ SyncDone \/ DumpDone \/ FFIAgain \/ FFIReached \/ TickDone \/ NextPhase
  BY <1>1, <1>8 DEF PhaseOver, Tick, SyncDone, DumpDone, FFIAgain, FFIReached, TickDone, NextPhase
<1>9. CASE UNCHANGED vars
  BY <1>1, <1>9 DEF vars
<1> QED
  BY <1>2, <1>3, <1>4, <1>5, <1>6, <1>7, <1>8, <1>9 DEF Next, EndOfPhase, ControlThread, App, Magic

\* Nothing is queued at the start, and each thread starts in its process's mode.
LEMMA InitOrderly == Init => OrderlyInv
<1> SUFFICES ASSUME Init
             PROVE  OrderlyInv
  OBVIOUS
<1>1. Inv
  BY InitHolds
<1>2. events = <<>> /\ current = NoEvent /\ panicked = FALSE
  BY DEF Init
<1>3. Ordered
  BY <1>2 DEF Ordered
<1>4. \A p : ~HasIn(events, p) /\ ~Firing(p)
  BY <1>2 DEF HasIn, Firing, NoEvent, Event
<1>5. OneEach(events)
  BY <1>2 DEF OneEach
<1>6. FFI
  BY <1>4, <1>5 DEF Init, FFI, HasFFI
<1>7. Untoggled
  BY DEF Init, Untoggled, FreeFutex
<1> QED
  BY <1>1, <1>2, <1>3, <1>6, <1>7 DEF OrderlyInv

\* Every step keeps the invariant for setups that leave FFI alone.
LEMMA OrderlyKept == ~LateInserts /\ FFIAlone /\ OrderlyInv /\ [Next]_vars => OrderlyInv'
<1> SUFFICES ASSUME ~LateInserts, FFIAlone, OrderlyInv, [Next]_vars
             PROVE  OrderlyInv'
  OBVIOUS
<1>1. Inv' /\ Ordered' /\ Untoggled' /\ ~panicked'
  BY StepKeeps, OrderedKept, UntoggledKept, PanicKept DEF OrderlyInv
<1>2. FFIFits'
  BY FFIKept DEF OrderlyInv
<1>3. FFI'
  BY <1>2 DEF FFIFits, Fits, FFI, HasFFI
<1> QED
  BY <1>1, <1>3 DEF OrderlyInv

\* No assertion of fast-forwarding fails and no event comes late, if nothing
\* is queued between the queue's tick and the next phase, and processes that
\* use FFI are not told otherwise to fast-forward.
THEOREM FastForwardNeverPanics ==
    ASSUME ~LateInserts, FFIAlone
    PROVE  Spec => []NoPanic
<1>1. OrderlyInv /\ [Next]_vars => OrderlyInv'
  BY OrderlyKept
<1>2. OrderlyInv => NoPanic
  BY DEF OrderlyInv, NoPanic
<1> QED
  BY <1>1, <1>2, InitOrderly, PTL DEF Spec
=============================================================================
