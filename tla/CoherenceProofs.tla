--------------------------- MODULE CoherenceProofs ---------------------------
(***************************************************************************)
(* The inductive invariant of Coherence, for every tree of caches: what    *)
(* the calls in progress and the locks look like (Threads), what each call *)
(* relies on (Calling), that lines are where their tags say (Typed, Tags), *)
(* that the directories tell the truth but for permissions that are asked  *)
(* for (Directories), and inclusion (Included).                            *)
(*                                                                         *)
(* First come the threads' stacks and locks, then the arrays, the          *)
(* directories and what a step may change in them, then the steps.  What   *)
(* follows from the invariant comes last: inclusion and exact directories, *)
(* a single writer, no set of threads that waits for one another, and,     *)
(* with a stronger invariant, what the filters may answer and where the    *)
(* writes are that memory has yet to see.                                  *)
(***************************************************************************)
EXTENDS Coherence, FiniteSetTheorems, SequenceTheorems, WellFoundedInduction, TLAPS

\* The distance of each cache from the root.
Depth == CHOOSE depth \in [Caches -> 0..Cardinality(Caches)] :
             \A c \in Caches \ {Root} : depth[c] = depth[Parent[c]] + 1

-----------------------------------------------------------------------------
(* Stacks                                                                  *)

\* The same call, but for what it knows of written data.
Alike(f, g) ==
    /\ f.at = g.at /\ f.op = g.op /\ f.line = g.line /\ f.from = g.from
    /\ f.init = g.init /\ f.way = g.way /\ f.pc = g.pc

\* s2 is s with f in place of its top.
Retopped(s, s2, f) ==
    /\ Len(s2) = Len(s)
    /\ \A i \in 1..Len(s) : s2[i] = IF i = Len(s) THEN f ELSE s[i]

\* s2 is s with f in place of its top, and g on top of that.
Pushed(s, s2, f, g) ==
    /\ Len(s2) = Len(s) + 1
    /\ \A i \in 1..Len(s) : s2[i] = IF i = Len(s) THEN f ELSE s[i]
    /\ s2[Len(s) + 1] = g

\* s2 is s without its top; the calls below may have learnt of written data.
Popped(s, s2) ==
    /\ Len(s2) = Len(s) - 1
    /\ \A i \in 1..(Len(s) - 1) : Alike(s2[i], s[i])

\* The top of a stack lies above Len(s) - 1 other calls.
LEMMA FrontIs ==
    ASSUME NEW S, NEW s \in Seq(S), s # <<>>
    PROVE  /\ Len(s) \in Nat \ {0}
           /\ Last(s) = s[Len(s)] /\ Last(s) \in S
           /\ Front(s) \in Seq(S)
           /\ Len(Front(s)) = Len(s) - 1
           /\ \A i \in 1..(Len(s) - 1) : Front(s)[i] = s[i]
<1>1. Len(s) \in Nat \ {0}
  OBVIOUS
<1>2. \A i \in 1..Len(s) : s[i] \in S
  OBVIOUS
<1>3. Front(s) \in Seq(S) /\ Len(Front(s)) = Len(s) - 1
  BY <1>1, <1>2, SubSeqProperties DEF Front
<1>4. \A i \in 1..(Len(s) - 1) : Front(s)[i] = s[i]
  BY <1>1, <1>2, SubSeqProperties DEF Front
<1> QED
  BY <1>1, <1>2, <1>3, <1>4 DEF Last

\* Going on with the innermost call replaces the top.
LEMMA GoesIs ==
    ASSUME NEW S, NEW s \in Seq(S), s # <<>>, NEW f \in S
    PROVE  LET s2 == Append(Front(s), f)
           IN  s2 \in Seq(S) /\ Retopped(s, s2, f)
<1>1. /\ Len(s) \in Nat \ {0} /\ Front(s) \in Seq(S)
      /\ Len(Front(s)) = Len(s) - 1
      /\ \A i \in 1..(Len(s) - 1) : Front(s)[i] = s[i]
  BY FrontIs
<1> QED
  BY <1>1 DEF Retopped

\* Making a call from it replaces the top and puts one more on it.
LEMMA CallsIs ==
    ASSUME NEW S, NEW s \in Seq(S), s # <<>>, NEW f \in S, NEW g \in S
    PROVE  LET s2 == Append(Append(Front(s), f), g)
           IN  s2 \in Seq(S) /\ Pushed(s, s2, f, g)
<1> DEFINE r == Append(Front(s), f)
           s2 == Append(r, g)
<1>1. r \in Seq(S) /\ Retopped(s, r, f) /\ Len(s) \in Nat \ {0}
  BY GoesIs, FrontIs
<1> HIDE DEF r
<1>2. s2 \in Seq(S) /\ Len(s2) = Len(s) + 1
  BY <1>1 DEF Retopped
<1>3. \A i \in 1..Len(s) : s2[i] = r[i]
  BY <1>1 DEF Retopped
<1>4. s2[Len(s) + 1] = g
  BY <1>1 DEF Retopped
<1>5. Pushed(s, s2, f, g)
  BY <1>1, <1>2, <1>3, <1>4 DEF Pushed, Retopped
<1> QED
  BY <1>2, <1>5 DEF r

\* Returning from it takes the top off.
LEMMA ReturnsIs ==
    ASSUME NEW S, NEW s \in Seq(S), s # <<>>
    PROVE  Front(s) \in Seq(S) /\ Popped(s, Front(s))
BY FrontIs DEF Popped, Alike

-----------------------------------------------------------------------------
(* What the calls in progress look like                                    *)

\* Call i of the stack s holds the bcc lock of its cache: it works there, or
\* it sends invalidations from there.
HoldsBcc(s, i) ==
    \/ s[i].pc \in {"evict", "access", "end", "down"}
    \/ s[i].pc \in {"grant", "evicted"} /\ (i = Len(s) \/ s[i + 1].op \in Invs)

\* Call i of s holds its tcc lock: any access does, once past it, but in an L1.
HoldsTcc(s, i) == s[i].op \notin Invs /\ s[i].at \notin Leaves /\ s[i].pc # "tcc"

\* The caches whose bcc locks the calls of s hold.
HeldBcc(s) == {c \in Caches : \E i \in 1..Len(s) : s[i].at = c /\ HoldsBcc(s, i)}

\* The caches whose tcc locks the calls of s hold.
HeldTcc(s) == {c \in Caches : \E i \in 1..Len(s) : s[i].at = c /\ HoldsTcc(s, i)}

\* Where a call of each kind may be, and which line it has chosen.
Placed(f) ==
    /\ f.op \in Invs => f.pc \in {"bcc", "down"}
    /\ f.op \notin Invs => f.pc # "down"
    /\ f.op \in Puts => f.pc \notin {"evict", "evicted"}
    /\ f.pc = "tcc" => f.at \notin Leaves
    /\ f.pc \in {"evict", "evicted", "access", "grant", "down"} => f.way \in Ways[f.at]

\* Call f was made by call g: a miss or a writeback to the cache above, or an
\* invalidation of a child.
Linked(g, f) ==
    \/ /\ f.op \in Gets /\ g.op = f.op /\ g.pc = "grant"
       /\ g.at # Root /\ f.at = Parent[g.at] /\ f.from = g.at /\ f.line = g.line
    \/ /\ f.op \in Puts /\ g.op \in Gets /\ g.pc = "evicted"
       /\ g.at # Root /\ f.at = Parent[g.at] /\ f.from = g.at
    \/ /\ f.op \in Invs /\ f.at \in Children(g.at)
       /\ \/ g.pc = "evict" /\ f.op = "INV"
          \/ /\ g.pc = "grant" /\ g.op \in Gets /\ f.line = g.line
             /\ f.op = IF g.op = "GETX" THEN "INV" ELSE "INVX"
          \/ g.pc = "down" /\ f.op = g.op /\ f.line = g.line

\* Accesses climb, and invalidations descend from the last access.
Order(s) ==
    \A i, j \in 1..Len(s) : i < j =>
        /\ s[j].op \notin Invs => s[i].op \notin Invs /\ Depth[s[i].at] > Depth[s[j].at]
        /\ HoldsBcc(s, i) => s[j].op \in Invs /\ Depth[s[i].at] < Depth[s[j].at]

\* Each call was made by the one below it, and the first by the core.
Chain(p, s) ==
    \A i \in 1..Len(s) :
        /\ Placed(s[i])
        /\ i = 1 => s[i].op \in Gets /\ s[i].at = p /\ s[i].from = None
        /\ i > 1 => Linked(s[i - 1], s[i])
        /\ i < Len(s) => s[i].pc \in {"evict", "evicted", "grant", "down"}

\* What every stack looks like.
Shape(p, s) == s \in Seq(Frames) /\ Chain(p, s) /\ Order(s)

\* There are distances from the root, and no cache is further than there are caches.
LEMMA DepthBounded ==
    /\ Cardinality(Caches) \in Nat
    /\ Depth \in [Caches -> 0..Cardinality(Caches)]
<1>1. PICK depth \in [Caches -> 0..Cardinality(Caches)] :
           \A c \in Caches \ {Root} : depth[c] = depth[Parent[c]] + 1
  BY TreeAssumption
<1>2. Depth \in [Caches -> 0..Cardinality(Caches)]
  BY <1>1 DEF Depth
<1> QED
  BY <1>2, TreeAssumption, FS_CardinalityType

\* Every cache is one further than its parent.
LEMMA DepthIs ==
    /\ Depth \in [Caches -> Nat]
    /\ \A c \in Caches \ {Root} : Depth[c] = Depth[Parent[c]] + 1
<1>1. PICK depth \in [Caches -> 0..Cardinality(Caches)] :
           \A c \in Caches \ {Root} : depth[c] = depth[Parent[c]] + 1
  BY TreeAssumption
<1>2. /\ Depth \in [Caches -> 0..Cardinality(Caches)]
      /\ \A c \in Caches \ {Root} : Depth[c] = Depth[Parent[c]] + 1
  BY <1>1 DEF Depth
<1>3. Cardinality(Caches) \in Nat
  BY TreeAssumption, FS_CardinalityType
<1> QED
  BY <1>2, <1>3

\* The call f continues the call t.
Continues(t, f) ==
    /\ f.at = t.at /\ f.from = t.from /\ f.line = t.line
    /\ f.op = t.op \/ (t.op = "PUTX" /\ f.op = "PUTS")
    /\ f.pc # "tcc"
    /\ Placed(f)

\* A stack whose innermost call goes on keeps its shape.
LEMMA RetoppedShape ==
    ASSUME NEW p \in Leaves, NEW s, Shape(p, s), s # <<>>, NEW f, NEW s2 \in Seq(Frames),
           Retopped(s, s2, f), Continues(Last(s), f)
    PROVE  Shape(p, s2)
<1> DEFINE n == Len(s)
<1>1. n \in Nat \ {0} /\ Last(s) = s[n] /\ Len(s2) = n
  BY FrontIs DEF Shape, Retopped
<1>2. s2[n] = f /\ \A i \in 1..n : i # n => s2[i] = s[i]
  BY <1>1 DEF Retopped
<1> HIDE DEF n
<1>3. Chain(p, s2)
  <2> SUFFICES ASSUME NEW i \in 1..n
               PROVE  /\ Placed(s2[i])
                      /\ i = 1 => s2[i].op \in Gets /\ s2[i].at = p /\ s2[i].from = None
                      /\ i > 1 => Linked(s2[i - 1], s2[i])
                      /\ i < n => s2[i].pc \in {"evict", "evicted", "grant", "down"}
    BY <1>1 DEF Chain
  <2>1. /\ Placed(s[i])
        /\ i = 1 => s[i].op \in Gets /\ s[i].at = p /\ s[i].from = None
        /\ i > 1 => Linked(s[i - 1], s[i])
        /\ i < n => s[i].pc \in {"evict", "evicted", "grant", "down"}
    BY <1>1 DEF Shape, Chain, n
  <2>2. CASE i # n
    BY <1>1, <1>2, <2>1, <2>2
  <2>3. CASE i = n
    <3>1. i > 1 => Linked(s[i - 1], f)
      BY <1>1, <2>1, <2>3 DEF Linked, Continues, Gets, Puts, Invs
    <3>2. i = 1 => f.op \in Gets /\ f.at = p /\ f.from = None
      BY <1>1, <2>1, <2>3 DEF Continues, Gets
    <3> QED
      BY <1>1, <1>2, <2>3, <3>1, <3>2 DEF Continues
  <2> QED
    BY <2>2, <2>3
<1>4. \A i \in 1..n : s2[i].at = s[i].at /\ (s2[i].op \in Invs <=> s[i].op \in Invs)
  BY <1>1, <1>2 DEF Continues, Invs
<1>5. \A i \in 1..n : i < n /\ HoldsBcc(s2, i) => HoldsBcc(s, i)
  BY <1>1, <1>2, <1>4 DEF HoldsBcc, n
<1>6. Order(s2)
  <2> SUFFICES ASSUME NEW i \in 1..n, NEW j \in 1..n, i < j
               PROVE  /\ s2[j].op \notin Invs =>
                           s2[i].op \notin Invs /\ Depth[s2[i].at] > Depth[s2[j].at]
                      /\ HoldsBcc(s2, i) =>
                           s2[j].op \in Invs /\ Depth[s2[i].at] < Depth[s2[j].at]
    BY <1>1 DEF Order
  <2>1. /\ s[j].op \notin Invs =>
             s[i].op \notin Invs /\ Depth[s[i].at] > Depth[s[j].at]
        /\ HoldsBcc(s, i) =>
             s[j].op \in Invs /\ Depth[s[i].at] < Depth[s[j].at]
    BY DEF Shape, Order, n
  <2>2. i < n
    BY <1>1
  <2> QED
    BY <1>4, <1>5, <2>1, <2>2
<1> QED
  BY <1>3, <1>6 DEF Shape

\* Whether each call holds its lock once the top one has gone on.
LEMMA RetoppedHeld ==
    ASSUME NEW p \in Leaves, NEW s, Shape(p, s), s # <<>>, NEW f, NEW s2 \in Seq(Frames),
           Retopped(s, s2, f), Continues(Last(s), f)
    PROVE  /\ HeldBcc(s2) = (HeldBcc(s) \ {f.at})
                              \cup (IF f.pc \in {"tcc", "bcc"} THEN {} ELSE {f.at})
           /\ HeldTcc(s2) = HeldTcc(s)
                              \cup (IF f.op \in Invs \/ f.at \in Leaves THEN {} ELSE {f.at})
<1> DEFINE n == Len(s)
<1>1. n \in Nat \ {0} /\ Last(s) = s[n] /\ Len(s2) = n
  BY FrontIs DEF Shape, Retopped
<1>2. s2[n] = f /\ \A i \in 1..n : i # n => s2[i] = s[i]
  BY <1>1 DEF Retopped
<1>3. s \in Seq(Frames) /\ \A i \in 1..n : s[i] \in Frames /\ s2[i] \in Frames
  BY <1>1 DEF Shape
<1>4. \A i \in 1..n : i < n /\ HoldsBcc(s, i) => Depth[s[i].at] < Depth[s[n].at]
  BY <1>1 DEF Shape, Order
<1>5. \A i \in 1..n : i < n => (HoldsBcc(s2, i) <=> HoldsBcc(s, i))
  <2> TAKE i \in 1..n
  <2> HAVE i < n
  <2>1. i + 1 \in 1..n /\ s2[i] = s[i] /\ (s2[i + 1].op \in Invs <=> s[i + 1].op \in Invs)
    BY <1>1, <1>2 DEF Continues, Invs
  <2> QED
    BY <1>1, <2>1 DEF HoldsBcc
<1>6. f.at \in Caches /\ f.at = s[n].at /\ Depth[f.at] \in Nat
  BY <1>1, <1>2, <1>3, DepthIs DEF Continues, Frames
<1>7. HoldsBcc(s2, n) <=> f.pc \notin {"tcc", "bcc"}
  BY <1>1, <1>2, <1>3 DEF HoldsBcc, Frames
<1> HIDE DEF n
<1>8. ASSUME NEW c \in Caches
      PROVE  c \in HeldBcc(s2) <=>
                (c \in HeldBcc(s) /\ c # f.at) \/ (c = f.at /\ f.pc \notin {"tcc", "bcc"})
  <2>1. c \in HeldBcc(s2) <=> \E i \in 1..n : s2[i].at = c /\ HoldsBcc(s2, i)
    BY <1>1 DEF HeldBcc
  <2>2. c \in HeldBcc(s) <=> \E i \in 1..n : s[i].at = c /\ HoldsBcc(s, i)
    BY DEF HeldBcc, n
  <2>3. \A i \in 1..n : i < n /\ HoldsBcc(s, i) => s[i].at # f.at
    BY <1>4, <1>6
  <2>4. \A i \in 1..n : i # n => i < n
    BY <1>1
  <2>5. n \in 1..n
    BY <1>1
  <2> QED
    BY <1>2, <1>5, <1>6, <1>7, <2>1, <2>2, <2>3, <2>4, <2>5
<1>9. HeldBcc(s2) = (HeldBcc(s) \ {f.at})
                       \cup (IF f.pc \in {"tcc", "bcc"} THEN {} ELSE {f.at})
  BY <1>6, <1>8 DEF HeldBcc
<1>10. ASSUME NEW c \in Caches
       PROVE  c \in HeldTcc(s2) <=>
                c \in HeldTcc(s) \/ (c = f.at /\ f.op \notin Invs /\ f.at \notin Leaves)
  <2>1. c \in HeldTcc(s2) <=> \E i \in 1..n : s2[i].at = c /\ HoldsTcc(s2, i)
    BY <1>1 DEF HeldTcc
  <2>2. c \in HeldTcc(s) <=> \E i \in 1..n : s[i].at = c /\ HoldsTcc(s, i)
    BY DEF HeldTcc, n
  <2>3. \A i \in 1..n : i # n => (HoldsTcc(s2, i) <=> HoldsTcc(s, i))
    BY <1>2 DEF HoldsTcc
  <2>4. HoldsTcc(s2, n) <=> f.op \notin Invs /\ f.at \notin Leaves
    BY <1>2 DEF HoldsTcc, Continues
  <2>5. HoldsTcc(s, n) => HoldsTcc(s2, n)
    BY <1>1, <1>2 DEF HoldsTcc, Continues, Invs
  <2>6. n \in 1..n
    BY <1>1
  <2> QED
    BY <1>2, <1>6, <2>1, <2>2, <2>3, <2>4, <2>5, <2>6
<1>11. HeldTcc(s2) = HeldTcc(s) \cup (IF f.op \in Invs \/ f.at \in Leaves THEN {} ELSE {f.at})
  BY <1>6, <1>10 DEF HeldTcc
<1> QED
  BY <1>9, <1>11

\* The call f makes the call g.
Makes(f, g) ==
    /\ Linked(f, g)
    /\ Placed(g)
    /\ f.pc \in {"evict", "evicted", "grant", "down"}
    /\ g.pc = IF g.op \in Invs THEN "bcc" ELSE "tcc"

\* Pushing an access on an access, or an invalidation on anything.
LEMMA PushedFacts ==
    ASSUME NEW p \in Leaves, NEW s, Shape(p, s), s # <<>>, HoldsBcc(s, Len(s)),
           NEW f, NEW g, NEW s2 \in Seq(Frames),
           Pushed(s, s2, f, g), Continues(Last(s), f), Makes(f, g)
    PROVE  LET n == Len(s)
           IN  /\ n \in Nat \ {0} /\ Last(s) = s[n] /\ Len(s2) = n + 1
               /\ s2[n] = f /\ s2[n + 1] = g /\ \A i \in 1..n : i # n => s2[i] = s[i]
               /\ \A i \in 1..(n + 1) : s2[i] \in Frames
               /\ \A i \in 1..n : /\ s2[i].at = s[i].at
                                  /\ (s2[i].op \in Invs <=> s[i].op \in Invs)
               /\ \A i \in 1..n : i < n => (HoldsBcc(s2, i) <=> HoldsBcc(s, i))
               /\ HoldsBcc(s2, n) <=> g.op \in Invs
               /\ ~HoldsBcc(s2, n + 1)
               /\ f.at \in Caches /\ f.at = s[n].at /\ g.at \in Caches
               /\ g.op \notin Invs => f.op \notin Invs /\ Depth[f.at] = Depth[g.at] + 1
               /\ g.op \in Invs => Depth[g.at] = Depth[f.at] + 1
<1> DEFINE n == Len(s)
<1>1. n \in Nat \ {0} /\ Last(s) = s[n] /\ Len(s2) = n + 1 /\ s2[n + 1] = g
  BY FrontIs DEF Shape, Pushed
<1>2. s2[n] = f /\ \A i \in 1..n : i # n => s2[i] = s[i]
  BY <1>1 DEF Pushed
<1>3. \A i \in 1..(n + 1) : s2[i] \in Frames
  BY <1>1
<1>4. \A i \in 1..n : s2[i].at = s[i].at /\ (s2[i].op \in Invs <=> s[i].op \in Invs)
  BY <1>1, <1>2 DEF Continues, Invs
<1>5. \A i \in 1..n : i < n => (HoldsBcc(s2, i) <=> HoldsBcc(s, i))
  <2> TAKE i \in 1..n
  <2> HAVE i < n
  <2>1. i + 1 \in 1..n /\ s2[i] = s[i] /\ (s2[i + 1].op \in Invs <=> s[i + 1].op \in Invs)
    BY <1>1, <1>2, <1>4
  <2>2. i # Len(s2) /\ i # Len(s)
    BY <1>1
  <2> QED
    BY <2>1, <2>2 DEF HoldsBcc
<1>6. HoldsBcc(s2, n) <=> g.op \in Invs
  BY <1>1, <1>2 DEF HoldsBcc, Makes, Linked, Gets, Puts, Invs
<1>7. ~HoldsBcc(s2, n + 1)
  BY <1>1 DEF HoldsBcc, Makes
<1>8. f.at \in Caches /\ f.at = s[n].at /\ g.at \in Caches
  BY <1>1, <1>2, <1>3 DEF Continues, Frames
<1>9. g.op \notin Invs => f.op \notin Invs /\ Depth[f.at] = Depth[g.at] + 1
  <2> HAVE g.op \notin Invs
  <2>1. f.op \notin Invs /\ f.at # Root /\ g.at = Parent[f.at]
    BY DEF Makes, Linked, Gets, Invs
  <2> QED
    BY <1>8, <2>1, DepthIs
<1>10. g.op \in Invs => Depth[g.at] = Depth[f.at] + 1
  <2> HAVE g.op \in Invs
  <2>1. g.at \in Children(f.at)
    BY DEF Makes, Linked, Gets, Puts, Invs
  <2> QED
    BY <1>8, <2>1, DepthIs DEF Children
<1> HIDE DEF n
<1> QED
  BY <1>1, <1>2, <1>3, <1>4, <1>5, <1>6, <1>7, <1>8, <1>9, <1>10 DEF n

\* A stack on which a call is made keeps its shape.
LEMMA PushedShape ==
    ASSUME NEW p \in Leaves, NEW s, Shape(p, s), s # <<>>, HoldsBcc(s, Len(s)),
           NEW f, NEW g, NEW s2 \in Seq(Frames),
           Pushed(s, s2, f, g), Continues(Last(s), f), Makes(f, g)
    PROVE  Shape(p, s2)
<1> DEFINE n == Len(s)
<1>1. /\ n \in Nat \ {0} /\ Last(s) = s[n] /\ Len(s2) = n + 1
      /\ s2[n] = f /\ s2[n + 1] = g /\ \A i \in 1..n : i # n => s2[i] = s[i]
      /\ \A i \in 1..n : s2[i].at = s[i].at /\ (s2[i].op \in Invs <=> s[i].op \in Invs)
      /\ \A i \in 1..n : i < n => (HoldsBcc(s2, i) <=> HoldsBcc(s, i))
      /\ HoldsBcc(s2, n) <=> g.op \in Invs
      /\ ~HoldsBcc(s2, n + 1)
      /\ f.at \in Caches /\ f.at = s[n].at /\ g.at \in Caches
      /\ g.op \notin Invs => f.op \notin Invs /\ Depth[f.at] = Depth[g.at] + 1
      /\ g.op \in Invs => Depth[g.at] = Depth[f.at] + 1
  BY PushedFacts
<1>2. \A i \in 1..n : s[i] \in Frames
  BY DEF Shape
<1>3. \A i \in 1..n : Depth[s[i].at] \in Nat
  BY <1>2, DepthIs DEF Frames
<1>4. Depth[g.at] \in Nat /\ Depth[f.at] \in Nat
  BY <1>1, DepthIs
<1>5. Chain(p, s2)
  <2> SUFFICES ASSUME NEW i \in 1..(n + 1)
               PROVE  /\ Placed(s2[i])
                      /\ i = 1 => s2[i].op \in Gets /\ s2[i].at = p /\ s2[i].from = None
                      /\ i > 1 => Linked(s2[i - 1], s2[i])
                      /\ i < n + 1 => s2[i].pc \in {"evict", "evicted", "grant", "down"}
    BY <1>1 DEF Chain
  <2>1. ASSUME i \in 1..n
        PROVE  /\ Placed(s[i])
               /\ i = 1 => s[i].op \in Gets /\ s[i].at = p /\ s[i].from = None
               /\ i > 1 => Linked(s[i - 1], s[i])
               /\ i < n => s[i].pc \in {"evict", "evicted", "grant", "down"}
    BY <2>1 DEF Shape, Chain
  <2>2. CASE i \in 1..n /\ i # n
    <3> HIDE DEF n
    <3>1. i < n /\ s2[i] = s[i] /\ (i > 1 => s2[i - 1] = s[i - 1])
      BY <1>1, <2>2
    <3> QED
      BY <1>1, <2>1, <2>2, <3>1
  <2>3. CASE i = n
    <3>1. i > 1 => Linked(s[i - 1], f)
      BY <1>1, <2>1, <2>3 DEF Linked, Continues, Gets, Puts, Invs
    <3>2. i = 1 => f.op \in Gets /\ f.at = p /\ f.from = None
      BY <1>1, <2>1, <2>3 DEF Continues, Gets
    <3> QED
      BY <1>1, <2>3, <3>1, <3>2 DEF Continues, Makes
  <2>4. CASE i = n + 1
    BY <1>1, <2>4 DEF Makes
  <2> QED
    BY <1>1, <2>2, <2>3, <2>4
<1>6. Order(s2)
  <2> SUFFICES ASSUME NEW i \in 1..(n + 1), NEW j \in 1..(n + 1), i < j
               PROVE  /\ s2[j].op \notin Invs =>
                           s2[i].op \notin Invs /\ Depth[s2[i].at] > Depth[s2[j].at]
                      /\ HoldsBcc(s2, i) =>
                           s2[j].op \in Invs /\ Depth[s2[i].at] < Depth[s2[j].at]
    BY <1>1 DEF Order
  <2>0. i \in 1..n
    BY <1>1
  <2>1. ASSUME NEW k \in 1..n, i < k
        PROVE  /\ s[k].op \notin Invs =>
                    s[i].op \notin Invs /\ Depth[s[i].at] > Depth[s[k].at]
               /\ HoldsBcc(s, i) =>
                    s[k].op \in Invs /\ Depth[s[i].at] < Depth[s[k].at]
    BY <2>0, <2>1 DEF Shape, Order
  <2> HIDE DEF n
  <2>2. CASE j \in 1..n
    <3>1. i < n
      BY <1>1, <2>2
    <3> QED
      BY <1>1, <2>0, <2>1, <2>2, <3>1
  <2>3. CASE j = n + 1
    <3>1. n \in 1..n /\ (i # n => i < n)
      BY <1>1, <2>0
    <3>2. CASE i = n
      BY <1>1, <1>4, <2>3, <3>2
    <3>3. CASE i # n
      <4>1. /\ s[n].op \notin Invs =>
                 s[i].op \notin Invs /\ Depth[s[i].at] > Depth[s[n].at]
            /\ HoldsBcc(s, i) =>
                 s[n].op \in Invs /\ Depth[s[i].at] < Depth[s[n].at]
        BY <2>1, <3>1, <3>3
      <4>2. s[n].op \in Invs <=> f.op \in Invs
        BY <1>1, <3>1
      <4>3. f.op \in Invs => g.op \in Invs
        BY <1>1
      <4>4. HoldsBcc(s2, i) <=> HoldsBcc(s, i)
        BY <1>1, <2>0, <3>1, <3>3
      <4>5. s2[i].at = s[i].at /\ (s2[i].op \in Invs <=> s[i].op \in Invs) /\ s2[j] = g
        BY <1>1, <2>0, <2>3
      <4>6. /\ Depth[s[i].at] \in Nat /\ s[n].at = f.at
            /\ g.op \notin Invs => f.op \notin Invs /\ Depth[f.at] = Depth[g.at] + 1
            /\ g.op \in Invs => Depth[g.at] = Depth[f.at] + 1
        BY <1>1, <1>3, <2>0
      <4>7. g.op \notin Invs => s[i].op \notin Invs /\ Depth[s[i].at] > Depth[g.at]
        BY <1>4, <4>1, <4>2, <4>6
      <4>8. HoldsBcc(s, i) => g.op \in Invs /\ Depth[s[i].at] < Depth[g.at]
        BY <1>4, <4>1, <4>2, <4>3, <4>6
      <4> QED
        BY <4>4, <4>5, <4>7, <4>8
    <3> QED
      BY <3>2, <3>3
  <2> QED
    BY <1>1, <2>2, <2>3
<1> QED
  BY <1>5, <1>6 DEF Shape

\* An access made from a cache gives up the bcc lock there, an invalidation does not.
LEMMA PushedHeld ==
    ASSUME NEW p \in Leaves, NEW s, Shape(p, s), s # <<>>, HoldsBcc(s, Len(s)),
           NEW f, NEW g, NEW s2 \in Seq(Frames),
           Pushed(s, s2, f, g), Continues(Last(s), f), Makes(f, g)
    PROVE  /\ HeldBcc(s2) = IF g.op \in Invs THEN HeldBcc(s) ELSE HeldBcc(s) \ {f.at}
           /\ HeldTcc(s2) = HeldTcc(s) \cup (IF f.op \in Invs \/ f.at \in Leaves THEN {} ELSE {f.at})
<1> DEFINE n == Len(s)
<1>1. /\ n \in Nat \ {0} /\ Last(s) = s[n] /\ Len(s2) = n + 1
      /\ s2[n] = f /\ s2[n + 1] = g /\ \A i \in 1..n : i # n => s2[i] = s[i]
      /\ \A i \in 1..n : s2[i].at = s[i].at /\ (s2[i].op \in Invs <=> s[i].op \in Invs)
      /\ \A i \in 1..n : i < n => (HoldsBcc(s2, i) <=> HoldsBcc(s, i))
      /\ HoldsBcc(s2, n) <=> g.op \in Invs
      /\ ~HoldsBcc(s2, n + 1)
      /\ f.at \in Caches /\ f.at = s[n].at
  BY PushedFacts
<1>2. \A i \in 1..n : i < n /\ HoldsBcc(s, i) => Depth[s[i].at] < Depth[s[n].at]
  BY <1>1 DEF Shape, Order
<1>3. HoldsBcc(s, n) /\ Depth[f.at] \in Nat
  BY <1>1, DepthIs
<1>4. n \in 1..n /\ \A i \in 1..n : i # n => i < n
  BY <1>1
<1> HIDE DEF n
<1>5. ASSUME NEW c \in Caches
      PROVE  c \in HeldBcc(s2) <=> (c \in HeldBcc(s) /\ (c = f.at => g.op \in Invs))
  <2>1. c \in HeldBcc(s2) <=> \E i \in 1..(n + 1) : s2[i].at = c /\ HoldsBcc(s2, i)
    BY <1>1 DEF HeldBcc
  <2>2. c \in HeldBcc(s2) <=> \E i \in 1..n : s2[i].at = c /\ HoldsBcc(s2, i)
    BY <1>1, <2>1
  <2>3. c \in HeldBcc(s) <=> \E i \in 1..n : s[i].at = c /\ HoldsBcc(s, i)
    BY DEF HeldBcc, n
  <2>4. \A i \in 1..n : i < n /\ HoldsBcc(s, i) => s[i].at # f.at
    BY <1>1, <1>2, <1>3
  <2> QED
    BY <1>1, <1>3, <1>4, <2>2, <2>3, <2>4
<1>6. HeldBcc(s2) = IF g.op \in Invs THEN HeldBcc(s) ELSE HeldBcc(s) \ {f.at}
  BY <1>5 DEF HeldBcc
<1>7. ASSUME NEW c \in Caches
      PROVE  c \in HeldTcc(s2) <=>
                c \in HeldTcc(s) \/ (c = f.at /\ f.op \notin Invs /\ f.at \notin Leaves)
  <2>1. c \in HeldTcc(s2) <=> \E i \in 1..(n + 1) : s2[i].at = c /\ HoldsTcc(s2, i)
    BY <1>1 DEF HeldTcc
  <2>2. ~HoldsTcc(s2, n + 1)
    BY <1>1 DEF HoldsTcc, Makes
  <2>3. c \in HeldTcc(s2) <=> \E i \in 1..n : s2[i].at = c /\ HoldsTcc(s2, i)
    BY <1>1, <2>1, <2>2
  <2>4. c \in HeldTcc(s) <=> \E i \in 1..n : s[i].at = c /\ HoldsTcc(s, i)
    BY DEF HeldTcc, n
  <2>5. \A i \in 1..n : i # n => (HoldsTcc(s2, i) <=> HoldsTcc(s, i))
    BY <1>1 DEF HoldsTcc
  <2>6. HoldsTcc(s2, n) <=> f.op \notin Invs /\ f.at \notin Leaves
    BY <1>1 DEF HoldsTcc, Continues
  <2>7. HoldsTcc(s, n) => HoldsTcc(s2, n)
    BY <1>1 DEF HoldsTcc, Continues, Invs
  <2> QED
    BY <1>1, <1>4, <2>3, <2>4, <2>5, <2>6, <2>7
<1>8. HeldTcc(s2) = HeldTcc(s) \cup (IF f.op \in Invs \/ f.at \in Leaves THEN {} ELSE {f.at})
  BY <1>1, <1>7 DEF HeldTcc
<1> QED
  BY <1>6, <1>8

\* Once the innermost call has returned, the one below holds its bcc lock.
LEMMA PoppedFacts ==
    ASSUME NEW p \in Leaves, NEW s, Shape(p, s), s # <<>>, NEW s2 \in Seq(Frames), Popped(s, s2)
    PROVE  LET n == Len(s)
           IN  /\ n \in Nat \ {0} /\ Last(s) = s[n] /\ Len(s2) = n - 1
               /\ \A i \in 1..(n - 1) : Alike(s2[i], s[i]) /\ s2[i] \in Frames /\ s[i] \in Frames
               /\ \A i \in 1..(n - 1) : i < n - 1 => (HoldsBcc(s2, i) <=> HoldsBcc(s, i))
               /\ n > 1 => HoldsBcc(s2, n - 1)
               /\ \A i \in 1..(n - 1) : HoldsTcc(s2, i) <=> HoldsTcc(s, i)
<1> DEFINE n == Len(s)
<1>1. n \in Nat \ {0} /\ Last(s) = s[n] /\ Len(s2) = n - 1
  BY FrontIs DEF Shape, Popped
<1>2. \A i \in 1..(n - 1) : Alike(s2[i], s[i]) /\ s2[i] \in Frames /\ s[i] \in Frames
  BY <1>1 DEF Popped, Shape
<1>3. \A i \in 1..(n - 1) : i < n - 1 => (HoldsBcc(s2, i) <=> HoldsBcc(s, i))
  <2> TAKE i \in 1..(n - 1)
  <2> HAVE i < n - 1
  <2>1. i + 1 \in 1..(n - 1) /\ i # Len(s2) /\ i # Len(s)
    BY <1>1
  <2>2. Alike(s2[i], s[i]) /\ Alike(s2[i + 1], s[i + 1])
    BY <1>2, <2>1
  <2> QED
    BY <2>1, <2>2 DEF HoldsBcc, Alike
<1>4. n > 1 => HoldsBcc(s2, n - 1)
  <2> HAVE n > 1
  <2>1. n - 1 \in 1..n /\ n - 1 < n /\ n - 1 \in 1..(n - 1)
    BY <1>1
  <2>2. s[n - 1].pc \in {"evict", "evicted", "grant", "down"}
    BY <2>1 DEF Shape, Chain
  <2> QED
    BY <1>1, <1>2, <2>1, <2>2 DEF HoldsBcc, Alike
<1>5. \A i \in 1..(n - 1) : HoldsTcc(s2, i) <=> HoldsTcc(s, i)
  BY <1>2 DEF HoldsTcc, Alike
<1> HIDE DEF n
<1> QED
  BY <1>1, <1>2, <1>3, <1>4, <1>5 DEF n

\* A stack whose innermost call returns keeps its shape.
LEMMA PoppedShape ==
    ASSUME NEW p \in Leaves, NEW s, Shape(p, s), s # <<>>, NEW s2 \in Seq(Frames), Popped(s, s2)
    PROVE  Shape(p, s2)
<1> DEFINE n == Len(s)
<1>1. /\ n \in Nat \ {0} /\ Len(s2) = n - 1
      /\ \A i \in 1..(n - 1) : Alike(s2[i], s[i])
      /\ \A i \in 1..(n - 1) : i < n - 1 => (HoldsBcc(s2, i) <=> HoldsBcc(s, i))
  BY PoppedFacts
<1>2. Chain(p, s2)
  <2> SUFFICES ASSUME NEW i \in 1..(n - 1)
               PROVE  /\ Placed(s2[i])
                      /\ i = 1 => s2[i].op \in Gets /\ s2[i].at = p /\ s2[i].from = None
                      /\ i > 1 => Linked(s2[i - 1], s2[i])
                      /\ i < n - 1 => s2[i].pc \in {"evict", "evicted", "grant", "down"}
    BY <1>1 DEF Chain
  <2>1. i \in 1..n /\ i < n
    BY <1>1
  <2>2. /\ Placed(s[i])
        /\ i = 1 => s[i].op \in Gets /\ s[i].at = p /\ s[i].from = None
        /\ i > 1 => Linked(s[i - 1], s[i])
        /\ s[i].pc \in {"evict", "evicted", "grant", "down"}
    BY <2>1 DEF Shape, Chain
  <2>3. Alike(s2[i], s[i]) /\ (i > 1 => Alike(s2[i - 1], s[i - 1]))
    BY <1>1
  <2>4. i > 1 => Linked(s2[i - 1], s2[i])
    BY <2>2, <2>3 DEF Linked, Alike
  <2> QED
    BY <2>2, <2>3, <2>4 DEF Alike, Placed
<1>3. Order(s2)
  <2> SUFFICES ASSUME NEW i \in 1..(n - 1), NEW j \in 1..(n - 1), i < j
               PROVE  /\ s2[j].op \notin Invs =>
                           s2[i].op \notin Invs /\ Depth[s2[i].at] > Depth[s2[j].at]
                      /\ HoldsBcc(s2, i) =>
                           s2[j].op \in Invs /\ Depth[s2[i].at] < Depth[s2[j].at]
    BY <1>1 DEF Order
  <2>1. i \in 1..n /\ j \in 1..n /\ i < n - 1
    BY <1>1
  <2>2. /\ s[j].op \notin Invs =>
             s[i].op \notin Invs /\ Depth[s[i].at] > Depth[s[j].at]
        /\ HoldsBcc(s, i) =>
             s[j].op \in Invs /\ Depth[s[i].at] < Depth[s[j].at]
    BY <2>1 DEF Shape, Order
  <2>3. Alike(s2[i], s[i]) /\ Alike(s2[j], s[j])
    BY <1>1
  <2>4. HoldsBcc(s2, i) <=> HoldsBcc(s, i)
    BY <1>1, <2>1
  <2> HIDE DEF n
  <2> QED
    BY <2>2, <2>3, <2>4 DEF Alike
<1> QED
  BY <1>2, <1>3 DEF Shape

\* A return gives up the locks of the call, and takes back the caller's bcc lock.
LEMMA PoppedHeld ==
    ASSUME NEW p \in Leaves, NEW s, Shape(p, s), s # <<>>, NEW s2 \in Seq(Frames), Popped(s, s2)
    PROVE  LET t == Last(s)
           IN  /\ HeldBcc(s2) = (HeldBcc(s) \ {t.at})
                                  \cup (IF Len(s) = 1 THEN {} ELSE {s[Len(s) - 1].at})
               /\ HeldTcc(s2) = IF t.op \in Invs THEN HeldTcc(s) ELSE HeldTcc(s) \ {t.at}
<1> DEFINE n == Len(s)
           t == Last(s)
<1>1. /\ n \in Nat \ {0} /\ t = s[n] /\ Len(s2) = n - 1
      /\ \A i \in 1..(n - 1) : Alike(s2[i], s[i]) /\ s2[i] \in Frames /\ s[i] \in Frames
      /\ \A i \in 1..(n - 1) : i < n - 1 => (HoldsBcc(s2, i) <=> HoldsBcc(s, i))
      /\ n > 1 => HoldsBcc(s2, n - 1)
      /\ \A i \in 1..(n - 1) : HoldsTcc(s2, i) <=> HoldsTcc(s, i)
  BY PoppedFacts
<1>2. t \in Frames /\ t.at \in Caches /\ Depth[t.at] \in Nat
  <2>1. s \in Seq(Frames) /\ n \in 1..n
    BY <1>1 DEF Shape
  <2>2. t \in Frames
    BY <1>1, <2>1
  <2> QED
    BY <2>2, DepthIs DEF Frames
<1>3. \A i \in 1..(n - 1) : Depth[s[i].at] \in Nat
  BY <1>1, DepthIs DEF Frames
<1>4. \A i \in 1..(n - 1) :
        /\ t.op \notin Invs => s[i].op \notin Invs /\ Depth[s[i].at] > Depth[t.at]
        /\ HoldsBcc(s, i) => t.op \in Invs /\ Depth[s[i].at] < Depth[t.at]
  <2> TAKE i \in 1..(n - 1)
  <2>1. i \in 1..n /\ n \in 1..n /\ i < n
    BY <1>1
  <2> QED
    BY <1>1, <2>1 DEF Shape, Order
<1>5. n > 1 => s[n - 1].at # t.at
  <2> HAVE n > 1
  <2>1. n \in 1..n /\ n - 1 \in 1..(n - 1)
    BY <1>1
  <2>2. Linked(s[n - 1], t) /\ s[n - 1].at \in Caches
    BY <1>1, <2>1 DEF Shape, Chain, Frames
  <2>3. \A c \in Caches \ {Root} : Parent[c] # c
    BY DepthIs, CoherenceAssumption
  <2> QED
    BY <1>2, <2>2, <2>3 DEF Linked, Children
<1>6. n \in 1..n /\ (n > 1 => n - 1 \in 1..(n - 1))
      /\ \A i \in 1..n : i # n => i \in 1..(n - 1)
  BY <1>1
<1> HIDE DEF n, t
<1>7. ASSUME NEW c \in Caches
      PROVE  c \in HeldBcc(s2) <=>
                (c \in HeldBcc(s) /\ c # t.at) \/ (n > 1 /\ c = s[n - 1].at)
  <2>1. c \in HeldBcc(s2) <=> \E i \in 1..(n - 1) : s2[i].at = c /\ HoldsBcc(s2, i)
    BY <1>1 DEF HeldBcc
  <2>2. c \in HeldBcc(s) <=> \E i \in 1..n : s[i].at = c /\ HoldsBcc(s, i)
    BY DEF HeldBcc, n
  <2>3. \A i \in 1..(n - 1) : HoldsBcc(s, i) => s[i].at # t.at
    BY <1>2, <1>3, <1>4
  <2>4. \A i \in 1..(n - 1) : s2[i].at = s[i].at
    BY <1>1 DEF Alike
  <2>5. ASSUME c \in HeldBcc(s2) PROVE (c \in HeldBcc(s) /\ c # t.at) \/ (n > 1 /\ c = s[n - 1].at)
    <3>1. PICK i \in 1..(n - 1) : s2[i].at = c /\ HoldsBcc(s2, i)
      BY <2>1, <2>5
    <3>2. i \in 1..n /\ n > 1 /\ (i = n - 1 \/ i < n - 1)
      BY <1>1
    <3>3. CASE i = n - 1
      BY <2>4, <3>1, <3>2, <3>3
    <3>4. CASE i < n - 1
      BY <1>1, <2>2, <2>3, <2>4, <3>1, <3>2, <3>4
    <3> QED
      BY <3>2, <3>3, <3>4
  <2>6. ASSUME c \in HeldBcc(s), c # t.at PROVE c \in HeldBcc(s2)
    <3>1. PICK i \in 1..n : s[i].at = c /\ HoldsBcc(s, i)
      BY <2>2, <2>6
    <3>2. i \in 1..(n - 1)
      BY <1>1, <1>6, <2>6, <3>1
    <3>3. i < n - 1 \/ i = n - 1
      BY <1>1, <3>2
    <3> QED
      BY <1>1, <2>1, <2>4, <3>1, <3>2, <3>3
  <2>7. ASSUME n > 1, c = s[n - 1].at PROVE c \in HeldBcc(s2)
    BY <1>1, <1>6, <2>1, <2>4, <2>7
  <2> QED
    BY <2>5, <2>6, <2>7
<1>8. HeldBcc(s2) = (HeldBcc(s) \ {t.at}) \cup (IF n = 1 THEN {} ELSE {s[n - 1].at})
  <2>1. n = 1 \/ n > 1
    BY <1>1
  <2>2. n > 1 => s[n - 1].at \in Caches
    BY <1>1, <1>6 DEF Frames
  <2> QED
    BY <1>7, <2>1, <2>2 DEF HeldBcc
<1>9. ASSUME NEW c \in Caches
      PROVE  c \in HeldTcc(s2) <=> c \in HeldTcc(s) /\ (t.op \in Invs \/ c # t.at)
  <2>1. c \in HeldTcc(s2) <=> \E i \in 1..(n - 1) : s2[i].at = c /\ HoldsTcc(s2, i)
    BY <1>1 DEF HeldTcc
  <2>2. c \in HeldTcc(s) <=> \E i \in 1..n : s[i].at = c /\ HoldsTcc(s, i)
    BY DEF HeldTcc, n
  <2>3. \A i \in 1..(n - 1) : s2[i].at = s[i].at /\ i \in 1..n
    BY <1>1 DEF Alike
  <2>4. t.op \in Invs => ~HoldsTcc(s, n)
    BY <1>1 DEF HoldsTcc
  <2>5. t.op \notin Invs => \A i \in 1..(n - 1) : s[i].at # t.at
    BY <1>2, <1>3, <1>4
  <2> QED
    BY <1>1, <1>6, <2>1, <2>2, <2>3, <2>4, <2>5
<1>10. HeldTcc(s2) = IF t.op \in Invs THEN HeldTcc(s) ELSE HeldTcc(s) \ {t.at}
  BY <1>9 DEF HeldTcc
<1> QED
  BY <1>8, <1>10 DEF n, t

-----------------------------------------------------------------------------
(* Stacks and locks together                                               *)

\* Who holds the locks b and t follows from the stacks k.
Locked(k, b, t) ==
    /\ \A c \in Caches, p \in Leaves : b[c] = p <=> c \in HeldBcc(k[p])
    /\ \A c \in Caches \ Leaves, p \in Leaves : t[c] = p <=> c \in HeldTcc(k[p])

\* The stacks k are as the code makes them, and explain the locks b and t.
Threads(k, b, t) ==
    /\ k \in [Leaves -> Seq(Frames)]
    /\ \A p \in Leaves : Shape(p, k[p])
    /\ Locked(k, b, t)

\* What the innermost call of a thread says of the locks.
LEMMA TopIs ==
    ASSUME NEW k, NEW b, NEW t, Threads(k, b, t), NEW p \in Leaves, k[p] # <<>>
    PROVE  LET s == k[p]
               n == Len(s)
               f == Last(s)
           IN  /\ n \in Nat \ {0} /\ f = s[n] /\ f \in Frames /\ s \in Seq(Frames)
               /\ Placed(f) /\ p \in Caches /\ f.at \in Caches
               /\ n = 1 => f.op \in Gets /\ f.at = p /\ f.from = None
               /\ n > 1 => Linked(s[n - 1], f) /\ s[n - 1] \in Frames
               /\ HoldsBcc(s, n) <=> f.pc \notin {"tcc", "bcc"}
               /\ f.pc \notin {"tcc", "bcc"} => b[f.at] = p
               /\ f.pc # "tcc" /\ f.op \notin Invs /\ f.at \notin Leaves => t[f.at] = p
               /\ f.pc \in {"tcc", "bcc"} => b[f.at] # p
<1> DEFINE s == k[p]
           n == Len(s)
           f == Last(s)
<1>1. s \in Seq(Frames) /\ Shape(p, s) /\ p \in Caches
  BY CoherenceAssumption DEF Threads
<1>2. n \in Nat \ {0} /\ f = s[n] /\ n \in 1..n /\ f \in Frames
  BY <1>1, FrontIs
<1>3. /\ Placed(f)
      /\ n = 1 => f.op \in Gets /\ f.at = p /\ f.from = None
      /\ n > 1 => Linked(s[n - 1], f)
  BY <1>1, <1>2 DEF Shape, Chain
<1>4. n > 1 => s[n - 1] \in Frames
  <2> HAVE n > 1
  <2>1. n - 1 \in 1..n
    BY <1>2
  <2> QED
    BY <1>1, <2>1
<1>5. HoldsBcc(s, n) <=> f.pc \notin {"tcc", "bcc"}
  BY <1>2 DEF HoldsBcc, Frames
<1>6. f.at \in Caches
  BY <1>2 DEF Frames
<1>7. f.pc \notin {"tcc", "bcc"} => b[f.at] = p
  <2> HAVE f.pc \notin {"tcc", "bcc"}
  <2>1. f.at \in HeldBcc(s)
    BY <1>2, <1>5, <1>6 DEF HeldBcc
  <2> QED
    BY <1>6, <2>1 DEF Threads, Locked
<1>8. f.pc # "tcc" /\ f.op \notin Invs /\ f.at \notin Leaves => t[f.at] = p
  <2> HAVE f.pc # "tcc" /\ f.op \notin Invs /\ f.at \notin Leaves
  <2>1. f.at \in HeldTcc(s)
    BY <1>2, <1>6 DEF HeldTcc, HoldsTcc
  <2> QED
    BY <1>6, <2>1 DEF Threads, Locked
<1>9. f.pc \in {"tcc", "bcc"} => b[f.at] # p
  <2> HAVE f.pc \in {"tcc", "bcc"}
  <2>1. \A i \in 1..n : i < n /\ HoldsBcc(s, i) => Depth[s[i].at] < Depth[f.at]
    BY <1>1, <1>2 DEF Shape, Order
  <2>2. Depth[f.at] \in Nat
    BY <1>6, DepthIs
  <2>3. \A i \in 1..n : HoldsBcc(s, i) => s[i].at # f.at
    <3> TAKE i \in 1..n
    <3>1. i < n \/ i = n
      BY <1>2
    <3> QED
      BY <1>2, <1>5, <2>1, <2>2, <3>1
  <2>4. f.at \notin HeldBcc(s)
    BY <2>3 DEF HeldBcc
  <2> QED
    BY <1>6, <2>4 DEF Threads, Locked
<1> HIDE DEF f, n
<1> QED
  BY <1>1, <1>2, <1>3, <1>4, <1>5, <1>6, <1>7, <1>8, <1>9 DEF n, f

\* The locks after a thread's stack has become s2.
LEMMA StackReplaced ==
    ASSUME NEW k, NEW b, NEW t, Threads(k, b, t), NEW p \in Leaves,
           NEW s2 \in Seq(Frames), Shape(p, s2), NEW b2, NEW t2,
           \A c \in Caches, q \in Leaves :
              b2[c] = q <=> IF q = p THEN c \in HeldBcc(s2) ELSE b[c] = q,
           \A c \in Caches \ Leaves, q \in Leaves :
              t2[c] = q <=> IF q = p THEN c \in HeldTcc(s2) ELSE t[c] = q
    PROVE  Threads([k EXCEPT ![p] = s2], b2, t2)
<1> DEFINE k2 == [k EXCEPT ![p] = s2]
<1>1. k2 \in [Leaves -> Seq(Frames)] /\ k2[p] = s2 /\ \A q \in Leaves : q # p => k2[q] = k[q]
  BY DEF Threads
<1> HIDE DEF k2
<1>2. \A q \in Leaves : Shape(q, k2[q])
  BY <1>1 DEF Threads
<1>3. Locked(k2, b2, t2)
  BY <1>1 DEF Threads, Locked
<1> QED
  BY <1>1, <1>2, <1>3 DEF Threads, k2

\* What the locks b2 and t2 are after the innermost call of p has gone
\* on from the locks b and t.
LocksGo(p, f, b, t, b2, t2) ==
    /\ \A c \in Caches, q \in Leaves :
          b2[c] = q <=> IF q = p THEN (b[c] = p /\ c # f.at)
                                      \/ (c = f.at /\ f.pc \notin {"tcc", "bcc"})
                        ELSE b[c] = q
    /\ \A c \in Caches \ Leaves, q \in Leaves :
          t2[c] = q <=> IF q = p THEN t[c] = p \/ (c = f.at /\ f.op \notin Invs)
                        ELSE t[c] = q

\* What they are after its call f, which holds its locks, has called g.
LocksCall(p, f, g, b, t, b2, t2) ==
    /\ \A c \in Caches, q \in Leaves :
          b2[c] = q <=> b[c] = q /\ (q = p /\ c = f.at => g.op \in Invs)
    /\ \A c \in Caches \ Leaves, q \in Leaves :
          t2[c] = q <=> IF q = p THEN t[c] = p \/ (c = f.at /\ f.op \notin Invs)
                        ELSE t[c] = q

\* What they are after the innermost call of its stack s has returned.
LocksReturn(p, s, b, t, b2, t2) ==
    /\ \A c \in Caches, q \in Leaves :
          b2[c] = q <=> IF q = p
                        THEN (b[c] = p /\ c # Last(s).at)
                               \/ (Len(s) # 1 /\ c = s[Len(s) - 1].at)
                        ELSE b[c] = q
    /\ \A c \in Caches \ Leaves, q \in Leaves :
          t2[c] = q <=> t[c] = q /\ (q = p /\ c = Last(s).at => Last(s).op \in Invs)

\* Stacks and locks fit together after the innermost call of p has gone on.
LEMMA GoesThreads ==
    ASSUME NEW k, NEW b, NEW t, Threads(k, b, t), NEW p \in Leaves, k[p] # <<>>,
           NEW f \in Frames, Continues(Last(k[p]), f), NEW b2, NEW t2,
           LocksGo(p, f, b, t, b2, t2)
    PROVE  Threads([k EXCEPT ![p] = Append(Front(@), f)], b2, t2)
<1> DEFINE s == k[p]
           s2 == Append(Front(s), f)
<1>1. s \in Seq(Frames) /\ Shape(p, s)
  BY DEF Threads
<1>2. s2 \in Seq(Frames) /\ Retopped(s, s2, f)
  BY <1>1, GoesIs
<1> HIDE DEF s2
<1>3. Shape(p, s2)
  BY <1>1, <1>2, RetoppedShape
<1>4. /\ HeldBcc(s2) = (HeldBcc(s) \ {f.at})
                          \cup (IF f.pc \in {"tcc", "bcc"} THEN {} ELSE {f.at})
      /\ HeldTcc(s2) = HeldTcc(s) \cup (IF f.op \in Invs \/ f.at \in Leaves THEN {} ELSE {f.at})
  BY <1>1, <1>2, RetoppedHeld
<1>5. \A c \in Caches : b[c] = p <=> c \in HeldBcc(s)
  BY DEF Threads, Locked
<1>6. \A c \in Caches \ Leaves : t[c] = p <=> c \in HeldTcc(s)
  BY DEF Threads, Locked
<1>7. \A c \in Caches, q \in Leaves :
        b2[c] = q <=> IF q = p THEN c \in HeldBcc(s2) ELSE b[c] = q
  BY <1>4, <1>5 DEF LocksGo
<1>8. \A c \in Caches \ Leaves, q \in Leaves :
        t2[c] = q <=> IF q = p THEN c \in HeldTcc(s2) ELSE t[c] = q
  BY <1>4, <1>6 DEF LocksGo
<1>9. Threads([k EXCEPT ![p] = s2], b2, t2)
  BY <1>2, <1>3, <1>7, <1>8, StackReplaced
<1> QED
  BY <1>9 DEF s2

\* Stacks and locks fit together after it has made a call.
LEMMA CallsThreads ==
    ASSUME NEW k, NEW b, NEW t, Threads(k, b, t), NEW p \in Leaves, k[p] # <<>>,
           Last(k[p]).pc \notin {"tcc", "bcc"},
           NEW f \in Frames, NEW g \in Frames, Continues(Last(k[p]), f), Makes(f, g),
           NEW b2, NEW t2, LocksCall(p, f, g, b, t, b2, t2)
    PROVE  Threads([k EXCEPT ![p] = Append(Append(Front(@), f), g)], b2, t2)
<1> DEFINE s == k[p]
           s2 == Append(Append(Front(s), f), g)
<1>1. s \in Seq(Frames) /\ Shape(p, s) /\ HoldsBcc(s, Len(s))
  BY TopIs DEF Threads
<1>2. s2 \in Seq(Frames) /\ Pushed(s, s2, f, g)
  BY <1>1, CallsIs
<1> HIDE DEF s2
<1>3. Shape(p, s2)
  BY <1>1, <1>2, PushedShape
<1>4. /\ HeldBcc(s2) = IF g.op \in Invs THEN HeldBcc(s) ELSE HeldBcc(s) \ {f.at}
      /\ HeldTcc(s2) = HeldTcc(s) \cup (IF f.op \in Invs \/ f.at \in Leaves THEN {} ELSE {f.at})
  BY <1>1, <1>2, PushedHeld
<1>5. \A c \in Caches : b[c] = p <=> c \in HeldBcc(s)
  BY DEF Threads, Locked
<1>6. \A c \in Caches \ Leaves : t[c] = p <=> c \in HeldTcc(s)
  BY DEF Threads, Locked
<1>7. \A c \in Caches, q \in Leaves :
        b2[c] = q <=> IF q = p THEN c \in HeldBcc(s2) ELSE b[c] = q
  BY <1>4, <1>5 DEF LocksCall
<1>8. \A c \in Caches \ Leaves, q \in Leaves :
        t2[c] = q <=> IF q = p THEN c \in HeldTcc(s2) ELSE t[c] = q
  BY <1>4, <1>6 DEF LocksCall
<1>9. Threads([k EXCEPT ![p] = s2], b2, t2)
  BY <1>2, <1>3, <1>7, <1>8, StackReplaced
<1> QED
  BY <1>9 DEF s2

\* Stacks and locks fit together after it has returned.
LEMMA ReturnsThreads ==
    ASSUME NEW k, NEW b, NEW t, Threads(k, b, t), NEW p \in Leaves, k[p] # <<>>,
           NEW s2 \in Seq(Frames), Popped(k[p], s2), NEW b2, NEW t2,
           LocksReturn(p, k[p], b, t, b2, t2)
    PROVE  Threads([k EXCEPT ![p] = s2], b2, t2)
<1> DEFINE s == k[p]
           f == Last(s)
<1>1. s \in Seq(Frames) /\ Shape(p, s)
  BY DEF Threads
<1>2. Shape(p, s2)
  BY <1>1, PoppedShape
<1>3. /\ HeldBcc(s2) = (HeldBcc(s) \ {f.at})
                          \cup (IF Len(s) = 1 THEN {} ELSE {s[Len(s) - 1].at})
      /\ HeldTcc(s2) = IF f.op \in Invs THEN HeldTcc(s) ELSE HeldTcc(s) \ {f.at}
  BY <1>1, PoppedHeld
<1>4. \A c \in Caches : b[c] = p <=> c \in HeldBcc(s)
  BY DEF Threads, Locked
<1>5. \A c \in Caches \ Leaves : t[c] = p <=> c \in HeldTcc(s)
  BY DEF Threads, Locked
<1>6. \A c \in Caches, q \in Leaves :
        b2[c] = q <=> IF q = p THEN c \in HeldBcc(s2) ELSE b[c] = q
  BY <1>3, <1>4 DEF LocksReturn
<1>7. \A c \in Caches \ Leaves, q \in Leaves :
        t2[c] = q <=> IF q = p THEN c \in HeldTcc(s2) ELSE t[c] = q
  BY <1>3, <1>5 DEF LocksReturn
<1> QED
  BY <1>2, <1>6, <1>7, StackReplaced

\* Of all the calls in progress, one at most holds the bcc lock of a cache.
LEMMA OneHolder ==
    ASSUME NEW k, NEW b, NEW t, Threads(k, b, t),
           NEW p \in Leaves, NEW i \in 1..Len(k[p]), HoldsBcc(k[p], i),
           NEW q \in Leaves, NEW j \in 1..Len(k[q]), HoldsBcc(k[q], j),
           k[p][i].at = k[q][j].at
    PROVE  p = q /\ i = j
<1> DEFINE c == k[p][i].at
<1>1. k[p] \in Seq(Frames) /\ k[q] \in Seq(Frames) /\ Order(k[p])
  BY DEF Threads, Shape
<1>2. c \in Caches
  <2>1. k[p][i] \in Frames
    BY <1>1
  <2> QED
    BY <2>1 DEF Frames
<1>3. b[c] = p /\ b[c] = q
  BY <1>2 DEF Threads, Locked, HeldBcc
<1>4. p = q
  BY <1>3
<1>5. ~(i < j) /\ ~(j < i)
  BY <1>1, <1>2, <1>4, DepthIs DEF Order
<1> QED
  BY <1>4, <1>5

\* Call i of s is an access that is past its tcc lock.
Past(s, i) == s[i].op \notin Invs /\ s[i].pc # "tcc"

\* One access at most is past the tcc lock of each cache.
LEMMA OneAccess ==
    ASSUME NEW k, NEW b, NEW t, Threads(k, b, t),
           NEW p \in Leaves, NEW i \in 1..Len(k[p]), Past(k[p], i),
           NEW q \in Leaves, NEW j \in 1..Len(k[q]), Past(k[q], j),
           k[p][i].at = k[q][j].at
    PROVE  p = q /\ i = j
<1> DEFINE c == k[p][i].at
<1>1. /\ k[p] \in Seq(Frames) /\ k[q] \in Seq(Frames) /\ Order(k[p])
      /\ Chain(p, k[p]) /\ Chain(q, k[q])
  BY DEF Threads, Shape
<1>2. c \in Caches
  <2>1. k[p][i] \in Frames
    BY <1>1
  <2> QED
    BY <2>1 DEF Frames
<1>3. ASSUME c \in Leaves, NEW r \in Leaves, NEW m \in 1..Len(k[r]), k[r][m].at = c,
             Past(k[r], m), Chain(r, k[r])
      PROVE  c = r
  <2>1. m = 1 \/ m > 1
    OBVIOUS
  <2>2. CASE m = 1
    BY <1>3, <2>2 DEF Chain
  <2>3. CASE m > 1
    <3>1. Linked(k[r][m - 1], k[r][m])
      BY <1>3, <2>3 DEF Chain
    <3>2. m - 1 \in 1..Len(k[r])
      BY <2>3
    <3>3. k[r][m - 1] \in Frames
      BY <3>2 DEF Threads
    <3>4. k[r][m].at \in Caches \ Leaves
      BY <1>3, <3>1, <3>3, CoherenceAssumption DEF Linked, Past, Frames
    <3> QED
      BY <1>3, <3>4
  <2> QED
    BY <2>1, <2>2, <2>3
<1>4. p = q
  <2>1. CASE c \in Leaves
    BY <1>1, <1>3, <2>1
  <2>2. CASE c \notin Leaves
    <3>1. t[c] = p /\ t[c] = q
      BY <1>2, <2>2 DEF Threads, Locked, HeldTcc, HoldsTcc, Past
    <3> QED
      BY <3>1
  <2> QED
    BY <2>1, <2>2
<1>5. ~(i < j) /\ ~(j < i)
  BY <1>1, <1>2, <1>4, DepthIs DEF Order, Past
<1> QED
  BY <1>4, <1>5

-----------------------------------------------------------------------------
(* The inductive invariant                                                 *)

\* The arrays a are of their type.
Typed(a) ==
    /\ a = [c \in Caches |-> a[c]]
    /\ \A c \in Caches : a[c] \in [Ways[c] -> Entries(c)]

\* The ways that hold a line, and its state: WaysOf and StateIn, of the arrays a.
WaysFor(a, c, l) == {w \in Ways[c] : a[c][w].tag = l}

\* The state of line l in cache c, of the arrays a.
StateOf(a, c, l) ==
    IF WaysFor(a, c, l) # {} THEN a[c][CHOOSE w \in WaysFor(a, c, l) : TRUE].st ELSE "I"

\* No line is in two ways; one that is not there, or invalid, has no sharers,
\* and an exclusive one has no two.
Tags(a) ==
    \A c \in Caches : \A w \in Ways[c] :
        /\ \A v \in Ways[c] : a[c][w].tag # None /\ a[c][v].tag = a[c][w].tag => v = w
        /\ a[c][w].tag = None => a[c][w].st = "I"
        /\ a[c][w].st = "I" => a[c][w].sharers = {}
        /\ a[c][w].excl => \A d1, d2 \in a[c][w].sharers : d1 = d2

\* The entry a call works on.
Entry(a, f) == a[f.at][f.way]

\* The way a call works on is its line's, or the victim's.
Chosen(a, f) ==
    LET e == Entry(a, f)
    IN  /\ f.way \in Ways[f.at]
        /\ f.pc \in {"evict", "evicted"} => WaysFor(a, f.at, f.line) = {}
        /\ f.pc \notin {"evict", "evicted"} => e.tag = f.line
        /\ f.pc = "evicted" => e.tag # None /\ e.sharers = {}

\* What the call f relies on in its own cache; h says that it holds the bcc lock.
Own(a, f, h) ==
    LET e == Entry(a, f)
    IN  /\ f.pc \in {"evict", "evicted", "access", "grant", "down"} \/ (f.pc = "end" /\ f.op \in Gets)
             => Chosen(a, f)
        /\ f.wb => /\ f.pc \in {"evict", "grant"} /\ f.op \in Gets /\ h /\ f.at \notin Leaves
                   /\ e.tag # None /\ e.st \in {"E", "M"}
        /\ h /\ f.pc \in {"grant", "end"} =>
             /\ f.op = "GETS" => e.st # "I"
             /\ f.op = "GETX" => e.st = "M"
             /\ f.op = "PUTX" /\ f.pc = "grant" => e.st = "M"
        /\ h /\ f.pc = "evicted" => e.st = "I"

\* What an access knows of its line in the child it came from, which is in
\* state x there: before it holds the bcc lock, the line may have been lowered.
Knows(f, x) ==
    /\ f.pc \in {"tcc", "bcc"} =>
         /\ f.op = "GETS" => f.init = "I" /\ x = "I"
         /\ f.op = "GETX" => f.init \in {"I", "S"} /\ x \in {f.init, "I"}
         /\ f.op = "PUTS" => f.init \in {"S", "E"} /\ x \in {f.init, "S", "I"}
         /\ f.op = "PUTX" => f.init = "M" /\ x \in {"M", "S", "I"}
    /\ f.pc \in {"evict", "evicted", "access", "grant"} =>
         /\ f.op = "GETS" => x = "I"
         /\ f.op = "GETX" => x \in {"I", "S"}
         /\ f.op = "PUTS" => x \in {"S", "E"}
         /\ f.op = "PUTX" => x = "M"
    /\ f.pc = "end" =>
         /\ f.op \in Puts => x = "I"
         /\ f.op = "GETS" => x \in {"S", "E"}
         /\ f.op = "GETX" => x = "M"

\* What the call f relies on in the cache of g, which made it.
Caller(a, g, f) ==
    LET e == Entry(a, g)
    IN  /\ f.op \notin Invs => Knows(f, StateOf(a, g.at, f.line))
        /\ f.op \in Puts => e.tag = f.line
        /\ f.op \in Invs => /\ e.tag = f.line /\ f.at \in e.sharers
                            /\ f.op = "INVX" => e.excl
                            /\ g.pc = "grant" => g.from \notin e.sharers

\* Call i of the stack s has what it relies on, in its own and in its caller's cache.
FrameOK(a, s, i) == Own(a, s[i], HoldsBcc(s, i)) /\ (i > 1 => Caller(a, s[i - 1], s[i]))

\* All calls in progress have what they rely on.
Calling(a, k) == \A p \in Leaves : \A i \in 1..Len(k[p]) : FrameOK(a, k[p], i)

\* The child d asks for write permission for the line in way w of c, and is
\* not in the directory until it gets it.
Asks(s, i, c, w, d) ==
    /\ s[i].at = c /\ s[i].way = w /\ s[i].from = d /\ s[i].op = "GETX" /\ s[i].pc = "grant"
    /\ HoldsBcc(s, i)

\* Some call asks for write permission for d, for the line in way w of c.
Owed(k, c, w, d) == \E p \in Leaves : \E i \in 1..Len(k[p]) : Asks(k[p], i, c, w, d)

\* The directory entry e tells the truth about the child d in state x.
Shows(e, d, x, owed) ==
    /\ d \in e.sharers => x # "I"
    /\ x # "I" => d \in e.sharers \/ (owed /\ ~e.excl)
    /\ x \in {"E", "M"} => e.sharers = {d} /\ e.excl
    /\ e.sharers = {d} /\ e.excl => x \in {"E", "M"}

\* The directory entry in way w of c tells the truth about the child d.
Listed(a, k, c, w, d) ==
    a[c][w].tag # None => Shows(a[c][w], d, StateOf(a, d, a[c][w].tag), Owed(k, c, w, d))

\* All directory entries tell the truth, but for the permissions that are asked for.
Directories(a, k) ==
    \A c \in Caches : \A w \in Ways[c] : \A d \in Children(c) : Listed(a, k, c, w, d)

\* Inclusion, of the arrays a.
Included(a) ==
    \A c \in Caches \ {Root} : \A l \in Lines :
        /\ StateOf(a, c, l) # "I" => StateOf(a, Parent[c], l) # "I"
        /\ StateOf(a, c, l) \in {"E", "M"} => StateOf(a, Parent[c], l) \in {"E", "M"}

\* What the arrays a and the stacks k satisfy together.
Data(a, k) == Typed(a) /\ Tags(a) /\ Calling(a, k) /\ Directories(a, k) /\ Included(a)

\* The types of the filters, the locks and the history.
Kinds ==
    /\ filter \in [Leaves -> [rd : Lines \cup {None}, wr : Lines \cup {None}]]
    /\ tcc \in [Caches \ Leaves -> Leaves \cup {None}]
    /\ bcc \in [Caches -> Leaves \cup {None}]
    /\ dirty \in [Lines -> BOOLEAN]

\* The inductive invariant.
IInv == failed = FALSE /\ Kinds /\ Threads(stack, bcc, tcc) /\ Data(array, stack)

\* What the filter of core p, which has the calls s in progress, may answer.
Filtered(a, p, s, u) ==
    /\ u.wr \in {None, u.rd}
    /\ s = <<>> => /\ u.rd # None => StateOf(a, p, u.rd) # "I"
                   /\ u.wr # None => StateOf(a, p, u.wr) = "M"

\* Some cache, or some access in progress, has the line l modified.
Modified(a, k, l) ==
    \/ \E c \in Caches : StateOf(a, c, l) = "M"
    \/ \E p \in Leaves : \E i \in 1..Len(k[p]) : k[p][i].wb /\ Entry(a, k[p][i]).tag = l

\* The filters answer what their L1s would, and writes are not lost.
FilterInv ==
    /\ \A p \in Leaves : Filtered(array, p, stack[p], filter[p])
    /\ \A l \in Lines : dirty[l] => Modified(array, stack, l)

-----------------------------------------------------------------------------
(* Lines                                                                   *)

\* A line that is in a way is in no other, and its state is the way's.
LEMMA StateIs ==
    ASSUME NEW a, Tags(a), NEW c \in Caches, NEW w \in Ways[c], a[c][w].tag # None
    PROVE  /\ WaysFor(a, c, a[c][w].tag) = {w}
           /\ StateOf(a, c, a[c][w].tag) = a[c][w].st
<1>1. WaysFor(a, c, a[c][w].tag) = {w}
  BY DEF Tags, WaysFor
<1>2. (CHOOSE v \in {w} : TRUE) = w
  OBVIOUS
<1> QED
  BY <1>1, <1>2 DEF StateOf

\* A line with a state other than I is in a way.
LEMMA Present ==
    ASSUME NEW a, NEW c, NEW l, StateOf(a, c, l) # "I"
    PROVE  /\ WaysFor(a, c, l) # {}
           /\ \E w \in Ways[c] : a[c][w].tag = l /\ a[c][w].st = StateOf(a, c, l)
<1>1. WaysFor(a, c, l) # {}
  BY DEF StateOf
<1>2. PICK w \in WaysFor(a, c, l) : w = CHOOSE v \in WaysFor(a, c, l) : TRUE
  BY <1>1
<1>3. StateOf(a, c, l) = a[c][w].st
  BY <1>1, <1>2 DEF StateOf
<1> QED
  BY <1>1, <1>2, <1>3 DEF WaysFor

\* The lines of a cache depend on its array only.
LEMMA SameLines ==
    ASSUME NEW a, NEW a2, NEW c, a2[c] = a[c], NEW l
    PROVE  WaysFor(a2, c, l) = WaysFor(a, c, l) /\ StateOf(a2, c, l) = StateOf(a, c, l)
BY DEF WaysFor, StateOf

\* The entries of a line are of their type.
LEMMA EntryType ==
    ASSUME NEW a, Typed(a), NEW c \in Caches, NEW w \in Ways[c]
    PROVE  /\ a[c][w] \in Entries(c)
           /\ a[c][w].tag \in Lines \cup {None} /\ a[c][w].st \in States
           /\ a[c][w].sharers \subseteq Children(c) /\ a[c][w].excl \in BOOLEAN
<1>1. a[c][w] \in Entries(c)
  BY DEF Typed
<1> QED
  BY <1>1 DEF Entries

\* A line is always in one of the four states.
LEMMA StateType ==
    ASSUME NEW a, Typed(a), NEW c \in Caches, NEW l
    PROVE  StateOf(a, c, l) \in States
<1>1. CASE StateOf(a, c, l) = "I"
  BY <1>1 DEF States
<1>2. CASE StateOf(a, c, l) # "I"
  BY <1>2, Present, EntryType
<1> QED
  BY <1>1, <1>2

\* The model's helpers, of the arrays they read.
LEMMA HelpersAre ==
    ASSUME NEW c, NEW l
    PROVE  /\ WaysOf(c, l) = WaysFor(array, c, l)
           /\ StateIn(c, l) = StateOf(array, c, l)
           /\ Cached(c, l) <=> WaysFor(array, c, l) # {}
BY DEF WaysOf, Cached, WayOf, StateIn, WaysFor, StateOf

\* The arrays a2 are a with the entry e in way w of c.
Changed(a, a2, c, w, e) ==
    /\ a2 = [d \in Caches |-> a2[d]]
    /\ \A d \in Caches : d # c => a2[d] = a[d]
    /\ a2[c] = [a[c] EXCEPT ![w] = e]

\* EXCEPT changes one way.
LEMMA ChangedIs ==
    ASSUME NEW a, Typed(a), NEW c \in Caches, NEW w \in Ways[c], NEW e
    PROVE  Changed(a, [a EXCEPT ![c][w] = e], c, w, e)
BY DEF Typed, Changed

\* The other ways keep their entries.
LEMMA ChangedEntries ==
    ASSUME NEW a, Typed(a), NEW c \in Caches, NEW w \in Ways[c], NEW e \in Entries(c),
           NEW a2, Changed(a, a2, c, w, e)
    PROVE  /\ Typed(a2)
           /\ a2[c][w] = e
           /\ \A v \in Ways[c] : v # w => a2[c][v] = a[c][v]
<1>1. a[c] \in [Ways[c] -> Entries(c)]
  BY DEF Typed
<1>2. a2[c] \in [Ways[c] -> Entries(c)]
  BY <1>1 DEF Changed
<1>3. \A d \in Caches : a2[d] \in [Ways[d] -> Entries(d)]
  BY <1>2 DEF Changed, Typed
<1> QED
  BY <1>1, <1>3 DEF Changed, Typed

\* With the same tag the lines stay where they are, and one has another state.
LEMMA Restated ==
    ASSUME NEW a, Typed(a), Tags(a), NEW c \in Caches, NEW w \in Ways[c], NEW e \in Entries(c),
           e.tag = a[c][w].tag, NEW a2, Changed(a, a2, c, w, e)
    PROVE  \A d \in Caches, l \in Lines :
              /\ WaysFor(a2, d, l) = WaysFor(a, d, l)
              /\ StateOf(a2, d, l) = IF d = c /\ l = e.tag THEN e.st ELSE StateOf(a, d, l)
<1>1. /\ Typed(a2) /\ a2[c][w] = e
      /\ \A v \in Ways[c] : v # w => a2[c][v] = a[c][v]
      /\ \A d \in Caches : d # c => a2[d] = a[d]
  BY ChangedEntries DEF Changed
<1> SUFFICES ASSUME NEW d \in Caches, NEW l \in Lines
             PROVE  /\ WaysFor(a2, d, l) = WaysFor(a, d, l)
                    /\ StateOf(a2, d, l) = IF d = c /\ l = e.tag THEN e.st ELSE StateOf(a, d, l)
  OBVIOUS
<1>2. CASE d # c
  BY <1>1, <1>2, SameLines
<1>3. CASE d = c
  <2>1. WaysFor(a2, c, l) = WaysFor(a, c, l)
    BY <1>1 DEF WaysFor
  <2>2. CASE l = e.tag
    <3>1. l # None
      BY CoherenceAssumption
    <3>2. WaysFor(a, c, l) = {w}
      BY <2>2, <3>1, StateIs
    <3>3. (CHOOSE v \in {w} : TRUE) = w
      OBVIOUS
    <3> QED
      BY <1>1, <1>3, <2>1, <2>2, <3>2, <3>3 DEF StateOf
  <2>3. CASE l # e.tag
    <3>1. w \notin WaysFor(a, c, l)
      BY <2>3 DEF WaysFor
    <3>2. StateOf(a2, c, l) = StateOf(a, c, l)
      <4>1. CASE WaysFor(a, c, l) = {}
        BY <2>1, <4>1 DEF StateOf
      <4>2. CASE WaysFor(a, c, l) # {}
        <5>1. PICK v \in WaysFor(a, c, l) : v = CHOOSE u \in WaysFor(a, c, l) : TRUE
          BY <4>2
        <5>2. v \in Ways[c] /\ v # w
          BY <3>1, <5>1 DEF WaysFor
        <5> QED
          BY <1>1, <2>1, <4>2, <5>1, <5>2 DEF StateOf
      <4> QED
        BY <4>1, <4>2
    <3> QED
      BY <1>3, <2>1, <2>3, <3>2
  <2> QED
    BY <2>2, <2>3
<1> QED
  BY <1>2, <1>3

\* With a new tag the old line is gone, and the new one is in I.
LEMMA Inserted ==
    ASSUME NEW a, Typed(a), Tags(a), NEW c \in Caches, NEW w \in Ways[c], NEW e \in Entries(c),
           WaysFor(a, c, e.tag) = {}, e.st = "I", e.sharers = {},
           NEW a2, Changed(a, a2, c, w, e)
    PROVE  /\ Tags(a2)
           /\ \A d \in Caches, l \in Lines :
                 StateOf(a2, d, l) = IF d = c /\ l = a[c][w].tag THEN "I" ELSE StateOf(a, d, l)
<1>1. /\ Typed(a2) /\ a2[c][w] = e
      /\ \A v \in Ways[c] : v # w => a2[c][v] = a[c][v]
      /\ \A d \in Caches : d # c => a2[d] = a[d]
  BY ChangedEntries DEF Changed
<1>2. \A v \in Ways[c] : a[c][v].tag # e.tag
  BY DEF WaysFor
<1>3. Tags(a2)
  <2> SUFFICES ASSUME NEW d \in Caches, NEW v \in Ways[d]
               PROVE  /\ \A u \in Ways[d] : a2[d][v].tag # None /\ a2[d][u].tag = a2[d][v].tag => u = v
                      /\ a2[d][v].tag = None => a2[d][v].st = "I"
                      /\ a2[d][v].st = "I" => a2[d][v].sharers = {}
                      /\ a2[d][v].excl => \A d1, d2 \in a2[d][v].sharers : d1 = d2
    BY Zenon DEF Tags
  <2>1. CASE d # c
    BY <1>1, <2>1 DEF Tags
  <2>2. CASE d = c /\ v # w
    <3>1. a2[d][v] = a[d][v]
      BY <1>1, <2>2
    <3>2. \A u \in Ways[d] : a2[d][u].tag = a2[d][v].tag => u # w
      BY <1>1, <1>2, <2>2
    <3> QED
      BY <1>1, <2>2, <3>1, <3>2 DEF Tags
  <2>3. CASE d = c /\ v = w
    BY <1>1, <1>2, <2>3
  <2> QED
    BY <2>1, <2>2, <2>3
<1>4. ASSUME NEW d \in Caches, NEW l \in Lines
      PROVE  StateOf(a2, d, l) = IF d = c /\ l = a[c][w].tag THEN "I" ELSE StateOf(a, d, l)
  <2>1. CASE d # c
    BY <1>1, <2>1, SameLines
  <2>2. CASE d = c /\ l = e.tag
    <3>1. StateOf(a2, c, e.tag) = "I"
      BY <1>1, <1>3, StateIs, <2>2, CoherenceAssumption
    <3>2. StateOf(a, c, e.tag) = "I"
      BY DEF StateOf
    <3> QED
      BY <2>2, <3>1, <3>2
  <2>3. CASE d = c /\ l # e.tag /\ l = a[c][w].tag
    <3>0. a[c][w].tag # None
      BY <2>3, CoherenceAssumption
    <3>1. WaysFor(a, c, l) = {w}
      BY <2>3, <3>0, StateIs
    <3>2. WaysFor(a2, c, l) = {}
      BY <1>1, <2>3, <3>1 DEF WaysFor
    <3> QED
      BY <2>3, <3>2 DEF StateOf
  <2>4. CASE d = c /\ l # e.tag /\ l # a[c][w].tag
    <3>1. WaysFor(a2, c, l) = WaysFor(a, c, l)
      BY <1>1, <2>4 DEF WaysFor
    <3>2. CASE WaysFor(a, c, l) = {}
      BY <2>4, <3>1, <3>2 DEF StateOf
    <3>3. CASE WaysFor(a, c, l) # {}
      <4>1. PICK v \in WaysFor(a, c, l) : v = CHOOSE u \in WaysFor(a, c, l) : TRUE
        BY <3>3
      <4>2. v \in Ways[c] /\ v # w
        BY <2>4, <4>1 DEF WaysFor
      <4> QED
        BY <1>1, <2>4, <3>1, <3>3, <4>1, <4>2 DEF StateOf
    <3> QED
      BY <3>2, <3>3
  <2> QED
    BY <2>1, <2>2, <2>3, <2>4
<1> QED
  BY <1>3, <1>4

-----------------------------------------------------------------------------
(* Calls that a step leaves alone                                          *)

\* a2 has the lines of a at c where they were, and no new sharers.
Gentle(a, a2, c) ==
    \A w \in Ways[c] : /\ a2[c][w].tag = a[c][w].tag
                       /\ a[c][w].sharers = {} => a2[c][w].sharers = {}

\* What a call relies on in its own cache, and in its caller's, stays true.
LEMMA OwnKept ==
    ASSUME NEW a, NEW a2, NEW f, NEW h \in BOOLEAN, Own(a, f, h), f.at \in Caches,
           \/ a2[f.at] = a[f.at]
           \/ f.pc \in {"tcc", "bcc"}
           \/ ~h /\ f.pc # "end" /\ Gentle(a, a2, f.at)
    PROVE  Own(a2, f, h)
<1>1. CASE a2[f.at] = a[f.at]
  <2>1. Entry(a2, f) = Entry(a, f) /\ WaysFor(a2, f.at, f.line) = WaysFor(a, f.at, f.line)
    BY <1>1 DEF Entry, WaysFor
  <2>2. Chosen(a, f) => Chosen(a2, f)
    BY <2>1 DEF Chosen
  <2> QED
    BY <2>1, <2>2 DEF Own
<1>2. CASE f.pc \in {"tcc", "bcc"}
  BY <1>2 DEF Own
<1>3. CASE ~h /\ f.pc # "end" /\ Gentle(a, a2, f.at)
  <2>1. Chosen(a, f) => Chosen(a2, f)
    <3> HAVE Chosen(a, f)
    <3>1. f.way \in Ways[f.at]
      BY DEF Chosen
    <3>2. WaysFor(a2, f.at, f.line) = WaysFor(a, f.at, f.line)
      BY <1>3 DEF WaysFor, Gentle
    <3>3. /\ Entry(a2, f).tag = Entry(a, f).tag
          /\ Entry(a, f).sharers = {} => Entry(a2, f).sharers = {}
      BY <1>3, <3>1 DEF Gentle, Entry
    <3> QED
      BY <3>1, <3>2, <3>3 DEF Chosen
  <2> QED
    BY <1>3, <2>1 DEF Own
<1> QED
  BY <1>1, <1>2, <1>3

\* What a call relies on in its caller's cache depends on that cache only.
LEMMA CallerKept ==
    ASSUME NEW a, NEW a2, NEW g, NEW f, Caller(a, g, f), a2[g.at] = a[g.at]
    PROVE  Caller(a2, g, f)
<1>1. Entry(a2, g) = Entry(a, g) /\ StateOf(a2, g.at, f.line) = StateOf(a, g.at, f.line)
  BY SameLines DEF Entry
<1> QED
  BY <1>1 DEF Caller

\* Two calls of a stack that follow each other.
LEMMA Neighbours ==
    ASSUME NEW k, NEW b, NEW t, Threads(k, b, t), NEW q \in Leaves, NEW j \in 1..Len(k[q])
    PROVE  /\ k[q] \in Seq(Frames) /\ k[q][j] \in Frames /\ k[q][j].at \in Caches
           /\ Placed(k[q][j])
           /\ j = 1 => k[q][j].op \in Gets /\ k[q][j].at = q /\ k[q][j].from = None
           /\ j > 1 => /\ j - 1 \in 1..Len(k[q]) /\ j - 1 # Len(k[q])
                       /\ k[q][j - 1] \in Frames /\ k[q][j - 1].at \in Caches
                       /\ Linked(k[q][j - 1], k[q][j])
                       /\ k[q][j - 1].pc \in {"evict", "evicted", "grant", "down"}
                       /\ k[q][j].op \in Invs => HoldsBcc(k[q], j - 1)
                       /\ k[q][j].op \notin Invs => Past(k[q], j - 1)
<1>1. k[q] \in Seq(Frames) /\ Chain(q, k[q]) /\ Order(k[q])
  BY DEF Threads, Shape
<1>2. k[q][j] \in Frames /\ k[q][j].at \in Caches
  <2>1. k[q][j] \in Frames
    BY <1>1
  <2> QED
    BY <2>1 DEF Frames
<1>3. /\ Placed(k[q][j])
      /\ j = 1 => k[q][j].op \in Gets /\ k[q][j].at = q /\ k[q][j].from = None
  BY <1>1 DEF Chain
<1>4. ASSUME j > 1
      PROVE  /\ j - 1 \in 1..Len(k[q]) /\ j - 1 # Len(k[q])
             /\ k[q][j - 1] \in Frames /\ k[q][j - 1].at \in Caches
             /\ Linked(k[q][j - 1], k[q][j])
             /\ k[q][j - 1].pc \in {"evict", "evicted", "grant", "down"}
             /\ k[q][j].op \in Invs => HoldsBcc(k[q], j - 1)
             /\ k[q][j].op \notin Invs => Past(k[q], j - 1)
  <2>1. j - 1 \in 1..Len(k[q]) /\ j - 1 # Len(k[q]) /\ (j - 1) + 1 = j /\ j - 1 < Len(k[q])
    BY <1>1, <1>4
  <2>2. k[q][j - 1] \in Frames /\ k[q][j - 1].at \in Caches
    <3>1. k[q][j - 1] \in Frames
      BY <1>1, <2>1
    <3> QED
      BY <3>1 DEF Frames
  <2>3. Linked(k[q][j - 1], k[q][j])
    BY <1>1, <1>4 DEF Chain
  <2>4. k[q][j - 1].pc \in {"evict", "evicted", "grant", "down"}
    BY <1>1, <2>1 DEF Chain
  <2>5. k[q][j].op \in Invs => HoldsBcc(k[q], j - 1)
    BY <2>1, <2>4 DEF HoldsBcc
  <2>6. k[q][j].op \notin Invs => Past(k[q], j - 1)
    BY <2>3, <2>4 DEF Linked, Past, Gets, Puts, Invs
  <2> QED
    BY <2>1, <2>2, <2>3, <2>4, <2>5, <2>6
<1> QED
  BY <1>1, <1>2, <1>3, <1>4

\* What each call relies on.
LEMMA CallIs ==
    ASSUME NEW a, NEW k, Calling(a, k), NEW q \in Leaves, NEW j \in 1..Len(k[q])
    PROVE  /\ Own(a, k[q][j], HoldsBcc(k[q], j)) /\ HoldsBcc(k[q], j) \in BOOLEAN
           /\ j > 1 => Caller(a, k[q][j - 1], k[q][j])
BY DEF Calling, FrameOK, HoldsBcc

\* An access that holds its locks at c is alone there: a change at c, and a
\* gentle one in the child the access came from, is not felt by other calls.
LEMMA OthersOfAccess ==
    ASSUME NEW k, NEW b, NEW t, Threads(k, b, t), NEW a, Calling(a, k),
           NEW p \in Leaves, k[p] # <<>>,
           Last(k[p]).pc \notin {"tcc", "bcc"}, Last(k[p]).op \notin Invs,
           NEW a2,
           \A c \in Caches : c # Last(k[p]).at => 
               \/ a2[c] = a[c]
               \/ c = Last(k[p]).from /\ Len(k[p]) > 1 /\ Gentle(a, a2, c),
           NEW q \in Leaves, NEW j \in 1..Len(k[q]), ~(q = p /\ j = Len(k[p]))
    PROVE  FrameOK(a2, k[q], j)
<1> DEFINE n == Len(k[p])
           f == Last(k[p])
           g == k[q][j]
<1>1. /\ n \in Nat \ {0} /\ f = k[p][n] /\ n \in 1..n /\ HoldsBcc(k[p], n) /\ Past(k[p], n)
      /\ f.at \in Caches /\ f.op \notin Invs
      /\ n > 1 => Linked(k[p][n - 1], f) /\ n - 1 \in 1..n /\ Past(k[p], n - 1)
  <2>1. n \in Nat \ {0} /\ f = k[p][n] /\ n \in 1..n /\ HoldsBcc(k[p], n)
    BY TopIs
  <2>2. Past(k[p], n)
    BY <2>1 DEF Past
  <2>3. f.at \in Caches /\ (n > 1 => Linked(k[p][n - 1], f) /\ n - 1 \in 1..n /\ Past(k[p], n - 1))
    BY <2>1, Neighbours
  <2> QED
    BY <2>1, <2>2, <2>3
<1>2. n > 1 => f.from = k[p][n - 1].at
  BY <1>1 DEF Linked, Invs, Gets, Puts
<1>3. /\ k[q] \in Seq(Frames) /\ g \in Frames /\ g.at \in Caches /\ Placed(g)
      /\ j > 1 => /\ j - 1 \in 1..Len(k[q]) /\ j - 1 # Len(k[q])
                  /\ k[q][j - 1] \in Frames /\ k[q][j - 1].at \in Caches
                  /\ Linked(k[q][j - 1], g)
                  /\ k[q][j - 1].pc \in {"evict", "evicted", "grant", "down"}
                  /\ g.op \in Invs => HoldsBcc(k[q], j - 1)
                  /\ g.op \notin Invs => Past(k[q], j - 1)
  BY Neighbours
<1>4. /\ Own(a, g, HoldsBcc(k[q], j)) /\ HoldsBcc(k[q], j) \in BOOLEAN
      /\ j > 1 => Caller(a, k[q][j - 1], g)
  BY CallIs
<1> HIDE DEF n, f, g
\* No other call at c holds a lock,
<1>5. ASSUME NEW i \in 1..Len(k[q]), k[q][i].at = f.at, HoldsBcc(k[q], i) \/ Past(k[q], i)
      PROVE  q = p /\ i = n
  BY <1>1, <1>5, OneHolder, OneAccess DEF n
\* and in the child only the call that waits for this one works.
<1>6. ASSUME n > 1, NEW i \in 1..Len(k[q]), k[q][i].at = f.from, Past(k[q], i)
      PROVE  q = p /\ i = n - 1
  <2>1. n - 1 \in 1..Len(k[p]) /\ Past(k[p], n - 1) /\ k[p][n - 1].at = k[q][i].at
    BY <1>1, <1>2, <1>6 DEF n
  <2> QED
    BY <1>6, <2>1, OneAccess
<1>7. ASSUME n > 1, NEW i \in 1..Len(k[q]), i > 1, k[q][i].at = f.from, k[q][i].op \in Invs
      PROVE  FALSE
  <2>1. /\ i - 1 \in 1..Len(k[q]) /\ i - 1 # Len(k[q]) /\ HoldsBcc(k[q], i - 1)
        /\ Linked(k[q][i - 1], k[q][i])
    BY <1>7, Neighbours
  <2>2. k[q][i - 1].at = Parent[f.from]
    BY <1>7, <2>1 DEF Linked, Invs, Gets, Puts, Children
  <2>3. f.at = Parent[f.from]
    BY <1>1, <1>2, <1>7 DEF Linked, Invs, Gets, Puts, n
  <2>4. q = p /\ i - 1 = n
    BY <1>5, <2>1, <2>2, <2>3
  <2> QED
    BY <2>1, <2>4 DEF n
<1>8. Own(a2, g, HoldsBcc(k[q], j))
  <2>1. CASE g.pc \in {"tcc", "bcc"}
    BY <1>3, <1>4, <2>1, OwnKept
  <2>2. CASE g.pc \notin {"tcc", "bcc"}
    <3>1. g.at # f.at
      <4> SUFFICES ASSUME g.at = f.at PROVE FALSE
        OBVIOUS
      <4>1. g.op \in Invs => HoldsBcc(k[q], j)
        BY <1>3, <2>2 DEF Placed, HoldsBcc, g
      <4>2. g.op \notin Invs => Past(k[q], j)
        BY <2>2 DEF Past, g
      <4> QED
        BY <1>5, <4>1, <4>2 DEF n, g
    <3>2. CASE a2[g.at] = a[g.at]
      BY <1>3, <1>4, <3>2, OwnKept
    <3>3. CASE a2[g.at] # a[g.at]
      <4>1. g.at = f.from /\ n > 1 /\ Gentle(a, a2, g.at)
        BY <1>3, <3>1, <3>3 DEF n, f
      <4>2. g.op \notin Invs
        <5>1. j = 1 => g.op \in Gets
          BY Neighbours DEF g
        <5>2. j = 1 \/ j > 1
          OBVIOUS
        <5> QED
          BY <1>7, <4>1, <5>1, <5>2 DEF g, Gets, Invs
      <4>3. q = p /\ j = n - 1
        BY <1>6, <2>2, <4>1, <4>2 DEF Past, g
      <4>4. ~HoldsBcc(k[q], j) /\ g.pc # "end"
        <5>1. k[p][n - 1].pc \in {"grant", "evicted"} /\ (n - 1) + 1 = n /\ n - 1 # Len(k[p])
          BY <1>1, <4>1 DEF Linked, Past, Gets, Puts, Invs, n
        <5> QED
          BY <1>1, <4>3, <5>1 DEF HoldsBcc, g, Past
      <4> QED
        BY <1>3, <1>4, <4>1, <4>4, OwnKept
    <3> QED
      BY <3>2, <3>3
  <2> QED
    BY <2>1, <2>2
<1>9. j > 1 => Caller(a2, k[q][j - 1], g)
  <2> HAVE j > 1
  <2>1. k[q][j - 1].at # f.at
    BY <1>1, <1>3, <1>5 DEF n
  <2>2. k[q][j - 1].at # f.from \/ n = 1
    <3> SUFFICES ASSUME k[q][j - 1].at = f.from, n > 1 PROVE FALSE
      BY <1>1
    <3>1. CASE g.op \notin Invs
      <4>1. q = p /\ j - 1 = n - 1
        BY <1>3, <1>6, <3>1
      <4> QED
        BY <1>1, <4>1 DEF n
    <3>2. CASE g.op \in Invs
      <4>1. CASE k[q][j - 1].op \in Invs
        <5>1. j - 1 > 1
          <6>1. j - 1 = 1 => k[q][j - 1].op \in Gets
            BY <1>3, Neighbours
          <6> QED
            BY <1>3, <4>1, <6>1 DEF Gets, Invs
        <5> QED
          BY <1>3, <1>7, <4>1, <5>1
      <4>2. CASE k[q][j - 1].op \notin Invs
        <5>1. Past(k[q], j - 1)
          BY <1>3, <4>2 DEF Past
        <5>2. q = p /\ j - 1 = n - 1
          BY <1>3, <1>6, <5>1
        <5> QED
          BY <1>1, <5>2 DEF n
      <4> QED
        BY <4>1, <4>2
    <3> QED
      BY <3>1, <3>2
  <2>3. a2[k[q][j - 1].at] = a[k[q][j - 1].at]
    BY <1>1, <1>3, <2>1, <2>2 DEF n, f
  <2> QED
    BY <1>4, <2>3, CallerKept
<1> QED
  BY <1>8, <1>9 DEF FrameOK, g

\* a2 is a after the invalidation f has worked in its cache and answered in
\* that of g, which sent it: a line is lowered, and not to S from S.
Lowered(a, a2, f, g) ==
    /\ \A c \in Caches : c \notin {f.at, g.at} => a2[c] = a[c]
    /\ Gentle(a, a2, f.at) /\ Gentle(a, a2, g.at)
    /\ \A c \in Caches, l \in Lines :
          ~(c = f.at /\ l = f.line) => StateOf(a2, c, l) = StateOf(a, c, l)
    /\ StateOf(a, f.at, f.line) # "I"
    /\ \/ StateOf(a2, f.at, f.line) = "I"
       \/ StateOf(a, f.at, f.line) \in {"E", "M"} /\ StateOf(a2, f.at, f.line) = "S"

\* The invalidation f on top of the stack, and the call g that sent it.
LEMMA TopInvalidation ==
    ASSUME NEW k, NEW b, NEW t, Threads(k, b, t), NEW p \in Leaves, k[p] # <<>>,
           Last(k[p]).pc = "down"
    PROVE  LET n == Len(k[p])
               f == Last(k[p])
               g == k[p][n - 1]
           IN  /\ n \in Nat /\ n > 1 /\ f = k[p][n] /\ n \in 1..n /\ n - 1 \in 1..n
               /\ f \in Frames /\ g \in Frames /\ f.at \in Caches /\ g.at \in Caches
               /\ f.op \in Invs /\ Linked(g, f) /\ f.at \in Children(g.at) /\ f.at # g.at
               /\ g.at = Parent[f.at] /\ f.at # Root
               /\ g.pc \in {"evict", "grant", "down"}
               /\ HoldsBcc(k[p], n) /\ HoldsBcc(k[p], n - 1)
               /\ Placed(f) /\ Placed(g)
<1> DEFINE n == Len(k[p])
           f == Last(k[p])
           g == k[p][n - 1]
<1>1. /\ n \in Nat \ {0} /\ f = k[p][n] /\ n \in 1..n /\ f \in Frames /\ Placed(f)
      /\ f.at \in Caches /\ HoldsBcc(k[p], n)
      /\ n = 1 => f.op \in Gets
  BY TopIs
<1>2. f.op \in Invs
  BY <1>1 DEF Placed
<1>3. n > 1
  <2>1. n # 1
    BY <1>1, <1>2 DEF Gets, Invs
  <2>2. n \in Nat \ {0}
    BY <1>1
  <2> HIDE DEF n
  <2> QED
    BY <2>1, <2>2
<1>4. n - 1 \in 1..n /\ Linked(g, f) /\ HoldsBcc(k[p], n - 1) /\ g \in Frames /\ g.at \in Caches
  BY <1>1, <1>2, <1>3, Neighbours
<1>5. Placed(g)
  BY <1>4, Neighbours
<1>6. f.at \in Children(g.at) /\ g.pc \in {"evict", "grant", "down"}
  BY <1>2, <1>4 DEF Linked, Invs, Gets, Puts
<1>7. f.at # g.at /\ g.at = Parent[f.at] /\ f.at # Root
  BY <1>1, <1>4, <1>6, DepthIs DEF Children
<1> HIDE DEF n, f, g
<1> QED
  BY <1>1, <1>2, <1>3, <1>4, <1>5, <1>6, <1>7 DEF n, f, g

\* An invalidation takes from no call but itself and its caller what it relies
\* on in its own cache.
LEMMA OwnOfOthers ==
    ASSUME NEW k, NEW b, NEW t, Threads(k, b, t), NEW a, Calling(a, k),
           NEW p \in Leaves, k[p] # <<>>, Last(k[p]).pc = "down",
           NEW a2, Lowered(a, a2, Last(k[p]), k[p][Len(k[p]) - 1]),
           NEW q \in Leaves, NEW j \in 1..Len(k[q]), ~(q = p /\ j \in {Len(k[p]), Len(k[p]) - 1})
    PROVE  Own(a2, k[q][j], HoldsBcc(k[q], j))
<1> DEFINE n == Len(k[p])
           f == Last(k[p])
           g == k[p][n - 1]
           e == k[q][j]
<1>1. /\ n \in 1..n /\ n - 1 \in 1..n /\ f = k[p][n]
      /\ HoldsBcc(k[p], n) /\ HoldsBcc(k[p], n - 1)
  BY TopInvalidation
<1>2. e \in Frames /\ e.at \in Caches
  BY Neighbours
<1>3. Own(a, e, HoldsBcc(k[q], j)) /\ HoldsBcc(k[q], j) \in BOOLEAN
  BY CallIs
<1>4. CASE e.at \notin {f.at, g.at}
  BY <1>2, <1>3, <1>4, OwnKept DEF Lowered
<1>5. CASE e.at \in {f.at, g.at}
  <2>1. ~HoldsBcc(k[q], j)
    BY <1>1, <1>5, OneHolder
  <2>2. e.pc # "end"
    BY <2>1 DEF HoldsBcc
  <2>3. Gentle(a, a2, e.at)
    BY <1>5 DEF Lowered
  <2> QED
    BY <1>2, <1>3, <2>1, <2>2, <2>3, OwnKept
<1> QED
  BY <1>4, <1>5

\* What an access that waits for its child's parent knows bears the lowering.
LEMMA KnowsLower ==
    ASSUME NEW f, NEW x, NEW y, Knows(f, x), x # "I", y = "I" \/ (x \in {"E", "M"} /\ y = "S"),
           f.op \in Gets \cup Puts, f.pc \in {"tcc", "bcc"} \/ (f.pc \in {"grant", "evicted"} /\ f.op \in Gets)
    PROVE  Knows(f, y)
<1>1. CASE f.pc \in {"tcc", "bcc"}
  <2>1. CASE f.op = "GETS"
    BY <1>1, <2>1 DEF Knows, Puts
  <2>2. CASE f.op = "GETX"
    BY <1>1, <2>2 DEF Knows, Puts
  <2>3. CASE f.op \in Puts
    BY <1>1, <2>3 DEF Knows, Puts
  <2> QED
    BY <2>1, <2>2, <2>3 DEF Gets
<1>2. CASE f.pc \in {"grant", "evicted"} /\ f.op \in Gets
  BY <1>2 DEF Knows, Gets, Puts
<1> QED
  BY <1>1, <1>2

\* An invalidation takes from no call but itself what it relies on in its
\* caller's cache.
LEMMA CallersOfOthers ==
    ASSUME NEW k, NEW b, NEW t, Threads(k, b, t), NEW a, Calling(a, k),
           NEW p \in Leaves, k[p] # <<>>, Last(k[p]).pc = "down",
           NEW a2, Lowered(a, a2, Last(k[p]), k[p][Len(k[p]) - 1]),
           NEW q \in Leaves, NEW j \in 1..Len(k[q]), j > 1, ~(q = p /\ j = Len(k[p]))
    PROVE  Caller(a2, k[q][j - 1], k[q][j])
<1> DEFINE n == Len(k[p])
           f == Last(k[p])
           g == k[p][n - 1]
           h == k[q][j - 1]
           e == k[q][j]
<1>1. /\ n \in Nat /\ n > 1 /\ n \in 1..n /\ n - 1 \in 1..n /\ f = k[p][n]
      /\ HoldsBcc(k[p], n) /\ HoldsBcc(k[p], n - 1)
      /\ f.at \in Caches /\ g.at = Parent[f.at] /\ f.at # Root /\ f.op \in Invs
      /\ g.pc \in {"evict", "grant", "down"} /\ Linked(g, f)
  BY TopInvalidation
<1>2. /\ e \in Frames /\ h \in Frames /\ h.at \in Caches /\ Linked(h, e) /\ Placed(e)
      /\ j - 1 \in 1..Len(k[q])
      /\ e.op \in Invs => HoldsBcc(k[q], j - 1)
      /\ e.op \notin Invs => Past(k[q], j - 1)
  BY Neighbours
<1>3. Caller(a, h, e) /\ Own(a, g, HoldsBcc(k[p], n - 1)) /\ Caller(a, g, f)
  <2>1. Caller(a, h, e)
    BY CallIs
  <2>2. Own(a, g, HoldsBcc(k[p], n - 1))
    BY <1>1, CallIs
  <2>3. Caller(a, g, f)
    BY <1>1, CallIs
  <2> QED
    BY <2>1, <2>2, <2>3
<1>4. Placed(h)
  BY <1>2, Neighbours
<1>5. ASSUME NEW i \in 1..Len(k[q]), HoldsBcc(k[q], i), k[q][i].at = f.at
      PROVE  q = p /\ i = n
  BY <1>1, <1>5, OneHolder
<1>6. ASSUME NEW i \in 1..Len(k[q]), HoldsBcc(k[q], i), k[q][i].at = g.at
      PROVE  q = p /\ i = n - 1
  BY <1>1, <1>6, OneHolder
<1> SUFFICES Caller(a2, h, e)
  OBVIOUS
<1> HIDE DEF n, f, g, h, e
<1>7. CASE h.at \notin {f.at, g.at}
  BY <1>2, <1>3, <1>7, CallerKept DEF Lowered, n, f, g
<1>8. CASE h.at \in {f.at, g.at}
  <2>1. e.op \notin Invs
    BY <1>1, <1>2, <1>5, <1>6, <1>8 DEF n, h
  <2>2. Past(k[q], j - 1) /\ h.pc \in {"grant", "evicted"} /\ h.way \in Ways[h.at]
        /\ e.op \in Gets \cup Puts /\ e.at = Parent[h.at]
    BY <1>2, <1>4, <2>1 DEF Linked, Placed, Frames
  <2>3. Entry(a2, h).tag = Entry(a, h).tag
    BY <1>8, <2>2 DEF Lowered, Gentle, Entry, n, f, g
  <2>4. Knows(e, StateOf(a2, h.at, e.line))
    <3>1. e.line \in Lines
      BY <1>2 DEF Frames
    <3>2. Knows(e, StateOf(a, h.at, e.line))
      BY <1>3, <2>1 DEF Caller
    <3>3. CASE ~(h.at = f.at /\ e.line = f.line)
      BY <1>2, <3>1, <3>2, <3>3 DEF Lowered, n, f, g
    <3>4. CASE h.at = f.at /\ e.line = f.line
      <4>1. e.at = g.at
        BY <1>1, <2>2, <3>4
      \* If e sent the invalidation, it is not for the line of e in its child.
      <4>2. ~HoldsBcc(k[q], j)
        <5> SUFFICES ASSUME HoldsBcc(k[q], j) PROVE FALSE
          OBVIOUS
        <5>1. q = p /\ j = n - 1 /\ e = g
          BY <1>6, <4>1 DEF e, g
        <5>2. e.pc # "down"
          BY <1>2, <2>1 DEF Placed
        <5>3. CASE e.pc = "evict"
          <6>1. WaysFor(a, g.at, g.line) = {} /\ g.way \in Ways[g.at]
            BY <1>3, <5>1, <5>3 DEF Own, Chosen
          <6>2. Entry(a, g).tag = f.line
            BY <1>1, <1>3 DEF Caller
          <6> QED
            BY <3>4, <5>1, <6>1, <6>2 DEF WaysFor, Entry
        <5>4. CASE e.pc = "grant"
          <6>1. f.at \in Entry(a, g).sharers /\ g.from \notin Entry(a, g).sharers
            BY <1>1, <1>3, <5>1, <5>4 DEF Caller
          <6>2. e.from = h.at
            BY <1>2, <2>1 DEF Linked, Gets, Puts, Invs
          <6> QED
            BY <3>4, <5>1, <6>1, <6>2
        <5> QED
          BY <1>1, <5>1, <5>2, <5>3, <5>4
      <4>3. e.pc \in {"tcc", "bcc"} \/ (e.pc \in {"grant", "evicted"} /\ e.op \in Gets)
        <5>1. e.pc \in {"tcc", "bcc", "grant", "evicted"}
          BY <1>2, <4>2 DEF HoldsBcc, Frames, e
        <5>2. e.pc = "evicted" => e.op \in Gets
          BY <1>2, <2>2 DEF Placed
        <5>3. CASE e.pc = "grant"
          <6>1. j # Len(k[q]) /\ k[q][j + 1].op \notin Invs
            BY <4>2, <5>3 DEF HoldsBcc, e
          <6>2. k[q] \in Seq(Frames)
            BY Neighbours
          <6>3. j + 1 \in 1..Len(k[q]) /\ j + 1 > 1 /\ (j + 1) - 1 = j
            BY <6>1, <6>2
          <6>4. Linked(e, k[q][j + 1])
            BY <6>3, Neighbours DEF e
          <6> QED
            BY <5>3, <6>1, <6>4 DEF Linked, Gets
        <5> QED
          BY <5>1, <5>2, <5>3
      <4>4. /\ StateOf(a, f.at, f.line) # "I"
            /\ \/ StateOf(a2, f.at, f.line) = "I"
               \/ StateOf(a, f.at, f.line) \in {"E", "M"} /\ StateOf(a2, f.at, f.line) = "S"
        BY DEF Lowered, n, f, g
      <4> QED
        BY <2>2, <3>2, <3>4, <4>3, <4>4, KnowsLower
    <3> QED
      BY <3>3, <3>4
  <2> QED
    BY <1>3, <2>1, <2>3, <2>4 DEF Caller
<1> QED
  BY <1>7, <1>8

-----------------------------------------------------------------------------
(* Stacks after a step                                                     *)

\* All calls have what they rely on if those of one thread and the others' have.
LEMMA StackSafe ==
    ASSUME NEW k \in [Leaves -> Seq(Frames)], NEW p \in Leaves, NEW s2, NEW a2,
           \A q \in Leaves : q # p => \A i \in 1..Len(k[q]) : FrameOK(a2, k[q], i),
           \A i \in 1..Len(s2) : FrameOK(a2, s2, i)
    PROVE  Calling(a2, [k EXCEPT ![p] = s2])
BY DEF Calling

\* The calls of a thread after the innermost one has gone on as f.
LEMMA RetoppedSafe ==
    ASSUME NEW p \in Leaves, NEW s, Shape(p, s), s # <<>>, NEW f, NEW s2 \in Seq(Frames),
           Retopped(s, s2, f), Continues(Last(s), f), NEW a2,
           \A i \in 1..Len(s) : i # Len(s) => FrameOK(a2, s, i),
           Own(a2, f, f.pc \notin {"tcc", "bcc"}),
           Len(s) > 1 => Caller(a2, s[Len(s) - 1], f)
    PROVE  \A i \in 1..Len(s2) : FrameOK(a2, s2, i)
<1> DEFINE n == Len(s)
<1>1. n \in Nat \ {0} /\ Len(s2) = n /\ Last(s) = s[n]
  BY FrontIs DEF Shape, Retopped
<1>2. s2[n] = f /\ (\A i \in 1..n : i # n => s2[i] = s[i]) /\ f \in Frames
  <2>1. s2[n] = f /\ \A i \in 1..n : i # n => s2[i] = s[i]
    BY <1>1 DEF Retopped
  <2>2. n \in 1..Len(s2)
    BY <1>1
  <2> QED
    BY <2>1, <2>2
<1>3. HoldsBcc(s2, n) = (f.pc \notin {"tcc", "bcc"})
  BY <1>1, <1>2 DEF HoldsBcc, Frames
<1>4. ASSUME NEW i \in 1..n, i # n
      PROVE  HoldsBcc(s2, i) = HoldsBcc(s, i)
  <2>1. i + 1 \in 1..n /\ s2[i] = s[i] /\ (s2[i + 1].op \in Invs <=> s[i + 1].op \in Invs)
    BY <1>1, <1>2, <1>4 DEF Continues, Invs
  <2> QED
    BY <1>1, <1>4, <2>1 DEF HoldsBcc
<1> HIDE DEF n
<1>5. ASSUME NEW i \in 1..n
      PROVE  FrameOK(a2, s2, i)
  <2>1. i > 1 => i - 1 \in 1..n /\ i - 1 # n
    BY <1>1
  <2>2. CASE i # n
    <3>1. FrameOK(a2, s, i)
      BY <2>2 DEF n
    <3> QED
      BY <1>2, <1>4, <2>1, <2>2, <3>1 DEF FrameOK
  <2>3. CASE i = n
    <3>1. n > 1 => Caller(a2, s[n - 1], f)
      BY DEF n
    <3> QED
      BY <1>2, <1>3, <2>1, <2>3, <3>1 DEF FrameOK
  <2> QED
    BY <2>2, <2>3
<1> QED
  BY <1>1, <1>5

\* The calls of a thread after the innermost one has gone on as f and made the call g.
LEMMA PushedSafe ==
    ASSUME NEW p \in Leaves, NEW s, Shape(p, s), s # <<>>, HoldsBcc(s, Len(s)),
           NEW f, NEW g, NEW s2 \in Seq(Frames),
           Pushed(s, s2, f, g), Continues(Last(s), f), Makes(f, g), NEW a2,
           \A i \in 1..Len(s) : i # Len(s) => FrameOK(a2, s, i),
           Own(a2, f, g.op \in Invs), Own(a2, g, FALSE), Caller(a2, f, g),
           Len(s) > 1 => Caller(a2, s[Len(s) - 1], f)
    PROVE  \A i \in 1..Len(s2) : FrameOK(a2, s2, i)
<1> DEFINE n == Len(s)
<1>1. /\ n \in Nat \ {0} /\ Len(s2) = n + 1
      /\ s2[n] = f /\ s2[n + 1] = g /\ \A i \in 1..n : i # n => s2[i] = s[i]
      /\ \A i \in 1..n : i < n => (HoldsBcc(s2, i) <=> HoldsBcc(s, i))
      /\ HoldsBcc(s2, n) <=> g.op \in Invs
      /\ ~HoldsBcc(s2, n + 1)
  BY PushedFacts
<1>2. \A i \in 1..(n + 1) : HoldsBcc(s2, i) \in BOOLEAN
  BY DEF HoldsBcc
<1>3. \A i \in 1..n : HoldsBcc(s, i) \in BOOLEAN
  BY DEF HoldsBcc
<1> HIDE DEF n
<1>4. ASSUME NEW i \in 1..(n + 1)
      PROVE  FrameOK(a2, s2, i)
  <2>1. CASE i \in 1..n /\ i # n
    <3>1. FrameOK(a2, s, i)
      BY <2>1 DEF n
    <3>2. i < n /\ (i > 1 => i - 1 \in 1..n /\ i - 1 # n)
      BY <1>1, <2>1
    <3>3. HoldsBcc(s2, i) = HoldsBcc(s, i)
      BY <1>1, <1>2, <1>3, <2>1, <3>2
    <3> QED
      BY <1>1, <2>1, <3>1, <3>2, <3>3 DEF FrameOK
  <2>2. CASE i = n
    <3>1. n > 1 => Caller(a2, s[n - 1], f)
      BY DEF n
    <3>2. n > 1 => n - 1 \in 1..n /\ n - 1 # n
      BY <1>1
    <3>3. HoldsBcc(s2, n) = (g.op \in Invs)
      BY <1>1, <1>2
    <3> QED
      BY <1>1, <2>2, <3>1, <3>2, <3>3 DEF FrameOK
  <2>3. CASE i = n + 1
    <3>1. (n + 1) - 1 = n /\ n + 1 > 1
      BY <1>1
    <3>2. HoldsBcc(s2, n + 1) = FALSE
      BY <1>1, <1>2
    <3> QED
      BY <1>1, <2>3, <3>1, <3>2 DEF FrameOK
  <2> QED
    BY <1>1, <2>1, <2>2, <2>3
<1> QED
  BY <1>1, <1>4

-----------------------------------------------------------------------------
(* Directories after a step                                                *)

\* The steps from k to k2 keep every child that asks for write permission.
KeepsOwed(k, k2) ==
    \A c \in Caches : \A w \in Ways[c] : \A d \in Children(c) :
        Owed(k, c, w, d) => Owed(k2, c, w, d)

\* The states x and y give the same permissions.
Like(x, y) == (x = "I" <=> y = "I") /\ (x \in {"E", "M"} <=> y \in {"E", "M"})

\* The permissions of x are among those of y.
Within(x, y) == (x # "I" => y # "I") /\ (x \in {"E", "M"} => y \in {"E", "M"})

\* An entry stays true if the child has the same permissions and is asked for no less.
LEMMA ListedLike ==
    ASSUME NEW a, NEW a2, NEW k, NEW k2, NEW c, NEW w, NEW d, Listed(a, k, c, w, d),
           a2[c][w].tag = a[c][w].tag, a2[c][w].sharers = a[c][w].sharers,
           a2[c][w].excl = a[c][w].excl,
           a[c][w].tag # None => Like(StateOf(a, d, a[c][w].tag), StateOf(a2, d, a[c][w].tag)),
           Owed(k, c, w, d) => Owed(k2, c, w, d)
    PROVE  Listed(a2, k2, c, w, d)
BY DEF Listed, Shows, Like

\* Directories stay true if no one ceases to ask for write permission.
LEMMA SameDirectories ==
    ASSUME NEW a, NEW k, NEW k2, Directories(a, k), KeepsOwed(k, k2)
    PROVE  Directories(a, k2)
<1> SUFFICES ASSUME NEW c \in Caches, NEW w \in Ways[c], NEW d \in Children(c)
             PROVE  Listed(a, k2, c, w, d)
  BY DEF Directories
<1>1. Listed(a, k, c, w, d) /\ (Owed(k, c, w, d) => Owed(k2, c, w, d))
  BY DEF Directories, KeepsOwed
<1> QED
  BY <1>1 DEF Listed, Shows

\* An entry on its own: no sharers of an invalid line, one of an exclusive one.
Sound(e) ==
    /\ e.st = "I" => e.sharers = {}
    /\ e.tag = None => e.st = "I"
    /\ e.excl => \A d1, d2 \in e.sharers : d1 = d2

\* The tags stay unique if an entry keeps its own.
LEMMA TagsKept ==
    ASSUME NEW a, Typed(a), Tags(a), NEW c \in Caches, NEW w \in Ways[c], NEW e \in Entries(c),
           e.tag = a[c][w].tag, Sound(e), NEW a2, Changed(a, a2, c, w, e)
    PROVE  Tags(a2)
<1>1. /\ a2[c][w] = e
      /\ \A v \in Ways[c] : v # w => a2[c][v] = a[c][v]
      /\ \A d \in Caches : d # c => a2[d] = a[d]
  BY ChangedEntries DEF Changed
<1>2. \A d \in Caches : \A v \in Ways[d] : a2[d][v].tag = a[d][v].tag
  BY <1>1
<1>3. \A d \in Caches : \A v \in Ways[d] : Sound(a2[d][v])
  <2> TAKE d \in Caches
  <2> TAKE v \in Ways[d]
  <2>1. CASE d = c /\ v = w
    BY <1>1, <2>1
  <2>2. CASE ~(d = c /\ v = w)
    <3>1. a2[d][v] = a[d][v]
      BY <1>1, <2>2
    <3> QED
      BY <3>1 DEF Sound, Tags
  <2> QED
    BY <2>1, <2>2
<1> QED
  BY <1>2, <1>3 DEF Tags, Sound

\* The children of d: caches of their own, below it.
LEMMA ChildIs ==
    ASSUME NEW c \in Caches, NEW d \in Children(c)
    PROVE  d \in Caches /\ d # Root /\ Parent[d] = c /\ d # c /\ c \notin Leaves
<1>1. d \in Caches /\ d # Root /\ Parent[d] = c
  BY DEF Children
<1> QED
  BY <1>1, DepthIs, CoherenceAssumption

\* A cache that takes more permissions for a line, from memory or because it
\* had them.
LEMMA RaiseKeeps ==
    ASSUME NEW a, Typed(a), Tags(a), Included(a), NEW k, Directories(a, k), NEW k2, KeepsOwed(k, k2),
           NEW c \in Caches, NEW w \in Ways[c], NEW y \in States, a[c][w].tag # None, y # "I",
           Within(a[c][w].st, y), c # Root => Like(a[c][w].st, y),
           NEW a2, Changed(a, a2, c, w, [a[c][w] EXCEPT !.st = y])
    PROVE  /\ Typed(a2) /\ Tags(a2) /\ Included(a2) /\ Directories(a2, k2)
           /\ a2[c][w] = [a[c][w] EXCEPT !.st = y]
<1> DEFINE e == [a[c][w] EXCEPT !.st = y]
           l == a[c][w].tag
<1>1. e \in Entries(c) /\ e.tag = l /\ e.st = y /\ e.sharers = a[c][w].sharers /\ e.excl = a[c][w].excl
  BY EntryType DEF Entries
<1>2. Sound(e)
  BY <1>1 DEF Tags, Sound
<1>e. Changed(a, a2, c, w, e)
  OBVIOUS
<1> HIDE DEF e
<1>3. /\ Typed(a2) /\ Tags(a2) /\ a2[c][w] = e
      /\ \A v \in Ways[c] : v # w => a2[c][v] = a[c][v]
      /\ \A d \in Caches : d # c => a2[d] = a[d]
  <2>1. Typed(a2) /\ Tags(a2)
    BY <1>e, <1>1, <1>2, ChangedEntries, TagsKept
  <2>2. a2[c][w] = e /\ \A v \in Ways[c] : v # w => a2[c][v] = a[c][v]
    BY <1>e, <1>1, ChangedEntries
  <2> QED
    BY <1>e, <2>1, <2>2 DEF Changed
<1>4. l \in Lines /\ StateOf(a, c, l) = a[c][w].st
  BY EntryType, StateIs
<1>5. \A d \in Caches, m \in Lines :
         StateOf(a2, d, m) = IF d = c /\ m = l THEN y ELSE StateOf(a, d, m)
  <2>1. \A d \in Caches, m \in Lines :
           StateOf(a2, d, m) = IF d = c /\ m = e.tag THEN e.st ELSE StateOf(a, d, m)
    BY <1>e, <1>1, Restated
  <2> QED
    BY <1>1, <2>1
<1>6. \A d \in Caches \ {Root}, m \in Lines : Like(StateOf(a, d, m), StateOf(a2, d, m))
  <2> TAKE d \in Caches \ {Root}, m \in Lines
  <2>1. CASE d = c /\ m = l
    BY <1>4, <1>5, <2>1
  <2>2. CASE ~(d = c /\ m = l)
    BY <1>5, <2>2 DEF Like
  <2> QED
    BY <2>1, <2>2
<1>7. Included(a2)
  <2> SUFFICES ASSUME NEW d \in Caches \ {Root}, NEW m \in Lines
               PROVE  Within(StateOf(a2, d, m), StateOf(a2, Parent[d], m))
    BY DEF Included, Within
  <2>1. Within(StateOf(a, d, m), StateOf(a, Parent[d], m))
    BY DEF Included, Within
  <2>2. Parent[d] \in Caches
    BY CoherenceAssumption
  <2>3. Within(StateOf(a, Parent[d], m), StateOf(a2, Parent[d], m))
    <3>1. CASE Parent[d] = c /\ m = l
      BY <1>4, <1>5, <2>2, <3>1
    <3>2. CASE ~(Parent[d] = c /\ m = l)
      BY <1>5, <2>2, <3>2 DEF Within
    <3> QED
      BY <3>1, <3>2
  <2> QED
    BY <1>6, <2>1, <2>3 DEF Within, Like
<1>8. Directories(a2, k2)
  <2> SUFFICES ASSUME NEW b \in Caches, NEW v \in Ways[b], NEW d \in Children(b)
               PROVE  Listed(a2, k2, b, v, d)
    BY DEF Directories
  <2>1. a2[b][v].tag = a[b][v].tag /\ a2[b][v].sharers = a[b][v].sharers /\ a2[b][v].excl = a[b][v].excl
    <3>1. CASE b = c /\ v = w
      BY <1>1, <1>3, <3>1
    <3>2. CASE ~(b = c /\ v = w)
      BY <1>3, <3>2
    <3> QED
      BY <3>1, <3>2
  <2>2. a[b][v].tag # None => Like(StateOf(a, d, a[b][v].tag), StateOf(a2, d, a[b][v].tag))
    BY <1>6, EntryType, ChildIs
  <2>3. Listed(a, k, b, v, d) /\ (Owed(k, b, v, d) => Owed(k2, b, v, d))
    BY DEF Directories, KeepsOwed
  <2> QED
    BY <2>1, <2>2, <2>3, ListedLike
<1> QED
  BY <1>3, <1>7, <1>8 DEF e

\* A new line takes the way of one that neither this cache nor a child has,
\* or that the root drops.
LEMMA InsertKeeps ==
    ASSUME NEW a, Typed(a), Tags(a), Included(a), NEW k, Directories(a, k), NEW k2, KeepsOwed(k, k2),
           NEW c \in Caches, NEW w \in Ways[c], NEW l \in Lines, WaysFor(a, c, l) = {},
           a[c][w].sharers = {}, c = Root \/ a[c][w].st = "I",
           \A d \in Children(c) : ~Owed(k, c, w, d),
           NEW a2, Changed(a, a2, c, w, [a[c][w] EXCEPT !.tag = l, !.st = "I"])
    PROVE  /\ Typed(a2) /\ Tags(a2) /\ Included(a2) /\ Directories(a2, k2)
           /\ a2[c][w] = [a[c][w] EXCEPT !.tag = l, !.st = "I"]
<1> DEFINE e == [a[c][w] EXCEPT !.tag = l, !.st = "I"]
           old == a[c][w].tag
<1>1. e \in Entries(c) /\ e.tag = l /\ e.st = "I" /\ e.sharers = {}
  BY EntryType DEF Entries, States
<1>e. Changed(a, a2, c, w, e)
  OBVIOUS
<1> HIDE DEF e
<1>2. /\ Typed(a2) /\ a2[c][w] = e
      /\ \A v \in Ways[c] : v # w => a2[c][v] = a[c][v]
      /\ \A d \in Caches : d # c => a2[d] = a[d]
  <2>1. Typed(a2) /\ a2[c][w] = e /\ \A v \in Ways[c] : v # w => a2[c][v] = a[c][v]
    BY <1>e, <1>1, ChangedEntries
  <2> QED
    BY <1>e, <2>1 DEF Changed
<1>3. Tags(a2) /\ \A d \in Caches, m \in Lines :
         StateOf(a2, d, m) = IF d = c /\ m = old THEN "I" ELSE StateOf(a, d, m)
  <2>1. WaysFor(a, c, e.tag) = {}
    BY <1>1
  <2> QED
    BY <1>e, <1>1, <2>1, Inserted
<1>4. \A d \in Caches \ {Root}, m \in Lines : StateOf(a2, d, m) = StateOf(a, d, m)
  <2> TAKE d \in Caches \ {Root}, m \in Lines
  <2>1. CASE d = c /\ m = old
    <3>1. old # None
      BY <2>1, CoherenceAssumption
    <3>2. StateOf(a, c, old) = a[c][w].st
      BY <3>1, StateIs
    <3> QED
      BY <1>3, <2>1, <3>2
  <2>2. CASE ~(d = c /\ m = old)
    BY <1>3, <2>2
  <2> QED
    BY <2>1, <2>2
<1>5. Included(a2)
  <2> SUFFICES ASSUME NEW d \in Caches \ {Root}, NEW m \in Lines
               PROVE  Within(StateOf(a2, d, m), StateOf(a2, Parent[d], m))
    BY DEF Included, Within
  <2>1. Within(StateOf(a, d, m), StateOf(a, Parent[d], m)) /\ StateOf(a2, d, m) = StateOf(a, d, m)
    BY <1>4 DEF Included, Within
  <2>2. Parent[d] \in Caches
    BY CoherenceAssumption
  <2>3. CASE Parent[d] = c /\ m = old
    <3>1. d \in Children(c) /\ old # None
      BY <2>3, CoherenceAssumption DEF Children
    <3>2. Listed(a, k, c, w, d) /\ ~Owed(k, c, w, d)
      BY <3>1 DEF Directories
    <3>3. StateOf(a, d, m) = "I"
      BY <2>3, <3>1, <3>2 DEF Listed, Shows
    <3> QED
      BY <2>1, <3>3 DEF Within
  <2>4. CASE ~(Parent[d] = c /\ m = old)
    BY <1>3, <2>1, <2>2, <2>4
  <2> QED
    BY <2>3, <2>4
<1>6. Directories(a2, k2)
  <2> SUFFICES ASSUME NEW b \in Caches, NEW v \in Ways[b], NEW d \in Children(b)
               PROVE  Listed(a2, k2, b, v, d)
    BY DEF Directories
  <2>1. CASE b = c /\ v = w
    <3>1. d \in Caches \ {Root} /\ Parent[d] = c
      BY <2>1, ChildIs
    <3>2. StateOf(a, c, l) = "I"
      BY DEF StateOf
    <3>3. StateOf(a2, d, l) = "I"
      BY <1>4, <3>1, <3>2 DEF Included
    <3> QED
      BY <1>1, <1>2, <2>1, <3>3 DEF Listed, Shows
  <2>2. CASE ~(b = c /\ v = w)
    <3>1. a2[b][v] = a[b][v]
      BY <1>2, <2>2
    <3>2. a[b][v].tag # None => Like(StateOf(a, d, a[b][v].tag), StateOf(a2, d, a[b][v].tag))
      BY <1>4, EntryType, ChildIs DEF Like
    <3>3. Listed(a, k, b, v, d) /\ (Owed(k, b, v, d) => Owed(k2, b, v, d))
      BY DEF Directories, KeepsOwed
    <3> QED
      BY <3>1, <3>2, <3>3, ListedLike
  <2> QED
    BY <2>1, <2>2
<1> QED
  BY <1>2, <1>3, <1>5, <1>6 DEF e

\* A child that asks for write permission is taken off the directory.
LEMMA UnlistKeeps ==
    ASSUME NEW a, Typed(a), Tags(a), Included(a), NEW k, Directories(a, k), NEW k2, KeepsOwed(k, k2),
           NEW c \in Caches, NEW w \in Ways[c], NEW d \in Children(c), a[c][w].tag # None,
           StateOf(a, d, a[c][w].tag) \in {"I", "S"}, Owed(k2, c, w, d),
           NEW a2, Changed(a, a2, c, w, [a[c][w] EXCEPT !.sharers = @ \ {d}])
    PROVE  /\ Typed(a2) /\ Tags(a2) /\ Included(a2) /\ Directories(a2, k2)
           /\ a2[c][w] = [a[c][w] EXCEPT !.sharers = @ \ {d}]
<1> DEFINE e == [a[c][w] EXCEPT !.sharers = @ \ {d}]
           l == a[c][w].tag
<1>1. /\ e \in Entries(c) /\ e.tag = l /\ e.st = a[c][w].st /\ e.sharers = a[c][w].sharers \ {d}
      /\ e.excl = a[c][w].excl
  BY EntryType DEF Entries
<1>2. Sound(e)
  BY <1>1 DEF Tags, Sound
<1>e. Changed(a, a2, c, w, e)
  OBVIOUS
<1> HIDE DEF e
<1>3. /\ Typed(a2) /\ Tags(a2) /\ a2[c][w] = e
      /\ \A v \in Ways[c] : v # w => a2[c][v] = a[c][v]
      /\ \A b \in Caches : b # c => a2[b] = a[b]
  <2>1. Typed(a2) /\ Tags(a2)
    BY <1>e, <1>1, <1>2, ChangedEntries, TagsKept
  <2>2. a2[c][w] = e /\ \A v \in Ways[c] : v # w => a2[c][v] = a[c][v]
    BY <1>e, <1>1, ChangedEntries
  <2> QED
    BY <1>e, <2>1, <2>2 DEF Changed
<1>4. \A b \in Caches, m \in Lines : StateOf(a2, b, m) = StateOf(a, b, m)
  <2>1. StateOf(a, c, l) = a[c][w].st
    BY StateIs
  <2>2. \A b \in Caches, m \in Lines :
           StateOf(a2, b, m) = IF b = c /\ m = e.tag THEN e.st ELSE StateOf(a, b, m)
    BY <1>e, <1>1, Restated
  <2> QED
    BY <1>1, <2>1, <2>2
<1>5. Included(a2)
  BY <1>4, CoherenceAssumption DEF Included
<1>6. Directories(a2, k2)
  <2> SUFFICES ASSUME NEW b \in Caches, NEW v \in Ways[b], NEW x \in Children(b)
               PROVE  Listed(a2, k2, b, v, x)
    BY DEF Directories
  <2>1. Listed(a, k, b, v, x) /\ (Owed(k, b, v, x) => Owed(k2, b, v, x))
    BY DEF Directories, KeepsOwed
  <2>2. x \in Caches /\ a[b][v].tag \in Lines \cup {None}
    BY EntryType, ChildIs
  <2>3. CASE b = c /\ v = w
    <3>1. Listed(a, k, c, w, d)
      BY DEF Directories
    <3>2. l \in Lines /\ StateOf(a2, x, l) = StateOf(a, x, l)
      BY <1>4, <2>2, <2>3
    <3>3. a[c][w].excl => \A d1, d2 \in a[c][w].sharers : d1 = d2
      BY DEF Tags
    <3>4. CASE x = d
      <4>1. d \in a[c][w].sharers => ~a[c][w].excl
        <5> SUFFICES ASSUME d \in a[c][w].sharers, a[c][w].excl PROVE FALSE
          OBVIOUS
        <5>1. a[c][w].sharers = {d}
          BY <3>3
        <5> QED
          BY <3>1, <5>1 DEF Listed, Shows
      <4>2. StateOf(a, d, l) # "I" => ~a[c][w].excl
        BY <3>1, <4>1 DEF Listed, Shows
      <4> QED
        BY <1>1, <1>3, <2>3, <3>2, <3>4, <4>2 DEF Listed, Shows
    <3>5. CASE x # d
      <4>1. x \in e.sharers <=> x \in a[c][w].sharers
        BY <1>1, <3>5
      <4>2. a[c][w].sharers = {x} => e.sharers = {x}
        BY <1>1, <3>5
      <4>3. e.sharers = {x} /\ e.excl => a[c][w].sharers = {x}
        BY <1>1, <3>3
      <4> QED
        BY <1>1, <1>3, <2>1, <2>3, <3>2, <4>1, <4>2, <4>3 DEF Listed, Shows
    <3> QED
      BY <3>4, <3>5
  <2>4. CASE ~(b = c /\ v = w)
    <3>1. a2[b][v] = a[b][v]
      BY <1>3, <2>4
    <3>2. a[b][v].tag # None => Like(StateOf(a, x, a[b][v].tag), StateOf(a2, x, a[b][v].tag))
      BY <1>4, <2>2 DEF Like
    <3> QED
      BY <2>1, <3>1, <3>2, ListedLike
  <2> QED
    BY <2>3, <2>4
<1> QED
  BY <1>3, <1>5, <1>6 DEF e

\* What the entry e of way w in c, and the state y of the same line in way v
\* of its child d, must be to take the place of those in the arrays a,
MayTrade(a, c, w, d, v, e, y) ==
    /\ a[c][w].tag # None /\ a[d][v].tag = a[c][w].tag
    /\ e.tag = a[c][w].tag /\ Sound(e) /\ Like(a[c][w].st, e.st)
    /\ y = "I" => a[d][v].sharers = {}
    /\ Within(y, e.st)
    /\ \A x \in Children(d) : Within(StateOf(a, x, e.tag), y)

\* and that the arrays a2 are what comes of it.
Traded(a, a2, c, w, d, v, e, y) ==
    /\ a2 = [b \in Caches |-> a2[b]]
    /\ \A b \in Caches : b \notin {c, d} => a2[b] = a[b]
    /\ a2[c] = [a[c] EXCEPT ![w] = e]
    /\ a2[d] = [a[d] EXCEPT ![v] = [a[d][v] EXCEPT !.st = y]]

\* Every child but those of way w in c keeps asking.
OthersAsk(k, k2, c, w) ==
    \A b \in Caches : \A u \in Ways[b] : \A x \in Children(b) :
        Owed(k, b, u, x) /\ ~(b = c /\ u = w) => Owed(k2, b, u, x)

\* The entry e of way w in c tells the truth once its line is in y in d.
ShowsAll(a, k, c, w, d, e, y) ==
    \A x \in Children(c) :
        Shows(e, x, IF x = d THEN y ELSE StateOf(a, x, e.tag), Owed(k, c, w, x))

\* The lines of the arrays a2, of which d has that of e in y.
NowIn(a, a2, c, d, e, y) ==
    \A b \in Caches, m \in Lines :
        StateOf(a2, b, m) = IF b = d /\ m = e.tag THEN y
                            ELSE IF b = c /\ m = e.tag THEN e.st ELSE StateOf(a, b, m)

\* A cache and its child d settle on a new state of a line in the child.
LEMMA ExchangeKeeps ==
    ASSUME NEW a, Typed(a), Tags(a), Included(a), NEW k, Directories(a, k), NEW k2,
           NEW c \in Caches, NEW w \in Ways[c], NEW d \in Children(c), NEW v \in Ways[d],
           NEW e \in Entries(c), NEW y \in States, MayTrade(a, c, w, d, v, e, y),
           OthersAsk(k, k2, c, w), ShowsAll(a, k2, c, w, d, e, y),
           NEW a2, Traded(a, a2, c, w, d, v, e, y)
    PROVE  /\ Typed(a2) /\ Tags(a2) /\ Included(a2) /\ Directories(a2, k2)
           /\ NowIn(a, a2, c, d, e, y)
<1> /\ a[c][w].tag # None /\ a[d][v].tag = a[c][w].tag
    /\ e.tag = a[c][w].tag /\ Sound(e) /\ Like(a[c][w].st, e.st)
    /\ y = "I" => a[d][v].sharers = {}
    /\ Within(y, e.st)
    /\ \A x \in Children(d) : Within(StateOf(a, x, e.tag), y)
  BY DEF MayTrade
<1> /\ a2 = [b \in Caches |-> a2[b]]
    /\ \A b \in Caches : b \notin {c, d} => a2[b] = a[b]
    /\ a2[c] = [a[c] EXCEPT ![w] = e]
    /\ a2[d] = [a[d] EXCEPT ![v] = [a[d][v] EXCEPT !.st = y]]
  BY DEF Traded
<1> \A b \in Caches : \A u \in Ways[b] : \A x \in Children(b) :
        Owed(k, b, u, x) /\ ~(b = c /\ u = w) => Owed(k2, b, u, x)
  BY DEF OthersAsk
<1> \A x \in Children(c) :
        Shows(e, x, IF x = d THEN y ELSE StateOf(a, x, e.tag), Owed(k2, c, w, x))
  BY DEF ShowsAll
<1> DEFINE l == e.tag
           a1 == [a EXCEPT ![c] = a2[c]]
           e3 == [a[d][v] EXCEPT !.st = y]
<1>1. d \in Caches /\ d # Root /\ Parent[d] = c /\ d # c
  BY ChildIs
<1>2. a1[d] = a[d] /\ Changed(a, a1, c, w, e)
  BY <1>1 DEF Typed, Changed
<1>4. a1[c] = a2[c] /\ \A b \in Caches : b # c => a1[b] = a[b]
  BY DEF Typed
<1>5. /\ e3 \in Entries(d) /\ e3.tag = l /\ e3.st = y /\ e3.sharers = a[d][v].sharers
      /\ e3.excl = a[d][v].excl
  <2>1. a[d][v] \in Entries(d)
    BY <1>1, EntryType
  <2> QED
    BY <2>1 DEF Entries
<1>6. Sound(e3)
  BY <1>1, <1>5 DEF Sound, Tags
<1>7. a2[d] = [a1[d] EXCEPT ![v] = e3]
  BY <1>2
<1> HIDE DEF a1, e3
<1>3. /\ Typed(a1) /\ Tags(a1) /\ a1[c][w] = e
      /\ \A u \in Ways[c] : u # w => a1[c][u] = a[c][u]
  BY <1>2, ChangedEntries, TagsKept
<1>8. Changed(a1, a2, d, v, e3)
  BY <1>1, <1>4, <1>7 DEF Changed
<1>9. /\ Typed(a2) /\ Tags(a2) /\ a2[d][v] = e3
      /\ \A u \in Ways[d] : u # v => a2[d][u] = a[d][u]
  BY <1>1, <1>2, <1>3, <1>5, <1>6, <1>8, ChangedEntries, TagsKept
<1>10. a2[c][w] = e /\ \A u \in Ways[c] : u # w => a2[c][u] = a[c][u]
  BY <1>3, <1>4
<1>11. l \in Lines /\ StateOf(a, c, l) = a[c][w].st
  BY EntryType, StateIs
<1>12. ASSUME NEW b \in Caches, NEW m \in Lines
       PROVE  StateOf(a2, b, m) = IF b = d /\ m = l THEN y
                                  ELSE IF b = c /\ m = l THEN e.st ELSE StateOf(a, b, m)
  <2>1. StateOf(a1, b, m) = IF b = c /\ m = l THEN e.st ELSE StateOf(a, b, m)
    BY <1>2, Restated
  <2>2. e3.tag = a1[d][v].tag
    BY <1>2, <1>5
  <2>3. StateOf(a2, b, m) = IF b = d /\ m = e3.tag THEN e3.st ELSE StateOf(a1, b, m)
    BY <1>1, <1>3, <1>5, <1>8, <2>2, Restated
  <2> QED
    BY <1>5, <2>1, <2>3
<1>13. Included(a2)
  <2> SUFFICES ASSUME NEW x \in Caches \ {Root}, NEW m \in Lines
               PROVE  Within(StateOf(a2, x, m), StateOf(a2, Parent[x], m))
    BY DEF Included, Within
  <2>1. Parent[x] \in Caches
    BY CoherenceAssumption
  <2>2. Within(StateOf(a, x, m), StateOf(a, Parent[x], m))
    BY DEF Included, Within
  <2>3. CASE m # l
    BY <1>12, <2>1, <2>2, <2>3
  <2>4. CASE m = l /\ x = d
    BY <1>1, <1>12, <2>1, <2>4
  <2>5. CASE m = l /\ x = c
    <3>1. Parent[c] # c /\ Parent[c] # d
      BY <1>1, <2>1, <2>5, DepthIs
    <3>2. StateOf(a2, Parent[c], l) = StateOf(a, Parent[c], l)
      BY <1>11, <1>12, <2>1, <2>5, <3>1
    <3>3. StateOf(a2, c, l) = e.st
      BY <1>1, <1>11, <1>12
    <3> QED
      BY <1>11, <2>2, <2>5, <3>2, <3>3 DEF Within, Like
  <2>6. CASE m = l /\ x \notin {c, d}
    <3>1. StateOf(a2, x, l) = StateOf(a, x, l)
      BY <1>11, <1>12, <2>6
    <3>2. CASE Parent[x] = d
      <4>1. Within(StateOf(a, x, l), y)
        BY <3>2 DEF Children
      <4>2. StateOf(a2, d, l) = y
        BY <1>1, <1>11, <1>12
      <4> QED
        BY <2>6, <3>1, <3>2, <4>1, <4>2
    <3>3. CASE Parent[x] = c
      <4>1. StateOf(a2, c, l) = e.st
        BY <1>1, <1>11, <1>12
      <4> QED
        BY <1>11, <2>2, <2>6, <3>1, <3>3, <4>1 DEF Within, Like
    <3>4. CASE Parent[x] \notin {c, d}
      BY <1>12, <2>1, <2>2, <2>6, <3>1, <3>4
    <3> QED
      BY <3>2, <3>3, <3>4
  <2> QED
    BY <2>3, <2>4, <2>5, <2>6
<1>14. Directories(a2, k2)
  <2> SUFFICES ASSUME NEW b \in Caches, NEW u \in Ways[b], NEW x \in Children(b)
               PROVE  Listed(a2, k2, b, u, x)
    BY DEF Directories
  <2>1. x \in Caches /\ x # Root /\ x # b /\ Parent[x] = b /\ a[b][u].tag \in Lines \cup {None}
    BY EntryType, ChildIs
  <2>2. CASE b = c /\ u = w
    <3>1. StateOf(a2, x, l) = IF x = d THEN y ELSE StateOf(a, x, l)
      BY <1>11, <1>12, <2>1, <2>2
    <3>2. Shows(e, x, StateOf(a2, x, l), Owed(k2, c, w, x))
      BY <2>2, <3>1
    <3> QED
      BY <1>10, <2>2, <3>2 DEF Listed
  <2>3. CASE ~(b = c /\ u = w)
    <3>1. a2[b][u].tag = a[b][u].tag /\ a2[b][u].sharers = a[b][u].sharers /\ a2[b][u].excl = a[b][u].excl
      <4>1. CASE b = d /\ u = v
        BY <1>5, <1>9, <4>1
      <4>2. CASE ~(b = d /\ u = v)
        <5>1. a2[b][u] = a[b][u]
          BY <1>9, <1>10, <2>3, <4>2
        <5> QED
          BY <5>1
      <4> QED
        BY <4>1, <4>2
    <3>2. ASSUME a[b][u].tag # None
          PROVE  Like(StateOf(a, x, a[b][u].tag), StateOf(a2, x, a[b][u].tag))
      <4>1. ~(x = d /\ a[b][u].tag = l)
        BY <1>1, <2>1, <2>3 DEF Tags
      <4>2. CASE x = c /\ a[b][u].tag = l
        BY <1>1, <1>11, <1>12, <4>2
      <4>3. CASE ~(x = c /\ a[b][u].tag = l)
        BY <1>12, <2>1, <3>2, <4>1, <4>3 DEF Like
      <4> QED
        BY <4>2, <4>3
    <3>3. Listed(a, k, b, u, x) /\ (Owed(k, b, u, x) => Owed(k2, b, u, x))
      BY <2>3 DEF Directories
    <3> QED
      BY <3>1, <3>2, <3>3, ListedLike
  <2> QED
    BY <2>2, <2>3
<1> QED
  BY <1>9, <1>12, <1>13, <1>14 DEF NowIn

-----------------------------------------------------------------------------
(* Who asks for write permission after a step                              *)

\* Every call of s that asks for it, but for one of line w of c, does so in s2.
KeepsAsks(s, s2, c, w) ==
    \A i \in 1..Len(s), b \in Caches :
       \A u \in Ways[b] : \A d \in Children(b) :
          Asks(s, i, b, u, d) /\ ~(b = c /\ u = w) => Asks(s2, i, b, u, d) /\ i \in 1..Len(s2)

\* Of the children in the directory of a locked cache, only the one that its
\* holder works for may ask.
LEMMA OwedIs ==
    ASSUME NEW k, NEW b, NEW t, Threads(k, b, t),
           NEW p \in Leaves, NEW i \in 1..Len(k[p]), HoldsBcc(k[p], i),
           NEW w, NEW d, Owed(k, k[p][i].at, w, d)
    PROVE  /\ k[p][i].way = w /\ k[p][i].from = d /\ k[p][i].op = "GETX" /\ k[p][i].pc = "grant"
<1>0. PICK q \in Leaves : \E j \in 1..Len(k[q]) : Asks(k[q], j, k[p][i].at, w, d)
  BY DEF Owed
<1>1. PICK j \in 1..Len(k[q]) : Asks(k[q], j, k[p][i].at, w, d)
  BY <1>0
<1>2. q = p /\ j = i
  BY <1>1, OneHolder DEF Asks
<1> QED
  BY <1>1, <1>2 DEF Asks

\* A stack that keeps what its calls ask for leaves others' requests alone.
LEMMA OwedKept ==
    ASSUME NEW k \in [Leaves -> Seq(Frames)], NEW p \in Leaves, NEW s2, NEW c, NEW w,
           KeepsAsks(k[p], s2, c, w),
           NEW b \in Caches, NEW u \in Ways[b], NEW d \in Children(b),
           Owed(k, b, u, d), ~(b = c /\ u = w)
    PROVE  Owed([k EXCEPT ![p] = s2], b, u, d)
<1> DEFINE k2 == [k EXCEPT ![p] = s2]
<1>1. k2[p] = s2 /\ \A q \in Leaves : q # p => k2[q] = k[q]
  OBVIOUS
<1>0. PICK q \in Leaves : \E i \in 1..Len(k[q]) : Asks(k[q], i, b, u, d)
  BY DEF Owed
<1>2. PICK i \in 1..Len(k[q]) : Asks(k[q], i, b, u, d)
  BY <1>0
<1> HIDE DEF k2
<1>3. Asks(k2[q], i, b, u, d) /\ i \in 1..Len(k2[q])
  <2>1. CASE q = p
    BY <1>1, <1>2, <2>1 DEF KeepsAsks
  <2>2. CASE q # p
    BY <1>1, <1>2, <2>2
  <2> QED
    BY <2>1, <2>2
<1> QED
  BY <1>3 DEF Owed, k2

\* The calls below the innermost one hold the same locks after it has gone on.
LEMMA RetoppedFacts ==
    ASSUME NEW p \in Leaves, NEW s, Shape(p, s), s # <<>>, NEW f, NEW s2 \in Seq(Frames),
           Retopped(s, s2, f), Continues(Last(s), f)
    PROVE  LET n == Len(s)
           IN  /\ n \in Nat \ {0} /\ Len(s2) = n /\ Last(s) = s[n]
               /\ s2[n] = f /\ (\A i \in 1..n : i # n => s2[i] = s[i])
               /\ \A i \in 1..n : i # n => HoldsBcc(s2, i) = HoldsBcc(s, i)
<1> DEFINE n == Len(s)
<1>1. n \in Nat \ {0} /\ Len(s2) = n /\ Last(s) = s[n]
  BY FrontIs DEF Shape, Retopped
<1>2. s2[n] = f /\ \A i \in 1..n : i # n => s2[i] = s[i]
  BY <1>1 DEF Retopped
<1>3. ASSUME NEW i \in 1..n, i # n
      PROVE  HoldsBcc(s2, i) = HoldsBcc(s, i)
  <2>1. i + 1 \in 1..n /\ s2[i] = s[i] /\ (s2[i + 1].op \in Invs <=> s[i + 1].op \in Invs)
    BY <1>1, <1>2, <1>3 DEF Continues, Invs
  <2> QED
    BY <1>1, <1>3, <2>1 DEF HoldsBcc
<1> HIDE DEF n
<1> QED
  BY <1>1, <1>2, <1>3 DEF n

\* A top that goes on no longer asks, and the calls below it still do.
LEMMA RetoppedAsks ==
    ASSUME NEW p \in Leaves, NEW s, Shape(p, s), s # <<>>, NEW f, NEW s2 \in Seq(Frames),
           Retopped(s, s2, f), Continues(Last(s), f)
    PROVE  /\ KeepsAsks(s, s2, Last(s).at, Last(s).way)
           /\ Last(s).pc # "grant" => KeepsAsks(s, s2, None, None)
<1> DEFINE n == Len(s)
<1>1. /\ n \in Nat \ {0} /\ Len(s2) = n /\ Last(s) = s[n]
      /\ \A i \in 1..n : i # n => s2[i] = s[i]
      /\ \A i \in 1..n : i # n => HoldsBcc(s2, i) = HoldsBcc(s, i)
  BY RetoppedFacts
<1> HIDE DEF n
<1>2. ASSUME NEW i \in 1..n, i # n, NEW c, NEW w, NEW d, Asks(s, i, c, w, d)
      PROVE  Asks(s2, i, c, w, d)
  BY <1>1, <1>2 DEF Asks
<1>3. ASSUME NEW c, NEW w, NEW d, Asks(s, n, c, w, d)
      PROVE  c = Last(s).at /\ w = Last(s).way /\ Last(s).pc = "grant"
  BY <1>1, <1>3 DEF Asks
<1> QED
  BY <1>1, <1>2, <1>3 DEF KeepsAsks, n

\* A top that sends an invalidation still asks.
LEMMA PushedAsks ==
    ASSUME NEW p \in Leaves, NEW s, Shape(p, s), s # <<>>, HoldsBcc(s, Len(s)),
           NEW f, NEW g, NEW s2 \in Seq(Frames),
           Pushed(s, s2, f, g), Continues(Last(s), f), Makes(f, g),
           Last(s).pc = "grant" => f = Last(s) /\ g.op \in Invs
    PROVE  KeepsAsks(s, s2, None, None)
<1> DEFINE n == Len(s)
<1>1. /\ n \in Nat \ {0} /\ Len(s2) = n + 1 /\ Last(s) = s[n]
      /\ s2[n] = f /\ \A i \in 1..n : i # n => s2[i] = s[i]
      /\ \A i \in 1..n : i < n => (HoldsBcc(s2, i) <=> HoldsBcc(s, i))
      /\ HoldsBcc(s2, n) <=> g.op \in Invs
  BY PushedFacts
<1> HIDE DEF n
<1>2. ASSUME NEW i \in 1..n, NEW c, NEW w, NEW d, Asks(s, i, c, w, d)
      PROVE  Asks(s2, i, c, w, d) /\ i \in 1..(n + 1)
  <2>1. CASE i # n
    <3>1. i < n
      BY <1>1, <2>1
    <3> QED
      BY <1>1, <1>2, <2>1, <3>1 DEF Asks
  <2>2. CASE i = n
    BY <1>1, <1>2, <2>2 DEF Asks
  <2> QED
    BY <2>1, <2>2
<1> QED
  BY <1>1, <1>2 DEF KeepsAsks, n

\* The calls below one that returns still ask.
LEMMA PoppedAsks ==
    ASSUME NEW p \in Leaves, NEW s, Shape(p, s), s # <<>>, NEW s2 \in Seq(Frames), Popped(s, s2),
           Last(s).pc # "grant"
    PROVE  KeepsAsks(s, s2, None, None)
<1> DEFINE n == Len(s)
<1>1. /\ n \in Nat \ {0} /\ Last(s) = s[n] /\ Len(s2) = n - 1
      /\ \A i \in 1..(n - 1) : Alike(s2[i], s[i])
      /\ \A i \in 1..(n - 1) : i < n - 1 => (HoldsBcc(s2, i) <=> HoldsBcc(s, i))
      /\ n > 1 => HoldsBcc(s2, n - 1)
  BY PoppedFacts
<1> HIDE DEF n
<1>2. ASSUME NEW i \in 1..n, NEW c, NEW w, NEW d, Asks(s, i, c, w, d)
      PROVE  Asks(s2, i, c, w, d) /\ i \in 1..(n - 1)
  <2>1. i # n
    BY <1>1, <1>2 DEF Asks
  <2>2. i \in 1..(n - 1) /\ n > 1 /\ (i < n - 1 \/ i = n - 1)
    BY <1>1, <2>1
  <2>3. HoldsBcc(s, i)
    BY <1>2 DEF Asks
  <2>4. HoldsBcc(s2, i)
    BY <1>1, <2>2, <2>3
  <2> QED
    BY <1>1, <1>2, <2>2, <2>4 DEF Asks, Alike
<1> QED
  BY <1>1, <1>2 DEF KeepsAsks, n

-----------------------------------------------------------------------------
(* The calls in progress after a step                                      *)

\* Every call but the top of p relies on what it may, of the arrays a.
OthersOK(a, k, p) ==
    \A q \in Leaves : \A j \in 1..Len(k[q]) : ~(q = p /\ j = Len(k[p])) => FrameOK(a, k[q], j)

\* If the arrays stay, the others have what they rely on.
LEMMA OthersSame ==
    ASSUME NEW a, NEW k, NEW p, Calling(a, k)
    PROVE  OthersOK(a, k, p)
BY DEF OthersOK, Calling

\* The calls in progress after the innermost one of p has gone on as f.
LEMMA GoesKeeps ==
    ASSUME NEW k, NEW b, NEW t, Threads(k, b, t), NEW p \in Leaves, k[p] # <<>>, NEW a,
           NEW f \in Frames, Continues(Last(k[p]), f), OthersOK(a, k, p),
           Own(a, f, f.pc \notin {"tcc", "bcc"}),
           Len(k[p]) > 1 => Caller(a, k[p][Len(k[p]) - 1], f)
    PROVE  LET k2 == [k EXCEPT ![p] = Append(Front(@), f)]
           IN  /\ Calling(a, k2)
               /\ Last(k[p]).pc # "grant" => KeepsOwed(k, k2)
               /\ \A c \in Caches : \A w \in Ways[c] : \A d \in Children(c) :
                     Owed(k, c, w, d) /\ ~(c = f.at /\ w = Last(k[p]).way) => Owed(k2, c, w, d)
<1> DEFINE s == k[p]
           s2 == Append(Front(s), f)
<1>1. s \in Seq(Frames) /\ Shape(p, s) /\ k \in [Leaves -> Seq(Frames)]
  BY DEF Threads
<1>2. s2 \in Seq(Frames) /\ Retopped(s, s2, f)
  BY <1>1, GoesIs
<1> HIDE DEF s2
<1>3. \A i \in 1..Len(s2) : FrameOK(a, s2, i)
  BY <1>1, <1>2, RetoppedSafe DEF OthersOK
<1>4. Calling(a, [k EXCEPT ![p] = s2])
  BY <1>1, <1>3, StackSafe DEF OthersOK
<1>5. /\ KeepsAsks(s, s2, Last(s).at, Last(s).way)
      /\ Last(s).pc # "grant" => KeepsAsks(s, s2, None, None)
  BY <1>1, <1>2, RetoppedAsks
<1>6. f.at = Last(s).at
  BY DEF Continues
<1>7. ASSUME NEW c \in Caches, NEW w \in Ways[c], NEW d \in Children(c), Owed(k, c, w, d),
             ~(c = f.at /\ w = Last(s).way)
      PROVE  Owed([k EXCEPT ![p] = s2], c, w, d)
  BY <1>1, <1>5, <1>6, <1>7, OwedKept
<1>8. ASSUME Last(s).pc # "grant", NEW c \in Caches, NEW w \in Ways[c], NEW d \in Children(c),
             Owed(k, c, w, d)
      PROVE  Owed([k EXCEPT ![p] = s2], c, w, d)
  <2>1. c # None
    BY CoherenceAssumption
  <2> QED
    BY <1>1, <1>5, <1>8, <2>1, OwedKept
<1> QED
  BY <1>4, <1>7, <1>8 DEF KeepsOwed, s2

\* The calls in progress after the innermost one of p has gone on as f and made the call g.
LEMMA CallsKeeps ==
    ASSUME NEW k, NEW b, NEW t, Threads(k, b, t), NEW p \in Leaves, k[p] # <<>>, NEW a,
           Last(k[p]).pc \notin {"tcc", "bcc"},
           NEW f \in Frames, NEW g \in Frames, Continues(Last(k[p]), f), Makes(f, g),
           OthersOK(a, k, p), Own(a, f, g.op \in Invs), Own(a, g, FALSE), Caller(a, f, g),
           Len(k[p]) > 1 => Caller(a, k[p][Len(k[p]) - 1], f),
           Last(k[p]).pc = "grant" => f = Last(k[p]) /\ g.op \in Invs
    PROVE  LET k2 == [k EXCEPT ![p] = Append(Append(Front(@), f), g)]
           IN  Calling(a, k2) /\ KeepsOwed(k, k2)
<1> DEFINE s == k[p]
           s2 == Append(Append(Front(s), f), g)
<1>1. s \in Seq(Frames) /\ Shape(p, s) /\ k \in [Leaves -> Seq(Frames)] /\ HoldsBcc(s, Len(s))
  BY TopIs DEF Threads
<1>2. s2 \in Seq(Frames) /\ Pushed(s, s2, f, g)
  BY <1>1, CallsIs
<1> HIDE DEF s2
<1>3. \A i \in 1..Len(s2) : FrameOK(a, s2, i)
  BY <1>1, <1>2, PushedSafe DEF OthersOK
<1>4. Calling(a, [k EXCEPT ![p] = s2])
  BY <1>1, <1>3, StackSafe DEF OthersOK
<1>5. KeepsAsks(s, s2, None, None)
  BY <1>1, <1>2, PushedAsks
<1>6. ASSUME NEW c \in Caches, NEW w \in Ways[c], NEW d \in Children(c), Owed(k, c, w, d)
      PROVE  Owed([k EXCEPT ![p] = s2], c, w, d)
  <2>1. c # None
    BY CoherenceAssumption
  <2> QED
    BY <1>1, <1>5, <1>6, <2>1, OwedKept
<1> QED
  BY <1>4, <1>6 DEF KeepsOwed, s2

\* The calls in progress after the innermost one of p has returned.
LEMMA ReturnsKeeps ==
    ASSUME NEW k, NEW b, NEW t, Threads(k, b, t), NEW p \in Leaves, k[p] # <<>>, NEW a,
           Last(k[p]).pc # "grant", OthersOK(a, k, p),
           Len(k[p]) > 1 => Own(a, k[p][Len(k[p]) - 1], TRUE)
    PROVE  LET k2 == [k EXCEPT ![p] = Front(@)]
           IN  Calling(a, k2) /\ KeepsOwed(k, k2)
<1> DEFINE s == k[p]
           s2 == Front(s)
           n == Len(s)
<1>1. s \in Seq(Frames) /\ Shape(p, s) /\ k \in [Leaves -> Seq(Frames)]
  BY DEF Threads
<1>2. s2 \in Seq(Frames) /\ Popped(s, s2)
  BY <1>1, ReturnsIs
<1>3. \A i \in 1..(n - 1) : s2[i] = s[i]
  BY <1>1, FrontIs
<1> HIDE DEF s2
<1>4. /\ n \in Nat \ {0} /\ Len(s2) = n - 1
      /\ \A i \in 1..(n - 1) : i < n - 1 => (HoldsBcc(s2, i) <=> HoldsBcc(s, i))
      /\ n > 1 => HoldsBcc(s2, n - 1)
  BY <1>1, <1>2, PoppedFacts
<1>5. \A i \in 1..n : i # n => FrameOK(a, s, i)
  BY DEF OthersOK
<1>6. \A i \in 1..(n - 1) : HoldsBcc(s2, i) \in BOOLEAN /\ HoldsBcc(s, i) \in BOOLEAN
  BY DEF HoldsBcc
<1>7. n > 1 => Own(a, s[n - 1], TRUE)
  OBVIOUS
<1> HIDE DEF n
<1>8. ASSUME NEW i \in 1..(n - 1)
      PROVE  FrameOK(a, s2, i)
  <2>1. i \in 1..n /\ i # n /\ n > 1 /\ (i > 1 => i - 1 \in 1..(n - 1))
    BY <1>4
  <2>2. FrameOK(a, s, i)
    BY <1>5, <2>1
  <2>3. Own(a, s2[i], HoldsBcc(s2, i))
    <3>1. CASE i = n - 1
      <4>1. HoldsBcc(s2, i) = TRUE
        BY <1>4, <1>6, <2>1, <3>1
      <4> QED
        BY <1>3, <1>7, <2>1, <3>1, <4>1
    <3>2. CASE i # n - 1
      <4>1. HoldsBcc(s2, i) = HoldsBcc(s, i)
        BY <1>4, <1>6, <3>2
      <4> QED
        BY <1>3, <2>2, <4>1 DEF FrameOK
    <3> QED
      BY <3>1, <3>2
  <2> QED
    BY <1>3, <2>1, <2>2, <2>3 DEF FrameOK
<1>9. Calling(a, [k EXCEPT ![p] = s2])
  <2>1. \A i \in 1..Len(s2) : FrameOK(a, s2, i)
    BY <1>4, <1>8
  <2> QED
    BY <1>1, <2>1, StackSafe DEF OthersOK
<1>10. KeepsAsks(s, s2, None, None)
  BY <1>1, <1>2, PoppedAsks
<1>11. ASSUME NEW c \in Caches, NEW w \in Ways[c], NEW d \in Children(c), Owed(k, c, w, d)
       PROVE  Owed([k EXCEPT ![p] = s2], c, w, d)
  <2>1. c # None
    BY CoherenceAssumption
  <2> QED
    BY <1>1, <1>10, <1>11, <2>1, OwedKept
<1> QED
  BY <1>9, <1>11 DEF KeepsOwed, s2

-----------------------------------------------------------------------------
(* The steps                                                               *)

\* The innermost call of a thread.
LEMMA InCall ==
    ASSUME IInv, NEW p \in Leaves, Busy(p)
    PROVE  LET s == stack[p]
               n == Len(s)
               f == Top(p)
           IN  /\ n \in Nat \ {0} /\ f = s[n] /\ f \in Frames /\ f.at \in Caches /\ f.line \in Lines
               /\ Placed(f) /\ p \in Caches
               /\ n = 1 => f.op \in Gets /\ f.at = p /\ f.from = None
               /\ n > 1 => /\ Linked(s[n - 1], f) /\ s[n - 1] \in Frames /\ s[n - 1].at \in Caches
                           /\ Caller(array, s[n - 1], f)
               /\ Own(array, f, f.pc \notin {"tcc", "bcc"})
               /\ f.pc \notin {"tcc", "bcc"} => bcc[f.at] = p /\ HoldsBcc(s, n)
               /\ f.pc # "tcc" /\ f.op \notin Invs /\ f.at \notin Leaves => tcc[f.at] = p
               /\ f.pc \in {"tcc", "bcc"} => bcc[f.at] # p
<1> DEFINE s == stack[p]
           n == Len(s)
           f == Top(p)
<1>1. s # <<>> /\ f = Last(s) /\ Threads(stack, bcc, tcc) /\ Calling(array, stack)
  BY DEF Busy, Top, IInv, Data
<1>2. /\ n \in Nat \ {0} /\ f = s[n] /\ f \in Frames /\ f.at \in Caches
      /\ Placed(f) /\ p \in Caches
      /\ n = 1 => f.op \in Gets /\ f.at = p /\ f.from = None
      /\ n > 1 => Linked(s[n - 1], f) /\ s[n - 1] \in Frames
      /\ HoldsBcc(s, n) <=> f.pc \notin {"tcc", "bcc"}
      /\ f.pc \notin {"tcc", "bcc"} => bcc[f.at] = p
      /\ f.pc # "tcc" /\ f.op \notin Invs /\ f.at \notin Leaves => tcc[f.at] = p
      /\ f.pc \in {"tcc", "bcc"} => bcc[f.at] # p
  BY <1>1, TopIs
<1>3. n \in 1..n /\ (n > 1 => n - 1 \in 1..n)
  BY <1>2
<1>4. Own(array, f, HoldsBcc(s, n)) /\ HoldsBcc(s, n) \in BOOLEAN /\ (n > 1 => Caller(array, s[n - 1], f))
  BY <1>1, <1>2, <1>3, CallIs
<1>5. HoldsBcc(s, n) = (f.pc \notin {"tcc", "bcc"})
  BY <1>2, <1>4
<1>6. f.line \in Lines /\ (n > 1 => s[n - 1].at \in Caches)
  BY <1>2 DEF Frames
<1> HIDE DEF f, n, s
<1>7. Own(array, f, f.pc \notin {"tcc", "bcc"})
  BY <1>4, <1>5
<1> QED
  BY <1>2, <1>4, <1>6, <1>7 DEF f, n, s

\* A thread with no call in progress begins one.
LEMMA BeginsKeeps ==
    ASSUME IInv, NEW p \in Leaves, NEW l \in Lines, NEW op \in Gets, ~Busy(p),
           stack' = [stack EXCEPT ![p] = <<Call(p, op, l, None, "I")>>],
           UNCHANGED <<array, bcc, tcc>>
    PROVE  Threads(stack, bcc, tcc)' /\ Data(array, stack)'
<1> DEFINE f == Call(p, op, l, None, "I")
           s2 == <<f>>
<1>1. /\ f \in Frames /\ f.at = p /\ f.op = op /\ f.from = None /\ f.pc = "bcc" /\ ~f.wb
      /\ Placed(f)
  BY CoherenceAssumption DEF Call, Frames, States, Placed, Gets, Puts, Invs
<1> HIDE DEF f
<1>2. s2 \in Seq(Frames) /\ Len(s2) = 1 /\ s2[1] = f
  BY <1>1
<1> HIDE DEF s2
<1>3. Shape(p, s2)
  BY <1>1, <1>2 DEF Shape, Chain, Order
<1>4. /\ Threads(stack, bcc, tcc) /\ stack[p] = <<>> /\ Calling(array, stack)
      /\ stack \in [Leaves -> Seq(Frames)]
  BY DEF IInv, Busy, Data, Threads
<1>5. HeldBcc(s2) = {} /\ HeldBcc(stack[p]) = {}
  BY <1>1, <1>2, <1>4 DEF HeldBcc, HoldsBcc
<1>6. HeldTcc(s2) \cap (Caches \ Leaves) = {} /\ HeldTcc(stack[p]) = {}
  BY <1>1, <1>2, <1>4 DEF HeldTcc, HoldsTcc
<1>7. Threads([stack EXCEPT ![p] = s2], bcc, tcc)
  <2>1. \A c \in Caches, q \in Leaves : bcc[c] = q <=> IF q = p THEN c \in HeldBcc(s2) ELSE bcc[c] = q
    BY <1>4, <1>5 DEF Threads, Locked
  <2>2. \A c \in Caches \ Leaves, q \in Leaves :
           tcc[c] = q <=> IF q = p THEN c \in HeldTcc(s2) ELSE tcc[c] = q
    BY <1>4, <1>6 DEF Threads, Locked
  <2> QED
    BY <1>2, <1>3, <1>4, <2>1, <2>2, StackReplaced
<1>8. FrameOK(array, s2, 1)
  <2>1. HoldsBcc(s2, 1) = FALSE
    BY <1>1, <1>2 DEF HoldsBcc
  <2>2. Own(array, f, FALSE)
    BY <1>1 DEF Own
  <2>3. Own(array, s2[1], HoldsBcc(s2, 1))
    BY <1>2, <2>1, <2>2
  <2>4. ~(1 > 1)
    OBVIOUS
  <2> QED
    BY <2>3, <2>4 DEF FrameOK
<1>9. Calling(array, [stack EXCEPT ![p] = s2])
  <2>1. \A q \in Leaves : q # p => \A i \in 1..Len(stack[q]) : FrameOK(array, stack[q], i)
    BY <1>4 DEF Calling
  <2>2. \A i \in 1..Len(s2) : FrameOK(array, s2, i)
    BY <1>2, <1>8
  <2> QED
    BY <1>4, <2>1, <2>2, StackSafe
<1>10. KeepsOwed(stack, [stack EXCEPT ![p] = s2])
  <2>1. KeepsAsks(stack[p], s2, None, None)
    BY <1>4 DEF KeepsAsks
  <2> SUFFICES ASSUME NEW c \in Caches, NEW w \in Ways[c], NEW d \in Children(c),
                      Owed(stack, c, w, d)
               PROVE  Owed([stack EXCEPT ![p] = s2], c, w, d)
    BY DEF KeepsOwed
  <2>2. ~(c = None /\ w = None)
    BY CoherenceAssumption
  <2>3. stack \in [Leaves -> Seq(Frames)]
    BY <1>4
  <2> QED
    BY <2>1, <2>2, <2>3, OwedKept, Zenon
<1>11. stack' = [stack EXCEPT ![p] = s2]
  BY DEF s2, f
<1>12. Directories(array, stack')
  BY <1>10, <1>11, SameDirectories DEF IInv, Data
<1> QED
  BY <1>7, <1>9, <1>11, <1>12 DEF IInv, Data

\* A load or a store keeps the invariant.
LEMMA IssueKeeps ==
    ASSUME IInv, NEW p \in Leaves, Issue(p)
    PROVE  IInv'
<1> PICK l \in Lines : Load(p, l) \/ Store(p, l)
  BY DEF Issue
<1>1. CASE Load(p, l)
  <2>1. Threads(stack, bcc, tcc)' /\ Data(array, stack)'
    BY <1>1, BeginsKeeps DEF Load, Gets
  <2> QED
    BY <1>1, <2>1 DEF Load, IInv, Kinds
<1>2. CASE Store(p, l) /\ stack' # stack
  <2>1. stack' = [stack EXCEPT ![p] = <<Call(p, "GETX", l, None, "I")>>] /\ UNCHANGED dirty
    BY <1>2 DEF Store
  <2>2. Threads(stack, bcc, tcc)' /\ Data(array, stack)'
    BY <1>2, <2>1, BeginsKeeps DEF Store, Gets
  <2> QED
    BY <1>2, <2>1, <2>2 DEF Store, IInv, Kinds
<1>3. CASE Store(p, l) /\ stack' = stack
  <2>1. dirty' \in [Lines -> BOOLEAN]
    BY <1>3 DEF Store, IInv, Kinds
  <2> QED
    BY <1>3, <2>1 DEF Store, IInv, Kinds
<1> QED
  BY <1>1, <1>2, <1>3

\* A context switch keeps the invariant.
LEMMA SwitchKeeps ==
    ASSUME IInv, NEW p \in Leaves, ContextSwitch(p)
    PROVE  IInv'
<1>1. filter' \in [Leaves -> [rd : Lines \cup {None}, wr : Lines \cup {None}]]
  BY DEF ContextSwitch, IInv, Kinds
<1> QED
  BY <1>1 DEF ContextSwitch, IInv, Kinds

\* The calls and the locks after the innermost call of p has gone on as g.
LEMMA WentOn ==
    ASSUME IInv, NEW p \in Leaves, Busy(p), NEW g \in Frames,
           stack' = [stack EXCEPT ![p] = Append(Front(@), g)],
           Continues(Top(p), g), OthersOK(array', stack, p),
           Own(array', g, g.pc \notin {"tcc", "bcc"}),
           Len(stack[p]) > 1 => Caller(array', stack[p][Len(stack[p]) - 1], g),
           LocksGo(p, g, bcc, tcc, bcc', tcc')
    PROVE  /\ Threads(stack', bcc', tcc') /\ Calling(array', stack')
           /\ Top(p).pc # "grant" => KeepsOwed(stack, stack')
           /\ \A c \in Caches : \A w \in Ways[c] : \A d \in Children(c) :
                 Owed(stack, c, w, d) /\ ~(c = g.at /\ w = Top(p).way) => Owed(stack', c, w, d)
<1>1. stack[p] # <<>> /\ Last(stack[p]) = Top(p) /\ Threads(stack, bcc, tcc)
  BY DEF Busy, Top, IInv
<1>2. Continues(Last(stack[p]), g)
  BY <1>1
<1>3. Threads(stack', bcc', tcc')
  BY <1>1, <1>2, GoesThreads
<1>4. LET k2 == [stack EXCEPT ![p] = Append(Front(@), g)]
      IN  /\ Calling(array', k2)
          /\ Last(stack[p]).pc # "grant" => KeepsOwed(stack, k2)
          /\ \A c \in Caches : \A w \in Ways[c] : \A d \in Children(c) :
                Owed(stack, c, w, d) /\ ~(c = g.at /\ w = Last(stack[p]).way) => Owed(k2, c, w, d)
  BY <1>1, <1>2, GoesKeeps
<1> QED
  BY <1>1, <1>3, <1>4

\* The calls and the locks after the innermost call of p has gone on as f and called g.
LEMMA WasCalled ==
    ASSUME IInv, NEW p \in Leaves, Busy(p), NEW f \in Frames, NEW g \in Frames,
           stack' = [stack EXCEPT ![p] = Append(Append(Front(@), f), g)],
           Top(p).pc \notin {"tcc", "bcc"}, Continues(Top(p), f), Makes(f, g),
           OthersOK(array', stack, p), Own(array', f, g.op \in Invs),
           Own(array', g, FALSE), Caller(array', f, g),
           Len(stack[p]) > 1 => Caller(array', stack[p][Len(stack[p]) - 1], f),
           Top(p).pc = "grant" => f = Top(p) /\ g.op \in Invs,
           LocksCall(p, f, g, bcc, tcc, bcc', tcc')
    PROVE  /\ Threads(stack', bcc', tcc') /\ Calling(array', stack')
           /\ KeepsOwed(stack, stack')
<1>1. stack[p] # <<>> /\ Last(stack[p]) = Top(p) /\ Threads(stack, bcc, tcc)
  BY DEF Busy, Top, IInv
<1>2. Continues(Last(stack[p]), f) /\ Last(stack[p]).pc \notin {"tcc", "bcc"}
      /\ (Last(stack[p]).pc = "grant" => f = Last(stack[p]) /\ g.op \in Invs)
  BY <1>1
<1>3. Threads(stack', bcc', tcc')
  BY <1>1, <1>2, CallsThreads
<1>4. LET k2 == [stack EXCEPT ![p] = Append(Append(Front(@), f), g)]
      IN  Calling(array', k2) /\ KeepsOwed(stack, k2)
  BY <1>1, <1>2, CallsKeeps
<1> QED
  BY <1>3, <1>4

\* The calls and the locks after the innermost call of p has returned.
LEMMA HasReturned ==
    ASSUME IInv, NEW p \in Leaves, Busy(p),
           stack' = [stack EXCEPT ![p] = Front(@)],
           Top(p).pc # "grant", OthersOK(array', stack, p),
           Len(stack[p]) > 1 => Own(array', stack[p][Len(stack[p]) - 1], TRUE),
           LocksReturn(p, stack[p], bcc, tcc, bcc', tcc')
    PROVE  /\ Threads(stack', bcc', tcc') /\ Calling(array', stack')
           /\ KeepsOwed(stack, stack')
<1>1. stack[p] # <<>> /\ Last(stack[p]).pc # "grant" /\ Threads(stack, bcc, tcc)
  BY DEF Busy, Top, IInv
<1>2. stack[p] \in Seq(Frames)
  BY <1>1 DEF Threads
<1>3. Front(stack[p]) \in Seq(Frames) /\ Popped(stack[p], Front(stack[p]))
  BY <1>1, <1>2, ReturnsIs
<1>4. Threads(stack', bcc', tcc')
  BY <1>1, <1>3, ReturnsThreads
<1>5. LET k2 == [stack EXCEPT ![p] = Front(@)]
      IN  Calling(array', k2) /\ KeepsOwed(stack, k2)
  BY <1>1, ReturnsKeeps
<1> QED
  BY <1>4, <1>5

\* With the arrays as they were, that is all.
LEMMA SameArrays ==
    ASSUME IInv, array' = array, Threads(stack', bcc', tcc'), Calling(array', stack'),
           KeepsOwed(stack, stack'), Kinds', failed' = FALSE
    PROVE  IInv'
<1>1. Directories(array, stack')
  BY SameDirectories DEF IInv, Data
<1> QED
  BY <1>1 DEF IInv, Data

\* The calls other than the top of p rely on the same arrays.
LEMMA OthersStay ==
    ASSUME IInv, NEW p \in Leaves, array' = array
    PROVE  OthersOK(array', stack, p)
BY OthersSame DEF IInv, Data

\* Taking a tcc lock keeps the invariant.
LEMMA LockTccKeeps ==
    ASSUME IInv, NEW p \in Leaves, LockTcc(p)
    PROVE  IInv'
<1> DEFINE f == Top(p)
           g == [f EXCEPT !.pc = "bcc"]
           n == Len(stack[p])
<1>1. /\ ~failed /\ Busy(p) /\ f.pc = "tcc" /\ tcc[f.at] = None
      /\ tcc' = [tcc EXCEPT ![f.at] = p]
      /\ stack' = [stack EXCEPT ![p] = Append(Front(@), g)]
      /\ UNCHANGED <<array, filter, bcc, dirty, failed>>
  BY DEF LockTcc, At, Goes
<1>2. /\ f \in Frames /\ f.at \in Caches /\ Placed(f)
      /\ Own(array, f, f.pc \notin {"tcc", "bcc"}) /\ bcc[f.at] # p
      /\ n > 1 => Caller(array, stack[p][n - 1], f)
  BY <1>1, InCall
<1>3. /\ g \in Frames /\ g.at = f.at /\ g.pc = "bcc" /\ g.op = f.op /\ g.line = f.line /\ g.wb = f.wb
      /\ g.from = f.from /\ g.init = f.init /\ g.way = f.way
  BY <1>2 DEF Frames
<1> HIDE DEF f, g, n
<1>4. Continues(f, g) /\ f.at \in Caches \ Leaves /\ f.op \notin Invs
  BY <1>1, <1>2, <1>3 DEF Continues, Placed, Invs
<1>5. Own(array', g, g.pc \notin {"tcc", "bcc"})
  BY <1>1, <1>2, <1>3 DEF Own
<1>6. n > 1 => Caller(array', stack[p][n - 1], g)
  BY <1>1, <1>2, <1>3 DEF Caller, Knows
<1>7. LocksGo(p, g, bcc, tcc, bcc', tcc')
  BY <1>1, <1>2, <1>3, <1>4, CoherenceAssumption DEF IInv, Kinds, LocksGo
<1>8. OthersOK(array', stack, p)
  BY <1>1, OthersStay
<1>9. Threads(stack', bcc', tcc') /\ Calling(array', stack') /\ KeepsOwed(stack, stack')
  BY <1>1, <1>3, <1>4, <1>5, <1>6, <1>7, <1>8, WentOn DEF f, n
<1>10. Kinds'
  BY <1>1 DEF IInv, Kinds
<1> QED
  BY <1>1, <1>9, <1>10, SameArrays DEF IInv

\* What the access f, about to lock its bcc, finds in the child it came from.
Finds(f, x) ==
    /\ f.op = "GETS" => x = "I"
    /\ f.op = "GETX" => x \in {"I", "S"}
    /\ f.op = "PUTS" => x \in {"S", "E"}
    /\ f.op = "PUTX" => x = "M"

\* The races that CheckForMESIRace finds are those it knows; a writeback that goes on finds its line.
LEMMA RaceIs ==
    ASSUME IInv, NEW p \in Leaves, Busy(p), Top(p).pc = "bcc", Top(p).op \notin Invs
    PROVE  LET f == Top(p)
               n == Len(stack[p])
               x == StateOf(array, stack[p][n - 1].at, f.line)
           IN  /\ Raced(f) => RaceAsserts(f)
               /\ RacedOp(f) = f.op \/ (f.op = "PUTX" /\ RacedOp(f) = "PUTS")
               /\ Skips(f) => f.op \in Puts /\ n > 1 /\ x = "I"
               /\ ~Skips(f) /\ f.op \in Puts => n > 1 /\ x # "I" /\ Cached(f.at, f.line)
               /\ ~Skips(f) /\ n > 1 => Finds([f EXCEPT !.op = RacedOp(f)], x)
<1> DEFINE f == Top(p)
           n == Len(stack[p])
           h == stack[p][n - 1]
           x == StateOf(array, h.at, f.line)
<1>1. /\ n \in Nat \ {0} /\ f \in Frames /\ f.at \in Caches /\ f.line \in Lines
      /\ n = 1 => f.op \in Gets /\ f.from = None
      /\ n > 1 => Linked(h, f) /\ h.at \in Caches /\ Caller(array, h, f)
  BY InCall
<1> HIDE DEF f, h
<1>2. n > 1 => f.from = h.at /\ h.at # Root /\ f.at = Parent[h.at] /\ f.from # None
  BY <1>1, CoherenceAssumption DEF Linked, Gets, Puts, Invs, f
<1>3. f.op \in Gets \cup Puts
  BY <1>1 DEF Frames, f
<1>4. StateIn(f.from, f.line) = StateOf(array, f.from, f.line)
  BY HelpersAre
<1>5. CASE n = 1
  <2>1. ~Raced(f)
    BY <1>1, <1>5 DEF Raced
  <2>2. RacedOp(f) = f.op /\ ~Skips(f) /\ f.op \notin Puts
    BY <1>1, <1>5, <2>1 DEF RacedOp, Skips, Gets, Puts
  <2> QED
    BY <1>5, <2>1, <2>2 DEF f
<1>6. CASE n > 1
  <2> DEFINE g == [f EXCEPT !.op = RacedOp(f)]
  <2>1. Knows(f, x) /\ x = StateIn(f.from, f.line) /\ x \in States
    BY <1>1, <1>2, <1>4, <1>6, StateType DEF Caller, f, IInv, Data
  <2>2. g.op = RacedOp(f) /\ f.pc = "bcc"
    BY <1>1 DEF Frames, f
  <2> HIDE DEF x, g
  <2>3. Raced(f) <=> x # f.init
    BY <1>2, <1>6, <2>1 DEF Raced
  <2>4. CASE f.op = "GETS"
    <3>1. ~Raced(f) /\ x = "I"
      BY <2>1, <2>2, <2>3, <2>4 DEF Knows
    <3>2. RacedOp(f) = f.op /\ ~Skips(f)
      BY <3>1 DEF RacedOp, Skips
    <3> QED
      BY <2>2, <2>4, <3>1, <3>2 DEF Finds, Puts, f, g, x, h
  <2>5. CASE f.op = "GETX"
    <3>1. x \in {"I", "S"} /\ (Raced(f) => f.init = "S" /\ x = "I")
      BY <2>1, <2>2, <2>3, <2>5 DEF Knows
    <3>2. RacedOp(f) = f.op /\ ~Skips(f)
      BY <2>5 DEF RacedOp, Skips, Puts
    <3>3. Raced(f) => RaceAsserts(f)
      BY <2>1, <2>5, <3>1 DEF RaceAsserts, Puts
    <3> QED
      BY <2>2, <2>5, <3>1, <3>2, <3>3 DEF Finds, Puts, f, g, x, h
  <2>6. CASE f.op \in Puts
    <3>1. /\ f.op = "PUTS" => f.init \in {"S", "E"} /\ x \in {f.init, "S", "I"}
          /\ f.op = "PUTX" => f.init = "M" /\ x \in {"M", "S", "I"}
      BY <2>1, <2>2 DEF Knows
    <3>2. Raced(f) => x \in {"I", "S"}
      BY <2>3, <2>6, <3>1 DEF Puts
    <3>3. Raced(f) => RaceAsserts(f)
      BY <2>1, <2>6, <3>2 DEF RaceAsserts, Puts
    <3>4. Skips(f) <=> x = "I"
      BY <2>1, <2>3, <2>6, <3>1 DEF Skips, Puts
    <3>5. x # "I" => Cached(f.at, f.line)
      <4>1. x # "I" => StateOf(array, f.at, f.line) # "I"
        BY <1>1, <1>2, <1>6 DEF IInv, Data, Included, x
      <4> QED
        BY <4>1, Present, HelpersAre
    <3>6. x # "I" => Finds(g, x)
      BY <2>2, <2>3, <2>6, <3>1, <3>2 DEF Finds, RacedOp, Puts
    <3>7. RacedOp(f) = f.op \/ (f.op = "PUTX" /\ RacedOp(f) = "PUTS")
      BY DEF RacedOp
    <3> QED
      BY <1>6, <2>6, <3>3, <3>4, <3>5, <3>6, <3>7 DEF f, g, x, h
  <2> QED
    BY <1>3, <2>4, <2>5, <2>6 DEF Gets
<1>7. n = 1 \/ n > 1
  <2>1. n \in Nat \ {0}
    BY <1>1
  <2> HIDE DEF n
  <2> QED
    BY <2>1
<1> QED
  BY <1>5, <1>6, <1>7, Zenon

\* Taking a bcc lock for an access keeps the invariant.
LEMMA LockBccKeeps ==
    ASSUME IInv, NEW p \in Leaves, LockBcc(p)
    PROVE  IInv'
<1> DEFINE f == Top(p)
           n == Len(stack[p])
           h == stack[p][n - 1]
           x == StateOf(array, h.at, f.line)
           r == [f EXCEPT !.op = RacedOp(f)]
<1>1. /\ Busy(p) /\ f.pc = "bcc" /\ f.op \notin Invs /\ bcc[f.at] = None
      /\ bcc' = [bcc EXCEPT ![f.at] = p]
      /\ failed' = (\/ Raced(f) /\ ~RaceAsserts(f)
                    \/ ~Skips(f) /\ f.op \in Puts /\ ~Cached(f.at, f.line))
      /\ UNCHANGED <<array, filter, tcc, dirty>>
  BY DEF LockBcc, At
<1>2. /\ n \in Nat \ {0} /\ f \in Frames /\ f.at \in Caches /\ f.line \in Lines /\ Placed(f)
      /\ n = 1 => f.op \in Gets
      /\ n > 1 => h.at \in Caches /\ Caller(array, h, f)
      /\ Own(array, f, f.pc \notin {"tcc", "bcc"})
      /\ f.at \notin Leaves => tcc[f.at] = p
  BY <1>1, InCall
<1>3. /\ Raced(f) => RaceAsserts(f)
      /\ RacedOp(f) = f.op \/ (f.op = "PUTX" /\ RacedOp(f) = "PUTS")
      /\ Skips(f) => f.op \in Puts /\ n > 1 /\ x = "I"
      /\ ~Skips(f) /\ f.op \in Puts => n > 1 /\ x # "I" /\ Cached(f.at, f.line)
      /\ ~Skips(f) /\ n > 1 => Finds(r, x)
  BY <1>1, RaceIs
<1>4. failed' = FALSE
  BY <1>1, <1>3
\* The call goes on as g, to the end, with the line found, or with a victim.
<1>5. ASSUME NEW g \in Frames, stack' = [stack EXCEPT ![p] = Append(Front(@), g)],
             g.at = f.at, g.from = f.from, g.line = f.line, g.wb = f.wb,
             g.op = f.op \/ (f.op = "PUTX" /\ g.op = "PUTS"),
             g.pc \in {"end", "access", "evict"}, Placed(g),
             g.pc # "end" => Chosen(array, g),
             g.pc = "end" => g.op \in Puts,
             n > 1 => Knows(g, x)
      PROVE  IInv'
  <2>1. Continues(f, g) /\ g.op \notin Invs
    BY <1>1, <1>5 DEF Continues, Invs
  <2>2. Own(array', g, g.pc \notin {"tcc", "bcc"})
    BY <1>1, <1>2, <1>5 DEF Own, Gets, Puts
  <2>3. n > 1 => Caller(array', h, g)
    BY <1>1, <1>2, <1>5, <2>1 DEF Caller, Puts
  <2>4. LocksGo(p, g, bcc, tcc, bcc', tcc')
    BY <1>1, <1>2, <1>5, CoherenceAssumption DEF IInv, Kinds, LocksGo
  <2>5. OthersOK(array', stack, p)
    BY <1>1, OthersStay
  <2>6. Threads(stack', bcc', tcc') /\ Calling(array', stack') /\ KeepsOwed(stack, stack')
    BY <1>1, <1>5, <2>1, <2>2, <2>3, <2>4, <2>5, WentOn
  <2>7. Kinds'
    BY <1>1 DEF IInv, Kinds
  <2> QED
    BY <1>1, <1>4, <2>6, <2>7, SameArrays
<1>6. CASE Skips(f) /\ Goes(p, [f EXCEPT !.pc = "end"])
  <2> DEFINE g == [f EXCEPT !.pc = "end"]
  <2>1. /\ g \in Frames /\ g.at = f.at /\ g.from = f.from /\ g.line = f.line /\ g.wb = f.wb
        /\ g.op = f.op /\ g.pc = "end"
    BY <1>2 DEF Frames
  <2>2. stack' = [stack EXCEPT ![p] = Append(Front(@), g)]
    BY <1>6 DEF Goes
  <2> HIDE DEF g
  <2>3. Placed(g) /\ (n > 1 => Knows(g, x))
    BY <1>3, <1>6, <2>1 DEF Placed, Knows, Puts, Invs
  <2> QED
    BY <1>3, <1>5, <1>6, <2>1, <2>2, <2>3
<1>7. ASSUME ~Skips(f), NEW way \in Ways[f.at], NEW pc \in {"access", "evict"},
             Goes(p, [r EXCEPT !.pc = pc, !.way = way]),
             pc = "access" => array[f.at][way].tag = f.line,
             pc = "evict" => ~Cached(f.at, f.line)
      PROVE  IInv'
  <2> DEFINE g == [r EXCEPT !.pc = pc, !.way = way]
  <2>1. /\ g \in Frames /\ g.at = f.at /\ g.from = f.from /\ g.line = f.line /\ g.wb = f.wb
        /\ g.op = RacedOp(f) /\ g.pc = pc /\ g.way = way
    <3>1. way \in Nat /\ RacedOp(f) \in Gets \cup Puts \cup Invs
      BY <1>2, <1>3, <1>7, CoherenceAssumption DEF Frames, Puts
    <3> QED
      BY <1>2, <1>7, <3>1 DEF Frames
  <2>2. stack' = [stack EXCEPT ![p] = Append(Front(@), g)]
    BY <1>7 DEF Goes
  <2>3. n > 1 => Finds(g, x)
    <3>1. r.op = RacedOp(f)
      BY <1>2 DEF Frames
    <3> QED
      BY <1>3, <1>7, <2>1, <3>1 DEF Finds
  <2> HIDE DEF g, x
  <2>4. g.op = f.op \/ (f.op = "PUTX" /\ g.op = "PUTS")
    BY <1>3, <2>1
  <2>5. Placed(g)
    BY <1>1, <1>3, <1>7, <2>1, <2>4 DEF Placed, Invs, Puts
  <2>6. n > 1 => Knows(g, x)
    BY <1>7, <2>1, <2>3 DEF Knows, Finds
  <2>7. Chosen(array, g)
    <3>1. pc = "evict" => WaysFor(array, f.at, f.line) = {}
      BY <1>7, HelpersAre
    <3> QED
      BY <1>7, <2>1, <3>1 DEF Chosen, Entry
  <2>8. g.pc # "end"
    BY <1>7, <2>1
  <2> QED
    BY <1>5, <1>7, <2>1, <2>2, <2>4, <2>5, <2>6, <2>7, <2>8 DEF x
<1>8. CASE ~Skips(f) /\ Cached(f.at, f.line)
           /\ Goes(p, [r EXCEPT !.pc = "access", !.way = WayOf(f.at, f.line)])
  <2>1. WayOf(f.at, f.line) \in WaysFor(array, f.at, f.line)
    BY <1>8, HelpersAre DEF WayOf
  <2>2. WayOf(f.at, f.line) \in Ways[f.at] /\ array[f.at][WayOf(f.at, f.line)].tag = f.line
    BY <2>1 DEF WaysFor
  <2> QED
    BY <1>7, <1>8, <2>2
<1>9. CASE ~Skips(f) /\ ~Cached(f.at, f.line)
           /\ \E v \in Victims(f.at) : Goes(p, [r EXCEPT !.pc = "evict", !.way = v])
  <2>1. PICK v \in Victims(f.at) : Goes(p, [r EXCEPT !.pc = "evict", !.way = v])
    BY <1>9
  <2>2. v \in Ways[f.at]
    BY DEF Victims
  <2> QED
    BY <1>7, <1>9, <2>1, <2>2
<1> QED
  BY <1>6, <1>8, <1>9 DEF LockBcc

\* Taking a bcc lock for an invalidation keeps the invariant.
LEMMA LockInvKeeps ==
    ASSUME IInv, NEW p \in Leaves, LockInv(p)
    PROVE  IInv'
<1> DEFINE f == Top(p)
           n == Len(stack[p])
           h == stack[p][n - 1]
           g == [f EXCEPT !.pc = "down", !.way = WayOf(f.at, f.line)]
<1>1. /\ Busy(p) /\ f.pc = "bcc" /\ f.op \in Invs /\ bcc[f.at] = None
      /\ bcc' = [bcc EXCEPT ![f.at] = p]
      /\ failed' = ~Cached(f.at, f.line)
      /\ Cached(f.at, f.line) => stack' = [stack EXCEPT ![p] = Append(Front(@), g)]
      /\ UNCHANGED <<array, filter, tcc, dirty>>
  BY DEF LockInv, At, Goes
<1>2. /\ n \in Nat \ {0} /\ f \in Frames /\ f.at \in Caches /\ f.line \in Lines /\ Placed(f)
      /\ n = 1 => f.op \in Gets
      /\ n > 1 => h \in Frames /\ h.at \in Caches /\ Linked(h, f) /\ Caller(array, h, f)
      /\ Own(array, f, f.pc \notin {"tcc", "bcc"})
  BY <1>1, InCall
<1> HIDE DEF f, h, n, g
<1>3. n > 1
  <2>1. n # 1
    BY <1>1, <1>2 DEF Gets, Invs
  <2> QED
    BY <1>2, <2>1
<1>4. Cached(f.at, f.line)
  <2> DEFINE e == array[h.at][h.way]
  <2>1. n - 1 \in 1..Len(stack[p]) /\ Threads(stack, bcc, tcc)
    BY <1>2, <1>3 DEF IInv, n
  <2>2. Placed(h) /\ h.pc \in {"evict", "grant", "down"} /\ f.at \in Children(h.at)
    BY <1>1, <1>2, <1>3, <2>1, Neighbours DEF Linked, Gets, Puts, Invs, h
  <2>3. h.way \in Ways[h.at]
    BY <2>2 DEF Placed
  <2>4. e.tag = f.line /\ f.at \in e.sharers
    BY <1>1, <1>2, <1>3 DEF Caller, Entry
  <2>5. Listed(array, stack, h.at, h.way, f.at)
    BY <1>2, <1>3, <2>2, <2>3 DEF IInv, Data, Directories
  <2>6. StateOf(array, f.at, f.line) # "I"
    BY <1>2, <2>4, <2>5, CoherenceAssumption DEF Listed, Shows
  <2> QED
    BY <2>6, Present, HelpersAre
<1>5. WayOf(f.at, f.line) \in Ways[f.at] /\ array[f.at][WayOf(f.at, f.line)].tag = f.line
  <2>1. WayOf(f.at, f.line) \in WaysFor(array, f.at, f.line)
    BY <1>4, HelpersAre DEF WayOf
  <2> QED
    BY <2>1 DEF WaysFor
<1>6. /\ g \in Frames /\ g.at = f.at /\ g.pc = "down" /\ g.op = f.op /\ g.line = f.line /\ g.wb = f.wb
      /\ g.from = f.from /\ g.way = WayOf(f.at, f.line)
  <2>1. WayOf(f.at, f.line) \in Nat
    BY <1>2, <1>5, CoherenceAssumption
  <2> QED
    BY <1>2, <2>1 DEF Frames, g
<1>7. Continues(f, g)
  BY <1>1, <1>5, <1>6 DEF Continues, Placed, Puts, Invs
<1>8. Own(array', g, g.pc \notin {"tcc", "bcc"})
  BY <1>1, <1>2, <1>5, <1>6 DEF Own, Chosen, Entry
<1>9. Caller(array', h, g)
  BY <1>1, <1>2, <1>3, <1>6 DEF Caller, Puts, Invs
<1>10. LocksGo(p, g, bcc, tcc, bcc', tcc')
  BY <1>1, <1>2, <1>6, CoherenceAssumption DEF IInv, Kinds, LocksGo
<1>11. OthersOK(array', stack, p)
  BY <1>1, OthersStay
<1>12. Threads(stack', bcc', tcc') /\ Calling(array', stack') /\ KeepsOwed(stack, stack')
  BY <1>1, <1>4, <1>6, <1>7, <1>8, <1>9, <1>10, <1>11, WentOn DEF f, n, h
<1>13. Kinds'
  BY <1>1 DEF IInv, Kinds
<1>14. failed' = FALSE
  BY <1>1, <1>4
<1> QED
  BY <1>1, <1>12, <1>13, <1>14, SameArrays

-----------------------------------------------------------------------------
(* Invalidations sent, misses and the end of an access                     *)

\* The top of p, holding its lock, sends an invalidation to the child d.
LEMMA HasSent ==
    ASSUME IInv, NEW p \in Leaves, Busy(p), NEW d \in Caches, NEW op \in Invs, NEW l \in Lines,
           stack' = [stack EXCEPT ![p] = Append(Append(Front(@), Top(p)), Call(d, op, l, None, "I"))],
           Linked(Top(p), Call(d, op, l, None, "I")),
           OthersOK(array', stack, p), Own(array', Top(p), TRUE),
           Caller(array', Top(p), Call(d, op, l, None, "I")),
           Len(stack[p]) > 1 => Caller(array', stack[p][Len(stack[p]) - 1], Top(p)),
           UNCHANGED <<bcc, tcc>>
    PROVE  /\ Threads(stack', bcc', tcc') /\ Calling(array', stack')
           /\ KeepsOwed(stack, stack')
<1> DEFINE f == Top(p)
           g == Call(d, op, l, None, "I")
<1>1. /\ f \in Frames /\ f.at \in Caches /\ Placed(f)
      /\ f.pc \notin {"tcc", "bcc"} => bcc[f.at] = p
      /\ f.pc # "tcc" /\ f.op \notin Invs /\ f.at \notin Leaves => tcc[f.at] = p
  BY InCall
<1>2. /\ g \in Frames /\ g.op = op /\ g.pc = "bcc" /\ ~g.wb
  BY CoherenceAssumption DEF Call, Frames, Invs, States
<1> HIDE DEF f, g
<1>3. f.pc \in {"evict", "grant", "down"}
  BY <1>2 DEF Linked, f, g, Gets, Puts, Invs
<1>4. Continues(f, f) /\ Makes(f, g) /\ g.op \in Invs
  BY <1>1, <1>2, <1>3 DEF Continues, Makes, Placed, Puts, Invs, f, g
<1>5. Own(array', g, FALSE) /\ Own(array', f, g.op \in Invs)
  <2>1. (g.op \in Invs) = TRUE
    BY <1>2
  <2>2. Own(array', f, g.op \in Invs)
    BY <2>1 DEF f
  <2> QED
    BY <1>2, <2>2 DEF Own
<1>6. LocksCall(p, f, g, bcc, tcc, bcc', tcc')
  BY <1>1, <1>2, <1>3 DEF LocksCall
<1> QED
  BY <1>1, <1>2, <1>3, <1>4, <1>5, <1>6, WasCalled DEF f, g

\* Invalidating a child of the victim keeps the invariant.
LEMMA EvictChildKeeps ==
    ASSUME IInv, NEW p \in Leaves, EvictChild(p)
    PROVE  IInv'
<1> DEFINE f == Top(p)
           e == array[f.at][f.way]
           n == Len(stack[p])
<1>0. /\ Busy(p) /\ f.pc = "evict"
      /\ \E d \in e.sharers : Calls(p, f, Call(d, "INV", e.tag, None, "I"))
      /\ UNCHANGED <<array, filter, tcc, bcc, dirty, failed>>
  BY DEF EvictChild, At
<1>1. PICK d \in e.sharers : Calls(p, f, Call(d, "INV", e.tag, None, "I"))
  BY <1>0
<1>2. /\ f \in Frames /\ f.at \in Caches /\ Placed(f)
      /\ n > 1 => Caller(array, stack[p][n - 1], f)
      /\ Own(array, f, f.pc \notin {"tcc", "bcc"})
  BY <1>0, InCall
<1> DEFINE g == Call(d, "INV", e.tag, None, "I")
<1>3. g.at = d /\ g.op = "INV" /\ g.line = e.tag
  BY DEF Call
<1> HIDE DEF f, n, g
<1>4. f.way \in Ways[f.at] /\ Typed(array) /\ Tags(array)
  BY <1>0, <1>2 DEF Placed, IInv, Data
<1>5. e.tag \in Lines /\ d \in Children(f.at) /\ d \in Caches
  <2>1. e.sharers \subseteq Children(f.at) /\ e.tag \in Lines \cup {None}
    BY <1>2, <1>4, EntryType
  <2>2. e.tag # None
    BY <1>2, <1>4 DEF Tags
  <2> QED
    BY <1>2, <2>1, <2>2, ChildIs
<1>6. Linked(f, g)
  BY <1>0, <1>3, <1>5 DEF Linked, Invs
<1>7. Own(array', f, TRUE)
  <2>1. (f.pc \notin {"tcc", "bcc"}) = TRUE
    BY <1>0
  <2> QED
    BY <1>0, <1>2, <2>1
<1>8. Caller(array', f, g)
  BY <1>0, <1>3 DEF Caller, Entry, Invs, Puts
<1>9. OthersOK(array', stack, p)
  BY <1>0, OthersStay
<1>10. Threads(stack', bcc', tcc') /\ Calling(array', stack') /\ KeepsOwed(stack, stack')
  <2>1. stack' = [stack EXCEPT ![p] = Append(Append(Front(@), Top(p)), Call(d, "INV", e.tag, None, "I"))]
    BY <1>1 DEF Calls, f
  <2>2. "INV" \in Invs
    BY DEF Invs
  <2>3. n > 1 => Caller(array', stack[p][n - 1], f)
    BY <1>0, <1>2
  <2> HIDE DEF e
  <2> QED
    BY <1>0, <1>5, <1>6, <1>7, <1>8, <1>9, <2>1, <2>2, <2>3, HasSent DEF f, g, n
<1>11. Kinds'
  BY <1>0 DEF IInv, Kinds
<1> QED
  BY <1>0, <1>10, <1>11, SameArrays DEF IInv

\* Passing an invalidation on keeps the invariant.
LEMMA SendInvalidateKeeps ==
    ASSUME IInv, NEW p \in Leaves, SendInvalidate(p)
    PROVE  IInv'
<1> DEFINE f == Top(p)
           e == array[f.at][f.way]
           n == Len(stack[p])
<1>0. /\ Busy(p) /\ f.pc = "down"
      /\ \E d \in Sends(f, e) : Calls(p, f, Call(d, f.op, f.line, None, "I"))
      /\ UNCHANGED <<array, filter, tcc, bcc, dirty, failed>>
  BY DEF SendInvalidate, At
<1>1. PICK d \in Sends(f, e) : Calls(p, f, Call(d, f.op, f.line, None, "I"))
  BY <1>0
<1>2. /\ f \in Frames /\ f.at \in Caches /\ Placed(f) /\ f.line \in Lines
      /\ n > 1 => Caller(array, stack[p][n - 1], f)
      /\ Own(array, f, f.pc \notin {"tcc", "bcc"})
  BY <1>0, InCall
<1> DEFINE g == Call(d, f.op, f.line, None, "I")
<1>3. g.at = d /\ g.op = f.op /\ g.line = f.line
  BY DEF Call
<1> HIDE DEF f, n, g
<1>4. /\ f.way \in Ways[f.at] /\ Typed(array) /\ f.op \in Invs /\ e.tag = f.line
  <2>1. f.op \in Invs
    BY <1>0, <1>2 DEF Placed
  <2> QED
    BY <1>0, <1>2, <2>1 DEF Placed, IInv, Data, Own, Chosen, Entry
<1>5. d \in e.sharers /\ (f.op = "INVX" => e.excl)
  BY DEF Sends, Exclusive
<1>6. d \in Children(f.at) /\ d \in Caches
  <2>1. e.sharers \subseteq Children(f.at)
    BY <1>2, <1>4, EntryType
  <2> QED
    BY <1>2, <1>5, <2>1, ChildIs
<1>7. Linked(f, g)
  BY <1>0, <1>3, <1>4, <1>6 DEF Linked, Invs
<1>8. Own(array', f, TRUE)
  <2>1. (f.pc \notin {"tcc", "bcc"}) = TRUE
    BY <1>0
  <2> QED
    BY <1>0, <1>2, <2>1
<1>9. Caller(array', f, g)
  BY <1>0, <1>3, <1>4, <1>5 DEF Caller, Entry, Invs, Puts
<1>10. OthersOK(array', stack, p)
  BY <1>0, OthersStay
<1>11. Threads(stack', bcc', tcc') /\ Calling(array', stack') /\ KeepsOwed(stack, stack')
  <2>1. stack' = [stack EXCEPT ![p] = Append(Append(Front(@), Top(p)), Call(d, f.op, f.line, None, "I"))]
    BY <1>1 DEF Calls, f
  <2>2. n > 1 => Caller(array', stack[p][n - 1], f)
    BY <1>0, <1>2
  <2> HIDE DEF e
  <2> QED
    BY <1>0, <1>2, <1>4, <1>6, <1>7, <1>8, <1>9, <1>10, <2>1, <2>2, HasSent DEF f, g, n
<1>12. Kinds'
  BY <1>0 DEF IInv, Kinds
<1> QED
  BY <1>0, <1>11, <1>12, SameArrays DEF IInv

\* A miss to the cache above keeps the invariant.
LEMMA MissToParentKeeps ==
    ASSUME IInv, NEW p \in Leaves, MissToParent(p)
    PROVE  IInv'
<1> DEFINE f == Top(p)
           e == array[f.at][f.way]
           n == Len(stack[p])
           r == [f EXCEPT !.pc = "grant"]
           g == Call(Parent[f.at], f.op, f.line, f.at, e.st)
<1>1. /\ Busy(p) /\ f.pc = "access" /\ Misses(f, e) /\ f.at # Root
      /\ stack' = [stack EXCEPT ![p] = Append(Append(Front(@), r), g)]
      /\ bcc' = [bcc EXCEPT ![f.at] = None]
      /\ UNCHANGED <<array, filter, tcc, dirty, failed>>
  BY DEF MissToParent, At, Calls
<1>2. /\ f \in Frames /\ f.at \in Caches /\ Placed(f) /\ f.line \in Lines
      /\ n > 1 => Caller(array, stack[p][n - 1], f)
      /\ Own(array, f, f.pc \notin {"tcc", "bcc"})
      /\ bcc[f.at] = p
      /\ f.op \notin Invs /\ f.at \notin Leaves => tcc[f.at] = p
  BY <1>1, InCall
<1>3. f.op \in Gets /\ (f.op = "GETS" => e.st = "I") /\ (f.op = "GETX" => e.st \in {"I", "S"})
  BY <1>1 DEF Misses, Gets
<1>4. Parent[f.at] \in Caches \ Leaves
  BY <1>1, <1>2, CoherenceAssumption
<1>5. /\ r \in Frames /\ r.at = f.at /\ r.pc = "grant" /\ r.op = f.op /\ r.line = f.line /\ r.wb = f.wb
      /\ r.from = f.from /\ r.init = f.init /\ r.way = f.way
  BY <1>2 DEF Frames
<1>6. /\ g.at = Parent[f.at] /\ g.op = f.op /\ g.line = f.line /\ g.from = f.at /\ g.init = e.st
      /\ g.pc = "tcc" /\ ~g.wb
  BY <1>3, <1>4 DEF Call, Gets, Invs
<1>7. /\ f.way \in Ways[f.at] /\ e.tag = f.line /\ e.st \in States
      /\ StateOf(array, f.at, f.line) = e.st
  <2>1. f.way \in Ways[f.at] /\ e.tag = f.line
    BY <1>1, <1>2 DEF Own, Chosen, Entry
  <2>2. f.line # None
    BY <1>2, CoherenceAssumption
  <2> QED
    BY <1>2, <2>1, <2>2, EntryType, StateIs DEF IInv, Data
<1>8. g \in Frames
  BY <1>2, <1>3, <1>4, <1>7 DEF Call, Frames, Gets
<1> HIDE DEF f, n, g, r, e
<1>9. Continues(f, r) /\ Makes(r, g)
  <2>1. Placed(r)
    BY <1>1, <1>2, <1>5 DEF Placed, Invs
  <2>2. Placed(g)
    BY <1>3, <1>4, <1>6 DEF Placed, Gets, Invs
  <2>3. Linked(r, g)
    BY <1>1, <1>3, <1>5, <1>6 DEF Linked
  <2> QED
    BY <1>3, <1>5, <1>6, <2>1, <2>2, <2>3 DEF Continues, Makes, Gets, Invs
<1>10. (g.op \in Invs) = FALSE
  BY <1>3, <1>6 DEF Gets, Invs
<1>11. Own(array', r, FALSE)
  <2>1. ~f.wb
    BY <1>1, <1>2 DEF Own
  <2>2. Chosen(array', r)
    BY <1>1, <1>5, <1>7 DEF Chosen, Entry, e
  <2> QED
    BY <1>5, <2>1, <2>2 DEF Own
<1>12. Own(array', g, FALSE)
  BY <1>6 DEF Own
<1>13. Caller(array', r, g)
  BY <1>1, <1>3, <1>5, <1>6, <1>7 DEF Caller, Knows, Gets, Puts, Invs
<1>14. n > 1 => Caller(array', stack[p][n - 1], r)
  BY <1>1, <1>2, <1>3, <1>5 DEF Caller, Knows, Gets, Puts, Invs
<1>15. LocksCall(p, r, g, bcc, tcc, bcc', tcc')
  BY <1>1, <1>2, <1>3, <1>5, <1>10, CoherenceAssumption DEF LocksCall, IInv, Kinds, Gets, Invs
<1>16. OthersOK(array', stack, p)
  BY <1>1, OthersStay
<1>17. Threads(stack', bcc', tcc') /\ Calling(array', stack') /\ KeepsOwed(stack, stack')
  <2>1. f.pc \notin {"tcc", "bcc"} /\ f.pc # "grant"
    BY <1>1
  <2>2. Own(array', r, g.op \in Invs)
    BY <1>10, <1>11
  <2> QED
    BY <1>1, <1>5, <1>8, <1>9, <1>12, <1>13, <1>14, <1>15, <1>16, <2>1, <2>2, WasCalled DEF f, n
<1>18. Kinds'
  BY <1>1 DEF IInv, Kinds
<1> QED
  BY <1>1, <1>17, <1>18, SameArrays DEF IInv

\* An access ends: what it promised its child, the child's call goes on with.
LEMMA EndAccessKeeps ==
    ASSUME IInv, NEW p \in Leaves, EndAccess(p)
    PROVE  IInv'
<1> DEFINE f == Top(p)
           n == Len(stack[p])
           h == stack[p][n - 1]
<1>1. /\ Busy(p) /\ f.pc = "end" /\ f.at \notin Leaves
      /\ bcc[f.from] = None
      /\ bcc' = [bcc EXCEPT ![f.from] = p, ![f.at] = None]
      /\ tcc' = [tcc EXCEPT ![f.at] = None]
      /\ stack' = [stack EXCEPT ![p] = Front(@)]
      /\ UNCHANGED <<array, filter, dirty, failed>>
  BY DEF EndAccess, At, Returns
<1>2. /\ n \in Nat \ {0} /\ f \in Frames /\ f.at \in Caches /\ Placed(f) /\ f.line \in Lines
      /\ n = 1 => f.at = p
      /\ n > 1 => Linked(h, f) /\ h \in Frames /\ h.at \in Caches /\ Caller(array, h, f)
      /\ bcc[f.at] = p
  BY <1>1, InCall
<1>2a. f.op \notin Invs => tcc[f.at] = p
  BY <1>1, InCall
<1> HIDE DEF f, n, h
<1>3. n > 1
  BY <1>1, <1>2
<1>4. f.op \notin Invs /\ f.from = h.at /\ h.at # Root /\ f.at = Parent[h.at]
  BY <1>1, <1>2, <1>3 DEF Placed, Linked, Gets, Puts, Invs
<1>5. f.at # h.at
  BY <1>2, <1>3, <1>4, DepthIs
<1>6. Own(array, h, FALSE) /\ Placed(h) /\ h.pc \in {"grant", "evicted"}
  <2>1. n - 1 \in 1..Len(stack[p]) /\ n \in 1..Len(stack[p])
    BY <1>2, <1>3 DEF n
  <2>2. h.pc \in {"grant", "evicted"} /\ f = stack[p][n]
    BY <1>1, <1>2, <1>3, <1>4, InCall DEF Linked, f, n
  <2>3. HoldsBcc(stack[p], n - 1) = FALSE
    <3>1. stack[p][(n - 1) + 1].op \notin Invs /\ n - 1 # n
      BY <1>2, <1>4, <2>2
    <3> QED
      BY <1>2, <2>2, <3>1 DEF HoldsBcc, h, n
  <2>4. Own(array, h, HoldsBcc(stack[p], n - 1))
    BY <2>1, CallIs DEF h, IInv, Data
  <2>5. Placed(h)
    BY <2>1, Neighbours DEF h, IInv
  <2> QED
    BY <2>2, <2>3, <2>4, <2>5
<1>7. Own(array, h, TRUE)
  <2> DEFINE x == StateOf(array, h.at, f.line)
  <2>1. Knows(f, x) /\ (f.op \in Puts => Entry(array, h).tag = f.line)
    BY <1>2, <1>3, <1>4 DEF Caller
  <2>2. Chosen(array, h)
    BY <1>6 DEF Own
  <2>3. h.way \in Ways[h.at] /\ Entry(array, h) = array[h.at][h.way]
    BY <2>2 DEF Chosen, Entry
  <2>4. Entry(array, h).tag = f.line => Entry(array, h).st = x
    <3>1. f.line # None
      BY <1>2, CoherenceAssumption
    <3> QED
      BY <1>2, <1>3, <2>3, <3>1, StateIs DEF IInv, Data
  <2>5. CASE f.op \in Gets
    <3>1. h.op = f.op /\ h.pc = "grant" /\ f.line = h.line
      BY <1>2, <1>3, <2>5 DEF Linked, Gets, Puts, Invs
    <3>2. Entry(array, h).tag = f.line
      BY <2>2, <3>1 DEF Chosen
    <3>3. /\ f.op = "GETS" => Entry(array, h).st \in {"S", "E"}
          /\ f.op = "GETX" => Entry(array, h).st = "M"
      BY <1>1, <2>1, <2>4, <3>2 DEF Knows
    <3>4. ~h.wb /\ h.op # "PUTX"
      BY <1>6, <2>5, <3>1 DEF Own, Gets
    <3> QED
      BY <2>2, <3>1, <3>3, <3>4 DEF Own
  <2>6. CASE f.op \in Puts
    <3>1. h.op \in Gets /\ h.pc = "evicted"
      BY <1>2, <1>3, <2>6 DEF Linked, Gets, Puts, Invs
    <3>2. Entry(array, h).st = "I"
      BY <1>1, <2>1, <2>4, <2>6 DEF Knows
    <3> QED
      BY <1>6, <2>2, <3>1, <3>2 DEF Own, Chosen
  <2>7. f.op \in Gets \cup Puts
    BY <1>2, <1>4 DEF Frames
  <2> QED
    BY <2>5, <2>6, <2>7
<1>8. OthersOK(array', stack, p)
  BY <1>1, OthersStay
<1>9. LocksReturn(p, stack[p], bcc, tcc, bcc', tcc')
  <2>1. Last(stack[p]) = f /\ Len(stack[p]) = n
    BY DEF f, Top, n
  <2>2. bcc' \in [Caches -> Leaves \cup {None}]
        /\ (\A c \in Caches : bcc'[c] = IF c = f.at THEN None ELSE IF c = h.at THEN p ELSE bcc[c])
    BY <1>1, <1>2, <1>3, <1>4 DEF IInv, Kinds
  <2>3. \A c \in Caches \ Leaves : tcc'[c] = IF c = f.at THEN None ELSE tcc[c]
    BY <1>1, <1>2 DEF IInv, Kinds
  <2>4. None \notin Leaves
    BY CoherenceAssumption
  <2>5. bcc[h.at] = None
    BY <1>1, <1>4
  <2> QED
    BY <1>1, <1>2, <1>2a, <1>3, <1>4, <1>5, <2>1, <2>2, <2>3, <2>4, <2>5 DEF LocksReturn, h
<1>10. Threads(stack', bcc', tcc') /\ Calling(array', stack') /\ KeepsOwed(stack, stack')
  <2>1. n > 1 => Own(array', h, TRUE)
    BY <1>1, <1>7
  <2>2. f.pc # "grant"
    BY <1>1
  <2> QED
    BY <1>1, <1>8, <1>9, <2>1, <2>2, HasReturned DEF f, h, n
<1>11. Kinds'
  BY <1>1, <1>2, <1>3, <1>4 DEF IInv, Kinds
<1> QED
  BY <1>1, <1>10, <1>11, SameArrays DEF IInv

\* The end of an access of a core keeps the invariant.
LEMMA FillKeeps ==
    ASSUME IInv, NEW p \in Leaves, Fill(p)
    PROVE  IInv'
<1> DEFINE f == Top(p)
           n == Len(stack[p])
           h == stack[p][n - 1]
<1>1. /\ Busy(p) /\ f.pc = "end" /\ f.at \in Leaves
      /\ bcc' = [bcc EXCEPT ![f.at] = None]
      /\ filter' = [filter EXCEPT ![p] =
                       [rd |-> f.line, wr |-> IF f.op = "GETX" THEN f.line ELSE None]]
      /\ dirty' = [dirty EXCEPT ![f.line] = @ \/ f.op = "GETX"]
      /\ stack' = [stack EXCEPT ![p] = Front(@)]
      /\ UNCHANGED <<array, tcc, failed>>
  BY DEF Fill, At, Returns
<1>2. /\ n \in Nat \ {0} /\ f \in Frames /\ f.at \in Caches /\ Placed(f) /\ f.line \in Lines
      /\ n > 1 => Linked(h, f) /\ h \in Frames /\ h.at \in Caches
      /\ bcc[f.at] = p
  BY <1>1, InCall
<1> HIDE DEF f, n, h
<1>3. n = 1
  <2>1. f.op \notin Invs
    BY <1>1, <1>2 DEF Placed
  <2>2. ~(n > 1)
    BY <1>1, <1>2, <2>1, CoherenceAssumption DEF Linked, Gets, Puts, Invs
  <2> QED
    BY <1>2, <2>2
<1>4. OthersOK(array', stack, p)
  BY <1>1, OthersStay
<1>5. LocksReturn(p, stack[p], bcc, tcc, bcc', tcc')
  <2>1. Last(stack[p]) = f /\ Len(stack[p]) = n
    BY DEF f, Top, n
  <2>2. \A c \in Caches : bcc'[c] = IF c = f.at THEN None ELSE bcc[c]
    BY <1>1, <1>2 DEF IInv, Kinds
  <2>3. None \notin Leaves
    BY CoherenceAssumption
  <2> QED
    BY <1>1, <1>2, <1>3, <2>1, <2>2, <2>3 DEF LocksReturn
<1>6. Threads(stack', bcc', tcc') /\ Calling(array', stack') /\ KeepsOwed(stack, stack')
  <2>1. ~(Len(stack[p]) > 1)
    BY <1>3 DEF n
  <2>2. Top(p).pc # "grant"
    BY <1>1 DEF f
  <2> QED
    BY <1>1, <1>4, <1>5, <2>1, <2>2, HasReturned
<1>7. Kinds'
  BY <1>1, <1>2 DEF IInv, Kinds
<1> QED
  BY <1>1, <1>6, <1>7, SameArrays DEF IInv

\* An access that holds its locks gives its way the entry e.
LEMMA AtWork ==
    ASSUME IInv, NEW p \in Leaves, Busy(p), Top(p).pc \notin {"tcc", "bcc"}, Top(p).op \notin Invs,
           Top(p).way \in Ways[Top(p).at], NEW e \in Entries(Top(p).at),
           array' = [array EXCEPT ![Top(p).at][Top(p).way] = e]
    PROVE  LET f == Top(p)
               n == Len(stack[p])
           IN  /\ Changed(array, array', f.at, f.way, e) /\ Typed(array')
               /\ array'[f.at][f.way] = e
               /\ \A v \in Ways[f.at] : v # f.way => array'[f.at][v] = array[f.at][v]
               /\ \A c \in Caches : c # f.at => array'[c] = array[c]
               /\ OthersOK(array', stack, p)
               /\ n > 1 => Caller(array', stack[p][n - 1], f)
<1> DEFINE f == Top(p)
           n == Len(stack[p])
           h == stack[p][n - 1]
<1>1. /\ n \in Nat \ {0} /\ f \in Frames /\ f.at \in Caches
      /\ n > 1 => Linked(h, f) /\ h.at \in Caches /\ Caller(array, h, f)
  BY InCall
<1>2. /\ stack[p] # <<>> /\ f = Last(stack[p])
      /\ Threads(stack, bcc, tcc) /\ Calling(array, stack) /\ Typed(array)
      /\ f.way \in Ways[f.at] /\ e \in Entries(f.at)
  BY DEF Busy, Top, IInv, Data
<1>3. Changed(array, array', f.at, f.way, e)
  BY <1>1, <1>2, ChangedIs
<1>4. /\ Typed(array') /\ array'[f.at][f.way] = e
      /\ \A v \in Ways[f.at] : v # f.way => array'[f.at][v] = array[f.at][v]
  <2>1. /\ Typed(array) /\ f.at \in Caches /\ f.way \in Ways[f.at] /\ e \in Entries(f.at)
        /\ Changed(array, array', f.at, f.way, e)
    BY <1>1, <1>2, <1>3
  <2> HIDE DEF f
  <2> QED
    BY ONLY <2>1, ChangedEntries
<1>5. \A c \in Caches : c # f.at => array'[c] = array[c]
  BY <1>3 DEF Changed
<1> HIDE DEF n, h
<1>6. n > 1 => Caller(array', h, f)
  <2> HAVE n > 1
  <2>1. h.at # Root /\ f.at = Parent[h.at]
    BY <1>1 DEF Linked, Gets, Puts, Invs
  <2>2. h.at # f.at
    BY <1>1, <2>1, DepthIs
  <2> QED
    BY <1>1, <1>5, <2>2, CallerKept
<1>7. OthersOK(array', stack, p)
  <2> SUFFICES ASSUME NEW q \in Leaves, NEW j \in 1..Len(stack[q]), ~(q = p /\ j = Len(stack[p]))
               PROVE  FrameOK(array', stack[q], j)
    BY DEF OthersOK
  <2>1. \A c \in Caches : c # Last(stack[p]).at =>
           \/ array'[c] = array[c]
           \/ c = Last(stack[p]).from /\ Len(stack[p]) > 1 /\ Gentle(array, array', c)
    BY <1>2, <1>5
  <2>2. Last(stack[p]).pc \notin {"tcc", "bcc"} /\ Last(stack[p]).op \notin Invs
    BY <1>2
  <2>3. Threads(stack, bcc, tcc) /\ Calling(array, stack) /\ stack[p] # <<>>
    BY <1>2
  <2> QED
    BY ONLY <2>1, <2>2, <2>3, OthersOfAccess, p \in Leaves, q \in Leaves, j \in 1..Len(stack[q]),
            ~(q = p /\ j = Len(stack[p]))
<1> QED
  BY <1>3, <1>4, <1>5, <1>6, <1>7 DEF n, h

\* An access found its line, or has got it from memory, and goes on to grant it.
LEMMA RaisesKeeps ==
    ASSUME IInv, NEW p \in Leaves, Busy(p), Top(p).pc = "access", NEW y \in States, y # "I",
           array' = [array EXCEPT ![Top(p).at][Top(p).way] = [@ EXCEPT !.st = y]],
           Within(array[Top(p).at][Top(p).way].st, y),
           Top(p).at # Root => Like(array[Top(p).at][Top(p).way].st, y),
           Top(p).op \in {"GETX", "PUTX"} => y = "M",
           Goes(p, [Top(p) EXCEPT !.pc = "grant"]),
           failed' = FALSE, UNCHANGED <<filter, tcc, bcc, dirty>>
    PROVE  IInv'
<1> DEFINE f == Top(p)
           n == Len(stack[p])
           h == stack[p][n - 1]
           e == [array[f.at][f.way] EXCEPT !.st = y]
           g == [f EXCEPT !.pc = "grant"]
<1>1. /\ n \in Nat \ {0} /\ f \in Frames /\ f.at \in Caches /\ Placed(f) /\ f.line \in Lines
      /\ Own(array, f, f.pc \notin {"tcc", "bcc"})
      /\ bcc[f.at] = p
      /\ f.op \notin Invs /\ f.at \notin Leaves => tcc[f.at] = p
  BY InCall
<1>2. /\ f.way \in Ways[f.at] /\ f.op \notin Invs /\ array[f.at][f.way].tag = f.line /\ ~f.wb
      /\ f.op \in Gets \cup Puts
  <2>1. f.op \notin Invs
    BY <1>1 DEF Placed
  <2> QED
    BY <1>1, <2>1 DEF Own, Chosen, Entry, Frames
<1>3. array' = [array EXCEPT ![f.at][f.way] = e] /\ Typed(array) /\ Tags(array) /\ Included(array)
      /\ Directories(array, stack)
  BY <1>1, <1>2 DEF IInv, Data, Typed
<1>4. e \in Entries(f.at) /\ e.tag = f.line /\ e.st = y
  <2>1. array[f.at][f.way] \in Entries(f.at)
    BY <1>1, <1>2, <1>3, EntryType
  <2> QED
    BY <1>2, <2>1 DEF Entries
<1>5. /\ g \in Frames /\ g.at = f.at /\ g.pc = "grant" /\ g.op = f.op /\ g.line = f.line /\ g.wb = f.wb
      /\ g.from = f.from /\ g.init = f.init /\ g.way = f.way
  BY <1>1 DEF Frames
<1>6. stack' = [stack EXCEPT ![p] = Append(Front(@), g)]
  BY DEF Goes
<1>e. array' = [array EXCEPT ![f.at][f.way] = e] /\ e = [array[f.at][f.way] EXCEPT !.st = y]
  BY <1>3
<1> HIDE DEF f, n, h, e, g
<1>7. /\ Changed(array, array', f.at, f.way, e)
      /\ array'[f.at][f.way] = e
      /\ OthersOK(array', stack, p)
      /\ n > 1 => Caller(array', h, f)
  BY <1>1, <1>2, <1>4, <1>e, AtWork DEF f, n, h
<1>8. Continues(f, g)
  BY <1>1, <1>2, <1>5 DEF Continues, Placed, Invs
<1>9. Own(array', g, g.pc \notin {"tcc", "bcc"})
  <2>1. Chosen(array', g)
    BY <1>2, <1>4, <1>5, <1>7 DEF Chosen, Entry
  <2> QED
    BY <1>2, <1>4, <1>5, <1>7, <2>1 DEF Own, Entry, f
<1>10. n > 1 => Caller(array', h, g)
  BY <1>2, <1>5, <1>7 DEF Caller, Knows, f
<1>11. LocksGo(p, g, bcc, tcc, bcc', tcc')
  BY <1>1, <1>2, <1>5 DEF LocksGo
<1>12. Threads(stack', bcc', tcc') /\ Calling(array', stack') /\ KeepsOwed(stack, stack')
  <2>1. Top(p).pc # "grant" /\ Continues(Top(p), g)
    BY <1>8 DEF f
  <2> QED
    BY <1>5, <1>6, <1>7, <1>9, <1>10, <1>11, <2>1, WentOn DEF n, h
<1>13. Typed(array') /\ Tags(array') /\ Included(array') /\ Directories(array', stack')
  <2>1. array[f.at][f.way].tag # None
    BY <1>1, <1>2, CoherenceAssumption
  <2>2. Changed(array, array', f.at, f.way, [array[f.at][f.way] EXCEPT !.st = y])
    BY <1>7, <1>e
  <2>3. Within(array[f.at][f.way].st, y) /\ (f.at # Root => Like(array[f.at][f.way].st, y))
    BY DEF f
  <2> QED
    BY <1>1, <1>2, <1>3, <1>12, <2>1, <2>2, <2>3, RaiseKeeps
<1>14. Kinds'
  BY DEF IInv, Kinds
<1> QED
  BY <1>12, <1>13, <1>14 DEF IInv, Data

\* A hit keeps the invariant.
LEMMA HitKeeps ==
    ASSUME IInv, NEW p \in Leaves, Hit(p)
    PROVE  IInv'
<1> DEFINE f == Top(p)
           e == array[f.at][f.way]
           n == Len(stack[p])
           h == stack[p][n - 1]
           y == IF f.op \in {"GETX", "PUTX"} THEN "M" ELSE e.st
<1>1. /\ Busy(p) /\ f.pc = "access" /\ ~Misses(f, e)
      /\ failed' = ~PutAsserts(f, e)
      /\ array' = [array EXCEPT ![f.at][f.way] =
                      [e EXCEPT !.st = IF f.op \in {"GETX", "PUTX"} THEN "M" ELSE @]]
      /\ Goes(p, [f EXCEPT !.pc = "grant"])
      /\ UNCHANGED <<filter, tcc, bcc, dirty>>
  BY DEF Hit, At, SetEntry
<1>2. /\ n \in Nat \ {0} /\ f \in Frames /\ f.at \in Caches /\ Placed(f) /\ f.line \in Lines
      /\ n = 1 => f.op \in Gets
      /\ n > 1 => Linked(h, f) /\ h.at \in Caches /\ Caller(array, h, f)
      /\ Own(array, f, f.pc \notin {"tcc", "bcc"})
  BY <1>1, InCall
<1>3. f.way \in Ways[f.at] /\ f.op \in Gets \cup Puts /\ e.tag = f.line
  <2>1. f.op \notin Invs
    BY <1>1, <1>2 DEF Placed
  <2> QED
    BY <1>1, <1>2, <2>1 DEF Own, Chosen, Entry, Frames
<1>4. e \in Entries(f.at) /\ e.st \in States /\ StateOf(array, f.at, f.line) = e.st
  <2>1. f.line # None
    BY <1>2, CoherenceAssumption
  <2> QED
    BY <1>2, <1>3, <2>1, EntryType, StateIs DEF IInv, Data
<1>5. f.op \in Puts => /\ f.op = "PUTS" => e.st # "I"
                       /\ f.op = "PUTX" => e.st \in {"E", "M"}
  <2> HAVE f.op \in Puts
  <2>1. n > 1
    <3>1. n # 1
      BY <1>2 DEF Gets, Puts
    <3>2. n \in Nat \ {0}
      BY <1>2
    <3> HIDE DEF n
    <3> QED
      BY <3>1, <3>2
  <2>2. h.at # Root /\ f.at = Parent[h.at] /\ f.op \notin Invs
    BY <1>2, <2>1 DEF Linked, Gets, Puts, Invs
  <2>3. Knows(f, StateOf(array, h.at, f.line))
    BY <1>2, <2>1, <2>2 DEF Caller
  <2>4. /\ StateOf(array, h.at, f.line) # "I" => e.st # "I"
        /\ StateOf(array, h.at, f.line) \in {"E", "M"} => e.st \in {"E", "M"}
    <3>1. Included(array) /\ h.at \in Caches \ {Root} /\ f.line \in Lines
      BY <1>2, <2>1, <2>2 DEF IInv, Data
    <3>2. StateOf(array, Parent[h.at], f.line) = e.st
      BY <1>4, <2>2
    <3> HIDE DEF e, f, h
    <3> QED
      BY <3>1, <3>2 DEF Included
  <2> HIDE DEF e, f, h
  <2> QED
    BY <1>1, <2>3, <2>4 DEF Knows
<1>6. failed' = FALSE
  <2> HIDE DEF e, f
  <2> QED
    BY <1>1, <1>5 DEF PutAsserts, Puts
<1>7. y \in States /\ y # "I" /\ Like(e.st, y) /\ Within(e.st, y)
      /\ (f.op \in {"GETX", "PUTX"} => y = "M")
  <2> HIDE DEF e, f
  <2>1. e.st # "I" /\ (f.op \in {"GETX", "PUTX"} => e.st \in {"E", "M"})
    BY <1>1, <1>3, <1>4, <1>5 DEF Misses, Gets, Puts, States
  <2> QED
    BY <1>4, <2>1 DEF Like, Within, States
<1>8. array' = [array EXCEPT ![f.at][f.way] = [@ EXCEPT !.st = y]]
  <2>1. array' = [array EXCEPT ![f.at][f.way] = [e EXCEPT !.st = y]]
    BY <1>1
  <2> HIDE DEF y
  <2> QED
    BY <2>1
<1> HIDE DEF y
<1> QED
  BY <1>1, <1>6, <1>7, <1>8, RaisesKeeps

\* A miss to memory keeps the invariant.
LEMMA MissToMemoryKeeps ==
    ASSUME IInv, NEW p \in Leaves, MissToMemory(p)
    PROVE  IInv'
<1> DEFINE f == Top(p)
           e == array[f.at][f.way]
           y == IF f.op = "GETS" THEN "E" ELSE "M"
<1>1. /\ Busy(p) /\ f.pc = "access" /\ Misses(f, e) /\ f.at = Root
      /\ array' = [array EXCEPT ![f.at][f.way] = [e EXCEPT !.st = y]]
      /\ Goes(p, [f EXCEPT !.pc = "grant"])
      /\ UNCHANGED <<filter, tcc, bcc, dirty, failed>>
  BY DEF MissToMemory, At, SetEntry
<1>2. y \in States /\ y # "I" /\ Within(e.st, y) /\ (f.op \in {"GETX", "PUTX"} => y = "M")
  BY <1>1 DEF Misses, Gets, States, Within
<1>3. array' = [array EXCEPT ![f.at][f.way] = [@ EXCEPT !.st = y]]
  BY <1>1
<1> HIDE DEF y
<1>4. failed' = FALSE
  BY <1>1 DEF IInv
<1> QED
  BY <1>1, <1>2, <1>3, <1>4, RaisesKeeps

\* Of the children of the cache where a thread's innermost call holds its lock,
\* only the one it works for may be owed write permission.
LEMMA TopOwed ==
    ASSUME NEW k, NEW b, NEW t, Threads(k, b, t), NEW p \in Leaves, k[p] # <<>>,
           Last(k[p]).pc \notin {"tcc", "bcc"}, NEW w, NEW d, Owed(k, Last(k[p]).at, w, d)
    PROVE  LET f == Last(k[p])
           IN  f.way = w /\ f.from = d /\ f.op = "GETX" /\ f.pc = "grant"
<1> DEFINE n == Len(k[p])
<1>1. n \in 1..Len(k[p]) /\ HoldsBcc(k[p], n) /\ Last(k[p]) = k[p][n]
  BY TopIs
<1>2. PICK q \in Leaves : \E j \in 1..Len(k[q]) : Asks(k[q], j, Last(k[p]).at, w, d)
  BY DEF Owed
<1>3. PICK j \in 1..Len(k[q]) : Asks(k[q], j, Last(k[p]).at, w, d)
  BY <1>2
<1> HIDE DEF n
<1>4. q = p /\ j = n
  BY <1>1, <1>3, OneHolder DEF Asks
<1> QED
  BY <1>1, <1>3, <1>4 DEF Asks

\* The victim's way takes the new line.
LEMMA InsertsKeeps ==
    ASSUME IInv, NEW p \in Leaves, Busy(p), Top(p).pc \in {"evict", "evicted"},
           Inserts(p, Top(p), array[Top(p).at][Top(p).way]),
           array[Top(p).at][Top(p).way].sharers = {},
           Top(p).at = Root \/ array[Top(p).at][Top(p).way].st = "I",
           failed' = FALSE, Kinds', UNCHANGED <<tcc, bcc>>
    PROVE  IInv'
<1> DEFINE f == Top(p)
           n == Len(stack[p])
           h == stack[p][n - 1]
           e == [array[f.at][f.way] EXCEPT !.tag = f.line, !.st = "I"]
           g == [f EXCEPT !.pc = "access", !.wb = FALSE]
<1>1. /\ n \in Nat \ {0} /\ f \in Frames /\ f.at \in Caches /\ Placed(f) /\ f.line \in Lines
      /\ Own(array, f, f.pc \notin {"tcc", "bcc"})
      /\ bcc[f.at] = p /\ f = stack[p][n] /\ HoldsBcc(stack[p], n)
      /\ f.op \notin Invs /\ f.at \notin Leaves => tcc[f.at] = p
  BY InCall
<1>2. /\ f.way \in Ways[f.at] /\ f.op \notin Invs /\ f.op \in Gets
      /\ WaysFor(array, f.at, f.line) = {}
  <2>1. f.op \in Gets
    BY <1>1 DEF Placed, Frames, Gets, Puts, Invs
  <2> QED
    BY <1>1, <2>1 DEF Own, Chosen, Gets, Invs
<1>3. /\ array' = [array EXCEPT ![f.at][f.way] = e]
      /\ stack' = [stack EXCEPT ![p] = Append(Front(@), g)]
  BY DEF Inserts, SetEntry, Goes
<1>4. /\ e \in Entries(f.at) /\ e.tag = f.line
      /\ Typed(array) /\ Tags(array) /\ Included(array) /\ Directories(array, stack)
  <2>1. Typed(array) /\ Tags(array) /\ Included(array) /\ Directories(array, stack)
    BY DEF IInv, Data
  <2>2. array[f.at][f.way] \in Entries(f.at)
    BY <1>1, <1>2, <2>1, EntryType
  <2> QED
    BY <1>1, <2>1, <2>2 DEF Entries, States
<1>5. /\ g \in Frames /\ g.at = f.at /\ g.pc = "access" /\ g.op = f.op /\ g.line = f.line /\ ~g.wb
      /\ g.from = f.from /\ g.init = f.init /\ g.way = f.way
  BY <1>1 DEF Frames
<1>e. e = [array[f.at][f.way] EXCEPT !.tag = f.line, !.st = "I"]
  OBVIOUS
<1> HIDE DEF f, n, h, e, g
<1>6. /\ Changed(array, array', f.at, f.way, e)
      /\ array'[f.at][f.way] = e
      /\ OthersOK(array', stack, p)
      /\ n > 1 => Caller(array', h, f)
  <2>1. /\ Top(p).pc \notin {"tcc", "bcc"} /\ Top(p).op \notin Invs /\ Top(p).way \in Ways[Top(p).at]
        /\ e \in Entries(Top(p).at) /\ array' = [array EXCEPT ![Top(p).at][Top(p).way] = e]
    BY <1>2, <1>3, <1>4 DEF f
  <2> QED
    BY <2>1, AtWork DEF f, n, h
<1>7. Continues(f, g)
  BY <1>1, <1>2, <1>5 DEF Continues, Placed, Gets, Puts, Invs
<1>8. Own(array', g, g.pc \notin {"tcc", "bcc"})
  <2>1. Chosen(array', g)
    BY <1>2, <1>4, <1>5, <1>6 DEF Chosen, Entry
  <2> QED
    BY <1>5, <2>1 DEF Own
<1>9. n > 1 => Caller(array', h, g)
  <2>1. f.pc \in {"evict", "evicted"}
    BY DEF f
  <2> QED
    BY <1>2, <1>5, <1>6, <2>1 DEF Caller, Knows, Gets, Puts
<1>10. LocksGo(p, g, bcc, tcc, bcc', tcc')
  BY <1>1, <1>2, <1>5 DEF LocksGo
<1>11. Threads(stack', bcc', tcc') /\ Calling(array', stack') /\ KeepsOwed(stack, stack')
  <2>1. Top(p).pc # "grant" /\ Continues(Top(p), g)
    BY <1>7 DEF f
  <2> QED
    BY <1>3, <1>5, <1>6, <1>8, <1>9, <1>10, <2>1, WentOn DEF n, h
<1>12. \A d \in Children(f.at) : ~Owed(stack, f.at, f.way, d)
  <2> SUFFICES ASSUME NEW d \in Children(f.at), Owed(stack, f.at, f.way, d) PROVE FALSE
    OBVIOUS
  <2>1. Threads(stack, bcc, tcc) /\ Last(stack[p]) = f /\ stack[p] # <<>>
    BY DEF IInv, Top, Busy, f
  <2>2. f.pc \in {"evict", "evicted"}
    BY DEF f
  <2> QED
    BY <2>1, <2>2, TopOwed
<1>13. Typed(array') /\ Tags(array') /\ Included(array') /\ Directories(array', stack')
  <2>1. Changed(array, array', f.at, f.way, [array[f.at][f.way] EXCEPT !.tag = f.line, !.st = "I"])
    BY <1>6, <1>e
  <2>2. array[f.at][f.way].sharers = {} /\ (f.at = Root \/ array[f.at][f.way].st = "I")
    BY DEF f
  <2> QED
    BY <1>1, <1>2, <1>4, <1>11, <1>12, <2>1, <2>2, InsertKeeps
<1> QED
  BY <1>11, <1>13 DEF IInv, Data

\* Inserting the line once the victim is written back keeps the invariant.
LEMMA EvictedKeeps ==
    ASSUME IInv, NEW p \in Leaves, Evicted(p)
    PROVE  IInv'
<1> DEFINE f == Top(p)
           e == array[f.at][f.way]
<1>1. /\ Busy(p) /\ f.pc = "evicted" /\ failed' = (e.st # "I") /\ Inserts(p, f, e)
      /\ UNCHANGED <<filter, tcc, bcc, dirty>>
  BY DEF Evicted, At
<1>2. Own(array, f, f.pc \notin {"tcc", "bcc"})
  BY <1>1, InCall
<1>3. e.st = "I" /\ e.sharers = {}
  BY <1>1, <1>2 DEF Own, Chosen, Entry
<1>4. Kinds'
  BY <1>1 DEF IInv, Kinds
<1> HIDE DEF e
<1>5. failed' = FALSE
  BY <1>1, <1>3
<1> QED
  BY <1>1, <1>3, <1>4, <1>5, InsertsKeeps DEF e

\* Evicting the victim, with or without a writeback, keeps the invariant.
LEMMA EvictLineKeeps ==
    ASSUME IInv, NEW p \in Leaves, EvictLine(p)
    PROVE  IInv'
<1> DEFINE f == Top(p)
           n == Len(stack[p])
           h == stack[p][n - 1]
           e == array[f.at][f.way]
           s == VictimState(f, e)
           r == [f EXCEPT !.pc = "evicted", !.wb = FALSE]
           g == Call(Parent[f.at], IF s = "M" THEN "PUTX" ELSE "PUTS", e.tag, f.at, s)
           u == [e EXCEPT !.st = s]
<1>1. /\ Busy(p) /\ f.pc = "evict" /\ e.sharers = {}
      /\ failed' = (f.wb /\ e.st \notin {"M", "E"})
      /\ \/ /\ f.at = Root \/ s = "I"
            /\ Inserts(p, f, e)
            /\ dirty' = IF s = "M" THEN [dirty EXCEPT ![e.tag] = FALSE] ELSE dirty
            /\ UNCHANGED bcc
         \/ /\ f.at # Root /\ s # "I"
            /\ array' = [array EXCEPT ![f.at][f.way] = u]
            /\ stack' = [stack EXCEPT ![p] = Append(Append(Front(@), r), g)]
            /\ bcc' = [bcc EXCEPT ![f.at] = None]
            /\ UNCHANGED dirty
      /\ UNCHANGED <<filter, tcc>>
  BY DEF EvictLine, At, SetEntry, Calls
<1>2. /\ n \in Nat \ {0} /\ f \in Frames /\ f.at \in Caches /\ Placed(f) /\ f.line \in Lines
      /\ Own(array, f, f.pc \notin {"tcc", "bcc"})
      /\ bcc[f.at] = p
      /\ f.op \notin Invs /\ f.at \notin Leaves => tcc[f.at] = p
  BY <1>1, InCall
<1>3. /\ f.way \in Ways[f.at] /\ f.op \notin Invs /\ f.op \in Gets
      /\ WaysFor(array, f.at, f.line) = {}
      /\ f.wb => e.tag # None /\ e.st \in {"E", "M"}
  <2>1. f.op \in Gets
    BY <1>1, <1>2 DEF Placed, Frames, Gets, Puts, Invs
  <2> QED
    BY <1>1, <1>2, <2>1 DEF Own, Chosen, Entry, Gets, Invs
<1>4. failed' = FALSE
  <2> HIDE DEF e
  <2> QED
    BY <1>1, <1>3
<1>5. e \in Entries(f.at) /\ e.st \in States /\ e.tag \in Lines \cup {None}
  BY <1>2, <1>3, EntryType DEF IInv, Data
<1>6. CASE f.at = Root \/ s = "I"
  <2>1. Inserts(p, f, e) /\ UNCHANGED <<tcc, bcc>>
    BY <1>1, <1>6
  <2>2. f.at = Root \/ e.st = "I"
    BY <1>6 DEF VictimState
  <2>3. Kinds'
    BY <1>1, <1>6 DEF IInv, Kinds
  <2>4. f.pc \in {"evict", "evicted"} /\ e.sharers = {}
    BY <1>1
  <2> QED
    BY <1>1, <1>4, <2>1, <2>2, <2>3, <2>4, InsertsKeeps
<1>7. CASE ~(f.at = Root \/ s = "I")
  <2>1. /\ f.at # Root /\ s # "I"
        /\ array' = [array EXCEPT ![f.at][f.way] = u]
        /\ stack' = [stack EXCEPT ![p] = Append(Append(Front(@), r), g)]
        /\ bcc' = [bcc EXCEPT ![f.at] = None]
        /\ UNCHANGED <<dirty, filter, tcc>>
    BY <1>1, <1>7
  <2>2. e.tag \in Lines
    <3>1. ~f.wb => s = e.st
      BY DEF VictimState
    <3>2. e.tag # None
      BY <1>2, <1>3, <2>1, <3>1 DEF IInv, Data, Tags
    <3> QED
      BY <1>5, <3>2
  <2>3. s \in States /\ Like(e.st, s) /\ Within(e.st, s)
    <3> HIDE DEF e
    <3> QED
      BY <1>3, <1>5 DEF VictimState, States, Like, Within
  <2>4. Parent[f.at] \in Caches \ Leaves
    BY <1>2, <2>1, CoherenceAssumption
  <2>5. /\ r \in Frames /\ r.at = f.at /\ r.pc = "evicted" /\ r.op = f.op /\ r.line = f.line /\ ~r.wb
        /\ r.from = f.from /\ r.init = f.init /\ r.way = f.way
    BY <1>2 DEF Frames
  <2>6. /\ g.at = Parent[f.at] /\ g.op = (IF s = "M" THEN "PUTX" ELSE "PUTS") /\ g.line = e.tag
        /\ g.from = f.at /\ g.init = s /\ g.pc = "tcc" /\ ~g.wb
    BY <2>4 DEF Call, Invs
  <2>7. g \in Frames
    BY <1>2, <2>2, <2>3, <2>4 DEF Call, Frames, Puts
  <2>8. u \in Entries(f.at) /\ u.tag = e.tag /\ u.st = s /\ u.sharers = {}
    BY <1>1, <1>5, <2>3 DEF Entries
  <2>e. u = [array[f.at][f.way] EXCEPT !.st = s] /\ e = array[f.at][f.way]
    OBVIOUS
  <2>f. f.pc = "evict"
    BY <1>1
  <2> HIDE DEF f, n, h, e, s, r, g, u
  <2>9. /\ Changed(array, array', f.at, f.way, u) /\ Typed(array')
        /\ array'[f.at][f.way] = u
        /\ \A v \in Ways[f.at] : v # f.way => array'[f.at][v] = array[f.at][v]
        /\ OthersOK(array', stack, p)
        /\ n > 1 => Caller(array', h, f)
    <3>1. /\ Top(p).pc \notin {"tcc", "bcc"} /\ Top(p).op \notin Invs /\ Top(p).way \in Ways[Top(p).at]
          /\ u \in Entries(Top(p).at) /\ array' = [array EXCEPT ![Top(p).at][Top(p).way] = u]
      BY <1>3, <2>1, <2>8, <2>f DEF f
    <3> QED
      BY <1>1, <3>1, AtWork DEF f, n, h
  <2>10. Continues(f, r) /\ Makes(r, g) /\ (g.op \in Invs) = FALSE
    <3>1. Placed(r) /\ Placed(g)
      BY <1>2, <1>3, <2>4, <2>5, <2>6 DEF Placed, Gets, Puts, Invs
    <3>2. Linked(r, g)
      BY <1>3, <2>1, <2>5, <2>6 DEF Linked, Puts
    <3> QED
      BY <2>5, <2>6, <3>1, <3>2 DEF Continues, Makes, Invs
  <2>11. WaysFor(array', f.at, f.line) = {}
    <3>1. \A v \in Ways[f.at] : array'[f.at][v].tag = array[f.at][v].tag
      BY <2>8, <2>9, <2>e
    <3> QED
      BY <1>3, <3>1 DEF WaysFor
  <2>12. Own(array', r, FALSE)
    <3>1. Chosen(array', r)
      BY <1>2, <1>3, <2>2, <2>5, <2>8, <2>9, <2>11, CoherenceAssumption DEF Chosen, Entry
    <3> QED
      BY <2>5, <3>1 DEF Own
  <2>13. Own(array', g, FALSE)
    BY <2>6 DEF Own
  <2>14. Typed(array) /\ Tags(array) /\ Included(array) /\ Directories(array, stack)
    BY DEF IInv, Data
  <2>15. Caller(array', r, g)
    <3>1. StateOf(array', f.at, e.tag) = s
      <4>1. u \in Entries(f.at) /\ u.tag = array[f.at][f.way].tag
        BY <2>8, <2>e
      <4> QED
        BY <1>2, <1>3, <2>2, <2>8, <2>9, <2>14, <4>1, Restated
    <3>2. Knows(g, s)
      BY <2>1, <2>3, <2>6 DEF Knows, States, Puts
    <3> QED
      BY <2>5, <2>6, <2>8, <2>9, <2>10, <3>1, <3>2 DEF Caller, Entry, Puts, Invs
  <2>16. n > 1 => Caller(array', h, r)
    BY <1>3, <2>5, <2>9, <2>f DEF Caller, Knows, Gets, Puts, Invs
  <2>17. LocksCall(p, r, g, bcc, tcc, bcc', tcc')
    BY <1>2, <1>3, <2>1, <2>5, <2>10, CoherenceAssumption DEF LocksCall, IInv, Kinds
  <2>18. Threads(stack', bcc', tcc') /\ Calling(array', stack') /\ KeepsOwed(stack, stack')
    <3>1. Top(p).pc \notin {"tcc", "bcc"} /\ Top(p).pc # "grant" /\ Continues(Top(p), r)
      BY <2>10, <2>f DEF f
    <3>2. Own(array', r, g.op \in Invs)
      BY <2>10, <2>12
    <3> QED
      BY <1>1, <2>1, <2>5, <2>7, <2>9, <2>10, <2>13, <2>15, <2>16, <2>17, <3>1, <3>2, WasCalled DEF n, h
  <2>19. Typed(array') /\ Tags(array') /\ Included(array') /\ Directories(array', stack')
    <3>1. Changed(array, array', f.at, f.way, [array[f.at][f.way] EXCEPT !.st = s])
      BY <2>9, <2>e
    <3>2. Within(array[f.at][f.way].st, s) /\ Like(array[f.at][f.way].st, s)
          /\ array[f.at][f.way].tag # None
      BY <2>2, <2>3, <2>e, CoherenceAssumption
    <3> QED
      BY <1>2, <1>3, <2>1, <2>3, <2>14, <2>18, <3>1, <3>2, RaiseKeeps
  <2>20. Kinds'
    BY <1>2, <2>1 DEF IInv, Kinds
  <2> QED
    BY <1>4, <2>18, <2>19, <2>20 DEF IInv, Data
<1> QED
  BY <1>6, <1>7

\* An exclusive entry has one sharer.
LEMMA ExclusiveIs ==
    ASSUME NEW e, e.excl => \A d1, d2 \in e.sharers : d1 = d2
    PROVE  Exclusive(e) <=> e.excl /\ \E d : e.sharers = {d}
<1>1. ASSUME Exclusive(e)
      PROVE  e.excl /\ \E d : e.sharers = {d}
  <2>1. e.excl /\ Cardinality(e.sharers) = 1
    BY <1>1 DEF Exclusive
  <2>2. e.sharers # {}
    BY <2>1, FS_EmptySet
  <2>3. PICK d : d \in e.sharers
    BY <2>2
  <2>4. e.sharers = {d}
    BY <2>1, <2>3
  <2> QED
    BY <2>1, <2>4
<1>2. ASSUME e.excl, NEW d, e.sharers = {d}
      PROVE  Exclusive(e)
  <2>1. Cardinality({d}) = 1
    BY FS_Singleton
  <2> QED
    BY <1>2, <2>1 DEF Exclusive
<1> QED
  BY <1>1, <1>2

\* A call above an L1 works for one of its cache's children.
LEMMA WorksFor ==
    ASSUME IInv, NEW p \in Leaves, Busy(p), Top(p).pc = "grant"
    PROVE  LET f == Top(p)
               n == Len(stack[p])
               h == stack[p][n - 1]
               e == array[f.at][f.way]
               x == StateOf(array, f.from, f.line)
           IN  /\ f.op \in Gets \cup Puts /\ f.way \in Ways[f.at] /\ e \in Entries(f.at)
               /\ e.tag = f.line /\ e.tag # None /\ Sound(e)
               /\ f.op = "GETS" => e.st # "I"
               /\ f.op = "GETX" => e.st = "M"
               /\ f.wb => e.st \in {"E", "M"}
               /\ f.at \in Leaves => n = 1 /\ Children(f.at) = {}
               /\ f.at \notin Leaves =>
                    /\ n > 1 /\ h.at \in Caches /\ f.from = h.at /\ f.from \in Children(f.at)
                    /\ Linked(h, f) /\ Caller(array, h, f) /\ h.at # f.at
                    /\ Shows(e, f.from, x, Owed(stack, f.at, f.way, f.from))
                    /\ Finds(f, x)
<1> DEFINE f == Top(p)
           n == Len(stack[p])
           h == stack[p][n - 1]
           e == array[f.at][f.way]
           x == StateOf(array, f.from, f.line)
<1>1. /\ n \in Nat \ {0} /\ f \in Frames /\ f.at \in Caches /\ Placed(f) /\ f.line \in Lines
      /\ n = 1 => f.op \in Gets /\ f.at = p
      /\ n > 1 => Linked(h, f) /\ h \in Frames /\ h.at \in Caches /\ Caller(array, h, f)
      /\ Own(array, f, f.pc \notin {"tcc", "bcc"})
  BY InCall
<1>2. /\ f.op \notin Invs /\ f.op \in Gets \cup Puts /\ f.way \in Ways[f.at] /\ e.tag = f.line
      /\ f.op = "GETS" => e.st # "I"
      /\ f.op = "GETX" => e.st = "M"
      /\ f.wb => e.st \in {"E", "M"}
  <2>1. f.op \notin Invs
    BY <1>1 DEF Placed
  <2> QED
    BY <1>1, <2>1 DEF Own, Chosen, Entry, Frames
<1>3. e \in Entries(f.at) /\ e.tag # None /\ Sound(e) /\ Directories(array, stack)
  <2>1. Typed(array) /\ Tags(array) /\ Directories(array, stack)
    BY DEF IInv, Data
  <2>2. e \in Entries(f.at) /\ e.tag # None
    BY <1>1, <1>2, <2>1, EntryType, CoherenceAssumption
  <2>3. Sound(e)
    BY <1>1, <1>2, <2>1 DEF Tags, Sound
  <2> QED
    BY <2>1, <2>2, <2>3
<1> HIDE DEF f, n, h, e, x
<1>4. ASSUME f.at \in Leaves
      PROVE  n = 1 /\ Children(f.at) = {}
  <2>1. ~(n > 1)
    BY <1>1, <1>2, <1>4, CoherenceAssumption DEF Linked, Gets, Puts, Invs
  <2>2. Children(f.at) = {}
    BY <1>4, CoherenceAssumption DEF Children
  <2> QED
    BY <1>1, <2>1, <2>2
<1>5. ASSUME f.at \notin Leaves
      PROVE  /\ n > 1 /\ h.at \in Caches /\ f.from = h.at /\ f.from \in Children(f.at)
             /\ Linked(h, f) /\ Caller(array, h, f) /\ h.at # f.at
             /\ Shows(e, f.from, x, Owed(stack, f.at, f.way, f.from))
             /\ Finds(f, x)
  <2>1. n > 1
    BY <1>1, <1>5
  <2>2. f.from = h.at /\ h.at # Root /\ f.at = Parent[h.at]
    BY <1>1, <1>2, <2>1 DEF Linked, Gets, Puts, Invs
  <2>3. f.from \in Children(f.at) /\ h.at # f.at
    BY <1>1, <2>1, <2>2, DepthIs DEF Children
  <2>4. Listed(array, stack, f.at, f.way, f.from)
    BY <1>1, <1>2, <1>3, <2>3 DEF Directories
  <2>5. Shows(e, f.from, x, Owed(stack, f.at, f.way, f.from))
    BY <1>2, <1>3, <2>4 DEF Listed, e, x
  <2>6. Finds(f, x)
    <3>1. Knows(f, x) /\ f.pc = "grant"
      BY <1>1, <1>2, <2>1, <2>2 DEF Caller, f, x
    <3> QED
      BY <3>1 DEF Knows, Finds
  <2> QED
    BY <1>1, <2>1, <2>2, <2>3, <2>5, <2>6
<1> QED
  BY <1>2, <1>3, <1>4, <1>5 DEF f, n, h, e, x

\* No assert of processAccess in the directory fires.
LEMMA GrantIsSafe ==
    ASSUME IInv, NEW p \in Leaves, Busy(p), Top(p).pc = "grant", Top(p).at \notin Leaves
    PROVE  GrantAsserts(Top(p), array[Top(p).at][Top(p).way])
<1> DEFINE f == Top(p)
           e == array[f.at][f.way]
           x == StateOf(array, f.from, f.line)
           owed == Owed(stack, f.at, f.way, f.from)
<1>1. /\ f.op \in Gets \cup Puts /\ Sound(e)
      /\ f.op = "GETS" => e.st # "I"
      /\ f.op = "GETX" => e.st = "M"
      /\ Shows(e, f.from, x, owed) /\ Finds(f, x)
  BY WorksFor
<1>2. owed => f.op = "GETX"
  <2>1. Threads(stack, bcc, tcc) /\ Last(stack[p]) = f /\ stack[p] # <<>> /\ f.pc = "grant"
    BY DEF IInv, Top, Busy
  <2> HIDE DEF f
  <2> QED
    BY <2>1, TopOwed
<1> HIDE DEF f, e, x, owed
<1>3. Exclusive(e) <=> e.excl /\ \E d : e.sharers = {d}
  BY <1>1, ExclusiveIs DEF Sound
<1>4. CASE f.op = "PUTS"
  BY <1>1, <1>2, <1>4 DEF GrantAsserts, Shows, Finds, f, e
<1>5. CASE f.op = "PUTX"
  <2>1. e.sharers = {f.from} /\ e.excl
    BY <1>1, <1>5 DEF Shows, Finds
  <2> QED
    BY <1>3, <1>5, <2>1 DEF GrantAsserts, Puts, f, e
<1>6. CASE f.op = "GETS"
  BY <1>1, <1>6 DEF GrantAsserts, Shows, Finds, f, e
<1>7. CASE f.op = "GETX"
  <2>1. ASSUME f.from \in e.sharers, Exclusive(e) PROVE FALSE
    <3>1. e.sharers = {f.from} /\ e.excl
      BY <1>3, <2>1
    <3> QED
      BY <1>1, <1>7, <3>1 DEF Shows, Finds
  <2> QED
    BY <1>1, <1>7, <2>1 DEF GrantAsserts, f, e
<1> QED
  BY <1>1, <1>4, <1>5, <1>6, <1>7 DEF Gets, Puts

\* A child asks for write permission while its parent invalidates the others.
LEMMA StillAsks ==
    ASSUME NEW k, NEW b, NEW t, Threads(k, b, t), NEW p \in Leaves, k[p] # <<>>,
           Last(k[p]).op = "GETX", Last(k[p]).pc = "grant",
           NEW g \in Frames, g.op \in Invs
    PROVE  LET f == Last(k[p])
           IN  Owed([k EXCEPT ![p] = Append(Append(Front(@), f), g)], f.at, f.way, f.from)
<1> DEFINE s == k[p]
           f == Last(s)
           s2 == Append(Append(Front(s), f), g)
           k2 == [k EXCEPT ![p] = s2]
           n == Len(s)
<1>1. /\ n \in Nat \ {0} /\ f = s[n] /\ f \in Frames /\ s \in Seq(Frames)
  BY TopIs
<1>2. s2 \in Seq(Frames) /\ Pushed(s, s2, f, g)
  BY <1>1, CallsIs
<1>3. k2[p] = s2
  BY DEF Threads
<1> HIDE DEF s2, k2, f
<1>4. n \in 1..Len(s2) /\ s2[n] = f /\ s2[n + 1] = g
  BY <1>1, <1>2 DEF Pushed
<1>5. Asks(s2, n, f.at, f.way, f.from)
  <2>1. f.op = "GETX" /\ f.pc = "grant"
    BY DEF f
  <2>2. HoldsBcc(s2, n)
    BY <1>4, <2>1 DEF HoldsBcc
  <2> QED
    BY <1>4, <2>1, <2>2 DEF Asks
<1>6. Owed(k2, f.at, f.way, f.from)
  BY <1>3, <1>4, <1>5 DEF Owed
<1> QED
  BY <1>6 DEF k2, s2, f

\* Taking the line from a rival keeps the invariant.
LEMMA ClearRivalsKeeps ==
    ASSUME IInv, NEW p \in Leaves, ClearRivals(p)
    PROVE  IInv'
<1> DEFINE f == Top(p)
           n == Len(stack[p])
           e == array[f.at][f.way]
           op == IF f.op = "GETX" THEN "INV" ELSE "INVX"
           u == [e EXCEPT !.sharers = IF f.op = "GETX" THEN @ \ {f.from} ELSE @]
<1>1. /\ Busy(p) /\ f.pc = "grant"
      /\ failed' = ~GrantAsserts(f, e)
      /\ \E d \in Rivals(f, e) :
            stack' = [stack EXCEPT ![p] = Append(Append(Front(@), f), Call(d, op, f.line, None, "I"))]
      /\ array' = [array EXCEPT ![f.at][f.way] = u]
      /\ UNCHANGED <<filter, tcc, bcc, dirty>>
  BY DEF ClearRivals, At, SetEntry, Calls
<1>2. PICK d \in Rivals(f, e) :
         stack' = [stack EXCEPT ![p] = Append(Append(Front(@), f), Call(d, op, f.line, None, "I"))]
  BY <1>1
<1> DEFINE g == Call(d, op, f.line, None, "I")
<1>3. /\ f \in Frames /\ f.at \in Caches /\ f.line \in Lines
      /\ Own(array, f, f.pc \notin {"tcc", "bcc"})
  BY <1>1, InCall
<1>4. /\ f.op \in Gets \cup Puts /\ f.way \in Ways[f.at] /\ e \in Entries(f.at)
      /\ e.tag = f.line /\ e.tag # None /\ Sound(e)
      /\ f.at \in Leaves => Children(f.at) = {}
      /\ f.at \notin Leaves =>
            /\ f.from \in Children(f.at)
            /\ Shows(e, f.from, StateOf(array, f.from, f.line), Owed(stack, f.at, f.way, f.from))
            /\ Finds(f, StateOf(array, f.from, f.line))
  BY <1>1, WorksFor
<1>5. g.at = d /\ g.op = op /\ g.line = f.line
  BY DEF Call
<1>6. /\ f.op \in Gets /\ d \in e.sharers
      /\ f.op = "GETX" => d # f.from
      /\ f.op = "GETS" => e.excl
  <2> HIDE DEF f, e
  <2>1. CASE f.op = "GETX"
    BY <2>1 DEF Rivals, Gets
  <2>2. CASE f.op = "GETS"
    BY <2>2 DEF Rivals, Gets, Exclusive
  <2>3. CASE f.op \in Puts
    BY <2>3 DEF Rivals, Puts
  <2> QED
    BY <1>4, <2>1, <2>2, <2>3 DEF Gets
<1>7. d \in Children(f.at) /\ d \in Caches /\ f.at \notin Leaves
  <2>1. d \in Children(f.at)
    BY <1>4, <1>6 DEF Entries
  <2> QED
    BY <1>3, <2>1, ChildIs
<1>8. /\ u \in Entries(f.at) /\ u.tag = f.line /\ u.st = e.st /\ u.excl = e.excl
      /\ u.sharers = IF f.op = "GETX" THEN e.sharers \ {f.from} ELSE e.sharers
  BY <1>4 DEF Entries
<1>e. e = array[f.at][f.way] /\ u = [e EXCEPT !.sharers = IF f.op = "GETX" THEN @ \ {f.from} ELSE @]
  OBVIOUS
<1>9. failed' = FALSE
  <2>1. GrantAsserts(f, e)
    BY <1>1, <1>7, GrantIsSafe
  <2> QED
    BY <1>1, <2>1
<1> HIDE DEF f, n, e, u, g
<1>10. op \in Invs /\ g.op \in Invs /\ (g.op = "INVX" => f.op = "GETS") /\ g \in Frames
  BY <1>3, <1>5, <1>6, <1>7, CoherenceAssumption DEF Invs, Gets, g, Call, Frames, States
<1>11. Linked(f, g)
  BY <1>1, <1>5, <1>6, <1>7, <1>10 DEF Linked, Gets
<1>12. /\ Changed(array, array', f.at, f.way, u)
       /\ array'[f.at][f.way] = u
       /\ OthersOK(array', stack, p)
       /\ n > 1 => Caller(array', stack[p][n - 1], f)
  <2>1. /\ Top(p).pc \notin {"tcc", "bcc"} /\ Top(p).op \notin Invs /\ Top(p).way \in Ways[Top(p).at]
        /\ u \in Entries(Top(p).at) /\ array' = [array EXCEPT ![Top(p).at][Top(p).way] = u]
    BY <1>1, <1>4, <1>6, <1>8 DEF f, Gets, Invs
  <2> QED
    BY <1>1, <2>1, AtWork DEF f, n
<1>13. Own(array', f, TRUE)
  <2>1. (f.pc \notin {"tcc", "bcc"}) = TRUE
    BY <1>1
  <2>2. Own(array, f, TRUE)
    BY <1>3, <2>1
  <2>3. Entry(array', f) = u /\ Entry(array, f) = e
    BY <1>12 DEF Entry, e
  <2>4. Chosen(array', f)
    BY <1>1, <1>4, <1>8, <2>3 DEF Chosen
  <2> QED
    BY <1>1, <1>4, <1>8, <2>2, <2>3, <2>4 DEF Own
<1>14. Caller(array', f, g)
  <2>1. Entry(array', f) = u
    BY <1>12 DEF Entry
  <2>2. d \in u.sharers /\ f.from \notin u.sharers
    <3>1. CASE f.op = "GETX"
      BY <1>6, <1>8, <3>1
    <3>2. CASE f.op = "GETS"
      BY <1>4, <1>6, <1>7, <1>8, <3>2 DEF Shows, Finds
    <3> QED
      BY <1>6, <3>1, <3>2 DEF Gets
  <2> QED
    BY <1>5, <1>6, <1>8, <1>10, <2>1, <2>2 DEF Caller, Invs, Puts
<1>15. Threads(stack', bcc', tcc') /\ Calling(array', stack') /\ KeepsOwed(stack, stack')
  <2>1. stack' = [stack EXCEPT ![p] = Append(Append(Front(@), Top(p)), Call(d, op, f.line, None, "I"))]
    BY <1>2 DEF f
  <2>2. Linked(Top(p), Call(d, op, f.line, None, "I")) /\ Own(array', Top(p), TRUE)
        /\ Caller(array', Top(p), Call(d, op, f.line, None, "I"))
        /\ (Len(stack[p]) > 1 => Caller(array', stack[p][Len(stack[p]) - 1], Top(p)))
    BY <1>11, <1>12, <1>13, <1>14 DEF f, g, n
  <2>3. UNCHANGED <<bcc, tcc>>
    BY <1>1
  <2> HIDE DEF op
  <2> QED
    BY <1>1, <1>3, <1>7, <1>10, <1>12, <2>1, <2>2, <2>3, HasSent
<1>16. Kinds'
  BY <1>1 DEF IInv, Kinds
<1>17. Typed(array) /\ Tags(array) /\ Included(array) /\ Directories(array, stack)
  BY DEF IInv, Data
<1>18. CASE f.op = "GETX"
  <2>1. Owed(stack', f.at, f.way, f.from)
    <3>1. Threads(stack, bcc, tcc) /\ Last(stack[p]) = f /\ stack[p] # <<>>
      BY <1>1 DEF IInv, Top, Busy, f
    <3>2. stack' = [stack EXCEPT ![p] = Append(Append(Front(@), Last(stack[p])), g)]
      BY <1>2, <3>1 DEF g
    <3> QED
      BY <1>1, <1>10, <1>18, <3>1, <3>2, StillAsks
  <2>2. Changed(array, array', f.at, f.way, [array[f.at][f.way] EXCEPT !.sharers = @ \ {f.from}])
    <3>1. u = [e EXCEPT !.sharers = @ \ {f.from}]
      BY <1>18, <1>e
    <3> QED
      BY <1>12, <1>e, <3>1
  <2>3. StateOf(array, f.from, f.line) \in {"I", "S"}
    BY <1>4, <1>7, <1>18 DEF Finds
  <2>4. Typed(array') /\ Tags(array') /\ Included(array') /\ Directories(array', stack')
    BY <1>3, <1>4, <1>7, <1>15, <1>17, <1>e, <2>1, <2>2, <2>3, UnlistKeeps
  <2> QED
    BY <1>9, <1>15, <1>16, <2>4 DEF IInv, Data
<1>19. CASE f.op = "GETS"
  <2>1. u = e
    <3>1. u = [e EXCEPT !.sharers = @]
      BY <1>19, <1>e
    <3> QED
      BY <1>4, <3>1 DEF Entries
  <2>2. array' = array
    <3>1. array'[f.at] = [array[f.at] EXCEPT ![f.way] = array[f.at][f.way]]
      BY <1>12, <1>e, <2>1 DEF Changed
    <3>2. array[f.at] \in [Ways[f.at] -> Entries(f.at)]
      BY <1>3, <1>17 DEF Typed
    <3>3. array'[f.at] = array[f.at]
      BY <3>1, <3>2
    <3>4. \A c \in Caches : array'[c] = array[c]
      BY <1>12, <3>3 DEF Changed
    <3>5. array' = [c \in Caches |-> array'[c]] /\ array = [c \in Caches |-> array[c]]
      BY <1>12, <1>17 DEF Changed, Typed
    <3> QED
      BY <3>4, <3>5
  <2> QED
    BY <1>9, <1>15, <1>16, <2>2, SameArrays
<1> QED
  BY <1>6, <1>18, <1>19 DEF Gets

\* The entry that processAccess leaves in the directory.
LEMMA GrantedIs ==
    ASSUME NEW c, NEW e \in Entries(c), Sound(e), NEW f, f.from \in Children(c),
           f.op \in Gets \cup Puts, f.wb \in BOOLEAN,
           f.op = "GETS" => e.st # "I", f.op = "GETX" => e.st = "M",
           f.wb => e.st \in {"E", "M"}, e.tag # None
    PROVE  LET u == WrittenBack(f, Granted(f, e))
           IN  /\ u \in Entries(c) /\ u.tag = e.tag /\ Sound(u) /\ Like(e.st, u.st)
               /\ u.st = IF f.wb THEN "M" ELSE e.st
               /\ f.op \in Puts => u.sharers = e.sharers \ {f.from} /\ u.excl = e.excl
               /\ f.op = "GETS" => u.sharers = e.sharers \cup {f.from} /\ u.excl = GivesE(e)
               /\ f.op = "GETX" => u.sharers = {f.from} /\ u.excl = TRUE
<1> DEFINE g == Granted(f, e)
           u == WrittenBack(f, g)
<1>1. /\ g \in Entries(c) /\ g.tag = e.tag /\ g.st = e.st
      /\ f.op \in Puts => g.sharers = e.sharers \ {f.from} /\ g.excl = e.excl
      /\ f.op = "GETS" => g.sharers = e.sharers \cup {f.from} /\ g.excl = GivesE(e)
      /\ f.op = "GETX" => g.sharers = {f.from} /\ g.excl = TRUE
  <2>1. GivesE(e) \in BOOLEAN
    BY DEF GivesE
  <2>2. CASE f.op \in Puts
    BY <2>2 DEF Granted, Entries, Puts
  <2>3. CASE f.op = "GETS"
    BY <2>1, <2>3 DEF Granted, Entries, Puts
  <2>4. CASE f.op = "GETX"
    BY <2>4 DEF Granted, Entries, Puts
  <2> QED
    BY <2>2, <2>3, <2>4 DEF Gets
<1> HIDE DEF g
<1>2. /\ u \in Entries(c) /\ u.tag = g.tag /\ u.sharers = g.sharers /\ u.excl = g.excl
      /\ u.st = IF f.wb THEN "M" ELSE g.st
  BY <1>1 DEF WrittenBack, Entries, States
<1> HIDE DEF u
<1>3. Like(e.st, u.st)
  BY <1>1, <1>2 DEF Like
<1>4. Sound(u)
  <2>1. CASE f.op \in Puts
    BY <1>1, <1>2, <2>1 DEF Sound
  <2>2. CASE f.op = "GETS"
    <3>1. u.st # "I" /\ u.tag # None /\ u.sharers = e.sharers \cup {f.from} /\ u.excl = GivesE(e)
      BY <1>1, <1>2, <2>2
    <3>2. ASSUME u.excl PROVE \A d1, d2 \in u.sharers : d1 = d2
      BY <3>1, <3>2 DEF GivesE
    <3> QED
      BY <3>1, <3>2 DEF Sound
  <2>3. CASE f.op = "GETX"
    BY <1>1, <1>2, <2>3 DEF Sound
  <2> QED
    BY <2>1, <2>2, <2>3 DEF Gets
<1> QED
  BY <1>1, <1>2, <1>3, <1>4 DEF u, g

\* It tells the truth of the child the access was for, and of the others.
LEMMA GrantedShows ==
    ASSUME NEW e, Sound(e), NEW f, f.op \in Gets \cup Puts, Rivals(f, e) = {},
           NEW u,
           f.op \in Puts => u.sharers = e.sharers \ {f.from} /\ u.excl = e.excl,
           f.op = "GETS" => u.sharers = e.sharers \cup {f.from} /\ u.excl = GivesE(e),
           f.op = "GETX" => u.sharers = {f.from} /\ u.excl = TRUE
    PROVE  /\ \A owed : Shows(u, f.from, ChildState(f, e), owed)
           /\ \A x, z, owed, owed2 :
                 Shows(e, x, z, owed) /\ x # f.from /\ ~owed => Shows(u, x, z, owed2)
<1>1. Exclusive(e) <=> e.excl /\ \E d : e.sharers = {d}
  BY ExclusiveIs DEF Sound
<1>2. CASE f.op \in Puts
  <2>1. ChildState(f, e) = "I" /\ f.from \notin u.sharers
    BY <1>2 DEF ChildState
  <2>2. \A owed : Shows(u, f.from, ChildState(f, e), owed)
    BY <2>1 DEF Shows
  <2>3. ASSUME NEW x, NEW z, NEW owed, NEW owed2, Shows(e, x, z, owed), x # f.from, ~owed
        PROVE  Shows(u, x, z, owed2)
    <3>1. x \in u.sharers <=> x \in e.sharers
      BY <1>2, <2>3
    <3>2. e.sharers = {x} => u.sharers = {x}
      BY <1>2, <2>3
    <3>3. u.sharers = {x} /\ u.excl => e.sharers = {x}
      BY <1>2 DEF Sound
    <3> QED
      BY <1>2, <2>3, <3>1, <3>2, <3>3 DEF Shows
  <2> QED
    BY <2>2, <2>3
<1>3. CASE f.op = "GETS"
  <2>1. ChildState(f, e) = (IF GivesE(e) THEN "E" ELSE "S")
    BY <1>3 DEF ChildState, Puts
  <2>2. \A owed : Shows(u, f.from, ChildState(f, e), owed)
    <3>1. GivesE(e) => u.sharers = {f.from} /\ u.excl
      BY <1>3 DEF GivesE
    <3>2. ~GivesE(e) => ~u.excl
      BY <1>3
    <3>3. f.from \in u.sharers
      BY <1>3
    <3> QED
      BY <2>1, <3>1, <3>2, <3>3 DEF Shows
  <2>3. ASSUME NEW x, NEW z, NEW owed, NEW owed2, Shows(e, x, z, owed), x # f.from, ~owed
        PROVE  Shows(u, x, z, owed2)
    <3>1. x \in u.sharers <=> x \in e.sharers
      BY <1>3, <2>3
    <3>2. ~Exclusive(e) \/ e.sharers = {}
      BY <1>3 DEF Rivals
    <3>3. z \notin {"E", "M"}
      BY <1>1, <2>3, <3>2 DEF Shows
    <3>4. u.sharers # {x}
      BY <1>3, <2>3
    <3> QED
      BY <2>3, <3>1, <3>3, <3>4 DEF Shows
  <2> QED
    BY <2>2, <2>3
<1>4. CASE f.op = "GETX"
  <2>1. ChildState(f, e) = "M"
    BY <1>4 DEF ChildState, Puts
  <2>2. \A owed : Shows(u, f.from, ChildState(f, e), owed)
    BY <1>4, <2>1 DEF Shows
  <2>3. ASSUME NEW x, NEW z, NEW owed, NEW owed2, Shows(e, x, z, owed), x # f.from, ~owed
        PROVE  Shows(u, x, z, owed2)
    <3>1. x \notin e.sharers
      BY <1>4, <2>3 DEF Rivals
    <3>2. z = "I" /\ x \notin u.sharers
      BY <1>4, <2>3, <3>1 DEF Shows
    <3> QED
      BY <3>2 DEF Shows
  <2> QED
    BY <2>2, <2>3
<1> QED
  BY <1>2, <1>3, <1>4 DEF Gets

\* The child that an access is for has the line in the way its own call chose,
\* and when it writes the line back no cache below has it.
LEMMA ChildHas ==
    ASSUME IInv, NEW p \in Leaves, Busy(p), Top(p).pc = "grant", Top(p).at \notin Leaves
    PROVE  LET f == Top(p)
               h == stack[p][Len(stack[p]) - 1]
           IN  /\ h.way \in Ways[f.from] /\ array[f.from][h.way].tag = f.line
               /\ WayOf(f.from, f.line) = h.way
               /\ f.op \in Puts => /\ array[f.from][h.way].sharers = {}
                                   /\ \A x \in Children(f.from) : StateOf(array, x, f.line) = "I"
               /\ \A x \in Children(f.from) : Within(StateOf(array, x, f.line), StateOf(array, f.from, f.line))
<1> DEFINE f == Top(p)
           n == Len(stack[p])
           h == stack[p][n - 1]
<1>1. /\ n \in Nat \ {0} /\ f \in Frames /\ f.line \in Lines /\ f = stack[p][n]
  BY InCall
<1>2. /\ f.op \in Gets \cup Puts /\ n > 1 /\ h.at \in Caches /\ f.from = h.at
      /\ Linked(h, f) /\ Caller(array, h, f)
  BY WorksFor
<1>3. n - 1 \in 1..Len(stack[p])
  BY <1>1, <1>2
<1>4. Threads(stack, bcc, tcc) /\ Typed(array) /\ Tags(array) /\ Directories(array, stack)
      /\ Included(array) /\ Calling(array, stack)
  BY DEF IInv, Data
<1>5. Own(array, h, HoldsBcc(stack[p], n - 1)) /\ h.op \notin Invs
  <2>1. Own(array, h, HoldsBcc(stack[p], n - 1))
    BY <1>3, <1>4, CallIs
  <2>2. h.op \notin Invs
    BY <1>2 DEF Linked, Gets, Puts, Invs
  <2> QED
    BY <2>1, <2>2
<1>6. h.pc \in {"grant", "evicted"} /\ (f.op \in Puts => h.pc = "evicted")
      /\ (f.op \in Gets => h.pc = "grant" /\ h.line = f.line)
  BY <1>2 DEF Linked, Gets, Puts, Invs
<1>7. f.line # None
  BY <1>1, CoherenceAssumption
<1> HIDE DEF f, n, h
<1>8. Chosen(array, h)
  BY <1>5, <1>6 DEF Own
<1>9. h.way \in Ways[f.from] /\ array[f.from][h.way].tag = f.line
  <2>1. CASE f.op \in Gets
    BY <1>2, <1>6, <1>8, <2>1 DEF Chosen, Entry
  <2>2. CASE f.op \in Puts
    BY <1>2, <1>8, <2>2 DEF Caller, Chosen, Entry
  <2> QED
    BY <1>2, <2>1, <2>2
<1>10. WayOf(f.from, f.line) = h.way
  <2>1. WaysFor(array, f.from, f.line) = {h.way}
    BY <1>2, <1>4, <1>7, <1>9, StateIs
  <2>2. WaysOf(f.from, f.line) = {h.way}
    BY <2>1, HelpersAre
  <2> QED
    BY <2>2 DEF WayOf
<1>11. ASSUME NEW x \in Children(f.from)
       PROVE  /\ x \in Caches \ {Root} /\ Parent[x] = f.from
              /\ Within(StateOf(array, x, f.line), StateOf(array, f.from, f.line))
  <2>1. x \in Caches \ {Root} /\ Parent[x] = f.from
    BY DEF Children
  <2> QED
    BY <1>1, <1>4, <2>1 DEF Included, Within
<1>12. ASSUME f.op \in Puts
       PROVE  /\ array[f.from][h.way].sharers = {}
              /\ \A x \in Children(f.from) : StateOf(array, x, f.line) = "I"
  <2>1. array[f.from][h.way].sharers = {}
    BY <1>2, <1>6, <1>8, <1>12 DEF Chosen, Entry
  <2>2. ASSUME NEW x \in Children(f.from)
        PROVE  StateOf(array, x, f.line) = "I"
    <3>1. Listed(array, stack, f.from, h.way, x)
      BY <1>2, <1>4, <1>9 DEF Directories
    <3>2. ~Owed(stack, f.from, h.way, x)
      <4> SUFFICES ASSUME Owed(stack, f.from, h.way, x) PROVE FALSE
        OBVIOUS
      <4>1. PICK q \in Leaves : \E j \in 1..Len(stack[q]) : Asks(stack[q], j, f.from, h.way, x)
        BY DEF Owed
      <4>2. PICK j \in 1..Len(stack[q]) : Asks(stack[q], j, f.from, h.way, x)
        BY <4>1
      <4>3. Past(stack[q], j) /\ stack[q][j].at = f.from /\ stack[q][j].pc = "grant"
        BY <4>2 DEF Asks, Past, Invs
      <4>4. Past(stack[p], n - 1) /\ stack[p][n - 1].at = f.from /\ stack[p][n - 1].pc = "evicted"
        BY <1>2, <1>5, <1>6, <1>12 DEF Past, h
      <4>5. p = q /\ n - 1 = j
        BY <1>3, <1>4, <4>3, <4>4, OneAccess
      <4> QED
        BY <4>3, <4>4, <4>5
    <3> QED
      BY <1>7, <1>9, <2>1, <3>1, <3>2 DEF Listed, Shows
  <2> QED
    BY <2>1, <2>2
<1> QED
  BY <1>9, <1>10, <1>11, <1>12 DEF f, n, h

\* In an L1 the access has its line: nothing changes but where it is.
LEMMA LeafGrantKeeps ==
    ASSUME IInv, NEW p \in Leaves, Grant(p), Top(p).at \in Leaves
    PROVE  IInv'
<1> DEFINE f == Top(p)
           n == Len(stack[p])
           g == [f EXCEPT !.pc = "end", !.wb = FALSE]
<1>1. /\ Busy(p) /\ f.pc = "grant"
      /\ stack' = [stack EXCEPT ![p] = Append(Front(@), g)]
      /\ UNCHANGED <<array, failed, filter, tcc, bcc, dirty>>
  BY DEF Grant, At, Goes
<1>2. /\ f \in Frames /\ f.at \in Caches /\ Placed(f) /\ f.line \in Lines
      /\ Own(array, f, f.pc \notin {"tcc", "bcc"}) /\ bcc[f.at] = p
  BY <1>1, InCall
<1>3. f.op \in Gets \cup Puts /\ n = 1 /\ Children(f.at) = {}
  BY <1>1, WorksFor
<1>4. /\ g \in Frames /\ g.at = f.at /\ g.pc = "end" /\ g.op = f.op /\ g.line = f.line /\ ~g.wb
      /\ g.from = f.from /\ g.init = f.init /\ g.way = f.way
  BY <1>2 DEF Frames
<1> HIDE DEF f, n, g
<1>5. Continues(f, g)
  BY <1>1, <1>2, <1>3, <1>4 DEF Continues, Placed, Gets, Puts, Invs
<1>6. Own(array', g, g.pc \notin {"tcc", "bcc"})
  <2>1. Chosen(array', g)
    BY <1>1, <1>2, <1>4 DEF Own, Chosen, Entry
  <2> QED
    BY <1>1, <1>2, <1>4, <2>1 DEF Own, Entry
<1>7. LocksGo(p, g, bcc, tcc, bcc', tcc')
  <2>1. f.at \in Leaves
    BY DEF f
  <2> QED
    BY <1>1, <1>2, <1>4, <2>1 DEF LocksGo
<1>8. /\ Threads(stack', bcc', tcc') /\ Calling(array', stack')
      /\ \A c \in Caches : \A w \in Ways[c] : \A d \in Children(c) :
            Owed(stack, c, w, d) /\ ~(c = g.at /\ w = Top(p).way) => Owed(stack', c, w, d)
  <2>1. OthersOK(array', stack, p)
    BY <1>1, OthersStay
  <2>2. ~(Len(stack[p]) > 1)
    BY <1>3 DEF n
  <2> QED
    BY <1>1, <1>4, <1>5, <1>6, <1>7, <2>1, <2>2, WentOn DEF f
<1>9. KeepsOwed(stack, stack')
  BY <1>3, <1>4, <1>8 DEF KeepsOwed
<1>10. Kinds'
  BY <1>1 DEF IInv, Kinds
<1> QED
  BY <1>1, <1>8, <1>9, <1>10, SameArrays DEF IInv

\* While an access grants, only the child it works for asks.
LEMMA OwedHere ==
    ASSUME IInv, NEW p \in Leaves, Busy(p), Top(p).pc = "grant"
    PROVE  \A w, z : Owed(stack, Top(p).at, w, z) =>
                        Top(p).way = w /\ Top(p).from = z /\ Top(p).op = "GETX"
<1> SUFFICES ASSUME NEW w, NEW z, Owed(stack, Top(p).at, w, z)
             PROVE  Top(p).way = w /\ Top(p).from = z /\ Top(p).op = "GETX"
  OBVIOUS
<1>1. /\ Threads(stack, bcc, tcc) /\ stack[p] # <<>> /\ Owed(stack, Last(stack[p]).at, w, z)
      /\ Last(stack[p]).pc \notin {"tcc", "bcc"}
  BY DEF IInv, Top, Busy
<1>2. PICK n \in 1..Len(stack[p]) : HoldsBcc(stack[p], n) /\ Last(stack[p]) = stack[p][n]
  <2>1. Len(stack[p]) \in 1..Len(stack[p]) /\ HoldsBcc(stack[p], Len(stack[p]))
        /\ Last(stack[p]) = stack[p][Len(stack[p])]
    BY <1>1, TopIs
  <2> QED
    BY <2>1
<1>3. PICK q \in Leaves : \E j \in 1..Len(stack[q]) : Asks(stack[q], j, Top(p).at, w, z)
  BY DEF Owed
<1>4. PICK j \in 1..Len(stack[q]) : Asks(stack[q], j, Top(p).at, w, z)
  BY <1>3
<1>5. q = p /\ j = n
  BY <1>1, <1>2, <1>4, OneHolder DEF Asks, Top
<1> QED
  BY <1>2, <1>4, <1>5 DEF Top, Asks

\* Giving the child its line, or taking it back, keeps the invariant.
LEMMA GrantKeeps ==
    ASSUME IInv, NEW p \in Leaves, Grant(p), Top(p).at \notin Leaves
    PROVE  LET f == Top(p)
               e == array[f.at][f.way]
           IN  /\ IInv'
               /\ NowIn(array, array', f.at, f.from, WrittenBack(f, Granted(f, e)), ChildState(f, e))
<1> DEFINE f == Top(p)
           n == Len(stack[p])
           h == stack[p][n - 1]
           c == f.at
           d == f.from
           e == array[c][f.way]
           u == WrittenBack(f, Granted(f, e))
           y == ChildState(f, e)
           v == h.way
           g == [f EXCEPT !.pc = "end", !.wb = FALSE]
           x == StateOf(array, d, f.line)
<1>1. /\ Busy(p) /\ f.pc = "grant" /\ Rivals(f, e) = {}
      /\ stack' = [stack EXCEPT ![p] = Append(Front(@), g)]
      /\ failed' = \/ ~GrantAsserts(f, e)
                   \/ f.wb /\ e.st \notin {"E", "M"}
      /\ array' = SetChild([array EXCEPT ![c][f.way] = u], d, f.line, y)
      /\ UNCHANGED <<filter, tcc, bcc, dirty>>
  BY DEF Grant, At, Goes, SetEntry
<1>2. /\ f \in Frames /\ c \in Caches /\ Placed(f) /\ f.line \in Lines /\ f.wb \in BOOLEAN
      /\ bcc[c] = p /\ tcc[c] = p
  <2>1. /\ f \in Frames /\ c \in Caches /\ Placed(f) /\ f.line \in Lines
        /\ bcc[c] = p /\ (f.op \notin Invs => tcc[c] = p)
    BY <1>1, InCall
  <2> QED
    BY <1>1, <2>1 DEF Placed, Frames
<1>3. /\ f.op \in Gets \cup Puts /\ f.way \in Ways[c] /\ e \in Entries(c)
      /\ e.tag = f.line /\ e.tag # None /\ Sound(e)
      /\ f.op = "GETS" => e.st # "I"
      /\ f.op = "GETX" => e.st = "M"
      /\ f.wb => e.st \in {"E", "M"}
      /\ n > 1 /\ h.at \in Caches /\ d = h.at /\ d \in Children(c)
      /\ Linked(h, f) /\ Caller(array, h, f) /\ h.at # c
      /\ Shows(e, d, x, Owed(stack, c, f.way, d))
      /\ Finds(f, x)
  BY <1>1, WorksFor
<1>4. /\ v \in Ways[d] /\ array[d][v].tag = f.line
      /\ WayOf(d, f.line) = v
      /\ f.op \in Puts => /\ array[d][v].sharers = {}
                          /\ \A z \in Children(d) : StateOf(array, z, f.line) = "I"
      /\ \A z \in Children(d) : Within(StateOf(array, z, f.line), x)
  BY <1>1, ChildHas
<1>5. /\ g \in Frames /\ g.at = f.at /\ g.pc = "end" /\ g.op = f.op /\ g.line = f.line /\ ~g.wb
      /\ g.from = f.from /\ g.init = f.init /\ g.way = f.way
  BY <1>2 DEF Frames
<1>6. failed' = FALSE
  <2>1. GrantAsserts(f, e)
    BY <1>1, GrantIsSafe
  <2> QED
    BY <1>1, <1>3, <2>1
<1>7. stack[p] # <<>> /\ Last(stack[p]) = f /\ Threads(stack, bcc, tcc) /\ Calling(array, stack)
      /\ Typed(array) /\ Tags(array) /\ Included(array) /\ Directories(array, stack)
  BY <1>1 DEF IInv, Data, Top, Busy
<1>a. e = array[c][f.way] /\ x = StateOf(array, d, f.line) /\ h = stack[p][n - 1] /\ n = Len(stack[p])
      /\ g.at = c /\ f.at = c /\ f.from = d /\ v = h.way
  BY <1>5
<1>b. \A w, z : Owed(stack, f.at, w, z) => f.way = w /\ f.from = z /\ f.op = "GETX"
  BY <1>1, OwedHere
<1> HIDE DEF f, n, h, c, d, e, u, y, v, g, x
<1>8. /\ u \in Entries(c) /\ u.tag = e.tag /\ Sound(u) /\ Like(e.st, u.st)
      /\ u.st = (IF f.wb THEN "M" ELSE e.st)
      /\ f.op \in Puts => u.sharers = e.sharers \ {d} /\ u.excl = e.excl
      /\ f.op = "GETS" => u.sharers = e.sharers \cup {d} /\ u.excl = GivesE(e)
      /\ f.op = "GETX" => u.sharers = {d} /\ u.excl = TRUE
  BY <1>2, <1>3, GrantedIs DEF u, d
<1>9. /\ \A owed : Shows(u, d, y, owed)
      /\ \A z, t, owed, owed2 : Shows(e, z, t, owed) /\ z # d /\ ~owed => Shows(u, z, t, owed2)
  BY <1>1, <1>3, <1>8, GrantedShows DEF y, d
<1>10. /\ d \in Caches /\ d # c /\ d # None /\ array[d][v] \in Entries(d)
  BY <1>2, <1>3, <1>4, <1>7, ChildIs, EntryType, CoherenceAssumption
<1>11. /\ y \in States
       /\ f.op \in Puts => y = "I"
       /\ f.op = "GETS" => y \in {"S", "E"}
       /\ f.op = "GETX" => y = "M"
       /\ Within(y, u.st)
  <2>1. CASE f.op \in Puts
    BY <2>1 DEF y, ChildState, States, Within, Puts
  <2>2. CASE f.op = "GETS"
    BY <1>3, <1>8, <2>2 DEF y, ChildState, States, Within, Puts, Like, GivesE
  <2>3. CASE f.op = "GETX"
    BY <1>3, <1>8, <2>3 DEF y, ChildState, States, Within, Puts, Like
  <2> QED
    BY <1>3, <2>1, <2>2, <2>3 DEF Gets, Puts
<1>12. /\ array' = [b \in Caches |-> array'[b]]
       /\ \A b \in Caches : b \notin {c, d} => array'[b] = array[b]
       /\ array'[c] = [array[c] EXCEPT ![f.way] = u]
       /\ array'[d] = [array[d] EXCEPT ![v] = [array[d][v] EXCEPT !.st = y]]
  <2> DEFINE a1 == [array EXCEPT ![c][f.way] = u]
  <2>1. array' = [a1 EXCEPT ![d][v].st = y]
    BY <1>1, <1>4, <1>10 DEF SetChild
  <2>2. a1 = [b \in Caches |-> a1[b]] /\ a1[d] = array[d] /\ a1[c] = [array[c] EXCEPT ![f.way] = u]
        /\ \A b \in Caches : b # c => a1[b] = array[b]
    BY <1>2, <1>7, <1>10 DEF Typed
  <2> HIDE DEF a1
  <2>3. array[d] \in [Ways[d] -> Entries(d)]
    BY <1>7, <1>10 DEF Typed
  <2>4. array'[d] = [a1[d] EXCEPT ![v] = [a1[d][v] EXCEPT !.st = y]]
    BY <1>10, <2>1, <2>2
  <2>5. array' = [b \in Caches |-> array'[b]] /\ \A b \in Caches : b # d => array'[b] = a1[b]
    BY <1>10, <2>1, <2>2
  <2> QED
    BY <1>2, <1>10, <2>2, <2>4, <2>5
<1>13. /\ \A b \in Caches : b # c => array'[b] = array[b] \/ (b = d /\ Gentle(array, array', d))
       /\ array'[c][f.way] = u /\ array'[d][v] = [array[d][v] EXCEPT !.st = y]
  <2>1. array[d] \in [Ways[d] -> Entries(d)] /\ array[c] \in [Ways[c] -> Entries(c)]
    BY <1>2, <1>7, <1>10 DEF Typed
  <2>2. array'[c][f.way] = u
    BY <1>3, <1>12, <2>1
  <2>3. array'[d][v] = [array[d][v] EXCEPT !.st = y]
        /\ \A w \in Ways[d] : w # v => array'[d][w] = array[d][w]
    BY <1>4, <1>12, <2>1
  <2>4. /\ [array[d][v] EXCEPT !.st = y].tag = array[d][v].tag
        /\ [array[d][v] EXCEPT !.st = y].sharers = array[d][v].sharers
    BY <1>10 DEF Entries
  <2>5. Gentle(array, array', d)
    BY <2>3, <2>4 DEF Gentle
  <2> QED
    BY <1>12, <2>2, <2>3, <2>5
<1>14. OthersOK(array', stack, p)
  <2> SUFFICES ASSUME NEW q \in Leaves, NEW j \in 1..Len(stack[q]), ~(q = p /\ j = Len(stack[p]))
               PROVE  FrameOK(array', stack[q], j)
    BY DEF OthersOK
  <2>1. \A b \in Caches : b # Last(stack[p]).at =>
           \/ array'[b] = array[b]
           \/ b = Last(stack[p]).from /\ Len(stack[p]) > 1 /\ Gentle(array, array', b)
    BY <1>3, <1>7, <1>13, <1>a
  <2>2. Last(stack[p]).pc \notin {"tcc", "bcc"} /\ Last(stack[p]).op \notin Invs
    BY <1>1, <1>3, <1>7 DEF Gets, Puts, Invs
  <2>3. Threads(stack, bcc, tcc) /\ Calling(array, stack) /\ stack[p] # <<>>
    BY <1>7
  <2> QED
    BY ONLY <2>1, <2>2, <2>3, OthersOfAccess, p \in Leaves, q \in Leaves, j \in 1..Len(stack[q]),
            ~(q = p /\ j = Len(stack[p]))
<1>15. Continues(f, g)
  BY <1>1, <1>2, <1>3, <1>5 DEF Continues, Placed, Gets, Puts, Invs
<1>16. Own(array', g, g.pc \notin {"tcc", "bcc"})
  <2>1. Entry(array', g) = u
    BY <1>5, <1>13, <1>a DEF Entry
  <2>2. Chosen(array', g)
    BY <1>3, <1>5, <1>8, <1>a, <2>1 DEF Chosen
  <2>3. /\ f.op = "GETS" => u.st # "I"
        /\ f.op = "GETX" => u.st = "M"
    BY <1>3, <1>8
  <2> QED
    BY <1>5, <2>1, <2>2, <2>3 DEF Own
<1>17. LocksGo(p, g, bcc, tcc, bcc', tcc')
  BY <1>1, <1>2, <1>5, <1>a DEF LocksGo
<1>18. \A b \in Caches : \A w \in Ways[b] : \A z \in Children(b) :
          Owed(stack, b, w, z) /\ b = c => f.op = "GETX" /\ z = d /\ f.way = w
  BY <1>b, <1>a
<1>19. StateOf(array, d, e.tag) = x /\ e.tag \in Lines
  BY <1>2, <1>3, <1>a
\* The caches agree again, whatever the stack is, as long as others keep asking.
<1>20. ASSUME \A b \in Caches : \A w \in Ways[b] : \A z \in Children(b) :
                 Owed(stack, b, w, z) /\ ~(b = c /\ w = f.way) => Owed(stack', b, w, z)
       PROVE  /\ Typed(array') /\ Tags(array') /\ Included(array') /\ Directories(array', stack')
              /\ StateOf(array', d, f.line) = y /\ NowIn(array, array', c, d, u, y)
  <2>1. \A z \in Children(d) : Within(StateOf(array, z, e.tag), y)
    <3>1. CASE f.op \in Puts
      BY <1>3, <1>4, <1>11, <3>1 DEF Within
    <3>2. CASE f.op = "GETS"
      BY <1>3, <1>4, <3>2 DEF Within, Finds
    <3>3. CASE f.op = "GETX"
      BY <1>11, <3>3 DEF Within
    <3> QED
      BY <1>3, <3>1, <3>2, <3>3 DEF Gets
  <2>2. \A z \in Children(c) :
           Shows(u, z, IF z = d THEN y ELSE StateOf(array, z, u.tag), Owed(stack', c, f.way, z))
    <3> SUFFICES ASSUME NEW z \in Children(c), z # d
                 PROVE  Shows(u, z, StateOf(array, z, u.tag), Owed(stack', c, f.way, z))
      BY <1>9
    <3>1. Listed(array, stack, c, f.way, z)
      BY <1>2, <1>3, <1>7 DEF Directories
    <3>2. Shows(e, z, StateOf(array, z, e.tag), Owed(stack, c, f.way, z))
      BY <1>3, <1>a, <3>1 DEF Listed
    <3>3. ~Owed(stack, c, f.way, z)
      BY <1>2, <1>3, <1>18
    <3> QED
      BY <1>8, <1>9, <3>2, <3>3
  <2>3. y = "I" => array[d][v].sharers = {}
    BY <1>3, <1>4, <1>11 DEF Gets, Puts
  <2>4. /\ array[c][f.way].tag # None /\ array[d][v].tag = array[c][f.way].tag
        /\ u.tag = array[c][f.way].tag /\ Like(array[c][f.way].st, u.st)
    BY <1>3, <1>4, <1>8, <1>a
  <2>5. \A z \in Children(d) : Within(StateOf(array, z, u.tag), y)
    BY <1>8, <2>1
  <2>6. MayTrade(array, c, f.way, d, v, u, y)
    BY <1>8, <1>11, <2>3, <2>4, <2>5 DEF MayTrade
  <2>7. OthersAsk(stack, stack', c, f.way)
    BY <1>20 DEF OthersAsk
  <2>8. ShowsAll(array, stack', c, f.way, d, u, y)
    BY <2>2 DEF ShowsAll
  <2>9. Traded(array, array', c, f.way, d, v, u, y)
    BY <1>12 DEF Traded
  <2>10. /\ c \in Caches /\ f.way \in Ways[c] /\ d \in Children(c) /\ v \in Ways[d]
         /\ u \in Entries(c) /\ y \in States
         /\ Typed(array) /\ Tags(array) /\ Included(array) /\ Directories(array, stack)
    BY <1>2, <1>3, <1>4, <1>7, <1>8, <1>11
  <2>11. /\ Typed(array') /\ Tags(array') /\ Included(array') /\ Directories(array', stack')
         /\ NowIn(array, array', c, d, u, y)
    BY ONLY <2>6, <2>7, <2>8, <2>9, <2>10, ExchangeKeeps
  <2>12. f.line \in Lines /\ f.line = u.tag
    BY <1>2, <1>3, <1>8
  <2> QED
    BY <1>10, <2>11, <2>12 DEF NowIn
<1>21. ASSUME StateOf(array', d, f.line) = y
       PROVE  Caller(array', h, g)
  <2>1. Knows(g, y)
    BY <1>3, <1>5, <1>11 DEF Knows, Gets, Puts
  <2>2. f.op \in Puts => Entry(array', h).tag = f.line
    <3>1. [array[d][v] EXCEPT !.st = y].tag = f.line
      BY <1>4, <1>10 DEF Entries
    <3> QED
      BY <1>3, <1>13, <1>a, <3>1 DEF Entry
  <2> QED
    BY <1>3, <1>5, <1>21, <2>1, <2>2 DEF Caller, Gets, Puts, Invs
\* The state of the line in the child does not depend on the stack.
<1>22. StateOf(array', d, f.line) = y
  <2>1. /\ array'[d][v].tag = f.line /\ array'[d][v].st = y
        /\ \A w \in Ways[d] : array'[d][w].tag = array[d][w].tag
    BY <1>4, <1>10, <1>13 DEF Entries, Gentle
  <2>2. WaysFor(array', d, f.line) = WaysFor(array, d, f.line)
    BY <2>1 DEF WaysFor
  <2>3. WaysFor(array, d, f.line) = {v}
    BY <1>3, <1>4, <1>7, <1>10, StateIs
  <2>4. (CHOOSE w \in {v} : TRUE) = v
    OBVIOUS
  <2> QED
    BY <2>1, <2>2, <2>3, <2>4 DEF StateOf
<1>23. /\ Threads(stack', bcc', tcc') /\ Calling(array', stack')
       /\ \A b \in Caches : \A w \in Ways[b] : \A z \in Children(b) :
             Owed(stack, b, w, z) /\ ~(b = g.at /\ w = Top(p).way) => Owed(stack', b, w, z)
  <2>1. Len(stack[p]) > 1 => Caller(array', stack[p][Len(stack[p]) - 1], g)
    BY <1>21, <1>22, <1>a
  <2> QED
    BY <1>1, <1>5, <1>14, <1>15, <1>16, <1>17, <2>1, WentOn DEF f
<1>24. Typed(array') /\ Tags(array') /\ Included(array') /\ Directories(array', stack')
       /\ NowIn(array, array', c, d, u, y)
  <2>1. \A b \in Caches : \A w \in Ways[b] : \A z \in Children(b) :
           Owed(stack, b, w, z) /\ ~(b = c /\ w = f.way) => Owed(stack', b, w, z)
    BY <1>23, <1>a DEF f
  <2> QED
    BY <1>20, <2>1
<1>25. Kinds'
  BY <1>1 DEF IInv, Kinds
<1>26. IInv'
  BY <1>6, <1>23, <1>24, <1>25 DEF IInv, Data
<1> QED
  BY <1>24, <1>26 DEF f, c, d, u, y, e

-----------------------------------------------------------------------------
(* Cache::invalidate                                                       *)

\* A set of numbers has a smallest one.
LEMMA Smallest ==
    ASSUME NEW T \in SUBSET Nat, T # {}
    PROVE  \E m \in T : \A j \in T : m <= j
<1>1. PICK x \in T : \A y \in T : ~(<<y, x>> \in OpToRel(<, Nat))
  BY WFMin, NatLessThanWellFounded
<1>2. \A y \in T : x <= y
  <2> SUFFICES ASSUME NEW y \in T
               PROVE  x <= y
    OBVIOUS
  <2>1. x \in Nat /\ y \in Nat /\ ~(<<y, x>> \in OpToRel(<, Nat))
    BY <1>1
  <2>2. (y < x) => <<y, x>> \in OpToRel(<, Nat)
    BY <2>1 DEF OpToRel
  <2>3. ~(y < x)
    BY <2>1, <2>2
  <2>4. x \in Nat /\ y \in Nat
    BY <2>1
  <2> QED
    BY ONLY <2>3, <2>4
<1> QED
  BY <1>2

\* A set of numbers with a bound has a largest one.
LEMMA Largest ==
    ASSUME NEW n \in Nat, NEW T \in SUBSET (0..n), T # {}
    PROVE  \E m \in T : \A j \in T : j <= m
<1> DEFINE U == {x \in Nat : n - x \in T}
<1>1. U \in SUBSET Nat /\ U # {}
  <2>1. PICK j \in T : TRUE
    OBVIOUS
  <2>2. n - j \in Nat /\ n - (n - j) = j
    BY <2>1
  <2>3. n - j \in U
    BY <2>1, <2>2
  <2> QED
    BY <2>3
<1> HIDE DEF U
<1>2. PICK x \in U : \A y \in U : x <= y
  BY <1>1, Smallest
<1>3. n - x \in T /\ x \in Nat
  BY <1>2 DEF U
<1>4. ASSUME NEW j \in T
      PROVE  j <= n - x
  <2>1. n - j \in Nat /\ n - (n - j) = j
    OBVIOUS
  <2>2. n - j \in U
    BY <2>1 DEF U
  <2> QED
    BY <1>2, <1>3, <2>1, <2>2
<1> QED
  BY <1>3, <1>4

\* Call m is the access that the invalidations on top of s are made for.
AccessAt(s, m) == s[m].op \notin Invs /\ \A j \in 1..Len(s) : j > m => s[j].op \in Invs

\* Below an invalidation there is the access it is made for.
LEMMA Innermost ==
    ASSUME NEW p \in Leaves, NEW s, Shape(p, s), s # <<>>, Last(s).op \in Invs
    PROVE  \E m \in 1..(Len(s) - 1) : AccessAt(s, m)
<1> DEFINE n == Len(s)
           T == {i \in 1..n : s[i].op \notin Invs}
<1>0. s \in Seq(Frames) /\ Chain(p, s)
  BY DEF Shape
<1>1. n \in Nat \ {0} /\ Last(s) = s[n] /\ s[1].op \in Gets
  <2>1. n \in Nat \ {0} /\ Last(s) = s[n]
    BY <1>0, FrontIs
  <2>2. 1 \in 1..n
    BY <2>1
  <2> QED
    BY <1>0, <2>1, <2>2 DEF Chain
<1>2. 1 \in T
  BY <1>1 DEF Gets, Invs
<1>3. T \in SUBSET (0..n)
  OBVIOUS
<1> HIDE DEF n
<1>4. PICK m \in T : \A j \in T : j <= m
  <2>1. T # {} /\ n \in Nat
    BY <1>1, <1>2
  <2> HIDE DEF T
  <2> QED
    BY <1>3, <2>1, Largest
<1>5. m \in 1..n /\ m # n
  BY <1>1, <1>4
<1>6. m \in 1..(n - 1)
  BY <1>1, <1>5
<1>7. \A j \in 1..n : j > m => s[j].op \in Invs
  BY <1>4, <1>5
<1> QED
  BY <1>4, <1>6, <1>7 DEF AccessAt, n

\* The return of an invalidation takes the top off, and tells the innermost access of
\* written data.
LEMMA UnwoundIs ==
    ASSUME NEW p \in Leaves, NEW s, Shape(p, s), s # <<>>, Last(s).op \in Invs, NEW wrote \in BOOLEAN
    PROVE  \E m \in 1..(Len(s) - 1) :
              /\ AccessAt(s, m)
              /\ Unwound(s, wrote) \in Seq(Frames) /\ Popped(s, Unwound(s, wrote))
              /\ \A i \in 1..(Len(s) - 1) :
                    Unwound(s, wrote)[i] = IF i = m THEN [s[m] EXCEPT !.wb = @ \/ wrote] ELSE s[i]
<1> DEFINE n == Len(s)
<1>0. s \in Seq(Frames)
  BY DEF Shape
<1>1. n \in Nat \ {0} /\ DOMAIN s = 1..n /\ \A i \in 1..n : s[i] \in Frames
  BY <1>0
<1>2. PICK m \in 1..(n - 1) : AccessAt(s, m)
  BY Innermost
<1> DEFINE P(i) == s[i].op \notin Invs /\ \A j \in DOMAIN s : j > i => s[j].op \in Invs
           r == [s EXCEPT ![m].wb = @ \/ wrote]
           x == [s[m] EXCEPT !.wb = @ \/ wrote]
           s2 == Front(r)
<1> HIDE DEF n
<1>3. m \in 1..n
  BY <1>1, <1>2
<1>4. \A i \in 1..n : P(i) <=> i = m
  <2> TAKE i \in 1..n
  <2>1. CASE i = m
    BY <1>1, <1>2, <2>1 DEF AccessAt, n
  <2>2. CASE i < m
    BY <1>1, <1>2, <1>3, <2>2 DEF AccessAt
  <2>3. CASE i > m
    BY <1>1, <1>2, <1>3, <2>3 DEF AccessAt, n
  <2> QED
    BY <1>3, <2>1, <2>2, <2>3
<1>5. (CHOOSE i \in DOMAIN s : P(i)) = m
  BY <1>1, <1>3, <1>4
<1>6. Unwound(s, wrote) = s2
  BY <1>5 DEF Unwound
<1>7. x \in Frames /\ Alike(x, s[m])
  <2>1. s[m] \in Frames
    BY <1>1, <1>3
  <2> QED
    BY <2>1 DEF Frames, Alike
<1>8. r \in Seq(Frames) /\ Len(r) = n /\ \A i \in 1..n : r[i] = IF i = m THEN x ELSE s[i]
  <2>1. r = [s EXCEPT ![m] = x]
    BY <1>0, <1>1, <1>3
  <2> HIDE DEF r, x
  <2>2. r \in Seq(Frames) /\ Len(r) = Len(s)
    BY <1>0, <1>3, <1>7, <2>1 DEF n
  <2> QED
    BY <1>0, <1>1, <1>3, <2>1, <2>2 DEF n
<1> HIDE DEF r, x
<1>9. s2 \in Seq(Frames) /\ Len(s2) = n - 1 /\ \A i \in 1..(n - 1) : s2[i] = r[i]
  <2>1. r # <<>>
    BY <1>1, <1>8
  <2> QED
    BY <1>8, <2>1, FrontIs
<1> HIDE DEF s2
<1>10. \A i \in 1..(n - 1) : s2[i] = IF i = m THEN x ELSE s[i]
  <2> TAKE i \in 1..(n - 1)
  <2>1. i \in 1..n
    BY <1>1
  <2> QED
    BY <1>8, <1>9, <2>1
<1>11. Popped(s, s2)
  <2>1. ASSUME NEW i \in 1..(n - 1)
        PROVE  Alike(s2[i], s[i])
    BY <1>7, <1>10 DEF Alike
  <2> QED
    BY <1>9, <2>1 DEF Popped, n
<1> QED
  BY <1>2, <1>6, <1>9, <1>10, <1>11 DEF n, x

\* What a call relies on in its caller's cache does not depend on what either knows of written data.
LEMMA CallerAlike ==
    ASSUME NEW a, NEW g, NEW f, Caller(a, g, f), NEW g2, Alike(g2, g), NEW f2, Alike(f2, f)
    PROVE  Caller(a, g2, f2)
BY DEF Caller, Alike, Entry, Knows

\* The calls in progress once the innermost one has returned.
LEMMA UnwindsKeeps ==
    ASSUME NEW k, NEW b, NEW t, Threads(k, b, t), NEW p \in Leaves, k[p] # <<>>, NEW a,
           NEW s2 \in Seq(Frames), Popped(k[p], s2),
           \A q \in Leaves : q # p => \A i \in 1..Len(k[q]) : FrameOK(a, k[q], i),
           \A i \in 1..(Len(k[p]) - 1) : Own(a, s2[i], HoldsBcc(s2, i)),
           \A i \in 1..(Len(k[p]) - 1) : i > 1 => Caller(a, k[p][i - 1], k[p][i])
    PROVE  Calling(a, [k EXCEPT ![p] = s2])
<1> DEFINE s == k[p]
           n == Len(s)
<1>1. s \in Seq(Frames) /\ Shape(p, s) /\ k \in [Leaves -> Seq(Frames)]
  BY DEF Threads
<1>2. /\ n \in Nat \ {0} /\ Len(s2) = n - 1
      /\ \A i \in 1..(n - 1) : Alike(s2[i], s[i])
  BY <1>1, PoppedFacts
<1>3. \A i \in 1..(n - 1) : i > 1 => Caller(a, s[i - 1], s[i])
  OBVIOUS
<1>4. \A i \in 1..(n - 1) : Own(a, s2[i], HoldsBcc(s2, i))
  OBVIOUS
<1> HIDE DEF n
<1>6. ASSUME NEW i \in 1..Len(s2)
      PROVE  FrameOK(a, s2, i)
  <2>1. i \in 1..(n - 1)
    BY <1>2
  <2>2. ASSUME i > 1
        PROVE  Caller(a, s2[i - 1], s2[i])
    <3>1. i - 1 \in 1..(n - 1)
      BY <1>2, <2>1, <2>2
    <3>2. Alike(s2[i - 1], s[i - 1]) /\ Alike(s2[i], s[i]) /\ Caller(a, s[i - 1], s[i])
      BY <1>2, <1>3, <2>1, <2>2, <3>1
    <3> QED
      BY <3>2, CallerAlike
  <2> QED
    BY <1>4, <2>1, <2>2 DEF FrameOK
<1> QED
  BY <1>1, <1>6, StackSafe

\* Unless it asks for write permission, its return takes that from nobody.
LEMMA UnwindsAsks ==
    ASSUME NEW k, NEW b, NEW t, Threads(k, b, t), NEW p \in Leaves, k[p] # <<>>,
           Last(k[p]).pc # "grant", NEW s2 \in Seq(Frames), Popped(k[p], s2)
    PROVE  KeepsOwed(k, [k EXCEPT ![p] = s2])
<1>1. Shape(p, k[p]) /\ k \in [Leaves -> Seq(Frames)]
  BY DEF Threads
<1>2. KeepsAsks(k[p], s2, None, None)
  BY <1>1, PoppedAsks
<1>3. ASSUME NEW c \in Caches, NEW w \in Ways[c], NEW d \in Children(c), Owed(k, c, w, d)
      PROVE  Owed([k EXCEPT ![p] = s2], c, w, d)
  <2>1. c # None
    BY CoherenceAssumption
  <2> QED
    BY <1>1, <1>2, <1>3, <2>1, OwedKept
<1> QED
  BY <1>3 DEF KeepsOwed

\* Up to that access, every cache that the invalidation came through has the
\* line in E or M if the innermost one has it modified.
LEMMA WroteAbove ==
    ASSUME NEW k, NEW b, NEW t, Threads(k, b, t), NEW p \in Leaves, k[p] # <<>>,
           Last(k[p]).pc = "down", NEW a, Typed(a), Tags(a), Included(a), Calling(a, k),
           Entry(a, Last(k[p])).st = "M", NEW m \in 1..(Len(k[p]) - 1), AccessAt(k[p], m)
    PROVE  LET r == k[p][m]
           IN  /\ r.pc \in {"evict", "grant"} /\ r.op \in Gets /\ HoldsBcc(k[p], m)
               /\ Entry(a, r).tag # None /\ Entry(a, r).st \in {"E", "M"}
               /\ Entry(a, r).tag = Last(k[p]).line /\ r.at \notin Leaves
<1> DEFINE s == k[p]
           n == Len(s)
           f == Last(s)
           l == f.line
           r == s[m]
           Good(j) == s[j].line = l /\ StateOf(a, s[j].at, l) \in {"E", "M"}
<1>1. /\ n \in Nat /\ n > 1 /\ f = s[n] /\ n \in 1..n /\ f \in Frames /\ f.at \in Caches
      /\ f.op \in Invs /\ HoldsBcc(s, n)
  BY TopInvalidation
<1>2. /\ m \in 1..n /\ m # n /\ m + 1 \in 1..n
      /\ r.op \notin Invs /\ \A j \in 1..n : j > m => s[j].op \in Invs
  <2> HIDE DEF n
  <2>1. \A j \in 1..Len(s) : j > m => s[j].op \in Invs
    BY DEF AccessAt
  <2>2. m \in 1..(n - 1)
    BY DEF n
  <2> QED
    BY <1>1, <2>1, <2>2 DEF AccessAt, n
<1>3. ASSUME NEW j \in 1..n
      PROVE  /\ s[j] \in Frames /\ s[j].at \in Caches /\ Placed(s[j])
             /\ j > 1 /\ s[j].op \in Invs =>
                   /\ Linked(s[j - 1], s[j]) /\ HoldsBcc(s, j - 1)
                   /\ Entry(a, s[j - 1]).tag = s[j].line
  <2>1. j > 1 => Caller(a, s[j - 1], s[j])
    BY CallIs
  <2>2. /\ s[j] \in Frames /\ s[j].at \in Caches /\ Placed(s[j])
        /\ j > 1 => Linked(s[j - 1], s[j])
        /\ j > 1 /\ s[j].op \in Invs => HoldsBcc(s, j - 1)
    BY Neighbours
  <2> QED
    BY <2>1, <2>2 DEF Caller
<1>4. Good(n)
  <2>1. Own(a, s[n], HoldsBcc(s, n)) /\ s[n].pc = "down"
    BY <1>1, CallIs
  <2>2. f.way \in Ways[f.at] /\ Entry(a, f).tag = l
    BY <1>1, <2>1 DEF Own, Chosen
  <2>3. l \in Lines /\ l # None
    BY <1>1, CoherenceAssumption DEF Frames
  <2>4. StateOf(a, f.at, l) = "M"
    BY <1>1, <2>2, <2>3, StateIs DEF Entry
  <2> QED
    BY <1>1, <2>4
<1>5. l \in Lines
  BY <1>1 DEF Frames
<1> HIDE DEF s, n, f, l
<1>6. ASSUME NEW j \in 1..n, j + 1 \in 1..n, s[j].op \in Invs, s[j + 1].op \in Invs, Good(j + 1)
      PROVE  Good(j)
  <2>1. (j + 1) - 1 = j /\ j + 1 > 1
    BY <1>1
  <2>2. Linked(s[j], s[j + 1])
    BY <1>3, <1>6, <2>1
  <2>3. s[j].pc = "down" /\ s[j + 1].line = s[j].line /\ s[j + 1].at \in Children(s[j].at)
    BY <1>3, <1>6, <2>2 DEF Linked, Placed, Gets, Puts, Invs
  <2>4. s[j].at \in Caches /\ s[j + 1].at \in Caches
    BY <1>3, <1>6
  <2>5. s[j + 1].at # Root /\ Parent[s[j + 1].at] = s[j].at
    BY <2>3 DEF Children
  <2> QED
    BY <1>5, <1>6, <2>3, <2>4, <2>5 DEF Included
<1>7. \A j \in 1..n : j > m => Good(j)
  <2> DEFINE B == {j \in 1..n : j > m /\ ~Good(j)}
  <2> SUFFICES ASSUME B # {}
               PROVE  FALSE
    OBVIOUS
  <2>1. B \in SUBSET (0..n)
    BY <1>1
  <2> HIDE DEF B
  <2>2. PICK j \in B : \A i \in B : i <= j
    BY <1>1, <2>1, Largest
  <2> USE DEF B
  <2>3. j \in 1..n /\ j > m /\ ~Good(j)
    BY <2>2
  <2>4. j # n
    BY <1>4, <2>3
  <2>5. j + 1 \in 1..n /\ j + 1 > m /\ j < j + 1
    BY <1>1, <1>2, <2>3, <2>4
  <2> HIDE DEF Good
  <2>6. Good(j + 1)
    BY <1>1, <2>2, <2>5
  <2> HIDE DEF B
  <2>7. s[j].op \in Invs /\ s[j + 1].op \in Invs
    BY <1>2, <2>3, <2>5
  <2> QED
    BY <1>6, <2>3, <2>5, <2>6, <2>7
<1>8. Good(m + 1) /\ s[m + 1].op \in Invs /\ (m + 1) - 1 = m /\ m + 1 > 1
  BY <1>1, <1>2, <1>7
<1>9. Linked(r, s[m + 1]) /\ HoldsBcc(s, m) /\ Entry(a, r).tag = s[m + 1].line
  BY <1>2, <1>3, <1>8
<1>10. r \in Frames /\ r.at \in Caches /\ Placed(r) /\ s[m + 1].at \in Caches
  BY <1>2, <1>3
<1>11. s[m + 1].line = l /\ StateOf(a, s[m + 1].at, l) \in {"E", "M"}
  BY <1>8
<1> HIDE DEF r, Good
<1>12. /\ r.pc \in {"evict", "grant"} /\ r.op \in Gets /\ s[m + 1].at \in Children(r.at)
       /\ r.way \in Ways[r.at]
  <2>1. r.op \in Gets \cup Puts
    BY <1>2, <1>10 DEF Frames
  <2> QED
    BY <1>2, <1>8, <1>9, <1>10, <2>1 DEF Linked, Placed, Gets, Puts, Invs
<1>13. StateOf(a, r.at, l) \in {"E", "M"}
  BY <1>5, <1>10, <1>11, <1>12 DEF Included, Children
<1>14. Entry(a, r).tag # None /\ Entry(a, r).st = StateOf(a, r.at, l) /\ Entry(a, r).tag = l
  BY <1>5, <1>9, <1>10, <1>11, <1>12, StateIs, CoherenceAssumption DEF Entry
<1>15. r.at \notin Leaves
  BY <1>10, <1>12, ChildIs
<1> QED
  BY <1>9, <1>12, <1>13, <1>14, <1>15 DEF r, s, l, f

\* What an invalidation finds in its cache and in its sender's.
LEMMA Invalidating ==
    ASSUME IInv, NEW p \in Leaves, Busy(p), Top(p).pc = "down"
    PROVE  LET f == Top(p)
               n == Len(stack[p])
               g == stack[p][n - 1]
               e == array[f.at][f.way]
               r == array[g.at][g.way]
           IN  /\ n \in Nat /\ n > 1 /\ f = stack[p][n] /\ Last(Front(stack[p])) = g
               /\ f \in Frames /\ g \in Frames /\ f.at \in Caches /\ g.at \in Caches
               /\ f.op \in Invs /\ f.at \in Children(g.at) /\ f.at # g.at /\ f.line \in Lines
               /\ g.pc \in {"evict", "grant", "down"} /\ bcc[f.at] = p
               /\ f.way \in Ways[f.at] /\ g.way \in Ways[g.at]
               /\ e \in Entries(f.at) /\ r \in Entries(g.at)
               /\ e.tag = f.line /\ r.tag = f.line /\ f.line # None
               /\ f.at \in r.sharers /\ (f.op = "INVX" => r.excl)
               /\ Shows(r, f.at, e.st, Owed(stack, g.at, g.way, f.at))
               /\ Own(array, g, TRUE)
<1> DEFINE s == stack[p]
           f == Top(p)
           n == Len(s)
           g == s[n - 1]
           e == array[f.at][f.way]
           r == array[g.at][g.way]
<1>1. /\ Threads(stack, bcc, tcc) /\ s # <<>> /\ f = Last(s) /\ s \in Seq(Frames)
      /\ Typed(array) /\ Tags(array) /\ Calling(array, stack) /\ Directories(array, stack)
  BY DEF IInv, Data, Busy, Top, Threads
<1>2. /\ n \in Nat /\ n > 1 /\ f = s[n]
      /\ n - 1 \in 1..n
      /\ f \in Frames /\ g \in Frames /\ f.at \in Caches /\ g.at \in Caches
      /\ f.op \in Invs /\ f.at \in Children(g.at) /\ f.at # g.at
      /\ g.pc \in {"evict", "grant", "down"}
      /\ HoldsBcc(s, n - 1) /\ Placed(g)
  BY <1>1, TopInvalidation
<1>3. Last(Front(s)) = g
  <2>1. Front(s) \in Seq(Frames) /\ Len(Front(s)) = n - 1 /\ \A i \in 1..(n - 1) : Front(s)[i] = s[i]
    BY <1>1, FrontIs
  <2>2. Front(s) # <<>>
    BY <1>2, <2>1
  <2>3. Last(Front(s)) = Front(s)[n - 1]
    BY <2>1, <2>2, FrontIs
  <2>4. n - 1 \in 1..(n - 1)
    BY <1>2
  <2> QED
    BY <2>1, <2>3, <2>4
<1>4. Own(array, f, TRUE) /\ Caller(array, g, f) /\ bcc[f.at] = p
  <2>1. /\ Own(array, f, f.pc \notin {"tcc", "bcc"}) /\ n > 1 => Caller(array, g, f)
        /\ f.pc \notin {"tcc", "bcc"} => bcc[f.at] = p
    BY InCall
  <2>2. (f.pc \notin {"tcc", "bcc"}) = TRUE
    OBVIOUS
  <2> QED
    BY <1>2, InCall, <2>2
<1>5. Own(array, g, TRUE)
  <2>1. Own(array, g, HoldsBcc(s, n - 1)) /\ HoldsBcc(s, n - 1) \in BOOLEAN
    BY <1>1, <1>2, CallIs
  <2>2. HoldsBcc(s, n - 1) = TRUE
    BY <1>2, <2>1
  <2> QED
    BY <2>1, <2>2
<1>6. f.pc = "down" /\ f.line \in Lines
  BY <1>2 DEF Frames
<1>e. e = array[f.at][f.way] /\ r = array[g.at][g.way] /\ g = s[n - 1] /\ n = Len(s)
  OBVIOUS
<1> HIDE DEF s, f, n, g, e, r
<1>7. f.line # None
  BY <1>6, CoherenceAssumption
<1>8. f.way \in Ways[f.at] /\ e.tag = f.line
  BY <1>4, <1>6, <1>e DEF Own, Chosen, Entry
<1>9. /\ r.tag = f.line /\ f.at \in r.sharers /\ (f.op = "INVX" => r.excl)
  BY <1>2, <1>4, <1>e DEF Caller, Entry
<1>10. g.way \in Ways[g.at]
  BY <1>2 DEF Placed
<1>11. e \in Entries(f.at) /\ r \in Entries(g.at)
  BY <1>1, <1>2, <1>8, <1>10, <1>e, EntryType
<1>12. StateOf(array, f.at, f.line) = e.st
  BY <1>1, <1>2, <1>7, <1>8, <1>e, StateIs
<1>13. Shows(r, f.at, e.st, Owed(stack, g.at, g.way, f.at))
  <2>1. Listed(array, stack, g.at, g.way, f.at)
    BY <1>1, <1>2, <1>10 DEF Directories
  <2> QED
    BY <1>7, <1>9, <1>12, <1>e, <2>1 DEF Listed
<1> QED
  BY <1>2, <1>3, <1>4, <1>5, <1>6, <1>7, <1>8, <1>9, <1>10, <1>11, <1>13 DEF s, f, n, g, e, r

\* The state that an invalidation leaves.
After(op) == IF op = "INV" THEN "I" ELSE "S"

\* The sender's entry tells the truth again once it has been answered.
LEMMA AnsweredIs ==
    ASSUME NEW c, NEW r \in Entries(c), Sound(r), NEW d \in r.sharers, NEW op \in Invs,
           op = "INVX" => r.excl
    PROVE  LET u == Answered(r, op, d)
           IN  /\ u \in Entries(c) /\ u.tag = r.tag /\ u.st = r.st /\ Sound(u)
               /\ u.sharers \subseteq r.sharers
               /\ \A owed : Shows(u, d, After(op), owed)
               /\ \A z, q, owed, owed2 :
                     Shows(r, z, q, owed) /\ z # d /\ (owed => owed2) => Shows(u, z, q, owed2)
<1> DEFINE u == Answered(r, op, d)
<1>1. CASE op = "INV"
  <2>1. u = [r EXCEPT !.sharers = @ \ {d}]
    BY <1>1 DEF Answered
  <2>2. /\ u \in Entries(c) /\ u.tag = r.tag /\ u.st = r.st /\ u.sharers = r.sharers \ {d}
        /\ u.excl = r.excl
    BY <2>1 DEF Entries
  <2> HIDE DEF u
  <2>3. Sound(u)
    BY <2>2 DEF Sound
  <2>4. \A owed : Shows(u, d, "I", owed)
    BY <2>2 DEF Shows
  <2>5. ASSUME NEW z, NEW q, NEW owed, NEW owed2, Shows(r, z, q, owed), z # d, owed => owed2
        PROVE  Shows(u, z, q, owed2)
    BY <2>2, <2>5 DEF Shows, Sound
  <2> QED
    BY <1>1, <2>2, <2>3, <2>4, <2>5 DEF u, After
<1>2. CASE op = "INVX"
  <2>1. u = [r EXCEPT !.excl = FALSE]
    BY <1>2 DEF Answered
  <2>2. /\ u \in Entries(c) /\ u.tag = r.tag /\ u.st = r.st /\ u.sharers = r.sharers
        /\ u.excl = FALSE
    BY <2>1 DEF Entries
  <2> HIDE DEF u
  <2>3. Sound(u)
    BY <2>2 DEF Sound
  <2>4. \A owed : Shows(u, d, "S", owed)
    BY <2>2 DEF Shows
  <2>5. ASSUME NEW z, NEW q, NEW owed, NEW owed2, Shows(r, z, q, owed), z # d, owed => owed2
        PROVE  Shows(u, z, q, owed2)
    <3>1. r.sharers = {d}
      BY <1>2 DEF Sound
    <3> QED
      BY <1>2, <2>2, <2>5, <3>1 DEF Shows, Sound
  <2> QED
    BY <1>2, <2>2, <2>3, <2>4, <2>5 DEF u, After
<1> QED
  BY <1>1, <1>2 DEF Invs

\* The arrays after an invalidation.
LEMMA InvalidatedArrays ==
    ASSUME IInv, NEW p \in Leaves, Invalidate(p)
    PROVE  LET f == Top(p)
               g == stack[p][Len(stack[p]) - 1]
               r == array[g.at][g.way]
               u == Answered(r, f.op, f.at)
           IN  /\ Traded(array, array', g.at, g.way, f.at, f.way, u, After(f.op))
               /\ MayTrade(array, g.at, g.way, f.at, f.way, u, After(f.op))
               /\ KeepsOwed(stack, stack') =>
                     ShowsAll(array, stack', g.at, g.way, f.at, u, After(f.op))
               /\ failed' = FALSE
<1> DEFINE f == Top(p)
           n == Len(stack[p])
           g == stack[p][n - 1]
           c == g.at
           w == g.way
           d == f.at
           v == f.way
           e == array[d][v]
           r == array[c][w]
           u == Answered(r, f.op, d)
           y == After(f.op)
<1>1. Busy(p) /\ f.pc = "down"
  BY DEF Invalidate, At
<1>2. /\ n \in Nat /\ n > 1 /\ f = stack[p][n] /\ Last(Front(stack[p])) = g
      /\ f \in Frames /\ g \in Frames /\ d \in Caches /\ c \in Caches
      /\ f.op \in Invs /\ d \in Children(c) /\ d # c /\ f.line \in Lines
      /\ g.pc \in {"evict", "grant", "down"} /\ bcc[d] = p
      /\ v \in Ways[d] /\ w \in Ways[c]
      /\ e \in Entries(d) /\ r \in Entries(c)
      /\ e.tag = f.line /\ r.tag = f.line /\ f.line # None
      /\ d \in r.sharers /\ (f.op = "INVX" => r.excl)
      /\ Shows(r, d, e.st, Owed(stack, c, w, d))
  BY <1>1, Invalidating
<1>3. /\ Sends(f, e) = {}
      /\ failed' = (e.st \notin IF f.op = "INV" THEN {"S", "E", "M"} ELSE {"E", "M"})
      /\ array' = [[array EXCEPT ![d][v] = [e EXCEPT !.st = y]] EXCEPT ![c][w] = Answered(@, f.op, d)]
  BY <1>2 DEF Invalidate, SetEntry, After
<1>4. /\ Threads(stack, bcc, tcc) /\ stack[p] # <<>> /\ f = Last(stack[p])
      /\ Typed(array) /\ Tags(array) /\ Directories(array, stack) /\ Included(array)
  BY <1>1 DEF IInv, Data, Busy, Top
<1>e. e = array[d][v] /\ r = array[c][w] /\ f.at = d /\ g.at = c /\ f.way = v /\ g.way = w
  OBVIOUS
<1>u. u = Answered(r, f.op, d) /\ y = After(f.op)
  OBVIOUS
<1> HIDE DEF f, n, g, c, w, d, v, e, r, u, y
<1>5. Sound(r) /\ Sound(e)
  BY <1>2, <1>4, <1>e DEF Sound, Tags
<1>6. /\ u \in Entries(c) /\ u.tag = r.tag /\ u.st = r.st /\ Sound(u)
      /\ \A owed : Shows(u, d, y, owed)
      /\ \A z, q, owed, owed2 :
            Shows(r, z, q, owed) /\ z # d /\ (owed => owed2) => Shows(u, z, q, owed2)
  BY <1>2, <1>5, <1>u, AnsweredIs
<1>7. failed' = FALSE
  <2>1. CASE f.op = "INV"
    BY <1>2, <1>3, <2>1 DEF Shows, Entries, States
  <2>2. CASE f.op = "INVX"
    <3>1. r.sharers = {d}
      BY <1>2, <1>5, <2>2 DEF Sound
    <3> QED
      BY <1>2, <1>3, <2>2, <3>1 DEF Shows
  <2> QED
    BY <1>2, <2>1, <2>2 DEF Invs
<1>8. Traded(array, array', c, w, d, v, u, y)
  <2> DEFINE x == [e EXCEPT !.st = y]
             a1 == [array EXCEPT ![d][v] = x]
  <2>1. /\ a1 = [b \in Caches |-> a1[b]] /\ \A b \in Caches : b # d => a1[b] = array[b]
        /\ a1[d] = [array[d] EXCEPT ![v] = x]
    BY <1>2, <1>4 DEF Typed
  <2>2. array' = [a1 EXCEPT ![c][w] = Answered(@, f.op, d)]
    BY <1>3
  <2> HIDE DEF a1, x
  <2>3. a1[c] = array[c] /\ a1[c][w] = r
    BY <1>2, <1>e, <2>1
  <2>4. array[c] \in [Ways[c] -> Entries(c)]
    BY <1>2, <1>4 DEF Typed
  <2>5. array' = [a1 EXCEPT ![c] = [array[c] EXCEPT ![w] = u]]
    BY <1>2, <1>u, <2>1, <2>2, <2>3, <2>4
  <2>6. /\ array' = [b \in Caches |-> array'[b]] /\ \A b \in Caches : b # c => array'[b] = a1[b]
        /\ array'[c] = [array[c] EXCEPT ![w] = u]
    BY <1>2, <2>1, <2>5
  <2> QED
    BY <1>2, <1>e, <2>1, <2>6 DEF Traded, x
<1>9. MayTrade(array, c, w, d, v, u, y)
  <2>1. array[c][w].tag # None /\ array[d][v].tag = array[c][w].tag /\ u.tag = array[c][w].tag
    BY <1>2, <1>6, <1>e
  <2>2. Like(array[c][w].st, u.st)
    BY <1>6, <1>e DEF Like
  <2>3. y = "I" => array[d][v].sharers = {}
    BY <1>2, <1>3, <1>e, <1>u DEF After, Sends, Invs
  <2>4. Within(y, u.st)
    BY <1>2, <1>5, <1>6, <1>u DEF After, Within, Sound
  <2>5. ASSUME NEW z \in Children(d)
        PROVE  Within(StateOf(array, z, u.tag), y)
    <3>1. Listed(array, stack, d, v, z)
      BY <1>2, <1>4 DEF Directories
    <3>2. Shows(e, z, StateOf(array, z, u.tag), Owed(stack, d, v, z))
      BY <1>2, <1>6, <1>e, <3>1 DEF Listed
    <3>3. ~Owed(stack, d, v, z)
      <4>1. Last(stack[p]).pc \notin {"tcc", "bcc"} /\ Last(stack[p]).at = d
        BY <1>1, <1>4, <1>e
      <4>2. Last(stack[p]).pc # "grant"
        BY <1>1, <1>4
      <4> QED
        BY <1>4, <4>1, <4>2, TopOwed
    <3>4. CASE f.op = "INV"
      BY <1>3, <3>2, <3>3, <3>4, <1>u DEF Shows, Sends, After, Within
    <3>5. CASE f.op = "INVX"
      <4>1. e.sharers = {z} /\ e.excl => Exclusive(e)
        BY <1>5, ExclusiveIs DEF Sound
      <4>2. ~(e.sharers = {z} /\ e.excl)
        BY <1>3, <4>1 DEF Sends
      <4> QED
        BY <3>2, <3>5, <4>2, <1>u DEF Shows, After, Within
    <3> QED
      BY <1>2, <3>4, <3>5 DEF Invs
  <2> QED
    BY <1>6, <2>1, <2>2, <2>3, <2>4, <2>5 DEF MayTrade
<1>10. ASSUME KeepsOwed(stack, stack')
       PROVE  ShowsAll(array, stack', c, w, d, u, y)
  <2> SUFFICES ASSUME NEW z \in Children(c), z # d
               PROVE  Shows(u, z, StateOf(array, z, u.tag), Owed(stack', c, w, z))
    BY <1>6 DEF ShowsAll
  <2>1. Listed(array, stack, c, w, z)
    BY <1>2, <1>4 DEF Directories
  <2>2. Shows(r, z, StateOf(array, z, u.tag), Owed(stack, c, w, z))
    BY <1>2, <1>6, <1>e, <2>1 DEF Listed
  <2>3. Owed(stack, c, w, z) => Owed(stack', c, w, z)
    BY <1>2, <1>10 DEF KeepsOwed
  <2> QED
    BY <1>6, <2>2, <2>3
<1> QED
  BY <1>7, <1>8, <1>9, <1>10 DEF f, n, g, c, w, d, v, e, r, u, y

\* An access may be told that data was written, where it relies on that.
LEMMA OwnWrote ==
    ASSUME NEW a, NEW f \in Frames, NEW h \in BOOLEAN, Own(a, f, h), NEW wrote \in BOOLEAN,
           wrote => /\ f.pc \in {"evict", "grant"} /\ f.op \in Gets /\ h /\ f.at \notin Leaves
                    /\ Entry(a, f).tag # None /\ Entry(a, f).st \in {"E", "M"}
    PROVE  Own(a, [f EXCEPT !.wb = @ \/ wrote], h)
<1> DEFINE g == [f EXCEPT !.wb = @ \/ wrote]
<1>1. Alike(g, f) /\ g.wb = (f.wb \/ wrote)
  BY DEF Frames, Alike
<1> HIDE DEF g
<1>2. Entry(a, g) = Entry(a, f) /\ (Chosen(a, f) => Chosen(a, g))
  BY <1>1 DEF Alike, Entry, Chosen
<1> QED
  BY <1>1, <1>2 DEF Own, Alike, g

\* The lines after an invalidation.
LEMMA InvalidatedLines ==
    ASSUME IInv, NEW p \in Leaves, Invalidate(p), KeepsOwed(stack, stack')
    PROVE  LET f == Top(p)
               g == stack[p][Len(stack[p]) - 1]
           IN  /\ Typed(array') /\ Tags(array') /\ Included(array') /\ Directories(array', stack')
               /\ Lowered(array, array', f, g)
               /\ \A b \in Caches : b # f.at =>
                     \A w \in Ways[b] : /\ array'[b][w].tag = array[b][w].tag
                                        /\ array'[b][w].st = array[b][w].st
<1> DEFINE f == Top(p)
           n == Len(stack[p])
           g == stack[p][n - 1]
           c == g.at
           w == g.way
           d == f.at
           v == f.way
           e == array[d][v]
           r == array[c][w]
           u == Answered(r, f.op, d)
           y == After(f.op)
<1>1. Busy(p) /\ f.pc = "down"
  BY DEF Invalidate, At
<1>2. /\ f \in Frames /\ g \in Frames /\ d \in Caches /\ c \in Caches
      /\ f.op \in Invs /\ d \in Children(c) /\ d # c /\ f.line \in Lines
      /\ v \in Ways[d] /\ w \in Ways[c]
      /\ e \in Entries(d) /\ r \in Entries(c)
      /\ e.tag = f.line /\ r.tag = f.line /\ f.line # None
      /\ d \in r.sharers /\ (f.op = "INVX" => r.excl)
      /\ Shows(r, d, e.st, Owed(stack, c, w, d))
  BY <1>1, Invalidating
<1>3. /\ Traded(array, array', c, w, d, v, u, y)
      /\ MayTrade(array, c, w, d, v, u, y)
      /\ ShowsAll(array, stack', c, w, d, u, y)
  BY InvalidatedArrays
<1>4. Typed(array) /\ Tags(array) /\ Directories(array, stack) /\ Included(array)
  BY DEF IInv, Data
<1>e. e = array[d][v] /\ r = array[c][w] /\ f.at = d /\ g.at = c /\ f.way = v /\ g.way = w
  OBVIOUS
<1>u. u = Answered(r, f.op, d) /\ y = After(f.op)
  OBVIOUS
<1> HIDE DEF f, n, g, c, w, d, v, e, r, u, y
<1>5. Sound(r)
  BY <1>2, <1>4, <1>e DEF Sound, Tags
<1>6. u \in Entries(c) /\ u.tag = r.tag /\ u.st = r.st /\ u.sharers \subseteq r.sharers
  BY <1>2, <1>5, <1>u, AnsweredIs
<1>7. y \in States
  BY <1>u DEF After, States
<1>8. OthersAsk(stack, stack', c, w)
  BY DEF KeepsOwed, OthersAsk
<1>9. /\ Typed(array') /\ Tags(array') /\ Included(array') /\ Directories(array', stack')
      /\ NowIn(array, array', c, d, u, y)
  BY ONLY <1>2, <1>3, <1>4, <1>6, <1>7, <1>8, ExchangeKeeps
<1>10. /\ \A b \in Caches : b \notin {c, d} => array'[b] = array[b]
       /\ array'[c] = [array[c] EXCEPT ![w] = u]
       /\ array'[d] = [array[d] EXCEPT ![v] = [array[d][v] EXCEPT !.st = y]]
  BY <1>3 DEF Traded
<1>11. array[c] \in [Ways[c] -> Entries(c)] /\ array[d] \in [Ways[d] -> Entries(d)]
  BY <1>2, <1>4 DEF Typed
<1>12. \A x \in Ways[c] : /\ array'[c][x].tag = array[c][x].tag
                          /\ array'[c][x].st = array[c][x].st
                          /\ array'[c][x].sharers \subseteq array[c][x].sharers
  <2> TAKE x \in Ways[c]
  <2>1. array'[c][x] = IF x = w THEN u ELSE array[c][x]
    BY <1>10, <1>11
  <2> QED
    BY <1>6, <1>e, <2>1
<1>13. \A x \in Ways[d] : /\ array'[d][x].tag = array[d][x].tag
                          /\ array'[d][x].sharers = array[d][x].sharers
  <2> TAKE x \in Ways[d]
  <2>1. array'[d][x] = IF x = v THEN [e EXCEPT !.st = y] ELSE array[d][x]
    BY <1>10, <1>11, <1>e
  <2>2. [e EXCEPT !.st = y].tag = e.tag /\ [e EXCEPT !.st = y].sharers = e.sharers
    BY <1>2 DEF Entries
  <2> QED
    BY <1>e, <2>1, <2>2
<1>14. Gentle(array, array', c) /\ Gentle(array, array', d)
  BY <1>12, <1>13 DEF Gentle
<1>15. StateOf(array, c, f.line) = r.st /\ StateOf(array, d, f.line) = e.st
  BY <1>2, <1>4, <1>e, StateIs
<1>16. Lowered(array, array', f, g)
  <2>1. ASSUME NEW b \in Caches, NEW m \in Lines, ~(b = d /\ m = f.line)
        PROVE  StateOf(array', b, m) = StateOf(array, b, m)
    BY <1>2, <1>6, <1>9, <1>15, <2>1 DEF NowIn
  <2>2. StateOf(array', d, f.line) = y
    BY <1>2, <1>6, <1>9 DEF NowIn
  <2>3. StateOf(array, d, f.line) # "I"
    BY <1>2, <1>15 DEF Shows
  <2>4. f.op = "INVX" => StateOf(array, d, f.line) \in {"E", "M"}
    BY <1>2, <1>5, <1>15 DEF Shows, Sound
  <2>5. y = "I" \/ (StateOf(array, d, f.line) \in {"E", "M"} /\ y = "S")
    BY <1>2, <1>u, <2>4 DEF After, Invs
  <2> QED
    BY <1>10, <1>14, <1>e, <2>1, <2>2, <2>3, <2>5 DEF Lowered
<1>17. \A b \in Caches : b # d =>
          \A x \in Ways[b] : array'[b][x].tag = array[b][x].tag /\ array'[b][x].st = array[b][x].st
  BY <1>10, <1>12
<1> QED
  BY <1>9, <1>16, <1>17, <1>e DEF f, n, g

\* The return of an invalidation keeps the invariant.
LEMMA InvalidateKeeps ==
    ASSUME IInv, NEW p \in Leaves, Invalidate(p)
    PROVE  IInv'
<1> DEFINE s == stack[p]
           n == Len(s)
           f == Top(p)
           g == s[n - 1]
           wrote == array[f.at][f.way].st = "M"
           s2 == Unwound(s, wrote)
<1>1. /\ Busy(p) /\ f.pc = "down"
      /\ stack' = [stack EXCEPT ![p] = s2]
      /\ bcc' = [bcc EXCEPT ![f.at] = None]
      /\ filter' = IF f.at \in Leaves
                   THEN [filter EXCEPT ![f.at] = FilterAfter(f.at, f.line, p)]
                   ELSE filter
      /\ UNCHANGED <<tcc, dirty>>
  BY DEF Invalidate, At
<1>2. /\ n \in Nat /\ n > 1 /\ f = s[n]
      /\ f \in Frames /\ g \in Frames /\ f.at \in Caches /\ g.at \in Caches
      /\ f.op \in Invs /\ f.at # g.at /\ bcc[f.at] = p
      /\ f.way \in Ways[f.at] /\ g.way \in Ways[g.at]
      /\ g.pc \in {"evict", "grant", "down"}
      /\ array[g.at][g.way].tag # None
      /\ Own(array, g, TRUE)
  <2>1. /\ n \in Nat /\ n > 1 /\ f = s[n]
        /\ f \in Frames /\ g \in Frames /\ f.at \in Caches /\ g.at \in Caches
        /\ f.op \in Invs /\ f.at # g.at /\ bcc[f.at] = p
        /\ f.way \in Ways[f.at] /\ g.way \in Ways[g.at]
        /\ g.pc \in {"evict", "grant", "down"}
        /\ array[g.at][g.way].tag = f.line /\ f.line # None
        /\ Own(array, g, TRUE)
    BY <1>1, Invalidating
  <2> QED
    BY <2>1
<1>3. /\ Threads(stack, bcc, tcc) /\ s # <<>> /\ f = Last(s) /\ Shape(p, s) /\ s \in Seq(Frames)
      /\ Typed(array) /\ Tags(array) /\ Calling(array, stack) /\ Included(array)
      /\ stack \in [Leaves -> Seq(Frames)]
  BY <1>1 DEF IInv, Data, Busy, Top, Threads, Shape
<1>w. wrote \in BOOLEAN /\ (wrote <=> Entry(array, f).st = "M")
  BY DEF Entry
<1>e. n = Len(s) /\ g = s[n - 1] /\ s = stack[p]
  OBVIOUS
<1> HIDE DEF f, wrote
<1>4. PICK m \in 1..(n - 1) :
         /\ AccessAt(s, m)
         /\ s2 \in Seq(Frames) /\ Popped(s, s2)
         /\ \A i \in 1..(n - 1) : s2[i] = IF i = m THEN [s[m] EXCEPT !.wb = @ \/ wrote] ELSE s[i]
  <2>1. Shape(p, s) /\ s # <<>> /\ Last(s).op \in Invs /\ wrote \in BOOLEAN
    BY <1>2, <1>3, <1>w
  <2>2. \E m \in 1..(Len(s) - 1) :
           /\ AccessAt(s, m)
           /\ Unwound(s, wrote) \in Seq(Frames) /\ Popped(s, Unwound(s, wrote))
           /\ \A i \in 1..(Len(s) - 1) :
                 Unwound(s, wrote)[i] = IF i = m THEN [s[m] EXCEPT !.wb = @ \/ wrote] ELSE s[i]
    BY ONLY <2>1, UnwoundIs, p \in Leaves
  <2> QED
    BY <2>2
<1> HIDE DEF s2
<1>5. /\ n \in Nat \ {0} /\ Len(s2) = n - 1
      /\ \A i \in 1..(n - 1) : i < n - 1 => (HoldsBcc(s2, i) <=> HoldsBcc(s, i))
      /\ HoldsBcc(s2, n - 1)
      /\ \A i \in 1..n : s[i] \in Frames /\ HoldsBcc(s, i) \in BOOLEAN /\ HoldsBcc(s2, i) \in BOOLEAN
  <2>1. \A i \in 1..n : s[i] \in Frames /\ HoldsBcc(s, i) \in BOOLEAN /\ HoldsBcc(s2, i) \in BOOLEAN
    BY <1>3 DEF HoldsBcc
  <2> QED
    BY <1>2, <1>3, <1>4, <2>1, PoppedFacts
<1>6. KeepsOwed(stack, stack')
  BY <1>1, <1>3, <1>4, UnwindsAsks
<1>7. /\ Typed(array') /\ Tags(array') /\ Included(array') /\ Directories(array', stack')
      /\ Lowered(array, array', Last(stack[p]), stack[p][Len(stack[p]) - 1])
      /\ failed' = FALSE
      /\ \A b \in Caches : b # f.at =>
            \A w \in Ways[b] : /\ array'[b][w].tag = array[b][w].tag
                               /\ array'[b][w].st = array[b][w].st
  BY <1>3, <1>6, InvalidatedLines, InvalidatedArrays DEF f
<1>8. Last(stack[p]).pc = "down" /\ stack[p] # <<>>
  BY <1>1, <1>3
<1>9. \A q \in Leaves : \A j \in 1..Len(stack[q]) :
         /\ ~(q = p /\ j \in {n, n - 1}) => Own(array', stack[q][j], HoldsBcc(stack[q], j))
         /\ ~(q = p /\ j = n) /\ j > 1 => Caller(array', stack[q][j - 1], stack[q][j])
  BY <1>3, <1>7, <1>8, OwnOfOthers, CallersOfOthers
<1> HIDE DEF s, n, g
\* The call that sent it relies on no more than before.
<1>10. Own(array', g, TRUE)
  <2>1. Entry(array', g).tag = Entry(array, g).tag /\ Entry(array', g).st = Entry(array, g).st
    BY <1>2, <1>7 DEF Entry
  <2>2. WaysFor(array', g.at, g.line) = WaysFor(array, g.at, g.line)
    BY <1>2, <1>7 DEF WaysFor
  <2>3. Chosen(array, g) => Chosen(array', g)
    BY <1>2, <2>1, <2>2 DEF Chosen
  <2> QED
    BY <1>2, <2>1, <2>3 DEF Own
\* The access it was made for learns what was written.
<1>11. ASSUME wrote
       PROVE  LET r == s[m]
              IN  /\ r.pc \in {"evict", "grant"} /\ r.op \in Gets /\ HoldsBcc(s2, m)
                  /\ r.at \notin Leaves
                  /\ Entry(array', r).tag # None /\ Entry(array', r).st \in {"E", "M"}
  <2> DEFINE r == s[m]
  <2>1. /\ r.pc \in {"evict", "grant"} /\ r.op \in Gets /\ HoldsBcc(s, m) /\ r.at \notin Leaves
        /\ Entry(array, r).tag # None /\ Entry(array, r).st \in {"E", "M"}
    <3>1. Entry(array, Last(stack[p])).st = "M"
      BY <1>3, <1>e, <1>w, <1>11
    <3>2. m \in 1..(Len(stack[p]) - 1) /\ AccessAt(stack[p], m)
      BY <1>4, <1>e
    <3>3. LET z == stack[p][m]
          IN  /\ z.pc \in {"evict", "grant"} /\ z.op \in Gets /\ HoldsBcc(stack[p], m)
              /\ z.at \notin Leaves
              /\ Entry(array, z).tag # None /\ Entry(array, z).st \in {"E", "M"}
      BY <1>3, <1>8, <3>1, <3>2, WroteAbove
    <3> QED
      BY <1>e, <3>3
  <2>2. m \in 1..n /\ m # n /\ (m < n - 1 \/ m = n - 1)
    BY <1>2, <1>4
  <2>3. HoldsBcc(s2, m)
    BY <1>4, <1>5, <2>1, <2>2
  <2>4. r \in Frames /\ r.at \in Caches /\ r.way \in Ways[r.at]
    <3>1. r \in Frames
      BY <1>5, <2>2
    <3>2. Placed(r)
      BY <1>3, <1>e, <2>2 DEF Shape, Chain
    <3> QED
      BY <2>1, <3>1, <3>2 DEF Frames, Placed
  <2>5. r.at # f.at
    <3>1. HoldsBcc(stack[p], m) /\ HoldsBcc(stack[p], n) /\ m \in 1..Len(stack[p])
          /\ n \in 1..Len(stack[p]) /\ f = stack[p][n]
      <4>1. HoldsBcc(s, n)
        BY <1>1, <1>2 DEF HoldsBcc
      <4> QED
        BY <1>2, <1>e, <2>1, <2>2, <4>1
    <3> QED
      BY <1>3, <1>e, <2>2, <3>1, OneHolder
  <2>6. Entry(array', r).tag = Entry(array, r).tag /\ Entry(array', r).st = Entry(array, r).st
    BY <1>7, <2>4, <2>5 DEF Entry
  <2> QED
    BY <2>1, <2>3, <2>6
<1>12. ASSUME NEW i \in 1..(n - 1)
       PROVE  Own(array', s2[i], HoldsBcc(s2, i))
  <2>1. i \in 1..n /\ i # n /\ (i < n - 1 \/ i = n - 1)
    BY <1>2
  <2>2. Own(array', s[i], HoldsBcc(s2, i))
    <3>1. CASE i = n - 1
      <4>1. HoldsBcc(s2, i) = TRUE
        BY <1>5, <2>1, <3>1
      <4> QED
        BY <1>10, <1>e, <3>1, <4>1
    <3>2. CASE i # n - 1
      <4>1. HoldsBcc(s2, i) = HoldsBcc(s, i)
        BY <1>5, <2>1, <3>2
      <4>2. Own(array', s[i], HoldsBcc(s, i))
        BY <1>9, <1>e, <2>1, <3>2
      <4> QED
        BY <4>1, <4>2
    <3> QED
      BY <3>1, <3>2
  <2>3. CASE i # m
    BY <1>4, <2>2, <2>3
  <2>4. CASE i = m
    <3>1. s[i] \in Frames /\ HoldsBcc(s2, i) \in BOOLEAN
      BY <1>5, <2>1
    <3>2. wrote => /\ s[i].pc \in {"evict", "grant"} /\ s[i].op \in Gets /\ HoldsBcc(s2, i)
                   /\ s[i].at \notin Leaves
                   /\ Entry(array', s[i]).tag # None /\ Entry(array', s[i]).st \in {"E", "M"}
      BY <1>11, <2>4
    <3>3. Own(array', [s[i] EXCEPT !.wb = @ \/ wrote], HoldsBcc(s2, i))
      BY <1>w, <2>2, <3>1, <3>2, OwnWrote
    <3> QED
      BY <1>4, <2>4, <3>3
  <2> QED
    BY <2>3, <2>4
<1>13. Calling(array', stack')
  <2>1. \A q \in Leaves : q # p => \A i \in 1..Len(stack[q]) : FrameOK(array', stack[q], i)
    BY <1>9 DEF FrameOK
  <2>2. \A i \in 1..(Len(stack[p]) - 1) : Own(array', s2[i], HoldsBcc(s2, i))
    BY <1>12, <1>e
  <2>3. \A i \in 1..(Len(stack[p]) - 1) : i > 1 => Caller(array', stack[p][i - 1], stack[p][i])
    <3> SUFFICES ASSUME NEW i \in 1..(Len(stack[p]) - 1), i > 1
                 PROVE  Caller(array', stack[p][i - 1], stack[p][i])
      OBVIOUS
    <3>1. i \in 1..Len(stack[p]) /\ i # n
      BY <1>2, <1>e
    <3> QED
      BY <1>9, <3>1
  <2>4. s2 \in Seq(Frames) /\ Popped(stack[p], s2) /\ Threads(stack, bcc, tcc) /\ stack[p] # <<>>
    BY <1>3, <1>4, <1>8, <1>e
  <2>5. Calling(array', [stack EXCEPT ![p] = s2])
    BY ONLY <2>1, <2>2, <2>3, <2>4, UnwindsKeeps, p \in Leaves
  <2> QED
    BY <1>1, <2>5
<1>14. Threads(stack', bcc', tcc')
  <2>1. bcc[g.at] = p /\ tcc' = tcc
    <3>1. HoldsBcc(s, n - 1) /\ n - 1 \in 1..n
      <4>1. n - 1 \in 1..n /\ n - 1 # n /\ (n - 1) + 1 = n
        BY <1>2
      <4> QED
        BY <1>2, <1>e, <4>1 DEF HoldsBcc
    <3>2. g.at \in HeldBcc(s)
      BY <1>2, <1>e, <3>1 DEF HeldBcc
    <3> QED
      BY <1>1, <1>2, <1>3, <1>e, <3>2 DEF Threads, Locked
  <2>2. n # 1 /\ None \notin Leaves
    BY <1>2, CoherenceAssumption
  <2>3. Last(stack[p]) = f /\ Len(stack[p]) = n /\ stack[p][Len(stack[p]) - 1] = g
    BY <1>3, <1>e
  <2>4. bcc \in [Caches -> Leaves \cup {None}]
    BY DEF IInv, Kinds
  <2>5. \A b \in Caches, q \in Leaves :
           bcc'[b] = q <=> IF q = p THEN (bcc[b] = p /\ b # f.at) \/ (n # 1 /\ b = g.at) ELSE bcc[b] = q
    <3> SUFFICES ASSUME NEW b \in Caches, NEW q \in Leaves
                 PROVE  bcc'[b] = q <=> IF q = p THEN (bcc[b] = p /\ b # f.at) \/ (n # 1 /\ b = g.at)
                                        ELSE bcc[b] = q
      OBVIOUS
    <3>1. bcc'[b] = IF b = f.at THEN None ELSE bcc[b]
      BY <1>1, <2>4
    <3> QED
      BY <1>2, <2>1, <2>2, <3>1
  <2>6. LocksReturn(p, stack[p], bcc, tcc, bcc', tcc')
    BY <1>2, <2>1, <2>3, <2>5 DEF LocksReturn
  <2> QED
    BY <1>1, <1>3, <1>4, <1>e, <2>6, ReturnsThreads
<1>15. Kinds'
  <2>1. \A c \in Leaves : FilterAfter(c, f.line, p) \in [rd : Lines \cup {None}, wr : Lines \cup {None}]
    BY DEF IInv, Kinds, FilterAfter
  <2> QED
    BY <1>1, <1>2, <2>1 DEF IInv, Kinds
<1> QED
  BY <1>7, <1>13, <1>14, <1>15 DEF IInv, Data

-----------------------------------------------------------------------------
(* The invariant                                                           *)

\* At first every line is free and no thread is in a call.
LEMMA InitHolds ==
    ASSUME Init
    PROVE  IInv
<1>1. /\ array = [c \in Caches |-> [w \in Ways[c] |->
                     [tag |-> None, st |-> "I", sharers |-> {}, excl |-> FALSE]]]
      /\ filter = [p \in Leaves |-> [rd |-> None, wr |-> None]]
      /\ tcc = [c \in Caches \ Leaves |-> None]
      /\ bcc = [c \in Caches |-> None]
      /\ stack = [p \in Leaves |-> <<>>]
      /\ dirty = [l \in Lines |-> FALSE]
      /\ failed = FALSE
  BY DEF Init
<1>2. Kinds
  BY <1>1 DEF Kinds
<1>3. Typed(array)
  BY <1>1 DEF Typed, Entries, States
<1>4. \A c \in Caches : \A w \in Ways[c] :
         array[c][w].tag = None /\ array[c][w].st = "I" /\ array[c][w].sharers = {}
         /\ array[c][w].excl = FALSE
  BY <1>1
<1>5. Tags(array)
  BY <1>4 DEF Tags
<1>6. \A c \in Caches, l \in Lines : StateOf(array, c, l) = "I"
  BY <1>4, Present
<1>7. Included(array)
  BY <1>6, CoherenceAssumption DEF Included
<1>8. Directories(array, stack)
  BY <1>4 DEF Directories, Listed
<1>9. \A p \in Leaves : Len(stack[p]) = 0 /\ stack[p] = <<>>
  BY <1>1
<1>10. Calling(array, stack)
  BY <1>9 DEF Calling
<1>11. Threads(stack, bcc, tcc)
  <2>1. stack \in [Leaves -> Seq(Frames)]
    BY <1>1
  <2>2. \A p \in Leaves : Shape(p, stack[p])
    BY <1>9, <2>1 DEF Shape, Chain, Order
  <2>3. \A p \in Leaves : HeldBcc(stack[p]) = {} /\ HeldTcc(stack[p]) = {}
    BY <1>9 DEF HeldBcc, HeldTcc
  <2>4. Locked(stack, bcc, tcc)
    BY <1>1, <2>3, CoherenceAssumption DEF Locked
  <2> QED
    BY <2>1, <2>2, <2>4 DEF Threads
<1> QED
  BY <1>1, <1>2, <1>3, <1>5, <1>7, <1>8, <1>10, <1>11 DEF IInv, Data

\* Every step keeps the invariant.
LEMMA NextKeeps ==
    ASSUME IInv, [Next]_vars
    PROVE  IInv'
<1>1. CASE UNCHANGED vars
  <2>1. /\ array' = array /\ filter' = filter /\ tcc' = tcc /\ bcc' = bcc /\ stack' = stack
        /\ dirty' = dirty /\ failed' = failed
    BY <1>1 DEF vars
  <2>2. Kinds'
    BY <2>1 DEF IInv, Kinds
  <2> QED
    BY <2>1, <2>2 DEF IInv
<1>2. ASSUME NEW p \in Leaves, Issue(p)
      PROVE  IInv'
  BY <1>2, IssueKeeps
<1>3. ASSUME NEW p \in Leaves, ContextSwitch(p)
      PROVE  IInv'
  BY <1>3, SwitchKeeps
<1>4. ASSUME NEW p \in Leaves, Access(p)
      PROVE  IInv'
  <2>1. CASE LockTcc(p)
    BY <2>1, LockTccKeeps
  <2>2. CASE LockBcc(p)
    BY <2>2, LockBccKeeps
  <2>3. CASE EvictChild(p)
    BY <2>3, EvictChildKeeps
  <2>4. CASE EvictLine(p)
    BY <2>4, EvictLineKeeps
  <2>5. CASE Evicted(p)
    BY <2>5, EvictedKeeps
  <2>6. CASE Hit(p)
    BY <2>6, HitKeeps
  <2>7. CASE MissToMemory(p)
    BY <2>7, MissToMemoryKeeps
  <2>8. CASE MissToParent(p)
    BY <2>8, MissToParentKeeps
  <2>9. CASE ClearRivals(p)
    BY <2>9, ClearRivalsKeeps
  <2>10. CASE Grant(p)
    BY <2>10, LeafGrantKeeps, GrantKeeps
  <2>11. CASE EndAccess(p)
    BY <2>11, EndAccessKeeps
  <2>12. CASE Fill(p)
    BY <2>12, FillKeeps
  <2> QED
    BY <1>4, <2>1, <2>2, <2>3, <2>4, <2>5, <2>6, <2>7, <2>8, <2>9, <2>10, <2>11, <2>12 DEF Access
<1>5. ASSUME NEW p \in Leaves, Invalidation(p)
      PROVE  IInv'
  <2>1. CASE LockInv(p)
    BY <2>1, LockInvKeeps
  <2>2. CASE SendInvalidate(p)
    BY <2>2, SendInvalidateKeeps
  <2>3. CASE Invalidate(p)
    BY <2>3, InvalidateKeeps
  <2> QED
    BY <1>5, <2>1, <2>2, <2>3 DEF Invalidation
<1>6. CASE Next
  <2>1. PICK p \in Leaves : Issue(p) \/ ContextSwitch(p) \/ Access(p) \/ Invalidation(p)
    BY <1>6 DEF Next
  <2> QED
    BY <1>2, <1>3, <1>4, <1>5, <2>1
<1> QED
  BY <1>1, <1>6

\* Calls, locks, lines and directories stay consistent, for every tree of caches.
THEOREM Invariant == Spec => []IInv
<1>1. Init => IInv
  BY InitHolds
<1>2. IInv /\ [Next]_vars => IInv'
  BY NextKeeps
<1> QED
  BY <1>1, <1>2, PTL DEF Spec

\* The invariant leaves no panic, and nothing outside its type.
LEMMA InvariantTypes ==
    ASSUME IInv
    PROVE  NoPanic
<1>1. /\ Typed(array) /\ stack \in [Leaves -> Seq(Frames)] /\ Kinds /\ failed = FALSE
  BY DEF IInv, Data, Threads
<1>2. \A p \in Leaves : \A i \in DOMAIN stack[p] : stack[p][i] \in Frames
  BY <1>1
<1>3. TypeOK
  BY <1>1, <1>2 DEF TypeOK, Kinds, Typed
<1> QED
  BY <1>1, <1>3 DEF NoPanic

\* No assert or panic of the controllers fires, and everything keeps its type.
THEOREM NeverPanics == Spec => []NoPanic
<1>1. IInv => NoPanic
  BY InvariantTypes
<1> QED
  BY <1>1, Invariant, PTL

-----------------------------------------------------------------------------
(* Directories                                                             *)

\* A line and its permissions below are also above.
LEMMA InvariantIncludes ==
    ASSUME IInv
    PROVE  Inclusion
BY HelpersAre DEF IInv, Data, Included, Inclusion

\* The directory of an unlocked cache is exact: no one asks there.
LEMMA InvariantLists ==
    ASSUME IInv
    PROVE  DirectoryExact
<1> SUFFICES ASSUME NEW c \in Caches \ Leaves, bcc[c] = None, NEW w \in Ways[c],
                    array[c][w].tag # None
             PROVE  LET e == array[c][w]
                    IN  /\ e.sharers = {d \in Children(c) : StateIn(d, e.tag) # "I"}
                        /\ Exclusive(e) <=> \E d \in Children(c) : StateIn(d, e.tag) \in {"E", "M"}
  BY DEF DirectoryExact
<1> DEFINE e == array[c][w]
<1>1. Typed(array) /\ Tags(array) /\ Directories(array, stack) /\ Threads(stack, bcc, tcc)
  BY DEF IInv, Data
<1>2. \A d : ~Owed(stack, c, w, d)
  <2> SUFFICES ASSUME NEW d, Owed(stack, c, w, d)
               PROVE  FALSE
    OBVIOUS
  <2>1. PICK p \in Leaves : \E i \in 1..Len(stack[p]) : Asks(stack[p], i, c, w, d)
    BY DEF Owed
  <2>2. c \in HeldBcc(stack[p])
    BY <2>1 DEF Asks, HeldBcc
  <2>3. bcc[c] = p
    BY <1>1, <2>2 DEF Threads, Locked
  <2> QED
    BY <2>3, CoherenceAssumption
<1>3. \A d \in Children(c) : Shows(e, d, StateIn(d, e.tag), FALSE)
  <2> TAKE d \in Children(c)
  <2>1. Shows(e, d, StateOf(array, d, e.tag), Owed(stack, c, w, d))
    BY <1>1 DEF Directories, Listed
  <2> QED
    BY <1>2, <2>1, HelpersAre DEF Shows
<1>4. e.sharers \subseteq Children(c)
  BY <1>1, EntryType
<1>5. Exclusive(e) <=> e.excl /\ \E d : e.sharers = {d}
  BY <1>1, ExclusiveIs DEF Tags
<1> HIDE DEF e
<1>6. e.sharers = {d \in Children(c) : StateIn(d, e.tag) # "I"}
  BY <1>3, <1>4 DEF Shows
<1>7. Exclusive(e) <=> \E d \in Children(c) : StateIn(d, e.tag) \in {"E", "M"}
  BY <1>3, <1>4, <1>5 DEF Shows
<1> QED
  BY <1>6, <1>7 DEF e

\* Every copy has one above with the permissions it needs, and the directory of an
\* unlocked cache lists exactly the children that hold each line.
THEOREM DirectoriesAreInclusive == Spec => []InclusiveDirectories
<1>1. IInv => InclusiveDirectories
  BY InvariantIncludes, InvariantLists DEF InclusiveDirectories
<1> QED
  BY <1>1, Invariant, PTL

-----------------------------------------------------------------------------
(* One writer                                                              *)

\* The caches above q, and q.
Above(q) ==
    {c \in Caches : \A S \in SUBSET Caches :
        q \in S /\ (\A x \in S \ {Root} : Parent[x] \in S) => c \in S}

\* A set of caches that holds q and every parent holds all of them.
LEMMA AboveWithin ==
    ASSUME NEW q, NEW S \in SUBSET Caches, q \in S, \A x \in S \ {Root} : Parent[x] \in S
    PROVE  Above(q) \subseteq S
BY DEF Above

\* The caches above q lead to the root, one parent after another.
LEMMA AboveIs ==
    ASSUME NEW q \in Caches
    PROVE  /\ Above(q) \subseteq Caches /\ q \in Above(q)
           /\ \A x \in Above(q) \ {Root} : Parent[x] \in Above(q)
           /\ \A c \in Above(q) : c = q \/ \E x \in Above(q) \ {Root} : Parent[x] = c
           /\ Root \in Above(q)
<1>1. Above(q) \subseteq Caches /\ q \in Above(q)
  BY DEF Above
<1>2. ASSUME NEW x \in Above(q) \ {Root}
      PROVE  Parent[x] \in Above(q)
  <2>1. x \in Caches \ {Root} /\ Parent[x] \in Caches
    BY <1>1, CoherenceAssumption
  <2> QED
    BY <2>1 DEF Above
<1>3. ASSUME NEW c \in Above(q), c # q, \A x \in Above(q) \ {Root} : Parent[x] # c
      PROVE  FALSE
  <2> DEFINE S == Above(q) \ {c}
  <2>1. S \in SUBSET Caches /\ q \in S /\ \A x \in S \ {Root} : Parent[x] \in S
    BY <1>1, <1>2, <1>3
  <2>2. Above(q) \subseteq S
    <3> HIDE DEF S
    <3> QED
      BY <2>1, AboveWithin
  <2> QED
    BY <2>2
<1>4. Root \in Above(q)
  <2> SUFFICES ASSUME Root \notin Above(q)
               PROVE  FALSE
    OBVIOUS
  <2> DEFINE T == {Depth[x] : x \in Above(q)}
  <2>1. T \in SUBSET Nat /\ T # {}
    BY <1>1, DepthIs
  <2> HIDE DEF T
  <2>2. PICK m \in T : \A j \in T : m <= j
    BY <2>1, Smallest
  <2> USE DEF T
  <2>3. PICK x \in Above(q) : m = Depth[x]
    BY <2>2
  <2>4. x \in Caches \ {Root} /\ Parent[x] \in Above(q) /\ Parent[x] \in Caches
    BY <1>1, <1>2, <2>3, CoherenceAssumption
  <2>5. Depth[x] = Depth[Parent[x]] + 1 /\ Depth[Parent[x]] \in Nat /\ Depth[Parent[x]] \in T
    BY <2>4, DepthIs
  <2> HIDE DEF T
  <2>6. m <= Depth[Parent[x]]
    BY <2>2, <2>5
  <2> QED
    BY <2>3, <2>5, <2>6
<1> QED
  BY <1>1, <1>2, <1>3, <1>4

\* Two caches of which neither is above the other have a cache above both
\* whose child above the one is not its child above the other.
LEMMA Meeting ==
    ASSUME NEW p \in Leaves, NEW q \in Leaves, p # q
    PROVE  \E x \in Above(p) \ {Root}, y \in Above(q) \ {Root} : x # y /\ Parent[x] = Parent[y]
<1> DEFINE B == Above(p) \cap Above(q)
           T == {Depth[x] : x \in B}
<1>0. p \in Caches /\ q \in Caches
  BY CoherenceAssumption
<1>1. B \subseteq Caches /\ Root \in B
  BY <1>0, AboveIs
<1>2. T \in SUBSET (0..Cardinality(Caches)) /\ T # {} /\ Cardinality(Caches) \in Nat
  BY <1>1, DepthBounded
<1> HIDE DEF T
<1>3. PICK m \in T : \A j \in T : j <= m
  BY <1>2, Largest
<1> USE DEF T
<1>4. PICK c \in B : m = Depth[c]
  BY <1>3
<1>5. ASSUME NEW a \in Leaves, NEW z \in Leaves, a # z, c \in Above(a), c \in Above(z)
      PROVE  c # a
  <2> SUFFICES ASSUME c = a
               PROVE  FALSE
    OBVIOUS
  <2>1. z \in Caches
    BY CoherenceAssumption
  <2>2. PICK x \in Above(z) \ {Root} : Parent[x] = c
    BY <1>5, <2>1, AboveIs
  <2>3. x \in Caches \ {Root}
    BY <2>1, AboveIs
  <2> QED
    BY <2>2, <2>3, CoherenceAssumption
<1>6. c # p /\ c # q
  BY <1>4, <1>5
<1>7. PICK x \in Above(p) \ {Root} : Parent[x] = c
  BY <1>0, <1>4, <1>6, AboveIs
<1>8. PICK y \in Above(q) \ {Root} : Parent[y] = c
  BY <1>0, <1>4, <1>6, AboveIs
<1>9. x # y
  <2> SUFFICES ASSUME x = y
               PROVE  FALSE
    OBVIOUS
  <2>1. x \in B /\ x \in Caches \ {Root}
    BY <1>1, <1>7, <1>8
  <2>2. Depth[x] \in T /\ Depth[x] = Depth[c] + 1 /\ Depth[c] \in Nat
    BY <1>1, <1>4, <1>7, <2>1, DepthIs
  <2> HIDE DEF T
  <2>3. Depth[x] <= m
    BY <1>3, <2>2
  <2> QED
    BY <1>4, <2>2, <2>3
<1> QED
  BY <1>7, <1>8, <1>9

\* Two cores meet at a cache whose directory would list both ways down.
LEMMA InvariantOneWriter ==
    ASSUME IInv
    PROVE  SingleWriter
<1> SUFFICES ASSUME NEW p \in Leaves, NEW q \in Leaves, NEW l \in Lines, p # q,
                    StateIn(p, l) \in {"E", "M"}, StateIn(q, l) # "I"
             PROVE  FALSE
  BY DEF SingleWriter
<1>1. Tags(array) /\ Included(array) /\ Directories(array, stack)
  BY DEF IInv, Data
<1>2. StateOf(array, p, l) \in {"E", "M"} /\ StateOf(array, q, l) # "I"
  BY HelpersAre
<1>3. p \in Caches /\ q \in Caches
  BY CoherenceAssumption
<1>4. \A c \in Above(p) : StateOf(array, c, l) \in {"E", "M"}
  <2> DEFINE S == {c \in Caches : StateOf(array, c, l) \in {"E", "M"}}
  <2>1. S \in SUBSET Caches /\ p \in S /\ \A x \in S \ {Root} : Parent[x] \in S
    BY <1>1, <1>2, <1>3, CoherenceAssumption DEF Included
  <2> HIDE DEF S
  <2>2. Above(p) \subseteq S
    BY <2>1, AboveWithin
  <2> QED
    BY <2>2 DEF S
<1>5. \A c \in Above(q) : StateOf(array, c, l) # "I"
  <2> DEFINE S == {c \in Caches : StateOf(array, c, l) # "I"}
  <2>1. S \in SUBSET Caches /\ q \in S /\ \A x \in S \ {Root} : Parent[x] \in S
    BY <1>1, <1>2, <1>3, CoherenceAssumption DEF Included
  <2> HIDE DEF S
  <2>2. Above(q) \subseteq S
    BY <2>1, AboveWithin
  <2> QED
    BY <2>2 DEF S
<1>6. PICK x \in Above(p) \ {Root}, y \in Above(q) \ {Root} : x # y /\ Parent[x] = Parent[y]
  BY Meeting
<1>7. /\ x \in Caches \ {Root} /\ y \in Caches \ {Root} /\ Parent[x] \in Above(p)
      /\ Parent[x] \in Caches
  BY <1>3, <1>6, AboveIs, CoherenceAssumption
<1>8. PICK w \in Ways[Parent[x]] : array[Parent[x]][w].tag = l
  <2>1. StateOf(array, Parent[x], l) # "I"
    BY <1>4, <1>7
  <2> QED
    BY <2>1, Present
<1>9. x \in Children(Parent[x]) /\ y \in Children(Parent[x])
  BY <1>6, <1>7 DEF Children
<1>10. l # None
  BY CoherenceAssumption
<1> DEFINE e == array[Parent[x]][w]
<1>11. Listed(array, stack, Parent[x], w, x) /\ Listed(array, stack, Parent[x], w, y)
  BY <1>1, <1>7, <1>8, <1>9 DEF Directories
<1>12. /\ Shows(e, x, StateOf(array, x, l), Owed(stack, Parent[x], w, x))
       /\ Shows(e, y, StateOf(array, y, l), Owed(stack, Parent[x], w, y))
  BY <1>8, <1>10, <1>11 DEF Listed
<1>13. StateOf(array, x, l) \in {"E", "M"} /\ StateOf(array, y, l) # "I"
  BY <1>4, <1>5, <1>6
<1> HIDE DEF e
<1> QED
  BY <1>6, <1>12, <1>13 DEF Shows

\* Of the cores' own caches, one at most has a line if one may write it.
THEOREM OnlyOneWrites == Spec => []SingleWriter
<1>1. IInv => SingleWriter
  BY InvariantOneWriter
<1> QED
  BY <1>1, Invariant, PTL

-----------------------------------------------------------------------------
(* The order of the locks                                                  *)

\* Thread p waits for the tcc lock of c.
WaitsTcc(p, c) == Busy(p) /\ Top(p).pc = "tcc" /\ c = Top(p).at

\* Thread p waits for the bcc lock of c, its own call's or the child's it returns to.
WaitsBcc(p, c) ==
    /\ Busy(p)
    /\ \/ Top(p).pc = "bcc" /\ c = Top(p).at
       \/ Top(p).pc = "end" /\ Top(p).from # None /\ c = Top(p).from

\* Who waits for a thread waits for one lock that the thread holds.
LEMMA WaitsAre ==
    ASSUME IInv, NEW p \in Leaves, NEW q \in Leaves, WaitsFor(p) = q
    PROVE  \E c \in Caches :
              \/ WaitsTcc(p, c) /\ c \notin Leaves /\ tcc[c] = q
              \/ WaitsBcc(p, c) /\ bcc[c] = q
<1>1. q # None
  BY CoherenceAssumption
<1>2. Busy(p)
  BY <1>1 DEF WaitsFor
<1> DEFINE f == Top(p)
<1>3. /\ f \in Frames /\ f.at \in Caches /\ Placed(f)
  BY <1>2, InCall
<1>4. f.from \in Caches \cup {None}
  BY <1>3 DEF Frames
<1>5. q = (CASE f.pc = "tcc" -> tcc[f.at]
             [] f.pc = "bcc" -> bcc[f.at]
             [] f.pc = "end" /\ f.from # None -> bcc[f.from]
             [] OTHER -> None)
  BY <1>2 DEF WaitsFor
<1>f. f = Top(p)
  OBVIOUS
<1> HIDE DEF f
<1>6. CASE f.pc = "tcc"
  <2>1. q = tcc[f.at]
    BY <1>5, <1>6
  <2>2. f.at \notin Leaves
    BY <1>3, <1>6 DEF Placed
  <2> QED
    BY <1>2, <1>3, <1>6, <1>f, <2>1, <2>2 DEF WaitsTcc
<1>7. CASE f.pc = "bcc"
  <2>1. q = bcc[f.at]
    BY <1>5, <1>7
  <2> QED
    BY <1>2, <1>3, <1>7, <1>f, <2>1 DEF WaitsBcc
<1>8. CASE f.pc = "end" /\ f.from # None
  <2>1. q = bcc[f.from]
    BY <1>5, <1>8
  <2> QED
    BY <1>2, <1>4, <1>8, <1>f, <2>1 DEF WaitsBcc
<1>9. CASE f.pc # "tcc" /\ f.pc # "bcc" /\ ~(f.pc = "end" /\ f.from # None)
  BY <1>1, <1>5, <1>9
<1> QED
  BY <1>6, <1>7, <1>8, <1>9

\* Who holds a bcc lock and waits, waits for one further from memory.
LEMMA BccOrder ==
    ASSUME IInv, NEW q \in Leaves, NEW c \in Caches, bcc[c] = q, NEW c2 \in Caches,
           WaitsTcc(q, c2) \/ WaitsBcc(q, c2)
    PROVE  WaitsBcc(q, c2) /\ Depth[c2] > Depth[c]
<1> DEFINE s == stack[q]
           n == Len(s)
           f == Top(q)
<1>1. Threads(stack, bcc, tcc) /\ Busy(q) /\ f.pc \in {"tcc", "bcc", "end"}
  BY DEF IInv, WaitsTcc, WaitsBcc
<1>2. /\ n \in Nat \ {0} /\ f = s[n] /\ f.at \in Caches /\ Placed(f)
      /\ n = 1 => f.from = None
      /\ n > 1 => Linked(s[n - 1], f) /\ s[n - 1].at \in Caches
  BY <1>1, InCall
<1>3. s \in Seq(Frames) /\ Order(s)
  BY <1>1 DEF Threads, Shape
<1>4. c \in HeldBcc(s)
  BY <1>1 DEF Threads, Locked
<1>5. PICK i \in 1..n : s[i].at = c /\ HoldsBcc(s, i)
  BY <1>4 DEF HeldBcc
<1>f. f = Top(q)
  OBVIOUS
<1> HIDE DEF f, n
<1>6. CASE i = n
  <2>1. f.pc = "end"
    BY <1>1, <1>2, <1>5, <1>6 DEF HoldsBcc
  <2>2. f.from # None /\ c2 = f.from /\ WaitsBcc(q, c2)
    BY <1>f, <2>1 DEF WaitsTcc, WaitsBcc
  <2>3. n > 1
    BY <1>2, <2>2
  <2>4. f.op \notin Invs /\ Linked(s[n - 1], f)
    BY <1>2, <2>1, <2>3 DEF Placed
  <2>5. c2 \in Caches \ {Root} /\ f.at = Parent[c2]
    BY <1>2, <2>2, <2>3, <2>4 DEF Linked
  <2>6. Depth[c2] = Depth[c] + 1 /\ Depth[c] \in Nat
    BY <1>2, <1>5, <1>6, <2>5, DepthIs
  <2> QED
    BY <2>2, <2>6
<1>7. CASE i # n
  <2>1. n \in 1..n /\ i < n
    BY <1>2, <1>5, <1>7
  <2>2. f.op \in Invs /\ Depth[c] < Depth[f.at]
    BY <1>2, <1>3, <1>5, <2>1 DEF Order, n
  <2>3. f.pc = "bcc"
    BY <1>1, <1>2, <2>2 DEF Placed
  <2>4. c2 = f.at /\ WaitsBcc(q, c2)
    BY <1>f, <2>3 DEF WaitsTcc, WaitsBcc
  <2>5. Depth[c] \in Nat /\ Depth[f.at] \in Nat
    BY <1>2, DepthIs
  <2> QED
    BY <2>2, <2>4, <2>5
<1> QED
  BY <1>6, <1>7

\* Who holds a tcc lock and waits for another, waits for one nearer to memory.
LEMMA TccOrder ==
    ASSUME IInv, NEW q \in Leaves, NEW c \in Caches \ Leaves, tcc[c] = q, NEW c2 \in Caches,
           WaitsTcc(q, c2)
    PROVE  Depth[c2] < Depth[c]
<1> DEFINE s == stack[q]
           n == Len(s)
           f == Top(q)
<1>1. Threads(stack, bcc, tcc) /\ Busy(q) /\ f.pc = "tcc" /\ c2 = f.at
  BY DEF IInv, WaitsTcc
<1>2. n \in Nat \ {0} /\ f = s[n] /\ f.at \in Caches /\ Placed(f)
  BY <1>1, InCall
<1>3. s \in Seq(Frames) /\ Order(s)
  BY <1>1 DEF Threads, Shape
<1>4. c \in HeldTcc(s)
  BY <1>1 DEF Threads, Locked
<1>5. PICK i \in 1..n : s[i].at = c /\ HoldsTcc(s, i)
  BY <1>4 DEF HeldTcc
<1> HIDE DEF f, n
<1>6. i # n
  BY <1>1, <1>2, <1>5 DEF HoldsTcc
<1>7. n \in 1..n /\ i < n
  BY <1>2, <1>5, <1>6
<1>8. f.op \notin Invs
  BY <1>1, <1>2 DEF Placed
<1>9. Depth[c] > Depth[c2]
  BY <1>1, <1>2, <1>3, <1>5, <1>7, <1>8 DEF Order, n
<1>10. Depth[c] \in Nat /\ Depth[c2] \in Nat
  BY DepthIs
<1> QED
  BY <1>9, <1>10

\* Waits for bcc locks lead down the tree, those for tcc locks up, and from the first there is no way to the second.
LEMMA InvariantNoCycle ==
    ASSUME IInv
    PROVE  NoLockCycle
<1> SUFFICES ASSUME NEW T \in SUBSET Leaves, T # {}, \A p \in T : WaitsFor(p) \in T
             PROVE  FALSE
  BY DEF NoLockCycle
<1>1. \A p \in T : \E c \in Caches :
         \/ WaitsTcc(p, c) /\ c \notin Leaves /\ tcc[c] \in T
         \/ WaitsBcc(p, c) /\ bcc[c] \in T
  <2> TAKE p \in T
  <2>1. PICK q \in T : WaitsFor(p) = q
    OBVIOUS
  <2>2. p \in Leaves /\ q \in Leaves
    OBVIOUS
  <2> QED
    BY <2>1, <2>2, WaitsAre
<1>2. CASE \E p \in T : \E c \in Caches : WaitsBcc(p, c) /\ bcc[c] \in T
  <2> DEFINE B == {c \in Caches : bcc[c] \in T /\ \E p \in T : WaitsBcc(p, c)}
             D == {Depth[c] : c \in B}
  <2>1. D \in SUBSET (0..Cardinality(Caches)) /\ D # {} /\ Cardinality(Caches) \in Nat
    BY <1>2, DepthBounded
  <2> HIDE DEF D
  <2>2. PICK m \in D : \A j \in D : j <= m
    BY <2>1, Largest
  <2>3. PICK c \in B : m = Depth[c]
    BY <2>2 DEF D
  <2>4. PICK q \in T : bcc[c] = q /\ q \in Leaves
    BY <2>3
  <2>5. PICK c2 \in Caches : \/ WaitsTcc(q, c2) /\ c2 \notin Leaves /\ tcc[c2] \in T
                             \/ WaitsBcc(q, c2) /\ bcc[c2] \in T
    BY <1>1
  <2>6. WaitsBcc(q, c2) /\ Depth[c2] > Depth[c]
    BY <2>3, <2>4, <2>5, BccOrder
  <2>7. bcc[c2] \in T
    BY <2>5, <2>6 DEF WaitsTcc, WaitsBcc
  <2>8. Depth[c2] \in D
    BY <2>6, <2>7 DEF D
  <2>9. Depth[c2] \in Nat /\ Depth[c] \in Nat /\ Depth[c2] <= Depth[c]
    BY <2>2, <2>3, <2>8, DepthIs
  <2> QED
    BY <2>6, <2>9
<1>3. CASE \A p \in T : \A c \in Caches : ~(WaitsBcc(p, c) /\ bcc[c] \in T)
  <2> DEFINE B == {c \in Caches \ Leaves : tcc[c] \in T /\ \E p \in T : WaitsTcc(p, c)}
             D == {Depth[c] : c \in B}
  <2>1. D \in SUBSET Nat /\ D # {}
    BY <1>1, <1>3, DepthIs
  <2> HIDE DEF D
  <2>2. PICK m \in D : \A j \in D : m <= j
    BY <2>1, Smallest
  <2>3. PICK c \in B : m = Depth[c]
    BY <2>2 DEF D
  <2>4. PICK q \in T : tcc[c] = q /\ q \in Leaves
    BY <2>3
  <2>5. PICK c2 \in Caches : WaitsTcc(q, c2) /\ c2 \notin Leaves /\ tcc[c2] \in T
    BY <1>1, <1>3
  <2>6. Depth[c2] < Depth[c]
    BY <2>3, <2>4, <2>5, TccOrder
  <2>7. Depth[c2] \in D
    BY <2>5 DEF D
  <2>8. Depth[c2] \in Nat /\ Depth[c] \in Nat /\ Depth[c] <= Depth[c2]
    BY <2>2, <2>3, <2>7, DepthIs
  <2> QED
    BY <2>6, <2>8
<1> QED
  BY <1>2, <1>3

\* No set of threads waits for locks that its own members hold.
THEOREM LocksHaveNoCycle == Spec => []NoLockCycle
<1>1. IInv => NoLockCycle
  BY InvariantNoCycle
<1> QED
  BY <1>1, Invariant, PTL

-----------------------------------------------------------------------------
(* Recorded writes                                                         *)

\* From the stacks k to k2, a step of p keeps what all calls but its
\* innermost one have recorded.
Records(k, k2, p) ==
    \A q \in Leaves : \A i \in 1..Len(k[q]) :
        k[q][i].wb /\ ~(q = p /\ i = Len(k[p])) =>
            /\ i \in 1..Len(k2[q]) /\ k2[q][i].wb
            /\ k2[q][i].at = k[q][i].at /\ k2[q][i].way = k[q][i].way

\* The stacks but that of p are the same, and p is in a call.
Stays(k, k2, p) == k2[p] # <<>> /\ \A q \in Leaves : q # p => k2[q] = k[q]

\* A stack that keeps the calls below the innermost one keeps their records.
LEMMA RecordsKept ==
    ASSUME NEW k \in [Leaves -> Seq(Frames)], NEW p \in Leaves, k[p] # <<>>, NEW s2,
           \A i \in 1..(Len(k[p]) - 1) : k[p][i].wb =>
              /\ i \in 1..Len(s2) /\ s2[i].wb
              /\ s2[i].at = k[p][i].at /\ s2[i].way = k[p][i].way
    PROVE  Records(k, [k EXCEPT ![p] = s2], p)
<1> DEFINE k2 == [k EXCEPT ![p] = s2]
<1>1. k2[p] = s2 /\ \A q \in Leaves : q # p => k2[q] = k[q]
  OBVIOUS
<1> HIDE DEF k2
<1> SUFFICES ASSUME NEW q \in Leaves, NEW i \in 1..Len(k[q]), k[q][i].wb,
                    ~(q = p /\ i = Len(k[p]))
             PROVE  /\ i \in 1..Len(k2[q]) /\ k2[q][i].wb
                    /\ k2[q][i].at = k[q][i].at /\ k2[q][i].way = k[q][i].way
  BY DEF Records, k2
<1>2. CASE q # p
  BY <1>1, <1>2
<1>3. CASE q = p
  <2>1. Len(k[p]) \in Nat
    OBVIOUS
  <2>2. i \in 1..(Len(k[p]) - 1)
    BY <1>3, <2>1
  <2> QED
    BY <1>1, <1>3, <2>2
<1> QED
  BY <1>2, <1>3

\* Going on with the innermost call keeps what the others have recorded.
LEMMA GoesRecords ==
    ASSUME NEW k \in [Leaves -> Seq(Frames)], NEW p \in Leaves, k[p] # <<>>, NEW f,
           NEW k2, k2 = [k EXCEPT ![p] = Append(Front(@), f)]
    PROVE  Records(k, k2, p) /\ Stays(k, k2, p)
<1> DEFINE s == k[p]
           s2 == Append(Front(s), f)
           n == Len(s)
<1>1. s \in Seq(Frames \cup {f}) /\ s # <<>>
  <2>1. s \in Seq(Frames)
    OBVIOUS
  <2> QED
    BY <2>1
<1> HIDE DEF s
<1>2. s2 \in Seq(Frames \cup {f}) /\ Retopped(s, s2, f) /\ n \in Nat \ {0}
  BY <1>1, GoesIs, FrontIs
<1> HIDE DEF s2
<1>3. Len(s2) = n /\ \A i \in 1..n : s2[i] = IF i = n THEN f ELSE s[i]
  BY <1>2 DEF Retopped
<1>4. s2 # <<>>
  BY <1>2, <1>3
<1>5. \A i \in 1..(n - 1) : i \in 1..Len(s2) /\ s2[i] = s[i]
  <2> HIDE DEF n
  <2> QED
    BY <1>2, <1>3
<1>6. k2 = [k EXCEPT ![p] = s2]
  BY DEF s2, s
<1>7. Records(k, k2, p)
  <2>1. \A i \in 1..(Len(k[p]) - 1) : k[p][i].wb =>
           /\ i \in 1..Len(s2) /\ s2[i].wb
           /\ s2[i].at = k[p][i].at /\ s2[i].way = k[p][i].way
    BY <1>5 DEF s, n
  <2>2. Records(k, [k EXCEPT ![p] = s2], p)
    BY <2>1, RecordsKept
  <2> QED
    BY ONLY <1>6, <2>2, Zenon
<1> QED
  BY <1>4, <1>6, <1>7 DEF Stays

\* From the stacks k to k2, p has made a call from f.
Called(k, k2, p, f) ==
    /\ Records(k, k2, p) /\ Stays(k, k2, p)
    /\ Len(k[p]) \in 1..Len(k2[p]) /\ k2[p][Len(k[p])] = f

\* A call made from the innermost one keeps what the others have recorded.
LEMMA CallsRecords ==
    ASSUME NEW k \in [Leaves -> Seq(Frames)], NEW p \in Leaves, k[p] # <<>>, NEW f, NEW g,
           NEW k2, k2 = [k EXCEPT ![p] = Append(Append(Front(@), f), g)]
    PROVE  Called(k, k2, p, f)
<1> DEFINE s == k[p]
           s2 == Append(Append(Front(s), f), g)
           n == Len(s)
<1>1. s \in Seq(Frames \cup {f, g}) /\ s # <<>>
  <2>1. s \in Seq(Frames)
    OBVIOUS
  <2> QED
    BY <2>1
<1> HIDE DEF s
<1>2. s2 \in Seq(Frames \cup {f, g}) /\ Pushed(s, s2, f, g) /\ n \in Nat \ {0}
  BY <1>1, CallsIs, FrontIs
<1> HIDE DEF s2
<1>3. Len(s2) = n + 1 /\ \A i \in 1..n : s2[i] = IF i = n THEN f ELSE s[i]
  BY <1>2 DEF Pushed
<1>4. s2 # <<>>
  BY <1>2, <1>3
<1>5. /\ \A i \in 1..(n - 1) : i \in 1..Len(s2) /\ s2[i] = s[i]
      /\ n \in 1..Len(s2) /\ s2[n] = f
  <2> HIDE DEF n
  <2> QED
    BY <1>2, <1>3
<1>6. k2 = [k EXCEPT ![p] = s2]
  BY DEF s2, s
<1>7. Records(k, k2, p)
  <2>1. \A i \in 1..(Len(k[p]) - 1) : k[p][i].wb =>
           /\ i \in 1..Len(s2) /\ s2[i].wb
           /\ s2[i].at = k[p][i].at /\ s2[i].way = k[p][i].way
    BY <1>5 DEF s, n
  <2>2. Records(k, [k EXCEPT ![p] = s2], p)
    BY <2>1, RecordsKept
  <2> QED
    BY ONLY <1>6, <2>2, Zenon
<1> QED
  BY <1>4, <1>5, <1>6, <1>7 DEF Stays, s, n, Called

\* A return keeps what the calls that stay have recorded.
LEMMA ReturnsRecords ==
    ASSUME NEW k \in [Leaves -> Seq(Frames)], NEW p \in Leaves, k[p] # <<>>,
           NEW k2, k2 = [k EXCEPT ![p] = Front(@)]
    PROVE  /\ Records(k, k2, p)
           /\ Len(k[p]) > 1 => Stays(k, k2, p)
           /\ \A q \in Leaves : q # p => k2[q] = k[q]
<1> DEFINE s == k[p]
           s2 == Front(s)
           n == Len(s)
<1>1. s \in Seq(Frames) /\ s # <<>>
  OBVIOUS
<1> HIDE DEF s
<1>2. /\ s2 \in Seq(Frames) /\ Len(s2) = n - 1 /\ n \in Nat \ {0}
      /\ \A i \in 1..(n - 1) : s2[i] = s[i]
  BY <1>1, FrontIs
<1> HIDE DEF s2
<1>3. n > 1 => s2 # <<>>
  BY <1>2
<1>4. k2 = [k EXCEPT ![p] = s2]
  BY DEF s2, s
<1>5. Records(k, k2, p)
  <2>1. \A i \in 1..(Len(k[p]) - 1) : k[p][i].wb =>
           /\ i \in 1..Len(s2) /\ s2[i].wb
           /\ s2[i].at = k[p][i].at /\ s2[i].way = k[p][i].way
    BY <1>2 DEF s, n
  <2>2. Records(k, [k EXCEPT ![p] = s2], p)
    BY <2>1, RecordsKept
  <2> QED
    BY ONLY <1>4, <2>2, Zenon
<1> QED
  BY <1>3, <1>4, <1>5 DEF Stays, s, n

\* Only in cache c may the tags change from a to a2.
TagsStay(a, a2, c) ==
    \A b \in Caches : b # c => \A w \in Ways[b] : a2[b][w].tag = a[b][w].tag

\* Tags change only where the innermost call of p, if any, holds the bcc lock.
WorksIn(p, c) == c # None => Busy(p) /\ Top(p).pc \notin {"tcc", "bcc"} /\ c = Top(p).at

\* What a call other than the innermost one of p has recorded is there after p's step.
LEMMA RecordKept ==
    ASSUME IInv, NEW p \in Leaves, Records(stack, stack', p),
           NEW c, TagsStay(array, array', c), WorksIn(p, c),
           NEW q \in Leaves, NEW i \in 1..Len(stack[q]), stack[q][i].wb,
           ~(q = p /\ i = Len(stack[p]))
    PROVE  Modified(array', stack', Entry(array, stack[q][i]).tag)
<1> DEFINE r == stack[q][i]
<1>1. Threads(stack, bcc, tcc) /\ Calling(array, stack)
  BY DEF IInv, Data
<1>2. r \in Frames /\ r.at \in Caches
  BY <1>1, Neighbours
<1>3. Own(array, r, HoldsBcc(stack[q], i))
  BY <1>1, CallIs
<1>4. HoldsBcc(stack[q], i) /\ r.pc \in {"evict", "grant"} /\ r.way \in Ways[r.at]
  BY <1>3 DEF Own, Chosen
<1>5. r.at # c
  <2> SUFFICES ASSUME r.at = c
               PROVE  FALSE
    OBVIOUS
  <2>1. c # None
    BY <1>2, CoherenceAssumption
  <2>2. Busy(p) /\ Top(p).pc \notin {"tcc", "bcc"} /\ r.at = Top(p).at
    BY <2>1 DEF WorksIn
  <2>3. /\ Len(stack[p]) \in 1..Len(stack[p]) /\ Top(p) = stack[p][Len(stack[p])]
        /\ HoldsBcc(stack[p], Len(stack[p]))
    BY <2>2, InCall
  <2>4. stack[q][i].at = stack[p][Len(stack[p])].at
    BY <2>2, <2>3
  <2>5. q = p /\ i = Len(stack[p])
    BY <1>1, <1>4, <2>3, <2>4, OneHolder
  <2> QED
    BY <2>5
<1>6. array'[r.at][r.way].tag = array[r.at][r.way].tag
  BY <1>2, <1>4, <1>5 DEF TagsStay
<1>7. /\ i \in 1..Len(stack'[q]) /\ stack'[q][i].wb
      /\ stack'[q][i].at = r.at /\ stack'[q][i].way = r.way
  BY DEF Records
<1> HIDE DEF r
<1>8. Entry(array', stack'[q][i]).tag = Entry(array, r).tag
  BY <1>6, <1>7 DEF Entry
<1> QED
  BY <1>7, <1>8 DEF Modified, r

\* A line that was modified is so after p's step, if what p itself works on is.
LEMMA ModifiedKept ==
    ASSUME IInv, NEW p \in Leaves, Records(stack, stack', p),
           NEW c, TagsStay(array, array', c), WorksIn(p, c),
           NEW l \in Lines, Modified(array, stack, l),
           \A b \in Caches : StateOf(array, b, l) = "M" => Modified(array', stack', l),
           Busy(p) /\ Top(p).wb /\ Entry(array, Top(p)).tag = l => Modified(array', stack', l)
    PROVE  Modified(array', stack', l)
<1>1. CASE \E b \in Caches : StateOf(array, b, l) = "M"
  BY <1>1
<1>2. CASE \E q \in Leaves : \E i \in 1..Len(stack[q]) :
              stack[q][i].wb /\ Entry(array, stack[q][i]).tag = l
  <2>1. PICK q \in Leaves : \E i \in 1..Len(stack[q]) :
              stack[q][i].wb /\ Entry(array, stack[q][i]).tag = l
    BY <1>2
  <2>2. PICK i \in 1..Len(stack[q]) : stack[q][i].wb /\ Entry(array, stack[q][i]).tag = l
    BY <2>1
  <2>3. CASE ~(q = p /\ i = Len(stack[p]))
    BY <2>2, <2>3, RecordKept
  <2>4. CASE q = p /\ i = Len(stack[p])
    <3>1. stack[p] \in Seq(Frames)
      BY DEF IInv, Threads
    <3>2. Busy(p) /\ Top(p) = stack[p][i]
      BY <2>2, <2>4, <3>1 DEF Busy, Top, Last
    <3> QED
      BY <2>2, <2>4, <3>2
  <2> QED
    BY <2>3, <2>4
<1> QED
  BY <1>1, <1>2 DEF Modified

-----------------------------------------------------------------------------
(* Steps that leave the filters alone                                      *)

\* The step of p loses no write: what it cleans is elsewhere, or in memory.
LosesNone(p) ==
    \A l \in Lines : dirty'[l] =>
        /\ dirty[l]
        /\ \A b \in Caches : StateOf(array, b, l) = "M" => Modified(array', stack', l)
        /\ Busy(p) /\ Top(p).wb /\ Entry(array, Top(p)).tag = l => Modified(array', stack', l)

\* A step of p that leaves the other cores' lines alone keeps the invariant.
LEMMA QuietKeeps ==
    ASSUME IInv, FilterInv, NEW p \in Leaves, Records(stack, stack', p), Stays(stack, stack', p),
           NEW c, TagsStay(array, array', c), WorksIn(p, c), filter' = filter, LosesNone(p),
           \A q \in Leaves, l \in Lines : q # p => StateOf(array', q, l) = StateOf(array, q, l)
    PROVE  FilterInv'
<1>1. ASSUME NEW l \in Lines, dirty'[l]
      PROVE  Modified(array', stack', l)
  <2>1. Modified(array, stack, l)
    BY <1>1 DEF LosesNone, FilterInv
  <2>2. /\ \A b \in Caches : StateOf(array, b, l) = "M" => Modified(array', stack', l)
        /\ Busy(p) /\ Top(p).wb /\ Entry(array, Top(p)).tag = l => Modified(array', stack', l)
    BY <1>1 DEF LosesNone
  <2> QED
    BY <2>1, <2>2, ModifiedKept
<1>2. ASSUME NEW q \in Leaves
      PROVE  Filtered(array', q, stack'[q], filter'[q])
  <2>1. Filtered(array, q, stack[q], filter[q])
    BY DEF FilterInv
  <2>2. filter[q].rd \in Lines \cup {None} /\ filter[q].wr \in Lines \cup {None}
    BY DEF IInv, Kinds
  <2>3. CASE q = p
    BY <2>1, <2>3 DEF Stays, Filtered
  <2>4. CASE q # p
    BY <2>1, <2>2, <2>4 DEF Stays, Filtered
  <2> QED
    BY <2>3, <2>4
<1> QED
  BY <1>1, <1>2 DEF FilterInv

\* Only a call that made an invalidation has recorded a write.
LEMMA NothingRecorded ==
    ASSUME IInv, NEW p \in Leaves, Busy(p),
           Top(p).pc \notin {"evict", "grant"} \/ Top(p).at \in Leaves
    PROVE  ~Top(p).wb
<1>1. Own(array, Top(p), Top(p).pc \notin {"tcc", "bcc"})
  BY InCall
<1> QED
  BY <1>1 DEF Own

\* A step that leaves the lines alone, and its innermost call or what that has recorded.
LEMMA SameLinesKeep ==
    ASSUME IInv, FilterInv, NEW p \in Leaves, Records(stack, stack', p), Stays(stack, stack', p),
           array' = array, filter' = filter, dirty' = dirty,
           Busy(p) /\ Top(p).wb =>
              Len(stack[p]) \in 1..Len(stack'[p]) /\ stack'[p][Len(stack[p])] = Top(p)
    PROVE  FilterInv'
<1>1. TagsStay(array, array', None) /\ WorksIn(p, None)
  BY DEF TagsStay, WorksIn
<1>2. LosesNone(p)
  <2> SUFFICES ASSUME NEW l \in Lines, dirty'[l]
               PROVE  /\ dirty[l]
                      /\ \A b \in Caches : StateOf(array, b, l) = "M" => Modified(array', stack', l)
                      /\ Busy(p) /\ Top(p).wb /\ Entry(array, Top(p)).tag = l
                           => Modified(array', stack', l)
    BY DEF LosesNone
  <2>1. ASSUME NEW b \in Caches, StateOf(array, b, l) = "M"
        PROVE  Modified(array', stack', l)
    BY <2>1 DEF Modified
  <2>2. ASSUME Busy(p), Top(p).wb, Entry(array, Top(p)).tag = l
        PROVE  Modified(array', stack', l)
    BY <2>2 DEF Modified
  <2> QED
    BY <2>1, <2>2
<1> QED
  BY <1>1, <1>2, QuietKeeps

\* A step that only goes on with a call that has recorded nothing.
LEMMA GoesQuietly ==
    ASSUME IInv, FilterInv, NEW p \in Leaves, Busy(p), NEW f, Goes(p, f), ~Top(p).wb,
           array' = array, filter' = filter, dirty' = dirty
    PROVE  FilterInv'
<1>1. stack \in [Leaves -> Seq(Frames)] /\ stack[p] # <<>>
  BY DEF IInv, Threads, Busy
<1>2. stack' = [stack EXCEPT ![p] = Append(Front(@), f)]
  BY DEF Goes
<1>3. Records(stack, stack', p) /\ Stays(stack, stack', p)
  BY <1>1, <1>2, GoesRecords
<1> QED
  BY <1>3, SameLinesKeep

\* A step that only makes a call.
LEMMA CallsQuietly ==
    ASSUME IInv, FilterInv, NEW p \in Leaves, Busy(p), NEW f, NEW g, Calls(p, f, g),
           f = Top(p) \/ ~Top(p).wb,
           array' = array, filter' = filter, dirty' = dirty
    PROVE  FilterInv'
<1>1. stack \in [Leaves -> Seq(Frames)] /\ stack[p] # <<>>
  BY DEF IInv, Threads, Busy
<1>2. stack' = [stack EXCEPT ![p] = Append(Append(Front(@), f), g)]
  BY DEF Calls
<1>3. Called(stack, stack', p, f)
  BY <1>1, <1>2, CallsRecords
<1> QED
  BY <1>3, SameLinesKeep DEF Called

\* Taking a tcc lock changes no line and no filter.
LEMMA LockTccFilters ==
    ASSUME IInv, FilterInv, NEW p \in Leaves, LockTcc(p)
    PROVE  FilterInv'
<1>1. Busy(p) /\ Top(p).pc = "tcc" /\ array' = array /\ filter' = filter /\ dirty' = dirty
  BY DEF LockTcc, At
<1>2. PICK f : Goes(p, f)
  BY DEF LockTcc
<1>3. ~Top(p).wb
  BY <1>1, NothingRecorded
<1> QED
  BY <1>1, <1>2, <1>3, GoesQuietly

\* LockBcc changes no line.
LEMMA LockBccFilters ==
    ASSUME IInv, FilterInv, NEW p \in Leaves, LockBcc(p)
    PROVE  FilterInv'
<1>1. Busy(p) /\ Top(p).pc = "bcc" /\ array' = array /\ filter' = filter /\ dirty' = dirty
  BY DEF LockBcc, At
<1>2. PICK f : Goes(p, f)
  BY DEF LockBcc
<1>3. ~Top(p).wb
  BY <1>1, NothingRecorded
<1> QED
  BY <1>1, <1>2, <1>3, GoesQuietly

\* LockInv changes no line.
LEMMA LockInvFilters ==
    ASSUME IInv, FilterInv, NEW p \in Leaves, LockInv(p)
    PROVE  FilterInv'
<1>1. Busy(p) /\ Top(p).pc = "bcc" /\ array' = array /\ filter' = filter /\ dirty' = dirty
  BY DEF LockInv, At
<1>2. (\E f : Goes(p, f)) \/ stack' = stack
  BY DEF LockInv
<1>3. ~Top(p).wb
  BY <1>1, NothingRecorded
<1>4. CASE \E f : Goes(p, f)
  BY <1>1, <1>3, <1>4, GoesQuietly
<1>5. CASE stack' = stack
  BY <1>1, <1>5 DEF FilterInv
<1> QED
  BY <1>2, <1>4, <1>5

\* EvictChild, which only sends an invalidation, changes no line.
LEMMA EvictChildFilters ==
    ASSUME IInv, FilterInv, NEW p \in Leaves, EvictChild(p)
    PROVE  FilterInv'
<1>1. Busy(p) /\ array' = array /\ filter' = filter /\ dirty' = dirty
  BY DEF EvictChild, At
<1>2. PICK g : Calls(p, Top(p), g)
  BY DEF EvictChild
<1> QED
  BY <1>1, <1>2, CallsQuietly

\* SendInvalidate changes no line.
LEMMA SendInvalidateFilters ==
    ASSUME IInv, FilterInv, NEW p \in Leaves, SendInvalidate(p)
    PROVE  FilterInv'
<1>1. Busy(p) /\ array' = array /\ filter' = filter /\ dirty' = dirty
  BY DEF SendInvalidate, At
<1>2. PICK g : Calls(p, Top(p), g)
  BY DEF SendInvalidate
<1> QED
  BY <1>1, <1>2, CallsQuietly

\* MissToParent changes no line.
LEMMA MissToParentFilters ==
    ASSUME IInv, FilterInv, NEW p \in Leaves, MissToParent(p)
    PROVE  FilterInv'
<1>1. Busy(p) /\ Top(p).pc = "access" /\ array' = array /\ filter' = filter /\ dirty' = dirty
  BY DEF MissToParent, At
<1>2. PICK f, g : Calls(p, f, g)
  BY DEF MissToParent
<1>3. ~Top(p).wb
  BY <1>1, NothingRecorded
<1> QED
  BY <1>1, <1>2, <1>3, CallsQuietly

\* The grant of an L1 to its core changes no line.
LEMMA LeafGrantFilters ==
    ASSUME IInv, FilterInv, NEW p \in Leaves, Grant(p), Top(p).at \in Leaves
    PROVE  FilterInv'
<1>1. Busy(p) /\ array' = array /\ filter' = filter /\ dirty' = dirty
  BY DEF Grant, At
<1>2. PICK f : Goes(p, f)
  BY DEF Grant
<1>3. ~Top(p).wb
  BY <1>1, NothingRecorded
<1> QED
  BY <1>1, <1>2, <1>3, GoesQuietly

\* The end of an access of a cache's child changes no line.
LEMMA EndAccessFilters ==
    ASSUME IInv, FilterInv, NEW p \in Leaves, EndAccess(p)
    PROVE  FilterInv'
<1>1. /\ Busy(p) /\ Top(p).pc = "end" /\ Top(p).at \notin Leaves
      /\ array' = array /\ filter' = filter /\ dirty' = dirty
      /\ stack' = [stack EXCEPT ![p] = Front(@)]
  BY DEF EndAccess, At, Returns
<1>2. stack \in [Leaves -> Seq(Frames)] /\ stack[p] # <<>>
  BY <1>1 DEF IInv, Threads, Busy
<1>3. Len(stack[p]) > 1
  <2> DEFINE n == Len(stack[p])
  <2>1. n \in Nat \ {0} /\ (n = 1 => Top(p).at = p)
    BY <1>1, InCall
  <2> HIDE DEF n
  <2>2. n > 1
    BY <1>1, <2>1
  <2> QED
    BY <2>2 DEF n
<1>4. Records(stack, stack', p) /\ Stays(stack, stack', p)
  <2>1. stack' = [stack EXCEPT ![p] = Front(stack[p])]
    BY <1>1
  <2> QED
    BY ONLY <1>2, <1>3, <2>1, ReturnsRecords, p \in Leaves
<1>5. ~Top(p).wb
  BY <1>1, NothingRecorded
<1> QED
  BY <1>1, <1>4, <1>5, SameLinesKeep

-----------------------------------------------------------------------------
(* The core                                                                *)

\* A core that begins an access records nothing and loses nothing.
LEMMA BeginsQuietly ==
    ASSUME IInv, FilterInv, NEW p \in Leaves, ~Busy(p), NEW f,
           stack' = [stack EXCEPT ![p] = <<f>>],
           array' = array, filter' = filter, dirty' = dirty
    PROVE  FilterInv'
<1>1. stack \in [Leaves -> Seq(Frames)] /\ stack[p] = <<>>
  BY DEF IInv, Threads, Busy
<1>2. Stays(stack, stack', p)
  BY <1>1 DEF Stays
<1>3. Records(stack, stack', p)
  <2> SUFFICES ASSUME NEW q \in Leaves, NEW i \in 1..Len(stack[q]), stack[q][i].wb,
                      ~(q = p /\ i = Len(stack[p]))
               PROVE  /\ i \in 1..Len(stack'[q]) /\ stack'[q][i].wb
                      /\ stack'[q][i].at = stack[q][i].at /\ stack'[q][i].way = stack[q][i].way
    BY DEF Records
  <2>1. q # p
    BY <1>1
  <2> QED
    BY <1>1, <2>1
<1> QED
  BY <1>2, <1>3, SameLinesKeep

\* A load or a store that misses in the filter asks the L1; a store that hits
\* writes a line the L1 has modified.
LEMMA IssueFilters ==
    ASSUME IInv, FilterInv, NEW p \in Leaves, Issue(p)
    PROVE  FilterInv'
<1> PICK l \in Lines : Load(p, l) \/ Store(p, l)
  BY DEF Issue
<1>1. CASE Load(p, l)
  BY <1>1, BeginsQuietly DEF Load
<1>2. CASE Store(p, l) /\ filter[p].wr # l
  BY <1>2, BeginsQuietly DEF Store
<1>3. CASE Store(p, l) /\ filter[p].wr = l
  <2>1. /\ stack' = stack /\ array' = array /\ filter' = filter /\ stack[p] = <<>>
        /\ dirty' = [dirty EXCEPT ![l] = TRUE]
    BY <1>3 DEF Store, Busy
  <2>3. StateOf(array, p, l) = "M"
    <3>1. Filtered(array, p, stack[p], filter[p]) /\ l # None
      BY CoherenceAssumption DEF FilterInv
    <3> QED
      BY <1>3, <2>1, <3>1 DEF Filtered
  <2>4. ASSUME NEW m \in Lines, dirty'[m]
        PROVE  Modified(array', stack', m)
    <3>1. CASE m = l
      <4>1. p \in Caches
        BY CoherenceAssumption
      <4> QED
        BY <2>1, <2>3, <3>1, <4>1 DEF Modified
    <3>2. CASE m # l
      <4>1. dirty[m]
        BY <2>1, <2>4, <3>2
      <4>2. Modified(array, stack, m)
        BY <4>1 DEF FilterInv
      <4> QED
        BY <2>1, <4>2
    <3> QED
      BY <3>1, <3>2
  <2> QED
    BY <2>1, <2>4 DEF FilterInv
<1> QED
  BY <1>1, <1>2, <1>3

\* A context switch empties the filter.
LEMMA SwitchFilters ==
    ASSUME IInv, FilterInv, NEW p \in Leaves, ContextSwitch(p)
    PROVE  FilterInv'
<1>1. /\ filter' = [filter EXCEPT ![p] = [rd |-> None, wr |-> None]]
      /\ array' = array /\ stack' = stack /\ dirty' = dirty
  BY DEF ContextSwitch
<1>2. \A q \in Leaves : Filtered(array', q, stack'[q], filter'[q])
  <2> TAKE q \in Leaves
  <2>1. Filtered(array, q, stack[q], filter[q])
    BY DEF FilterInv
  <2>2. filter'[q] = IF q = p THEN [rd |-> None, wr |-> None] ELSE filter[q]
    BY <1>1 DEF IInv, Kinds
  <2> QED
    BY <1>1, <2>1, <2>2 DEF Filtered
<1>3. \A l \in Lines : dirty'[l] => Modified(array', stack', l)
  BY <1>1 DEF FilterInv
<1> QED
  BY <1>2, <1>3 DEF FilterInv

\* An L1's access is its core's only call.
LEMMA AtLeafAlone ==
    ASSUME IInv, NEW p \in Leaves, Busy(p), Top(p).at \in Leaves, Top(p).op \notin Invs
    PROVE  Len(stack[p]) = 1 /\ Top(p).op \in Gets /\ Top(p).at = p
<1> DEFINE n == Len(stack[p])
           f == Top(p)
           h == stack[p][n - 1]
<1>1. /\ n \in Nat \ {0} /\ f \in Frames
      /\ n = 1 => f.op \in Gets /\ f.at = p
      /\ n > 1 => Linked(h, f) /\ h \in Frames /\ h.at \in Caches
  BY InCall
<1> HIDE DEF n, f, h
<1>2. f.at \in Leaves /\ f.op \notin Invs
  BY DEF f
<1>3. ~(n > 1)
  BY <1>1, <1>2, CoherenceAssumption DEF Linked, Gets, Puts, Invs
<1>4. n = 1
  BY <1>1, <1>3
<1> QED
  BY <1>1, <1>4 DEF n, f

\* The end of a core's access: its L1 has what the filter now answers.
LEMMA FillFilters ==
    ASSUME IInv, FilterInv, NEW p \in Leaves, Fill(p)
    PROVE  FilterInv'
<1> DEFINE f == Top(p)
           e == array[f.at][f.way]
<1>1. /\ Busy(p) /\ f.pc = "end" /\ f.at \in Leaves
      /\ filter' = [filter EXCEPT ![p] =
                       [rd |-> f.line, wr |-> IF f.op = "GETX" THEN f.line ELSE None]]
      /\ dirty' = [dirty EXCEPT ![f.line] = @ \/ f.op = "GETX"]
      /\ stack' = [stack EXCEPT ![p] = Front(@)]
      /\ array' = array
  BY DEF Fill, At, Returns
<1>2. /\ f \in Frames /\ f.at \in Caches /\ f.line \in Lines /\ Placed(f)
      /\ Own(array, f, f.pc \notin {"tcc", "bcc"})
      /\ stack \in [Leaves -> Seq(Frames)] /\ stack[p] # <<>>
  BY <1>1, InCall DEF IInv, Threads, Busy
<1>3. f.op \notin Invs
  BY <1>1, <1>2 DEF Placed
<1>4. f.op \in Gets /\ f.at = p
  BY <1>1, <1>3, AtLeafAlone
<1> HIDE DEF f
<1>5. /\ f.way \in Ways[p] /\ array[p][f.way].tag = f.line
      /\ f.op = "GETS" => array[p][f.way].st # "I"
      /\ f.op = "GETX" => array[p][f.way].st = "M"
  BY <1>1, <1>2, <1>4 DEF Own, Chosen, Entry
<1>6. f.line # None
  BY <1>2, CoherenceAssumption
<1>7. StateOf(array, p, f.line) = array[p][f.way].st
  <2>1. Tags(array) /\ p \in Caches
    BY <1>2, <1>4 DEF IInv, Data
  <2> QED
    BY <1>5, <1>6, <2>1, StateIs
<1>8. \A q \in Leaves : Filtered(array', q, stack'[q], filter'[q])
  <2> TAKE q \in Leaves
  <2>1. Filtered(array, q, stack[q], filter[q])
    BY DEF FilterInv
  <2>2. filter'[q] = IF q = p THEN [rd |-> f.line, wr |-> IF f.op = "GETX" THEN f.line ELSE None]
                     ELSE filter[q]
    BY <1>1 DEF IInv, Kinds
  <2>3. CASE q = p
    BY <1>1, <1>4, <1>5, <1>6, <1>7, <2>2, <2>3 DEF Filtered, Gets
  <2>4. CASE q # p
    <3>1. stack'[q] = stack[q]
      BY <1>1, <1>2, <2>4
    <3> QED
      BY <1>1, <2>1, <2>2, <2>4, <3>1
  <2> QED
    BY <2>3, <2>4
<1>9. ASSUME NEW l \in Lines, dirty'[l]
      PROVE  Modified(array', stack', l)
  <2>1. CASE l = f.line /\ f.op = "GETX"
    <3>1. StateOf(array', p, l) = "M" /\ p \in Caches
      BY <1>1, <1>2, <1>4, <1>5, <1>7, <2>1
    <3> QED
      BY <3>1 DEF Modified
  <2>2. CASE ~(l = f.line /\ f.op = "GETX")
    <3>1. dirty[l]
      BY <1>1, <1>9, <2>2 DEF IInv, Kinds
    <3>2. Modified(array, stack, l)
      BY <3>1 DEF FilterInv
    <3>3. Records(stack, stack', p)
      <4>1. stack' = [stack EXCEPT ![p] = Front(stack[p])]
        BY <1>1
      <4> QED
        BY ONLY <1>2, <4>1, ReturnsRecords, p \in Leaves
    <3>4. TagsStay(array, array', None) /\ WorksIn(p, None)
      BY <1>1 DEF TagsStay, WorksIn
    <3>5. ~Top(p).wb
      BY <1>1, NothingRecorded DEF f
    <3>6. \A b \in Caches : StateOf(array, b, l) = "M" => Modified(array', stack', l)
      BY <1>1 DEF Modified
    <3> QED
      BY <3>2, <3>3, <3>4, <3>5, <3>6, ModifiedKept
  <2> QED
    BY <2>1, <2>2
<1> QED
  BY <1>8, <1>9 DEF FilterInv

-----------------------------------------------------------------------------
(* Accesses that change a line                                             *)

\* An access changes no other core's L1.
LEMMA OthersLines ==
    ASSUME IInv, NEW p \in Leaves, Busy(p), Top(p).op \notin Invs, NEW q \in Leaves, q # p
    PROVE  q # Top(p).at
BY AtLeafAlone

\* One that gives its way the entry e, and a state that loses no write.
LEMMA RaisesQuietly ==
    ASSUME IInv, FilterInv, NEW p \in Leaves, Busy(p), Top(p).pc \in {"access", "grant"},
           NEW e \in Entries(Top(p).at), Top(p).way \in Ways[Top(p).at],
           array' = [array EXCEPT ![Top(p).at][Top(p).way] = e],
           e.tag = array[Top(p).at][Top(p).way].tag, e.tag # None,
           array[Top(p).at][Top(p).way].st = "M" => e.st = "M",
           Records(stack, stack', p), Stays(stack, stack', p),
           Top(p).wb => Len(stack[p]) \in 1..Len(stack'[p]) /\ stack'[p][Len(stack[p])] = Top(p),
           filter' = filter, dirty' = dirty
    PROVE  FilterInv'
<1> DEFINE f == Top(p)
<1>1. /\ f \in Frames /\ f.at \in Caches /\ Placed(f)
      /\ Typed(array) /\ Tags(array)
  BY InCall DEF IInv, Data
<1>2. f.op \notin Invs
  BY <1>1 DEF Placed
<1>3. Changed(array, array', f.at, f.way, e)
  BY <1>1, ChangedIs
<1>4. \A c \in Caches, l \in Lines :
         StateOf(array', c, l) = IF c = f.at /\ l = e.tag THEN e.st ELSE StateOf(array, c, l)
  BY <1>1, <1>3, Restated
<1>5. StateOf(array, f.at, e.tag) = array[f.at][f.way].st
  BY <1>1, StateIs
<1>6. array'[f.at][f.way].tag = array[f.at][f.way].tag /\ TagsStay(array, array', f.at)
  BY <1>1, <1>3, ChangedEntries DEF TagsStay, Changed
<1>7. WorksIn(p, f.at)
  BY DEF WorksIn
<1>8. \A q \in Leaves, l \in Lines : q # p => StateOf(array', q, l) = StateOf(array, q, l)
  <2> SUFFICES ASSUME NEW q \in Leaves, NEW l \in Lines, q # p
               PROVE  StateOf(array', q, l) = StateOf(array, q, l)
    OBVIOUS
  <2>1. q # f.at /\ q \in Caches
    BY <1>2, OthersLines, CoherenceAssumption
  <2> QED
    BY <1>4, <2>1
<1>9. LosesNone(p)
  <2> SUFFICES ASSUME NEW l \in Lines, dirty'[l]
               PROVE  /\ dirty[l]
                      /\ \A b \in Caches : StateOf(array, b, l) = "M" => Modified(array', stack', l)
                      /\ Busy(p) /\ Top(p).wb /\ Entry(array, Top(p)).tag = l
                           => Modified(array', stack', l)
    BY DEF LosesNone
  <2>1. ASSUME NEW b \in Caches, StateOf(array, b, l) = "M"
        PROVE  Modified(array', stack', l)
    <3>1. CASE b = f.at /\ l = e.tag
      <4>1. e.st = "M"
        BY <1>5, <2>1, <3>1
      <4>2. StateOf(array', b, l) = "M"
        BY <1>4, <3>1, <4>1
      <4> QED
        BY <4>2 DEF Modified
    <3>2. CASE ~(b = f.at /\ l = e.tag)
      <4>0. StateOf(array', b, l) = StateOf(array, b, l)
        BY ONLY <1>4, <3>2, b \in Caches, l \in Lines
      <4>1. StateOf(array', b, l) = "M"
        BY <2>1, <4>0
      <4> QED
        BY <4>1 DEF Modified
    <3> QED
      BY <3>1, <3>2
  <2>2. ASSUME Top(p).wb, Entry(array, Top(p)).tag = l
        PROVE  Modified(array', stack', l)
    <3>1. Entry(array', f).tag = l
      BY <1>6, <2>2 DEF Entry
    <3> QED
      BY <2>2, <3>1 DEF Modified
  <2> QED
    BY <2>1, <2>2
<1> QED
  BY <1>6, <1>7, <1>8, <1>9, QuietKeeps

\* What an access works on once it has its line.
LEMMA WorksOn ==
    ASSUME IInv, NEW p \in Leaves, Busy(p), Top(p).pc \in {"evict", "evicted", "access", "grant"}
    PROVE  LET f == Top(p)
               e == array[f.at][f.way]
           IN  /\ f.way \in Ways[f.at] /\ e \in Entries(f.at) /\ f.at \in Caches
               /\ f.op \notin Invs /\ f.line \in Lines
               /\ f.pc \in {"access", "grant"} => e.tag = f.line /\ e.tag # None
               /\ f.pc \in {"evict", "evicted"} => WaysFor(array, f.at, f.line) = {}
               /\ f.pc = "evicted" => e.st = "I" /\ e.sharers = {}
               /\ f.wb => f.pc \in {"evict", "grant"} /\ e.tag # None /\ e.st \in {"E", "M"}
<1> DEFINE f == Top(p)
           e == array[f.at][f.way]
<1>1. /\ f \in Frames /\ f.at \in Caches /\ Placed(f) /\ f.line \in Lines
      /\ Own(array, f, f.pc \notin {"tcc", "bcc"})
  BY InCall
<1>2. Typed(array)
  BY DEF IInv, Data
<1>3. f.pc \in {"evict", "evicted", "access", "grant"}
  OBVIOUS
<1> HIDE DEF f
<1>4. Chosen(array, f) /\ f.op \notin Invs
  BY <1>1, <1>3 DEF Own, Placed
<1>5. f.way \in Ways[f.at]
  BY <1>4 DEF Chosen
<1>6. e \in Entries(f.at)
  BY <1>1, <1>2, <1>5, EntryType
<1>7. /\ f.pc \in {"access", "grant"} => e.tag = f.line
      /\ f.pc \in {"evict", "evicted"} => WaysFor(array, f.at, f.line) = {}
      /\ f.pc = "evicted" => e.sharers = {}
  BY <1>4 DEF Chosen, Entry
<1>8. /\ f.pc = "evicted" => e.st = "I"
      /\ f.wb => f.pc \in {"evict", "grant"} /\ e.tag # None /\ e.st \in {"E", "M"}
  BY <1>1, <1>3 DEF Own, Entry
<1>9. f.line # None
  BY <1>1, CoherenceAssumption
<1> QED
  BY <1>1, <1>4, <1>5, <1>6, <1>7, <1>8, <1>9 DEF f

\* A hit, or a miss to memory, only raises a state.
LEMMA RaisesFilters ==
    ASSUME IInv, FilterInv, NEW p \in Leaves, Busy(p), Top(p).pc = "access",
           NEW y \in States, array[Top(p).at][Top(p).way].st = "M" => y = "M",
           array' = [array EXCEPT ![Top(p).at][Top(p).way] =
                       [array[Top(p).at][Top(p).way] EXCEPT !.st = y]],
           NEW g, Goes(p, g), filter' = filter, dirty' = dirty
    PROVE  FilterInv'
<1> DEFINE f == Top(p)
           r == array[f.at][f.way]
           e == [r EXCEPT !.st = y]
<1>1. f.way \in Ways[f.at] /\ r \in Entries(f.at) /\ r.tag # None
  BY WorksOn
<1>2. stack \in [Leaves -> Seq(Frames)] /\ stack[p] # <<>>
  BY DEF IInv, Threads, Busy
<1>3. stack' = [stack EXCEPT ![p] = Append(Front(@), g)]
  BY DEF Goes
<1>4. Records(stack, stack', p) /\ Stays(stack, stack', p)
  BY <1>2, <1>3, GoesRecords
<1>5. e \in Entries(f.at) /\ e.tag = r.tag /\ e.st = y
  BY <1>1 DEF Entries
<1>6. ~Top(p).wb
  BY NothingRecorded
<1>7. array' = [array EXCEPT ![Top(p).at][Top(p).way] = e]
  OBVIOUS
<1> HIDE DEF e
<1> QED
  BY <1>1, <1>4, <1>5, <1>6, <1>7, RaisesQuietly

\* A hit only raises a state.
LEMMA HitFilters ==
    ASSUME IInv, FilterInv, NEW p \in Leaves, Hit(p)
    PROVE  FilterInv'
<1> DEFINE f == Top(p)
           e == array[f.at][f.way]
           y == IF f.op \in {"GETX", "PUTX"} THEN "M" ELSE e.st
<1>1. /\ Busy(p) /\ f.pc = "access" /\ filter' = filter /\ dirty' = dirty
      /\ array' = [array EXCEPT ![f.at][f.way] =
                      [e EXCEPT !.st = IF f.op \in {"GETX", "PUTX"} THEN "M" ELSE @]]
      /\ \E g : Goes(p, g)
  BY DEF Hit, At, SetEntry
<1>2. e \in Entries(f.at)
  BY <1>1, WorksOn
<1>3. y \in States /\ (e.st = "M" => y = "M")
  BY <1>2 DEF Entries, States
<1>4. array' = [array EXCEPT ![f.at][f.way] = [e EXCEPT !.st = y]]
  BY <1>1
<1> HIDE DEF y
<1> QED
  BY <1>1, <1>3, <1>4, RaisesFilters

\* So does a miss to memory.
LEMMA MissToMemoryFilters ==
    ASSUME IInv, FilterInv, NEW p \in Leaves, MissToMemory(p)
    PROVE  FilterInv'
<1> DEFINE f == Top(p)
           e == array[f.at][f.way]
           y == IF f.op = "GETS" THEN "E" ELSE "M"
<1>1. /\ Busy(p) /\ f.pc = "access" /\ Misses(f, e) /\ f.at = Root
      /\ array' = [array EXCEPT ![f.at][f.way] = [e EXCEPT !.st = y]]
      /\ \E g : Goes(p, g)
      /\ filter' = filter /\ dirty' = dirty
  BY DEF MissToMemory, At, SetEntry
<1>2. y \in States /\ (e.st = "M" => y = "M")
  BY <1>1 DEF Misses, States
<1> HIDE DEF y
<1> QED
  BY <1>1, <1>2, RaisesFilters

\* Taking the line from a rival starts with a call and leaves all states.
LEMMA ClearRivalsFilters ==
    ASSUME IInv, FilterInv, NEW p \in Leaves, ClearRivals(p)
    PROVE  FilterInv'
<1> DEFINE f == Top(p)
           r == array[f.at][f.way]
           e == [r EXCEPT !.sharers = IF f.op = "GETX" THEN @ \ {f.from} ELSE @]
<1>1. /\ Busy(p) /\ f.pc = "grant" /\ filter' = filter /\ dirty' = dirty
      /\ array' = [array EXCEPT ![f.at][f.way] = e]
      /\ \E g : Calls(p, f, g)
  BY DEF ClearRivals, At, SetEntry
<1>2. PICK g : Calls(p, f, g)
  BY <1>1
<1>3. f.way \in Ways[f.at] /\ r \in Entries(f.at) /\ r.tag # None
  BY <1>1, WorksOn
<1>4. e \in Entries(f.at) /\ e.tag = r.tag /\ e.st = r.st
  BY <1>3 DEF Entries
<1> HIDE DEF e
<1>5. stack \in [Leaves -> Seq(Frames)] /\ stack[p] # <<>>
  BY <1>1 DEF IInv, Threads, Busy
<1>6. stack' = [stack EXCEPT ![p] = Append(Append(Front(@), f), g)]
  BY <1>2 DEF Calls
<1>7. Called(stack, stack', p, f)
  BY <1>5, <1>6, CallsRecords
<1> QED
  BY <1>1, <1>3, <1>4, <1>7, RaisesQuietly DEF Called

\* Inserting a line takes none from another core, and no write that is dirty still.
LEMMA InsertsQuietly ==
    ASSUME IInv, FilterInv, NEW p \in Leaves, Busy(p), Top(p).pc \in {"evict", "evicted"},
           Inserts(p, Top(p), array[Top(p).at][Top(p).way]),
           array[Top(p).at][Top(p).way].sharers = {},
           \A l \in Lines : dirty'[l] =>
              /\ dirty[l]
              /\ l = array[Top(p).at][Top(p).way].tag =>
                    array[Top(p).at][Top(p).way].st # "M" /\ ~Top(p).wb,
           filter' = filter
    PROVE  FilterInv'
<1> DEFINE f == Top(p)
           r == array[f.at][f.way]
           e == [r EXCEPT !.tag = f.line, !.st = "I"]
           g == [f EXCEPT !.pc = "access", !.wb = FALSE]
<1>1. /\ array' = [array EXCEPT ![f.at][f.way] = e]
      /\ stack' = [stack EXCEPT ![p] = Append(Front(@), g)]
  BY DEF Inserts, SetEntry, Goes
<1>2. /\ f.way \in Ways[f.at] /\ r \in Entries(f.at) /\ f.at \in Caches
      /\ f.op \notin Invs /\ f.line \in Lines /\ WaysFor(array, f.at, f.line) = {}
  BY WorksOn
<1>3. Typed(array) /\ Tags(array) /\ stack \in [Leaves -> Seq(Frames)] /\ stack[p] # <<>>
  BY DEF IInv, Data, Threads, Busy
<1>4. /\ e \in Entries(f.at) /\ e.tag = f.line /\ e.st = "I" /\ e.sharers = {}
      /\ WaysFor(array, f.at, e.tag) = {}
  BY <1>2 DEF Entries, States
<1>5. \A l \in Lines : dirty'[l] => dirty[l] /\ (l = r.tag => r.st # "M" /\ ~f.wb)
  OBVIOUS
<1> HIDE DEF e, g
<1>6. Changed(array, array', f.at, f.way, e)
  BY <1>1, <1>2, <1>3, ChangedIs
<1>7. \A d \in Caches, l \in Lines :
         StateOf(array', d, l) = IF d = f.at /\ l = r.tag THEN "I" ELSE StateOf(array, d, l)
  BY <1>2, <1>3, <1>4, <1>6, Inserted
<1>8. Records(stack, stack', p) /\ Stays(stack, stack', p)
  BY <1>1, <1>3, GoesRecords
<1>9. TagsStay(array, array', f.at) /\ WorksIn(p, f.at)
  BY <1>6 DEF TagsStay, WorksIn, Changed
<1>10. \A q \in Leaves, l \in Lines : q # p => StateOf(array', q, l) = StateOf(array, q, l)
  <2> SUFFICES ASSUME NEW q \in Leaves, NEW l \in Lines, q # p
               PROVE  StateOf(array', q, l) = StateOf(array, q, l)
    OBVIOUS
  <2>1. q # f.at /\ q \in Caches
    BY <1>2, OthersLines, CoherenceAssumption
  <2> QED
    BY <1>7, <2>1
<1> HIDE DEF f
<1>11. LosesNone(p)
  <2> SUFFICES ASSUME NEW l \in Lines, dirty'[l]
               PROVE  /\ dirty[l]
                      /\ \A b \in Caches : StateOf(array, b, l) = "M" => Modified(array', stack', l)
                      /\ Busy(p) /\ Top(p).wb /\ Entry(array, Top(p)).tag = l
                           => Modified(array', stack', l)
    BY DEF LosesNone
  <2>1. dirty[l] /\ (l = r.tag => r.st # "M" /\ ~f.wb)
    BY <1>5
  <2>2. ASSUME NEW b \in Caches, StateOf(array, b, l) = "M"
        PROVE  Modified(array', stack', l)
    <3>1. ~(b = f.at /\ l = r.tag)
      <4> SUFFICES ASSUME b = f.at, l = r.tag
                   PROVE  FALSE
        OBVIOUS
      <4>1. r.tag # None
        BY CoherenceAssumption
      <4>2. StateOf(array, f.at, r.tag) = r.st
        BY <1>2, <1>3, <4>1, StateIs
      <4> QED
        BY <2>1, <2>2, <4>2
    <3>2. StateOf(array', b, l) = StateOf(array, b, l)
      BY ONLY <1>7, <3>1, b \in Caches, l \in Lines
    <3>3. StateOf(array', b, l) = "M"
      BY <2>2, <3>2
    <3> QED
      BY <3>3 DEF Modified
  <2>3. ~(Top(p).wb /\ Entry(array, Top(p)).tag = l)
    BY <2>1 DEF Entry, f
  <2> QED
    BY <2>1, <2>2, <2>3
<1> QED
  BY <1>8, <1>9, <1>10, <1>11, QuietKeeps

\* The line takes the way of a victim that has been written back.
LEMMA EvictedFilters ==
    ASSUME IInv, FilterInv, NEW p \in Leaves, Evicted(p)
    PROVE  FilterInv'
<1> DEFINE f == Top(p)
           e == array[f.at][f.way]
<1>1. /\ Busy(p) /\ f.pc = "evicted" /\ Inserts(p, f, e) /\ filter' = filter /\ dirty' = dirty
  BY DEF Evicted, At
<1>2. e.st = "I" /\ e.sharers = {} /\ ~f.wb
  BY <1>1, WorksOn
<1> QED
  BY <1>1, <1>2, InsertsQuietly

\* A victim that needs no writeback makes room at once; one that does is marked first.
LEMMA EvictLineFilters ==
    ASSUME IInv, FilterInv, NEW p \in Leaves, EvictLine(p)
    PROVE  FilterInv'
<1> DEFINE f == Top(p)
           r == array[f.at][f.way]
           s == VictimState(f, r)
           e == [r EXCEPT !.st = s]
<1>1. Busy(p) /\ f.pc = "evict" /\ r.sharers = {} /\ filter' = filter
  BY DEF EvictLine, At
<1>2. /\ f.way \in Ways[f.at] /\ r \in Entries(f.at) /\ f.at \in Caches /\ f.op \notin Invs
      /\ f.wb => r.tag # None /\ r.st \in {"E", "M"}
  BY <1>1, WorksOn
<1>3. dirty \in [Lines -> BOOLEAN]
  BY DEF IInv, Kinds
<1>4. CASE /\ f.at = Root \/ s = "I"
           /\ Inserts(p, f, r)
           /\ dirty' = IF s = "M" THEN [dirty EXCEPT ![r.tag] = FALSE] ELSE dirty
  <2>1. ASSUME NEW l \in Lines, dirty'[l]
        PROVE  dirty[l] /\ (l = r.tag => r.st # "M" /\ ~f.wb)
    <3>1. r.st = "M" \/ f.wb => s = "M"
      BY <1>2 DEF VictimState
    <3> QED
      BY <1>3, <1>4, <2>1, <3>1
  <2> QED
    BY <1>1, <1>4, <2>1, InsertsQuietly
<1>5. CASE /\ array' = SetEntry(f.at, f.way, e)
           /\ \E u, g : Calls(p, u, g)
           /\ dirty' = dirty
           /\ s # "I"
  <2>1. PICK u, g : Calls(p, u, g)
    BY <1>5
  <2>2. stack \in [Leaves -> Seq(Frames)] /\ stack[p] # <<>>
    BY <1>1 DEF IInv, Threads, Busy
  <2>3. Called(stack, stack', p, u)
    BY <2>1, <2>2, CallsRecords DEF Calls
  <2>4. Typed(array) /\ Tags(array)
    BY DEF IInv, Data
  <2>5. /\ e \in Entries(f.at) /\ e.tag = r.tag /\ e.st = s
        /\ (r.st = "M" => s = "M") /\ (f.wb => s = "M")
    BY <1>2 DEF Entries, States, VictimState
  <2>e. array' = [array EXCEPT ![f.at][f.way] = e]
    BY <1>5 DEF SetEntry
  <2> HIDE DEF e, s, f
  <2>6. r.tag # None
    <3>1. r.st # "I"
      BY <1>2, <1>5 DEF VictimState, s
    <3> QED
      BY <1>2, <2>4, <3>1 DEF Tags
  <2>7. Changed(array, array', f.at, f.way, e)
    BY <1>2, <2>4, <2>e, ChangedIs
  <2>8. \A c \in Caches, l \in Lines :
           StateOf(array', c, l) = IF c = f.at /\ l = e.tag THEN e.st ELSE StateOf(array, c, l)
    BY <1>2, <2>4, <2>5, <2>7, Restated
  <2>9. StateOf(array, f.at, r.tag) = r.st
    BY <1>2, <2>4, <2>6, StateIs
  <2>10. TagsStay(array, array', f.at) /\ WorksIn(p, f.at)
    BY <1>1, <2>7 DEF TagsStay, WorksIn, Changed, f
  <2>11. \A q \in Leaves, l \in Lines : q # p => StateOf(array', q, l) = StateOf(array, q, l)
    <3> SUFFICES ASSUME NEW q \in Leaves, NEW l \in Lines, q # p
                 PROVE  StateOf(array', q, l) = StateOf(array, q, l)
      OBVIOUS
    <3>1. q # f.at /\ q \in Caches
      BY <1>1, <1>2, OthersLines, CoherenceAssumption DEF f
    <3> QED
      BY ONLY <2>8, <3>1, l \in Lines
  <2>12. LosesNone(p)
    <3> SUFFICES ASSUME NEW l \in Lines, dirty'[l]
                 PROVE  /\ dirty[l]
                        /\ \A b \in Caches : StateOf(array, b, l) = "M" => Modified(array', stack', l)
                        /\ Busy(p) /\ Top(p).wb /\ Entry(array, Top(p)).tag = l
                             => Modified(array', stack', l)
      BY DEF LosesNone
    <3>1. ASSUME s = "M", l = r.tag
          PROVE  Modified(array', stack', l)
      <4>1. StateOf(array', f.at, l) = "M"
        BY <1>2, <2>5, <2>8, <3>1
      <4> QED
        BY <1>2, <4>1 DEF Modified
    <3>2. ASSUME NEW b \in Caches, StateOf(array, b, l) = "M"
          PROVE  Modified(array', stack', l)
      <4>1. CASE b = f.at /\ l = r.tag
        BY <2>5, <2>9, <3>1, <3>2, <4>1
      <4>2. CASE ~(b = f.at /\ l = r.tag)
        <5>1. StateOf(array', b, l) = StateOf(array, b, l)
          BY ONLY <2>5, <2>8, <4>2, b \in Caches, l \in Lines
        <5> QED
          BY <3>2, <5>1 DEF Modified
      <4> QED
        BY <4>1, <4>2
    <3>3. ASSUME Top(p).wb, Entry(array, Top(p)).tag = l
          PROVE  Modified(array', stack', l)
      BY <2>5, <3>1, <3>3 DEF Entry, f
    <3> QED
      BY <1>5, <3>2, <3>3
  <2> QED
    BY <1>1, <2>3, <2>10, <2>11, <2>12, QuietKeeps DEF Called
<1>6. \/ /\ f.at = Root \/ s = "I"
         /\ Inserts(p, f, r)
         /\ dirty' = IF s = "M" THEN [dirty EXCEPT ![r.tag] = FALSE] ELSE dirty
      \/ /\ array' = SetEntry(f.at, f.way, e)
         /\ \E u, g : Calls(p, u, g)
         /\ dirty' = dirty
         /\ s # "I"
  BY Zenon DEF EvictLine
<1> QED
  BY <1>4, <1>5, <1>6

-----------------------------------------------------------------------------
(* Grants                                                                  *)

\* An L1 that is granted a line is that of the core itself.
LEMMA GrantedLeaf ==
    ASSUME IInv, NEW p \in Leaves, Busy(p), Top(p).pc = "grant", Top(p).at \notin Leaves,
           Top(p).from \in Leaves
    PROVE  Top(p).from = p
<1> DEFINE n == Len(stack[p])
           f == Top(p)
           h == stack[p][n - 1]
<1>1. /\ f.op \in Gets \cup Puts /\ n > 1 /\ f.from = h.at /\ Linked(h, f)
  BY WorksFor
<1>2. n \in Nat \ {0}
  BY InCall
<1>3. Threads(stack, bcc, tcc)
  BY DEF IInv
<1>4. n - 1 \in 1..Len(stack[p])
  BY <1>1, <1>2
<1>5. h.op \notin Invs
  BY <1>1 DEF Linked, Gets, Puts, Invs
<1>6. /\ n - 1 = 1 => h.at = p
      /\ n - 1 > 1 => /\ Linked(stack[p][(n - 1) - 1], h)
                      /\ stack[p][(n - 1) - 1].at \in Caches
  <2> DEFINE j == n - 1
  <2>1. j \in 1..Len(stack[p]) /\ h = stack[p][j]
    BY <1>4
  <2> HIDE DEF j, h
  <2>2. /\ j = 1 => stack[p][j].at = p
        /\ j > 1 => Linked(stack[p][j - 1], stack[p][j]) /\ stack[p][j - 1].at \in Caches
    BY ONLY <1>3, <2>1, Neighbours, p \in Leaves
  <2> QED
    BY <2>1, <2>2 DEF j
<1>7. ~(n - 1 > 1)
  <2> SUFFICES ASSUME n - 1 > 1
               PROVE  FALSE
    OBVIOUS
  <2>1. Linked(stack[p][(n - 1) - 1], h) /\ stack[p][(n - 1) - 1].at \in Caches
    BY <1>6
  <2>2. PICK g : Linked(g, h) /\ g.at \in Caches
    BY <2>1
  <2>3. g.at # Root /\ h.at = Parent[g.at]
    BY <1>5, <2>2 DEF Linked
  <2> QED
    BY <1>1, <2>2, <2>3, CoherenceAssumption
<1> HIDE DEF n
<1>8. n - 1 = 1
  BY <1>1, <1>2, <1>7
<1> QED
  BY <1>1, <1>6, <1>8

\* Granting a child its line moves no line.
LEMMA GrantTags ==
    ASSUME IInv, NEW p \in Leaves, Grant(p), Top(p).at \notin Leaves
    PROVE  /\ TagsStay(array, array', Top(p).at)
           /\ array'[Top(p).at][Top(p).way].tag = array[Top(p).at][Top(p).way].tag
<1> DEFINE f == Top(p)
           n == Len(stack[p])
           h == stack[p][n - 1]
           c == f.at
           d == f.from
           e == array[c][f.way]
           u == WrittenBack(f, Granted(f, e))
           y == ChildState(f, e)
           v == h.way
           a1 == [array EXCEPT ![c][f.way] = u]
<1>1. /\ Busy(p) /\ f.pc = "grant" /\ f.at \notin Leaves
      /\ array' = SetChild(a1, d, f.line, y)
  BY DEF Grant, At, SetEntry
<1>2. /\ f \in Frames /\ c \in Caches /\ f.wb \in BOOLEAN
  <2>1. f \in Frames /\ c \in Caches
    BY <1>1, InCall
  <2> QED
    BY <2>1 DEF Frames
<1>3. /\ f.op \in Gets \cup Puts /\ f.way \in Ways[c] /\ e \in Entries(c)
      /\ e.tag # None /\ Sound(e)
      /\ f.op = "GETS" => e.st # "I"
      /\ f.op = "GETX" => e.st = "M"
      /\ f.wb => e.st \in {"E", "M"}
      /\ d \in Caches /\ d \in Children(c) /\ d # c
  BY <1>1, WorksFor
<1>4. v \in Ways[d] /\ WayOf(d, f.line) = v
  BY <1>1, ChildHas
<1>5. u.tag = e.tag /\ u \in Entries(c)
  <2> HIDE DEF f, c, e, d, u
  <2>1. /\ u \in Entries(c) /\ u.tag = e.tag /\ Sound(u) /\ Like(e.st, u.st)
        /\ u.st = (IF f.wb THEN "M" ELSE e.st)
        /\ f.op \in Puts => u.sharers = e.sharers \ {d} /\ u.excl = e.excl
        /\ f.op = "GETS" => u.sharers = e.sharers \cup {d} /\ u.excl = GivesE(e)
        /\ f.op = "GETX" => u.sharers = {d} /\ u.excl = TRUE
    BY <1>2, <1>3, GrantedIs DEF u, d
  <2> QED
    BY <2>1
<1>6. Typed(array)
  BY DEF IInv, Data
<1>7. d # None
  BY <1>3, CoherenceAssumption
<1> HIDE DEF f, h, n, c, d, u, y, v
<1>8. a1 = [b \in Caches |-> a1[b]] /\ a1[d] = array[d] /\ a1[c] = [array[c] EXCEPT ![f.way] = u]
      /\ \A b \in Caches : b # c => a1[b] = array[b]
  BY <1>2, <1>3, <1>6 DEF Typed
<1>9. array' = [a1 EXCEPT ![d][v].st = y]
  BY <1>1, <1>4, <1>7 DEF SetChild
<1> HIDE DEF a1
<1>10. array[d] \in [Ways[d] -> Entries(d)] /\ array[c] \in [Ways[c] -> Entries(c)]
  BY <1>2, <1>3, <1>6 DEF Typed
<1>11. /\ array'[d] = [array[d] EXCEPT ![v] = [array[d][v] EXCEPT !.st = y]]
       /\ \A b \in Caches : b # d => array'[b] = a1[b]
  BY <1>3, <1>8, <1>9
<1>12. \A w \in Ways[d] : array'[d][w].tag = array[d][w].tag
  <2>1. array[d][v] \in Entries(d)
    BY <1>4, <1>10
  <2>2. [array[d][v] EXCEPT !.st = y].tag = array[d][v].tag
    BY <2>1 DEF Entries
  <2> QED
    BY <1>4, <1>10, <1>11, <2>2
<1>13. array'[c][f.way] = u
  BY <1>2, <1>3, <1>8, <1>10, <1>11
<1>14. TagsStay(array, array', c)
  BY <1>8, <1>11, <1>12 DEF TagsStay
<1> QED
  BY <1>5, <1>13, <1>14 DEF f, c, e

\* A child is given its line, or gives it back with what it has written.
LEMMA GrantFilters ==
    ASSUME IInv, FilterInv, NEW p \in Leaves, Grant(p), Top(p).at \notin Leaves
    PROVE  FilterInv'
<1> DEFINE f == Top(p)
           c == f.at
           d == f.from
           e == array[c][f.way]
           u == WrittenBack(f, Granted(f, e))
           y == ChildState(f, e)
           x == StateOf(array, d, f.line)
           g == [f EXCEPT !.pc = "end", !.wb = FALSE]
<1>1. /\ Busy(p) /\ f.pc = "grant" /\ f.at \notin Leaves
      /\ stack' = [stack EXCEPT ![p] = Append(Front(@), g)]
      /\ filter' = filter /\ dirty' = dirty
  BY DEF Grant, At, Goes
<1>2. /\ f \in Frames /\ c \in Caches /\ f.wb \in BOOLEAN /\ f.line \in Lines
      /\ f.op = "PUTX" => e.st = "M"
  <2>1. f \in Frames /\ c \in Caches /\ f.line \in Lines /\ Own(array, f, TRUE)
    BY <1>1, InCall
  <2> QED
    BY <1>1, <2>1 DEF Frames, Own, Entry
<1>3. /\ f.op \in Gets \cup Puts /\ f.way \in Ways[c] /\ e \in Entries(c)
      /\ e.tag = f.line /\ e.tag # None /\ Sound(e)
      /\ f.op = "GETS" => e.st # "I"
      /\ f.op = "GETX" => e.st = "M"
      /\ f.wb => e.st \in {"E", "M"}
      /\ d \in Caches /\ d \in Children(c) /\ d # c
      /\ Finds(f, x)
  BY <1>1, WorksFor
<1>4. /\ u.tag = e.tag
      /\ u.st = IF f.wb THEN "M" ELSE e.st
  <2> HIDE DEF f, c, e, d, u
  <2>1. /\ u \in Entries(c) /\ u.tag = e.tag /\ Sound(u) /\ Like(e.st, u.st)
        /\ u.st = (IF f.wb THEN "M" ELSE e.st)
        /\ f.op \in Puts => u.sharers = e.sharers \ {d} /\ u.excl = e.excl
        /\ f.op = "GETS" => u.sharers = e.sharers \cup {d} /\ u.excl = GivesE(e)
        /\ f.op = "GETX" => u.sharers = {d} /\ u.excl = TRUE
    BY <1>2, <1>3, GrantedIs DEF u, d
  <2> QED
    BY <2>1
<1>5. NowIn(array, array', c, d, u, y)
  BY GrantKeeps
<1>6. TagsStay(array, array', c) /\ WorksIn(p, c) /\ array'[c][f.way].tag = e.tag
  BY <1>1, GrantTags DEF WorksIn
<1>7. d \in Leaves => d = p
  BY <1>1, GrantedLeaf
<1>8. stack \in [Leaves -> Seq(Frames)] /\ stack[p] # <<>> /\ Typed(array) /\ Tags(array)
  BY <1>1 DEF IInv, Data, Threads, Busy
<1>9. Records(stack, stack', p) /\ Stays(stack, stack', p)
  <2> HIDE DEF g
  <2> QED
    BY <1>1, <1>8, GoesRecords
<1>10. StateOf(array, c, e.tag) = e.st
  BY <1>2, <1>3, <1>8, StateIs
<1>11. \A b \in Caches, m \in Lines :
          StateOf(array', b, m) = IF b = d /\ m = e.tag THEN y
                                  ELSE IF b = c /\ m = e.tag THEN u.st ELSE StateOf(array, b, m)
  BY <1>4, <1>5 DEF NowIn
<1>e. x = StateOf(array, d, e.tag) /\ e.tag \in Lines
  BY <1>2, <1>3
<1> HIDE DEF c, d, e, u, y, x
<1>12. \A q \in Leaves, l \in Lines : q # p => StateOf(array', q, l) = StateOf(array, q, l)
  <2> SUFFICES ASSUME NEW q \in Leaves, NEW l \in Lines, q # p
               PROVE  StateOf(array', q, l) = StateOf(array, q, l)
    OBVIOUS
  <2>1. q # c /\ q # d /\ q \in Caches
    BY <1>1, <1>7, CoherenceAssumption DEF c
  <2> QED
    BY ONLY <1>11, <2>1, l \in Lines
<1>13. u.st = "M" => Modified(array', stack', e.tag)
  <2>1. StateOf(array', c, e.tag) = u.st
    BY <1>3, <1>e, <1>11, <1>2
  <2> QED
    BY <1>2, <2>1 DEF Modified
<1>14. LosesNone(p)
  <2> SUFFICES ASSUME NEW l \in Lines, dirty'[l]
               PROVE  /\ dirty[l]
                      /\ \A b \in Caches : StateOf(array, b, l) = "M" => Modified(array', stack', l)
                      /\ Busy(p) /\ Top(p).wb /\ Entry(array, Top(p)).tag = l
                           => Modified(array', stack', l)
    BY DEF LosesNone
  <2>1. ASSUME NEW b \in Caches, StateOf(array, b, l) = "M"
        PROVE  Modified(array', stack', l)
    <3>1. CASE l = e.tag /\ b = d
      <4>1. f.op = "PUTX"
        <5>1. x = "M"
          BY <1>e, <2>1, <3>1
        <5> QED
          BY <1>3, <5>1 DEF Finds, Gets, Puts
      <4>2. u.st = "M"
        BY <1>2, <1>4, <4>1
      <4> QED
        BY <1>13, <3>1, <4>2
    <3>2. CASE l = e.tag /\ b = c
      <4>1. u.st = "M"
        BY <1>4, <1>10, <2>1, <3>2
      <4> QED
        BY <1>13, <3>2, <4>1
    <3>3. CASE ~(l = e.tag /\ (b = d \/ b = c))
      <4>1. StateOf(array', b, l) = StateOf(array, b, l)
        BY ONLY <1>11, <3>3, b \in Caches, l \in Lines
      <4> QED
        BY <2>1, <4>1 DEF Modified
    <3> QED
      BY <3>1, <3>2, <3>3
  <2>2. ASSUME Top(p).wb, Entry(array, Top(p)).tag = l
        PROVE  Modified(array', stack', l)
    <3>1. f.wb /\ l = e.tag
      BY <2>2 DEF Entry, e, c
    <3> QED
      BY <1>4, <1>13, <3>1
  <2> QED
    BY <1>1, <2>1, <2>2
<1> QED
  BY <1>1, <1>6, <1>9, <1>12, <1>14, QuietKeeps

-----------------------------------------------------------------------------
(* Invalidations                                                           *)

\* All cores run the threads of one process, whose lines are those in Lines.
SameProcess == \A p \in Leaves, l \in Lines : Process[p] = Process[l]

\* What the return of an invalidation leaves: the calls below it, of which the access
\* m it was made for may have learnt of written data, and all lines where they were.
Unwinds(p, m) ==
    LET s == stack[p]
        n == Len(s)
        wrote == Entry(array, Top(p)).st = "M"
    IN  /\ n \in Nat /\ n > 1 /\ m \in 1..(n - 1) /\ AccessAt(s, m)
        /\ Len(stack'[p]) = n - 1
        /\ \A q \in Leaves : q # p => stack'[q] = stack[q]
        /\ \A i \in 1..(n - 1) :
              stack'[p][i] = IF i = m THEN [s[m] EXCEPT !.wb = @ \/ wrote] ELSE s[i]
        /\ \A i \in 1..(n - 1) : s[i] \in Frames
        /\ TagsStay(array, array', None)
        /\ Lowered(array, array', Top(p), s[n - 1])
        /\ Top(p).at \in Caches /\ Top(p).line \in Lines
        /\ StateOf(array, Top(p).at, Top(p).line) = Entry(array, Top(p)).st

\* The invalidation returns to the access.
LEMMA InvalidateUnwinds ==
    ASSUME IInv, NEW p \in Leaves, Invalidate(p)
    PROVE  \E m : Unwinds(p, m)
<1> DEFINE s == stack[p]
           n == Len(s)
           f == Top(p)
           wrote == Entry(array, f).st = "M"
           s2 == Unwound(s, wrote)
<1>1. /\ Busy(p) /\ f.pc = "down"
      /\ stack' = [stack EXCEPT ![p] = s2]
  BY DEF Invalidate, At, Entry
<1>2. /\ n \in Nat /\ n > 1 /\ f \in Frames /\ f.at \in Caches /\ f.line \in Lines /\ f.op \in Invs
      /\ f.way \in Ways[f.at]
      /\ array[f.at][f.way].tag = f.line /\ f.line # None
  BY <1>1, Invalidating
<1>3. /\ Threads(stack, bcc, tcc) /\ s # <<>> /\ f = Last(s) /\ Shape(p, s) /\ s \in Seq(Frames)
      /\ Typed(array) /\ Tags(array) /\ stack \in [Leaves -> Seq(Frames)]
  BY <1>1 DEF IInv, Data, Busy, Top, Threads, Shape
<1>4. StateOf(array, f.at, f.line) = Entry(array, f).st
  BY <1>2, <1>3, StateIs DEF Entry
<1>5. wrote \in BOOLEAN
  OBVIOUS
<1>e. n = Len(s) /\ s = stack[p]
  OBVIOUS
<1> HIDE DEF f, wrote
<1>6. PICK m \in 1..(n - 1) :
         /\ AccessAt(s, m)
         /\ s2 \in Seq(Frames) /\ Popped(s, s2)
         /\ \A i \in 1..(n - 1) : s2[i] = IF i = m THEN [s[m] EXCEPT !.wb = @ \/ wrote] ELSE s[i]
  <2>1. Shape(p, s) /\ s # <<>> /\ Last(s).op \in Invs /\ wrote \in BOOLEAN
    BY <1>2, <1>3, <1>5
  <2>2. \E m \in 1..(Len(s) - 1) :
           /\ AccessAt(s, m)
           /\ Unwound(s, wrote) \in Seq(Frames) /\ Popped(s, Unwound(s, wrote))
           /\ \A i \in 1..(Len(s) - 1) :
                 Unwound(s, wrote)[i] = IF i = m THEN [s[m] EXCEPT !.wb = @ \/ wrote] ELSE s[i]
    BY ONLY <2>1, UnwoundIs, p \in Leaves
  <2> QED
    BY <2>2
<1> HIDE DEF s2
<1>7. KeepsOwed(stack, stack')
  <2>1. Last(stack[p]).pc # "grant" /\ stack[p] # <<>>
    BY <1>1, <1>3
  <2> QED
    BY <1>1, <1>3, <1>6, <2>1, UnwindsAsks
<1>8. /\ Lowered(array, array', f, s[n - 1])
      /\ \A b \in Caches : b # f.at => \A w \in Ways[b] : array'[b][w].tag = array[b][w].tag
  BY <1>7, InvalidatedLines DEF f
<1>9. TagsStay(array, array', None)
  <2>1. \A w \in Ways[f.at] : array'[f.at][w].tag = array[f.at][w].tag
    BY <1>8 DEF Lowered, Gentle
  <2> QED
    BY <1>8, <2>1 DEF TagsStay
<1>10. Len(s2) = n - 1
  BY <1>6 DEF Popped
<1>11. stack'[p] = s2 /\ \A q \in Leaves : q # p => stack'[q] = stack[q]
  BY <1>1, <1>3
<1>12. \A i \in 1..(n - 1) : s[i] \in Frames
  <2>1. \A i \in 1..(n - 1) : i \in 1..n
    BY <1>2
  <2> QED
    BY <1>3, <2>1
<1>13. Unwinds(p, m)
  BY <1>2, <1>4, <1>6, <1>8, <1>9, <1>10, <1>11, <1>12 DEF Unwinds, f, wrote
<1> QED
  BY <1>13

\* The access it was made for records what the invalidation found modified.
LEMMA UnwindsRecord ==
    ASSUME IInv, NEW p \in Leaves, Invalidate(p), NEW m, Unwinds(p, m)
    PROVE  /\ Records(stack, stack', p)
           /\ Entry(array, Top(p)).st = "M" => Modified(array', stack', Top(p).line)
<1> DEFINE s == stack[p]
           n == Len(s)
           f == Top(p)
           wrote == Entry(array, f).st = "M"
<1>1. /\ n \in Nat /\ n > 1 /\ m \in 1..(n - 1) /\ AccessAt(s, m)
      /\ Len(stack'[p]) = n - 1
      /\ \A q \in Leaves : q # p => stack'[q] = stack[q]
      /\ \A i \in 1..(n - 1) :
            stack'[p][i] = IF i = m THEN [s[m] EXCEPT !.wb = @ \/ wrote] ELSE s[i]
      /\ \A i \in 1..(n - 1) : s[i] \in Frames
      /\ TagsStay(array, array', None)
  BY DEF Unwinds
<1>2. Busy(p) /\ f.pc = "down"
  BY DEF Invalidate, At
<1>3. \A i \in 1..(n - 1) : /\ i \in 1..Len(stack'[p])
                            /\ s[i].wb => stack'[p][i].wb
                            /\ stack'[p][i].at = s[i].at /\ stack'[p][i].way = s[i].way
  <2> TAKE i \in 1..(n - 1)
  <2>1. s[i] \in Frames
    BY <1>1
  <2>2. CASE i = m
    <3>1. stack'[p][i] = [s[i] EXCEPT !.wb = @ \/ wrote]
      BY <1>1, <2>2
    <3>2. /\ [s[i] EXCEPT !.wb = @ \/ wrote].at = s[i].at
          /\ [s[i] EXCEPT !.wb = @ \/ wrote].way = s[i].way
          /\ [s[i] EXCEPT !.wb = @ \/ wrote].wb = (s[i].wb \/ wrote)
      <4> HIDE DEF s, wrote
      <4> QED
        BY <2>1 DEF Frames
    <3> QED
      BY <1>1, <3>1, <3>2
  <2>3. CASE i # m
    BY <1>1, <2>3
  <2> QED
    BY <2>2, <2>3
<1>4. Records(stack, stack', p)
  <2> SUFFICES ASSUME NEW q \in Leaves, NEW i \in 1..Len(stack[q]), stack[q][i].wb,
                      ~(q = p /\ i = Len(stack[p]))
               PROVE  /\ i \in 1..Len(stack'[q]) /\ stack'[q][i].wb
                      /\ stack'[q][i].at = stack[q][i].at /\ stack'[q][i].way = stack[q][i].way
    BY DEF Records
  <2>1. CASE q # p
    BY <1>1, <2>1
  <2>2. CASE q = p
    <3>1. i \in 1..(n - 1)
      BY <1>1, <2>2
    <3> QED
      BY <1>3, <2>2, <3>1
  <2> QED
    BY <2>1, <2>2
<1>5. ASSUME wrote
      PROVE  Modified(array', stack', f.line)
  <2> DEFINE r == s[m]
  <2>1. /\ Threads(stack, bcc, tcc) /\ stack[p] # <<>> /\ Last(stack[p]) = f
        /\ Typed(array) /\ Tags(array) /\ Included(array) /\ Calling(array, stack)
    BY <1>2 DEF IInv, Data, Busy, Top
  <2>2. /\ r.pc \in {"evict", "grant"} /\ Entry(array, r).tag = f.line
    <3>1. Last(stack[p]).pc = "down" /\ Entry(array, Last(stack[p])).st = "M"
      BY <1>2, <1>5, <2>1
    <3>2. m \in 1..(Len(stack[p]) - 1) /\ AccessAt(stack[p], m)
      BY <1>1
    <3>3. LET z == stack[p][m]
          IN  z.pc \in {"evict", "grant"} /\ Entry(array, z).tag = Last(stack[p]).line
      BY <2>1, <3>1, <3>2, WroteAbove
    <3> QED
      BY <2>1, <3>3
  <2>3. m \in 1..Len(stack[p])
    BY <1>1
  <2>4. Placed(r) /\ r.at \in Caches
    BY <2>1, <2>3, Neighbours
  <2>5. r.way \in Ways[r.at]
    BY <2>2, <2>4 DEF Placed
  <2>6. r.at # None
    BY <2>4, CoherenceAssumption
  <2>7. Entry(array', r).tag = f.line
    BY <1>1, <2>2, <2>4, <2>5, <2>6 DEF TagsStay, Entry
  <2>8. stack'[p][m] = [r EXCEPT !.wb = @ \/ wrote] /\ r \in Frames
    BY <1>1
  <2>9. m \in 1..Len(stack'[p]) /\ stack'[p][m].at = r.at /\ stack'[p][m].way = r.way
    BY <1>1, <1>3
  <2>10. stack'[p][m].wb
    <3> HIDE DEF r
    <3> QED
      BY <1>5, <2>8 DEF Frames
  <2>11. Entry(array', stack'[p][m]).tag = f.line
    BY <2>7, <2>9 DEF Entry
  <2> QED
    BY <2>9, <2>10, <2>11 DEF Modified
<1> QED
  BY <1>4, <1>5

\* An invalidation takes from the filter what it takes from its L1, and what was
\* written there is recorded.
LEMMA InvalidateFilters ==
    ASSUME IInv, FilterInv, SameProcess, NEW p \in Leaves, Invalidate(p)
    PROVE  FilterInv'
<1> DEFINE f == Top(p)
           n == Len(stack[p])
<1>1. /\ Busy(p) /\ f.pc = "down" /\ dirty' = dirty
      /\ filter' = IF f.at \in Leaves
                   THEN [filter EXCEPT ![f.at] = FilterAfter(f.at, f.line, p)]
                   ELSE filter
  BY DEF Invalidate, At
<1>2. PICK m : Unwinds(p, m)
  BY InvalidateUnwinds
<1>3. /\ Records(stack, stack', p)
      /\ Entry(array, f).st = "M" => Modified(array', stack', f.line)
  BY <1>2, UnwindsRecord
<1>4. /\ n \in Nat /\ n > 1 /\ Len(stack'[p]) = n - 1
      /\ \A q \in Leaves : q # p => stack'[q] = stack[q]
      /\ TagsStay(array, array', None)
      /\ \A b \in Caches, l \in Lines :
            ~(b = f.at /\ l = f.line) => StateOf(array', b, l) = StateOf(array, b, l)
      /\ f.at \in Caches /\ f.line \in Lines
      /\ StateOf(array, f.at, f.line) = Entry(array, f).st
  BY <1>2 DEF Unwinds, Lowered
<1>5. stack'[p] # <<>>
  <2> HIDE DEF n
  <2> SUFFICES ASSUME stack'[p] = <<>>
               PROVE  FALSE
    OBVIOUS
  <2>1. Len(stack'[p]) = 0
    OBVIOUS
  <2> QED
    BY <1>4, <2>1
<1>6. ~Top(p).wb
  BY <1>1, NothingRecorded
<1> HIDE DEF f
<1>7. ASSUME NEW l \in Lines, dirty'[l]
      PROVE  Modified(array', stack', l)
  <2>1. Modified(array, stack, l)
    BY <1>1, <1>7 DEF FilterInv
  <2>2. WorksIn(p, None)
    BY DEF WorksIn
  <2>3. ASSUME NEW b \in Caches, StateOf(array, b, l) = "M"
        PROVE  Modified(array', stack', l)
    <3>1. CASE b = f.at /\ l = f.line
      BY <1>3, <1>4, <2>3, <3>1
    <3>2. CASE ~(b = f.at /\ l = f.line)
      <4>1. StateOf(array', b, l) = "M"
        BY <1>4, <2>3, <3>2
      <4> QED
        BY <4>1 DEF Modified
    <3> QED
      BY <3>1, <3>2
  <2> QED
    BY <1>3, <1>4, <1>6, <2>1, <2>2, <2>3, ModifiedKept
<1>8. ASSUME NEW q \in Leaves
      PROVE  Filtered(array', q, stack'[q], filter'[q])
  <2>1. Filtered(array, q, stack[q], filter[q])
    BY DEF FilterInv
  <2>2. /\ filter \in [Leaves -> [rd : Lines \cup {None}, wr : Lines \cup {None}]]
        /\ filter[q].rd \in Lines \cup {None} /\ filter[q].wr \in Lines \cup {None}
    BY DEF IInv, Kinds
  <2>3. filter'[q] = IF q = f.at /\ filter[q].rd = f.line THEN [rd |-> None, wr |-> None]
                     ELSE filter[q]
    BY <1>1, <1>4, <2>2 DEF SameProcess, FilterAfter
  <2>4. CASE q = f.at /\ filter[q].rd = f.line
    BY <2>3, <2>4 DEF Filtered
  <2>5. CASE ~(q = f.at /\ filter[q].rd = f.line)
    <3>1. filter'[q] = filter[q]
      BY <2>3, <2>5
    <3>2. q = p => stack'[q] # <<>>
      BY <1>5
    <3>3. q # p => stack'[q] = stack[q]
      BY <1>4
    <3>4. filter[q].rd # None => StateOf(array', q, filter[q].rd) = StateOf(array, q, filter[q].rd)
      <4>1. q \in Caches
        BY CoherenceAssumption
      <4> QED
        BY <1>4, <2>2, <2>5, <4>1
    <3>5. filter[q].wr \in {None, filter[q].rd}
      BY <2>1 DEF Filtered
    <3> QED
      BY <2>1, <3>1, <3>2, <3>3, <3>4, <3>5 DEF Filtered
  <2> QED
    BY <2>4, <2>5
<1> QED
  BY <1>7, <1>8 DEF FilterInv

-----------------------------------------------------------------------------
(* The theorems                                                            *)

\* Empty filters answer nothing, and no line is dirty at first.
LEMMA InitFilters ==
    ASSUME Init
    PROVE  FilterInv
<1>1. /\ filter = [p \in Leaves |-> [rd |-> None, wr |-> None]]
      /\ dirty = [l \in Lines |-> FALSE]
  BY DEF Init
<1>2. \A p \in Leaves : Filtered(array, p, stack[p], filter[p])
  BY <1>1 DEF Filtered
<1> QED
  BY <1>1, <1>2 DEF FilterInv

\* Every step keeps the filters and the writes.
LEMMA NextFilters ==
    ASSUME IInv, FilterInv, SameProcess, [Next]_vars
    PROVE  FilterInv'
<1>1. CASE UNCHANGED vars
  <2>1. array' = array /\ filter' = filter /\ stack' = stack /\ dirty' = dirty
    BY <1>1 DEF vars
  <2> QED
    BY <2>1 DEF FilterInv
<1>2. ASSUME NEW p \in Leaves, Issue(p) \/ ContextSwitch(p)
      PROVE  FilterInv'
  BY <1>2, IssueFilters, SwitchFilters
<1>3. ASSUME NEW p \in Leaves, Access(p)
      PROVE  FilterInv'
  <2>1. CASE LockTcc(p)
    BY <2>1, LockTccFilters
  <2>2. CASE LockBcc(p)
    BY <2>2, LockBccFilters
  <2>3. CASE EvictChild(p)
    BY <2>3, EvictChildFilters
  <2>4. CASE EvictLine(p)
    BY <2>4, EvictLineFilters
  <2>5. CASE Evicted(p)
    BY <2>5, EvictedFilters
  <2>6. CASE Hit(p)
    BY <2>6, HitFilters
  <2>7. CASE MissToMemory(p)
    BY <2>7, MissToMemoryFilters
  <2>8. CASE MissToParent(p)
    BY <2>8, MissToParentFilters
  <2>9. CASE ClearRivals(p)
    BY <2>9, ClearRivalsFilters
  <2>10. CASE Grant(p)
    BY <2>10, LeafGrantFilters, GrantFilters
  <2>11. CASE EndAccess(p)
    BY <2>11, EndAccessFilters
  <2>12. CASE Fill(p)
    BY <2>12, FillFilters
  <2> QED
    BY <1>3, <2>1, <2>2, <2>3, <2>4, <2>5, <2>6, <2>7, <2>8, <2>9, <2>10, <2>11, <2>12 DEF Access
<1>4. ASSUME NEW p \in Leaves, Invalidation(p)
      PROVE  FilterInv'
  BY <1>4, LockInvFilters, SendInvalidateFilters, InvalidateFilters DEF Invalidation
<1>5. CASE Next
  <2>1. PICK p \in Leaves : Issue(p) \/ ContextSwitch(p) \/ Access(p) \/ Invalidation(p)
    BY <1>5 DEF Next
  <2> QED
    BY <1>2, <1>3, <1>4, <2>1
<1> QED
  BY <1>1, <1>5

\* Filters and writes, beside the invariant of the hierarchy.
LEMMA FiltersInvariant ==
    ASSUME SameProcess
    PROVE  Spec => []FilterInv
<1>1. Init => FilterInv
  BY InitFilters
<1>2. IInv /\ FilterInv /\ [Next]_vars => FilterInv'
  BY NextFilters
<1> QED
  BY <1>1, <1>2, Invariant, PTL DEF Spec

\* What the filter of an idle core holds its L1 has.
LEMMA FiltersCohere ==
    ASSUME FilterInv
    PROVE  FilterCoherent
<1> SUFFICES ASSUME NEW p \in Leaves, NEW l \in Lines, ~Busy(p)
             PROVE  /\ filter[p].rd = l => StateIn(p, l) # "I"
                    /\ filter[p].wr = l => StateIn(p, l) = "M"
  BY DEF FilterCoherent
<1>1. Filtered(array, p, stack[p], filter[p]) /\ stack[p] = <<>>
  BY DEF FilterInv, Busy
<1>2. l # None
  BY CoherenceAssumption
<1> QED
  BY <1>1, <1>2, HelpersAre DEF Filtered

\* A filter's hit is one the L1 would have had too, while all cores run one process.
THEOREM FiltersAnswer ==
    ASSUME SameProcess
    PROVE  Spec => []FilterCoherent
<1>1. FilterInv => FilterCoherent
  BY FiltersCohere
<1> QED
  BY <1>1, FiltersInvariant, PTL

\* A line that is modified somewhere has a copy or a record of it.
LEMMA WritesKept ==
    ASSUME IInv, FilterInv
    PROVE  WritebackNotLost
<1> SUFFICES ASSUME NEW l \in Lines, dirty[l]
             PROVE  \/ \E c \in Caches : StateIn(c, l) = "M"
                    \/ \E p \in Leaves : \E i \in DOMAIN stack[p] :
                          LET f == stack[p][i]
                          IN  f.wb /\ array[f.at][f.way].tag = l
  BY DEF WritebackNotLost
<1>1. Modified(array, stack, l)
  BY DEF FilterInv
<1>2. \A p \in Leaves : DOMAIN stack[p] = 1..Len(stack[p])
  BY DEF IInv, Threads
<1> QED
  BY <1>1, <1>2, HelpersAre DEF Modified, Entry

\* No write of a core is lost on its way to memory, while all cores run one process.
THEOREM WritesReachMemory ==
    ASSUME SameProcess
    PROVE  Spec => []WritebackNotLost
<1>1. IInv /\ FilterInv => WritebackNotLost
  BY WritesKept
<1> QED
  BY <1>1, FiltersInvariant, Invariant, PTL
=============================================================================
