---------------------------- MODULE FlatFlyNets ----------------------------
(***************************************************************************)
(* The flattened butterfly (booksim2/src/networks/flatfly_onchip.cpp): k^n *)
(* routers with c = 4 nodes each on ports 0..3, every router connected to  *)
(* all the others of its row in each dimension.  The routing functions     *)
(* number the nodes router by router; the network numbers them row by row, *)
(* two by two at a router (n = 2, and xr = yr = 2 in the configuration).   *)
(* The intermediate node f.intm stands for its router, which is all that   *)
(* is asked of it.                                                         *)
(***************************************************************************)
EXTENDS RouteOps, FiniteSets
LOCAL INSTANCE FiniteSetsExt

FlatFlySize(g) == g.k ^ g.n

\* The ports of dimension d, in the order of the others' digits.
DimPort(g, r, d, i) ==
    g.c + (g.k - 1) * d + (IF i < Digit(r, d, g.k) THEN i ELSE i - 1)

Neighbours(g, r) ==
    {WithDigit(r, d, g.k, i) : d \in 0..(g.n - 1), i \in 0..(g.k - 1)} \ {r}

FlatNode(g, r, p) ==
    (g.k * 2) * (2 * (r \div g.k) + p \div 2) + (2 * (r % g.k) + (p % 2))

\* Inputs are added by the loop over the senders, in the order of their ids.
FlatFlyLink(g, r, p) ==
    LET d     == (p - g.c) \div (g.k - 1)
        place == (p - g.c) % (g.k - 1)
        to    == WithDigit(r, d, g.k, IF place < Digit(r, d, g.k) THEN place ELSE place + 1)
    IN  IF p < g.c THEN <<-1, FlatNode(g, r, p)>>
        ELSE <<to, g.c + Quantify(Neighbours(g, to), LAMBDA q : q < r)>>

FlatFlyAttach(g, node) ==
    CHOOSE a \in (0..(FlatFlySize(g) - 1)) \X (0..(g.c - 1)) : FlatNode(g, a[1], a[2]) = node

-----------------------------------------------------------------------------

\* flatfly_transformation: the number of a node router by router.
Transformed(g, node) ==
    LET row == node \div (2 * g.k)  col == node % (2 * g.k)
    IN  ((row \div 2) * g.k + col \div 2) * g.c + 2 * (row % 2) + (col % 2)

HomeOf(g, f) == Transformed(g, f.dest) \div g.c

\* The port to a router; of the router itself, the one to the flit's node.
OutPort(g, f, to, r, descending) ==
    LET off == {d \in 0..(g.n - 1) : Digit(to, d, g.k) # Digit(r, d, g.k)}
        d   == IF descending THEN Max(off) ELSE Min(off)
    IN  IF off = {} THEN Transformed(g, f.dest) % g.c
        ELSE DimPort(g, r, d, Digit(to, d, g.k))

MinFlatFly(g, r, f) == {Go(f, OutPort(g, f, HomeOf(g, f), r, FALSE), ClassVcs(g, f))}

\* The order is chosen where the packet enters: drawn, or by the loads.
XyYxFlatFly(g, r, in, f) ==
    LET xThenY == IF in < g.c THEN BOOLEAN ELSE {f.vc < VcBegin(g, f) + AvailableVcs(g, f)}
        to     == HomeOf(g, f)
    IN  IF r = to THEN {Go(f, OutPort(g, f, to, r, FALSE), ClassVcs(g, f))}
        ELSE {GoHalf(g, f, OutPort(g, f, to, r, ~xy), xy) : xy \in xThenY}

\* In phase 0 to a router drawn of all; the phase ends there or at home.
ValiantFlatFly(g, r, in, f) ==
    LET to     == HomeOf(g, f)
        starts == IF in < g.c THEN {[f EXCEPT !.ph = 0, !.intm = i] : i \in 0..(FlatFlySize(g) - 1)}
                  ELSE {f}
        Then(h) ==
            LET k == IF r \in {h.intm, to} THEN [h EXCEPT !.ph = 1] ELSE h
                port == OutPort(g, k, IF k.ph = 0 THEN k.intm ELSE to, r, FALSE)
            IN  IF r = to THEN Go(k, port, ClassVcs(g, k)) ELSE GoHalf(g, k, port, k.ph = 0)
    IN  {Then(h) : h \in starts}

-----------------------------------------------------------------------------
(* UGAL: minimal (phase 2) or by way of an intermediate router (phase 1),  *)
(* as the loads say.                                                       *)

\* find_ran_intm: routers of the rows that source and destination span.
Between(g, src, dest) ==
    {i \in 0..(FlatFlySize(g) - 1) :
        \A d \in 0..(g.n - 1) :
            Digit(src, d, g.k) = Digit(dest, d, g.k) => Digit(i, d, g.k) = Digit(src, d, g.k)}

\* What the flit may be after the decision at its source r (phase 0 means
\* undecided; an intermediate router that is the source itself is none), and
\* when it goes through the intermediate router.
UgalPhases(g, r, in, f) ==
    LET to == HomeOf(g, f)
    IN  IF in < g.c
        THEN IF r = to THEN {[f EXCEPT !.ph = 0]}
             ELSE {[f EXCEPT !.ph = 2]}
                  \cup {[f EXCEPT !.ph = 1, !.intm = i] : i \in Between(g, r, to) \ {r}}
        ELSE {IF f.ph = 1 /\ r = f.intm THEN [f EXCEPT !.ph = 2] ELSE f}

UgalTarget(g, h) == IF h.ph = 1 THEN h.intm ELSE HomeOf(g, h)

\* Half of the class's channels for each phase.
UgalFlatFly(g, r, in, f) ==
    {LET port == OutPort(g, h, UgalTarget(g, h), r, FALSE)
     IN  IF port < g.c THEN Go(h, port, ClassVcs(g, h)) ELSE GoHalf(g, h, port, h.ph = 1) :
        h \in UgalPhases(g, r, in, f)}

\* Of each half, the part for the coordinate of the destination in the next
\* dimension (after the last one, the node's place at its router).
UgalPniFlatFly(g, r, in, f) ==
    {LET port  == OutPort(g, h, UgalTarget(g, h), r, FALSE)
         next  == (port - g.c) \div (g.k - 1) + 1
         coord == IF next = g.n THEN Transformed(g, f.dest) % g.c
                  ELSE Digit(HomeOf(g, f), next, g.k)
         half  == IF h.ph = 1 THEN LowerVcs(g, h) ELSE UpperVcs(g, h)
         each  == Cardinality(half) \div g.k
         begin == Min(half) + coord * each
     IN  IF port < g.c THEN Go(h, port, ClassVcs(g, h))
         ELSE IF g.k # g.c THEN Panic(h)
         ELSE Go(h, port, begin..(begin + each - 1)) :
        h \in UgalPhases(g, r, in, f)}

\* Half of the channels for each order of the dimensions, and of these half
\* for each phase.
UgalXyYxFlatFly(g, r, in, f) ==
    LET xThenY == IF in < g.c THEN BOOLEAN ELSE {f.vc < VcBegin(g, f) + AvailableVcs(g, f)}
        Then(h, xy) ==
            LET port == OutPort(g, h, UgalTarget(g, h), r, ~xy)
                half == IF xy THEN LowerVcs(g, h) ELSE UpperVcs(g, h)
                each == AvailableVcs(g, h) \div 2
            IN  IF port < g.c THEN Go(h, port, ClassVcs(g, h))
                ELSE IF each = 0 THEN Panic(h)
                ELSE Go(h, port, IF h.ph = 1 THEN Min(half)..(Max(half) - each)
                                 ELSE (Min(half) + each)..Max(half))
    IN  {Then(h, xy) : h \in UgalPhases(g, r, in, f), xy \in xThenY}
=============================================================================
