------------------------------ MODULE CubeNets ------------------------------
(***************************************************************************)
(* Meshes and tori of n dimensions of k routers, a node at each, and their *)
(* routing functions (booksim2/src/networks/kncube.cpp, routefunc.cpp).    *)
(* Output 2d leads to the right neighbour in dimension d, 2d+1 to the left *)
(* one, and input 2d comes from the right one; 2n is the node.  A mesh is  *)
(* wired like a torus, its routing never takes the wrapping channels.      *)
(***************************************************************************)
EXTENDS RouteOps
LOCAL INSTANCE FiniteSetsExt
LOCAL INSTANCE SequencesExt

CubeSize(g) == g.k ^ g.n

Dims(g) == 0..(g.n - 1)

Node(g) == 2 * g.n     \* the port to and from the router's own node

RightNode(g, r, d) == WithDigit(r, d, g.k, (Digit(r, d, g.k) + 1) % g.k)

LeftNode(g, r, d) == WithDigit(r, d, g.k, (Digit(r, d, g.k) + g.k - 1) % g.k)

\* Where an output port leads: the next router and its input port; <<-1, node>>
\* at the node.
CubeLink(g, r, p) ==
    LET d == p \div 2
    IN  IF p = Node(g) THEN <<-1, r>>
        ELSE IF p % 2 = 0 THEN <<RightNode(g, r, d), 2 * d + 1>> ELSE <<LeftNode(g, r, d), 2 * d>>

-----------------------------------------------------------------------------

Unmatched(g, cur, dest) == {d \in Dims(g) : Digit(cur, d, g.k) # Digit(dest, d, g.k)}

\* The port towards dest in dimension d of a mesh.
Towards(g, cur, dest, d) ==
    IF Digit(cur, d, g.k) < Digit(dest, d, g.k) THEN 2 * d ELSE 2 * d + 1

DorNextMesh(g, cur, dest, descending) ==
    LET left == Unmatched(g, cur, dest)
    IN  IF left = {} THEN Node(g)
        ELSE Towards(g, cur, dest, IF descending THEN Max(left) ELSE Min(left))

\* k minus twice the way to the right: positive if that is the shorter one.
Dist2(g, cur, dest, d) ==
    g.k - 2 * ((Digit(dest, d, g.k) - Digit(cur, d, g.k) + g.k) % g.k)

\* Mutant of Partitions: without a dateline.
NoDateline(g, from, to, right, balance) == {0}

\* The parts of the virtual channels that a packet may have in the ring it
\* turns into: with one dateline, or with Cray's two.
Partitions(g, from, to, right, balance) ==
    LET half == (g.k - 1) \div 2
    IN  IF ~balance THEN {IF to < from THEN 1 ELSE 0}
        ELSE IF (right /\ from > to) \/ (~right /\ from < to) THEN {1}
        ELSE IF \/ right /\ from <= half /\ to > half
                \/ ~right /\ from > half /\ to <= half
             THEN {0} ELSE {0, 1}

\* The ports, and the partitions left in the flit's phase.
DorNextTorus(g, cur, dest, in, ph, balance) ==
    LET left == Unmatched(g, cur, dest)
        d    == Min(left)
    IN  IF left = {} THEN {[port |-> Node(g), ph |-> ph]}
        ELSE IF in \div 2 = d THEN {[port |-> Flip(in), ph |-> ph]}
        ELSE {[port |-> IF right THEN 2 * d ELSE 2 * d + 1, ph |-> part] :
                 <<right, part>> \in
                    {x \in BOOLEAN \X {0, 1} :
                        /\ x[1] => Dist2(g, cur, dest, d) >= 0
                        /\ ~x[1] => Dist2(g, cur, dest, d) <= 0
                        /\ x[2] \in Partitions(g, Digit(cur, d, g.k), Digit(dest, d, g.k),
                                               x[1], balance)}}

-----------------------------------------------------------------------------
(* Meshes.                                                                 *)

DimOrderMesh(g, r, f) == {Go(f, DorNextMesh(g, r, f.dest, FALSE), ClassVcs(g, f))}

\* A part of the channels for each destination.
DimOrderNiMesh(g, r, f) ==
    LET port == DorNextMesh(g, r, f.dest, FALSE)
    IN  {Go(f, port, IF r = f.dest THEN ClassVcs(g, f)
                     ELSE PartVcs(g, f, f.dest, CubeSize(g)))}

\* A part for each coordinate of the destination in the dimension ahead.
DimOrderPniMesh(g, r, f) ==
    LET port == DorNextMesh(g, r, f.dest, FALSE)
    IN  {Go(f, port, IF r = f.dest THEN ClassVcs(g, f)
                     ELSE PartVcs(g, f, Digit(f.dest, port \div 2, g.k), g.k))}

\* The order of the dimensions is chosen where the packet enters (by chance,
\* or by the loads, where a tie is left to chance) and kept in the channels.
XyYxMesh(g, r, in, f) ==
    LET xThenY == IF in < Node(g) THEN {f.vc < VcBegin(g, f) + AvailableVcs(g, f)} ELSE BOOLEAN
    IN  IF r = f.dest THEN {Go(f, Node(g), ClassVcs(g, f))}
        ELSE {GoHalf(g, f, DorNextMesh(g, r, f.dest, ~xy), xy) : xy \in xThenY}

\* Nodes of the minimal quadrant that two nodes span.
Quadrant(g, src, dest) ==
    {x \in 0..(CubeSize(g) - 1) :
        \A d \in Dims(g) :
            LET s == Digit(src, d, g.k)  t == Digit(dest, d, g.k)
            IN  Digit(x, d, g.k) \in Min({s, t})..Max({s, t})}

\* A packet goes to an intermediate node first; it chooses the node where it
\* enters, of the set intms, and is in phase 1 when it has been there.
Phased(g, r, in, f, intms) ==
    LET chosen == IF in = Node(g) THEN {[f EXCEPT !.ph = 0, !.intm = i] : i \in intms} ELSE {f}
    IN  {IF h.ph = 0 /\ r = h.intm THEN [h EXCEPT !.ph = 1] ELSE h : h \in chosen}

PhasePort(g, r, h) == DorNextMesh(g, r, IF h.ph = 0 THEN h.intm ELSE h.dest, FALSE)

GoPhase(g, r, h) ==
    IF r = h.dest THEN Go(h, PhasePort(g, r, h), ClassVcs(g, h))
    ELSE GoHalf(g, h, PhasePort(g, r, h), h.ph = 0)

\* f.src is the router at which the packet enters.
RommMesh(g, r, in, f) == {GoPhase(g, r, h) : h \in Phased(g, r, in, f, Quadrant(g, r, f.dest))}

RommNiMesh(g, r, in, f) ==
    {Go(h, PhasePort(g, r, h), IF r = f.dest THEN ClassVcs(g, f)
                               ELSE PartVcs(g, f, f.dest, CubeSize(g))) :
        h \in Phased(g, r, in, f, Quadrant(g, r, f.dest))}

ValiantMesh(g, r, in, f) == {GoPhase(g, r, h) : h \in Phased(g, r, in, f, 0..(CubeSize(g) - 1))}

\* The dimensions that are left, in the order in which they are added.
InOrder(g, cur, dest) == SetToSortSeq(Unmatched(g, cur, dest), <)

\* The first channel of the class is the escape, in order of dimension; a
\* packet in it stays in it.  The escape is channels 0..vcBegin, with priority
\* vcBegin; the ranges of all dimensions have priority 1, so the first stays.
MinAdaptMesh(g, r, in, f) ==
    LET begin    == VcBegin(g, f)
        escape   == VcRange(DorNextMesh(g, r, f.dest, FALSE), 0..begin, begin)
        left     == InOrder(g, r, f.dest)
        adaptive == [i \in DOMAIN left |->
                        VcRange(Towards(g, r, f.dest, left[i]), (begin + 1)..VcEnd(g, f), 1)]
        vc       == IF in = Node(g) THEN VcEnd(g, f) ELSE f.vc
    IN  IF r = f.dest THEN {Go(f, Node(g), ClassVcs(g, f))}
        ELSE {GoAny(f, <<escape>> \o IF vc # begin THEN adaptive ELSE <<>>)}

\* Adaptive in the plane of dimensions n and n+1, without faulty channels
\* (InsertRandomFaults never gets to insert one): a third of the channels for
\* dimension n, and one for n+1 by the direction taken in n.  Both are added
\* with the same priority.
PlanarAdaptMesh(g, r, in, f) ==
    LET mult   == (VcEnd(g, f) - VcBegin(g, f) + 1) \div 3
        planes == {n \in Unmatched(g, r, f.dest) :
                      ~(in \div 2 = 0 /\ n = 0 /\ f.vc < VcBegin(g, f) + 2 * mult)}
        n      == Min(planes)
        m      == n + 1
        goal   == Towards(g, r, f.dest, n)
        begin  == VcBegin(g, f) + (IF goal % 2 = 1 THEN mult ELSE 0)
        second == SelectSeq(<<Towards(g, r, f.dest, m)>>,
                            LAMBDA p : m \in Unmatched(g, r, f.dest) /\ p # in)
    IN  IF r = f.dest THEN {Go(f, Node(g), ClassVcs(g, f))}
        ELSE IF planes = {} THEN {Panic(f)}
        ELSE {GoAny(f, <<VcRange(goal, (VcBegin(g, f) + 2 * mult)..VcEnd(g, f), 0)>>
                          \o [i \in DOMAIN second |->
                                  VcRange(second[i], begin..(begin + mult - 1), 0)])}

\* Every dimension that is left, with the same priority.
ChaosMesh(g, r, f) ==
    LET left == InOrder(g, r, f.dest)
    IN  IF r = f.dest THEN {Go(f, Node(g), {0})}
        ELSE {GoAny(f, [i \in DOMAIN left |-> VcRange(Towards(g, r, f.dest, left[i]), {0}, 0)])}

-----------------------------------------------------------------------------
(* Tori.  The uninitialised partition that valiant_torus reads is why it    *)
(* and valiant_ni_torus are not here.                                      *)

\* The part of the ring is kept in the flit's phase.
DimOrderTorus(g, r, in, f, balance) ==
    {LET h == [f EXCEPT !.ph = next.ph]
     IN  IF r = f.dest THEN Go(h, next.port, ClassVcs(g, f))
         ELSE GoHalf(g, h, next.port, next.ph = 0) :
        next \in DorNextTorus(g, r, f.dest, in, f.ph, balance)}

DimOrderNiTorus(g, r, in, f) ==
    {Go(f, next.port, IF r = f.dest THEN ClassVcs(g, f)
                      ELSE PartVcs(g, f, f.dest, CubeSize(g))) :
        next \in DorNextTorus(g, r, f.dest, in, f.ph, FALSE)}

\* The first two channels of the class are the escape, the fourth is the
\* adaptive one, added for every dimension with priority 1.  A packet outside
\* the escape would enter it as if it were injected here.  At its destination
\* the range of the node comes before the escape's.
MinAdaptTorus(g, r, in, f) ==
    LET begin    == VcBegin(g, f)
        free     == (IF in = Node(g) THEN VcEnd(g, f) ELSE f.vc) > begin + 1
        left     == InOrder(g, r, f.dest)
        right(d) == Dist2(g, r, f.dest, d) > 0
        adaptive == [i \in DOMAIN left |->
                        VcRange(2 * left[i] + (IF right(left[i]) THEN 0 ELSE 1), {begin + 3}, 1)]
        atDest   == IF r = f.dest THEN <<VcRange(Node(g), ClassVcs(g, f), 0)>> ELSE <<>>
    IN  {GoAny([f EXCEPT !.ph = next.ph],
               atDest \o (IF free THEN adaptive ELSE <<>>)
                   \o <<VcRange(next.port, {IF next.ph = 0 THEN begin ELSE begin + 1}, 0)>>) :
            next \in DorNextTorus(g, r, f.dest, IF free THEN Node(g) ELSE in, f.ph, FALSE)}

\* The ports of the shorter ways in dimension d, the right one first.
Shortest(g, cur, dest, d) ==
    LET dist2 == Dist2(g, cur, dest, d)
    IN  SelectSeq(<<2 * d, 2 * d + 1>>, LAMBDA p : IF p = 2 * d THEN dist2 >= 0 ELSE dist2 <= 0)

\* All of them, with the same priority.
ChaosTorus(g, r, f) ==
    LET left  == InOrder(g, r, f.dest)
        ports == FlattenSeq([i \in DOMAIN left |-> Shortest(g, r, f.dest, left[i])])
    IN  IF r = f.dest THEN {Go(f, Node(g), {0})}
        ELSE {GoAny(f, [i \in DOMAIN ports |-> VcRange(ports[i], {0}, 0)])}
=============================================================================
