----------------------------- MODULE CMeshNets -----------------------------
(***************************************************************************)
(* The concentrated mesh (booksim2/src/networks/cmesh.cpp): k by k routers *)
(* with c = 4 nodes each on ports 0..3, then the ports to +x, -x, +y, -y.  *)
(* At the edges of the mesh those that lead outwards are express channels  *)
(* to the router k/2 further along the edge.                               *)
(***************************************************************************)
EXTENDS RouteOps

CMeshSize(g) == g.k * g.k

X(g, r) == r % g.k

Y(g, r) == r \div g.k

At(g, x, y) == g.k * y + x

PosX(g) == g.c
NegX(g) == g.c + 1
PosY(g) == g.c + 2
NegY(g) == g.c + 3

\* The node on a port of a router: c / n of them side by side.
NodeAt(g, r, p) == (g.k * 2) * (2 * Y(g, r) + p \div 2) + (2 * X(g, r) + (p % 2))

CMeshAttach(g, node) ==
    CHOOSE a \in (0..(CMeshSize(g) - 1)) \X (0..(g.c - 1)) : NodeAt(g, a[1], a[2]) = node

\* The other end of an express channel, in the coordinate along the edge.
Across(g, i) == IF i < g.k \div 2 THEN i + g.k \div 2 ELSE i - g.k \div 2

CMeshLink(g, r, p) ==
    LET x == X(g, r)  y == Y(g, r)  last == g.k - 1
    IN  CASE p < g.c -> <<-1, NodeAt(g, r, p)>>
          [] p = PosX(g) -> IF x = last THEN <<At(g, x, Across(g, y)), PosX(g)>>
                            ELSE <<At(g, x + 1, y), NegX(g)>>
          [] p = NegX(g) -> IF x = 0 THEN <<At(g, x, Across(g, y)), NegX(g)>>
                            ELSE <<At(g, x - 1, y), PosX(g)>>
          [] p = PosY(g) -> IF y = last THEN <<At(g, Across(g, x), y), PosY(g)>>
                            ELSE <<At(g, x, y + 1), NegY(g)>>
          [] p = NegY(g) -> IF y = 0 THEN <<At(g, Across(g, x), y), NegY(g)>>
                            ELSE <<At(g, x, y - 1), PosY(g)>>

-----------------------------------------------------------------------------

NodeToRouter(g, node) == At(g, (node % (2 * g.k)) \div 2, (node \div (2 * g.k)) \div 2)

\* Mutant of NodeToPort: the rows of nodes are taken to be k long.
NodeToPortNarrow(g, node) == (g.c \div 2) * ((node \div g.k) % 2) + (node % 2)

NodeToPort(g, node) == (g.c \div 2) * ((node \div (2 * g.k)) % 2) + (node % 2)

Abs(i) == IF i < 0 THEN -i ELSE i

\* Along x from one router to another, by the express channel of the edge
\* the packet is at if the way is longer than near.
StepX(g, cur, dest, near) ==
    IF Abs(X(g, dest) - X(g, cur)) > near /\ Y(g, cur) = 0 THEN NegY(g)
    ELSE IF Abs(X(g, dest) - X(g, cur)) > near /\ Y(g, cur) = g.k - 1 THEN PosY(g)
    ELSE IF X(g, cur) < X(g, dest) THEN PosX(g) ELSE NegX(g)

StepY(g, cur, dest, near) ==
    IF Abs(Y(g, dest) - Y(g, cur)) > near /\ X(g, cur) = 0 THEN NegX(g)
    ELSE IF Abs(Y(g, dest) - Y(g, cur)) > near /\ X(g, cur) = g.k - 1 THEN PosX(g)
    ELSE IF Y(g, cur) < Y(g, dest) THEN PosY(g) ELSE NegY(g)

\* The routes between different routers, x first and y first.
CMeshXy(g, cur, dest, near) ==
    IF X(g, cur) # X(g, dest) THEN StepX(g, cur, dest, near) ELSE StepY(g, cur, dest, near)

CMeshYx(g, cur, dest, near) ==
    IF Y(g, cur) # Y(g, dest) THEN StepY(g, cur, dest, near) ELSE StepX(g, cur, dest, near)

\* The ways that are too short for an express channel: up to one hop
\* (cmesh_xy, cmesh_yx), less than half the mesh (cmesh_next), or all.
NearXyYx == 1

\* Mutant of NearDor: an off-by-one at half the mesh.
NearDorLess(g) == g.k \div 2 - 2

NearDor(g) == g.k \div 2 - 1

NoExpress(g) == g.k

\* The order is drawn where the packet enters and kept in the channels.
XyYxCMesh(g, r, in, f, near) ==
    LET to == NodeToRouter(g, f.dest)
        xThenY == IF in < g.c THEN BOOLEAN ELSE {f.vc < VcBegin(g, f) + AvailableVcs(g, f)}
    IN  IF r = to THEN {Go(f, NodeToPort(g, f.dest), ClassVcs(g, f))}
        ELSE {GoHalf(g, f, IF xy THEN CMeshXy(g, r, to, near) ELSE CMeshYx(g, r, to, near), xy) :
                 xy \in xThenY}

DorCMesh(g, r, f, near) ==
    LET to == NodeToRouter(g, f.dest)
    IN  {Go(f, IF r = to THEN NodeToPort(g, f.dest) ELSE CMeshXy(g, r, to, near), ClassVcs(g, f))}
=============================================================================
