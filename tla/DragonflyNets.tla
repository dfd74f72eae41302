--------------------------- MODULE DragonflyNets ---------------------------
(***************************************************************************)
(* The dragonfly (booksim2/src/networks/dragonfly.cpp), k = p nodes per    *)
(* router: groups of a = 2p routers that are all connected, and a global   *)
(* channel between any two of the a*p + 1 groups.  Ports: p nodes, 2p - 1  *)
(* routers of the group, p other groups.                                   *)
(***************************************************************************)
EXTENDS RouteOps

GroupRouters(g) == 2 * g.k

Groups(g) == GroupRouters(g) * g.k + 1

DragonflySize(g) == Groups(g) * GroupRouters(g)

FirstLocal(g) == g.k

FirstGlobal(g) == g.k + GroupRouters(g) - 1

Group(g, r) == r \div GroupRouters(g)

\* Everybody's list of the others leaves himself out: the place of j in i's
\* list, and who is at a place of it.
PlaceOf(i, j) == IF j < i THEN j ELSE j - 1

AtPlace(i, place) == IF place < i THEN place ELSE place + 1

DragonflyLink(g, r, p) ==
    LET a    == GroupRouters(g)
        mine == r % a
        peer == AtPlace(mine, p - FirstLocal(g))
        far  == AtPlace(Group(g, r), mine * g.k + p - FirstGlobal(g))    \* the other group
        way  == PlaceOf(far, Group(g, r))                               \* its output to this one
    IN  IF p < FirstLocal(g) THEN <<-1, r * g.k + p>>
        ELSE IF p < FirstGlobal(g)
        THEN <<Group(g, r) * a + peer, FirstLocal(g) + PlaceOf(peer, mine)>>
        ELSE <<far * a + way \div g.k, FirstGlobal(g) + (way % g.k)>>

DragonflyAttach(g, node) == <<node \div g.k, node % g.k>>

-----------------------------------------------------------------------------

\* The next port of the shortest way to a node.
DragonflyPort(g, r, dest) ==
    LET a       == GroupRouters(g)
        home    == dest \div g.k                         \* dest's router
        way     == PlaceOf(Group(g, r), Group(g, home))
        towards == IF Group(g, home) = Group(g, r) THEN home
                   ELSE Group(g, r) * a + way \div g.k
    IN  IF home = r THEN dest % g.k
        ELSE IF towards = r THEN FirstGlobal(g) + (way % g.k)
        ELSE FirstLocal(g) + PlaceOf(r % a, towards % a)

\* Phase 1 from the global channel on (its destination's group is not looked
\* at: dest_grp_ID is -1); the phase is the virtual channel.
MinDragonfly(g, r, in, f) ==
    LET port == DragonflyPort(g, r, f.dest)
        ph   == IF port >= FirstGlobal(g) THEN 1 ELSE IF in < g.k THEN 0 ELSE f.ph
    IN  {Go([f EXCEPT !.ph = ph], port, {ph})}

\* The phases at the source: 2 within the group, else 1, the shortest way, or
\* 0, by way of a drawn node (if the loads say so) of another group.
UgalStarts(g, r, f) ==
    LET mine == Group(g, r)
        drawn == 0..(DragonflySize(g) * g.k - 1)
    IN  IF Group(g, f.dest \div g.k) = mine THEN {[f EXCEPT !.ph = 2]}
        ELSE {[f EXCEPT !.ph = 1, !.intm = i] : i \in drawn}
             \cup {[f EXCEPT !.ph = 0, !.intm = i] :
                      i \in {j \in drawn : Group(g, j \div g.k) # mine}}

UgalDragonfly(g, r, in, f) ==
    LET starts == IF in < g.k THEN UgalStarts(g, r, f) ELSE {f}
        Then(h) ==
            LET minimal == h.ph = 0 /\ r = h.intm \div g.k
                ph      == IF minimal THEN 1 ELSE h.ph
                port    == DragonflyPort(g, r, IF ph = 0 THEN h.intm ELSE h.dest)
                vc      == IF ph = 1 /\ port >= FirstGlobal(g) THEN 2 ELSE ph
            IN  Go([h EXCEPT !.ph = vc], port, {vc})
    IN  IF g.vcs # 3 THEN {Panic(f)} ELSE {Then(h) : h \in starts}
=============================================================================
