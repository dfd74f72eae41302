------------------------------ MODULE TreeNets ------------------------------
(***************************************************************************)
(* The indirect networks of booksim2 and their routing functions: the      *)
(* butterfly (networks/fly.cpp), the fat tree (networks/fattree.cpp), the  *)
(* quadtree (networks/qtree.cpp) and the tree with four roots              *)
(* (networks/tree4.cpp).  Routers are numbered by level and position; a    *)
(* position's digits say which way leads there.  A link is the next        *)
(* router and its input port, or <<-1, node>> where a node is attached.    *)
(***************************************************************************)
EXTENDS RouteOps
LOCAL INSTANCE SequencesExt

\* Positions of a level of the butterfly and of the fat tree.
PerLevel(g) == g.k ^ (g.n - 1)

Level(g, r) == r \div PerLevel(g)

Pos(g, r) == r % PerLevel(g)

-----------------------------------------------------------------------------
(* Butterfly: stage 0 is fed by the nodes, the last stage feeds them.      *)

FlySize(g) == g.n * PerLevel(g)

\* Port p of a stage sets the digit that the next stage is to correct.
FlyLink(g, r, p) ==
    LET s == Level(g, r)
        d == g.n - s - 2
    IN  IF s = g.n - 1 THEN <<-1, Pos(g, r) * g.k + p>>
        ELSE <<(s + 1) * PerLevel(g) + WithDigit(Pos(g, r), d, g.k, p), Digit(Pos(g, r), d, g.k)>>

FlyAttach(g, node) == <<node \div g.k, node % g.k>>

DestTagFly(g, r, f) ==
    {Go(f, Digit(f.dest, g.n - 1 - Level(g, r), g.k), ClassVcs(g, f))}

-----------------------------------------------------------------------------
(* Fat tree: level 0 is the top; ports below k lead down, the others up.   *)

FatTreeLink(g, r, p) ==
    LET l    == Level(g, r)
        move == IF p < g.k THEN l + 1 ELSE l - 1
        d    == g.n - 1 - (IF p < g.k THEN l + 1 ELSE l)
        back == Digit(Pos(g, r), d, g.k)
    IN  IF l = g.n - 1 /\ p < g.k THEN <<-1, Pos(g, r) * g.k + p>>
        ELSE <<move * PerLevel(g) + WithDigit(Pos(g, r), d, g.k, p % g.k),
               IF p < g.k THEN g.k + back ELSE back>>

FatTreeAttach(g, node) == <<(g.n - 1) * PerLevel(g) + node \div g.k, node % g.k>>

\* Up by any port (drawn, or the less loaded of two drawn) as long as dest is
\* not below this router.
FatTreeNca(g, r, in, f) ==
    LET below  == g.k ^ (g.n - 1 - Level(g, r))     \* routers_per_neighborhood
        common == f.dest \div (below * g.k) = Pos(g, r) \div below
    IN  IF common THEN {Go(f, Digit(f.dest, g.n - 1 - Level(g, r), g.k), ClassVcs(g, f))}
        ELSE IF in >= g.k THEN {Panic(f)}
        ELSE {Go(f, up, ClassVcs(g, f)) : up \in g.k..(2 * g.k - 1)}

-----------------------------------------------------------------------------
(* Quadtree: three levels, k = 4; ports 0..3 lead to children, 4 up.       *)

QTreeId(h, pos) == h * 256 + pos

QTreeLink(g, r, p) ==
    LET h == r \div 256  pos == r % 256
    IN  IF p = g.k THEN <<QTreeId(h - 1, pos \div g.k), pos % g.k>>
        ELSE IF h = g.n - 1 THEN <<-1, g.k * pos + p>>
        ELSE <<QTreeId(h + 1, g.k * pos + p), g.k>>

QTreeAttach(g, node) == <<QTreeId(g.n - 1, node \div g.k), node % g.k>>

QTreeNca(g, r, f) ==
    LET h == r \div 256  pos == r % 256
        dest == f.dest \div g.k^(g.n - 1 - h)
    IN  {Go(f, IF pos = dest \div g.k THEN dest % g.k ELSE g.k, ClassVcs(g, f))}

-----------------------------------------------------------------------------
(* Tree4: four roots, eight routers below them, sixteen below those; each  *)
(* router has ports 0..3 (a root 0..7) down and the others up.             *)

Tree4Link(g, r, p) ==
    LET h == r \div 16  pos == r % 16
    IN  CASE h = 0 -> <<16 + p, 4 + pos>>
          [] h = 1 /\ p < 4 -> <<32 + 4 * (pos \div 2) + p, 4 + (pos % 2)>>
          [] h = 1 /\ p >= 4 -> <<p - 4, pos>>
          [] h = 2 /\ p < 4 -> <<-1, 4 * pos + p>>
          [] h = 2 /\ p >= 4 -> <<16 + 2 * (pos \div 4) + p - 4, pos % 4>>

Tree4Attach(g, node) == <<32 + node \div 4, node % 4>>

\* The ports that bring a packet nearer to its destination.
Tree4Ports(g, r, f) ==
    LET h == r \div 16  pos == r % 16
    IN  CASE h = 0 -> {2 * (f.dest \div 16), 2 * (f.dest \div 16) + 1}
          [] h = 1 -> IF f.dest \div 16 = pos \div 2 THEN {(f.dest \div 4) % 4}
                      ELSE g.k..(2 * g.k - 1)
          [] h = 2 -> IF f.dest \div 4 = pos THEN {f.dest % 4} ELSE {g.k, g.k + 1}

\* One of them is drawn; anca adds the upward ones all, with the same priority
\* (of a root's two, it draws one).
Tree4Nca(g, r, f) == {Go(f, p, ClassVcs(g, f)) : p \in Tree4Ports(g, r, f)}

Tree4Anca(g, r, f) ==
    IF r \div 16 = 0 THEN Tree4Nca(g, r, f)
    ELSE LET ports == SetToSortSeq(Tree4Ports(g, r, f), <)
         IN  {GoAny(f, [i \in DOMAIN ports |-> VcRange(ports[i], ClassVcs(g, f), 0)])}
=============================================================================
