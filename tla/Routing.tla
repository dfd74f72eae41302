------------------------------ MODULE Routing ------------------------------
(***************************************************************************)
(* A packet's way through the networks of booksim2: it is injected on a    *)
(* virtual channel that the routing function allows, and at every router   *)
(* the routing function is asked and one of the port and channel pairs it  *)
(* offers taken, whichever the allocators grant.  What many packets do to  *)
(* each other is in Deadlocks: sets of packets that wait for each other.   *)
(***************************************************************************)
EXTENDS CubeNets, TreeNets, CMeshNets, DragonflyNets, FlatFlyNets, AnyNets

\* The networks, see RouteOps: records with topo, alg, the sizes, vcs, types
\* and ends, the nodes that send and receive.
CONSTANT Nets

ASSUME NetsAssumption == \A g \in Nets : g.vcs >= 1 /\ g.nodes # {}

VARIABLES
    net,
    at,       \* <<router, input port>>, <<-1, node>> when it has arrived
    flit      \* the head flit: destination, type, channel, phase, intermediate

vars == <<net, at, flit>>

-----------------------------------------------------------------------------
(* The topologies.                                                         *)

Link(g, r, p) ==
    CASE g.topo = "cube"      -> CubeLink(g, r, p)
      [] g.topo = "fly"       -> FlyLink(g, r, p)
      [] g.topo = "fattree"   -> FatTreeLink(g, r, p)
      [] g.topo = "qtree"     -> QTreeLink(g, r, p)
      [] g.topo = "tree4"     -> Tree4Link(g, r, p)
      [] g.topo = "cmesh"     -> CMeshLink(g, r, p)
      [] g.topo = "dragonfly" -> DragonflyLink(g, r, p)
      [] g.topo = "flatfly"   -> FlatFlyLink(g, r, p)
      [] g.topo = "anynet"    -> AnyLink(g, r, p)

\* The router and port at which a node injects.
Attach(g, node) ==
    CASE g.topo = "cube"      -> <<node, Node(g)>>
      [] g.topo = "fly"       -> FlyAttach(g, node)
      [] g.topo = "fattree"   -> FatTreeAttach(g, node)
      [] g.topo = "qtree"     -> QTreeAttach(g, node)
      [] g.topo = "tree4"     -> Tree4Attach(g, node)
      [] g.topo = "cmesh"     -> CMeshAttach(g, node)
      [] g.topo = "dragonfly" -> DragonflyAttach(g, node)
      [] g.topo = "flatfly"   -> FlatFlyAttach(g, node)
      [] g.topo = "anynet"    -> AnyAttach(g, node)

NumPorts(g, r) ==
    CASE g.topo = "cube"      -> 2 * g.n + 1
      [] g.topo = "fly"       -> g.k
      [] g.topo = "fattree"   -> IF Level(g, r) = 0 THEN g.k ELSE 2 * g.k
      [] g.topo = "qtree"     -> IF r = 0 THEN g.k ELSE g.k + 1
      [] g.topo = "tree4"     -> IF r \div 16 < g.n - 1 THEN 8 ELSE 6
      [] g.topo = "cmesh"     -> g.c + 4
      [] g.topo = "dragonfly" -> 4 * g.k - 1
      [] g.topo = "flatfly"   -> g.c + (g.k - 1) * g.n
      [] g.topo = "anynet"    -> Cardinality(Hosted(g, r)) + Cardinality(Adjacent(g, r))

-----------------------------------------------------------------------------
(* The routing functions.                                                  *)

\* AnyNet's tables are built once.
RouteTables ==
    [g \in {h \in Nets : h.topo = "anynet"} |-> [r \in AnyRouters(g) |-> RouteTable(g, r)]]

\* The channels on which a packet may be injected.
InjectVcs(g, f) ==
    CASE g.alg \in {"dim_order_ni_mesh", "romm_ni_mesh"} -> PartVcs(g, f, f.dest, CubeSize(g))
      [] g.alg = "dim_order_pni_mesh" -> PartVcs(g, f, Digit(f.dest, 0, g.k), g.k)
      [] g.alg = "ugal_pni_flatfly"   -> PartVcs(g, f, Digit(HomeOf(g, f), 0, g.k), g.k)
      [] g.alg \in {"chaos_mesh", "chaos_torus"} -> {0}
      [] g.alg \in {"min_dragonflynew", "ugal_dragonflynew"} -> 0..(g.vcs - 1)
      [] OTHER -> ClassVcs(g, f)

\* These do not assert that the packet is on a channel of its class.
Unclassed == {"chaos_mesh", "chaos_torus", "min_dragonflynew", "ugal_dragonflynew", "min_anynet"}

Outcomes(g, r, in, f) ==
    CASE g.alg = "dor_mesh"            -> DimOrderMesh(g, r, f)
      [] g.alg = "dim_order_ni_mesh"   -> DimOrderNiMesh(g, r, f)
      [] g.alg = "dim_order_pni_mesh"  -> DimOrderPniMesh(g, r, f)
      [] g.alg \in {"xy_yx_mesh", "adaptive_xy_yx_mesh"} -> XyYxMesh(g, r, in, f)
      [] g.alg = "romm_mesh"           -> RommMesh(g, r, in, f)
      [] g.alg = "romm_ni_mesh"        -> RommNiMesh(g, r, in, f)
      [] g.alg = "valiant_mesh"        -> ValiantMesh(g, r, in, f)
      [] g.alg = "min_adapt_mesh"      -> MinAdaptMesh(g, r, in, f)
      [] g.alg = "planar_adapt_mesh"   -> PlanarAdaptMesh(g, r, in, f)
      [] g.alg = "chaos_mesh"          -> ChaosMesh(g, r, f)
      [] g.alg = "dim_order_torus"     -> DimOrderTorus(g, r, in, f, FALSE)
      [] g.alg = "dim_order_bal_torus" -> DimOrderTorus(g, r, in, f, TRUE)
      [] g.alg = "dim_order_ni_torus"  -> DimOrderNiTorus(g, r, in, f)
      [] g.alg = "min_adapt_torus"     -> MinAdaptTorus(g, r, in, f)
      [] g.alg = "chaos_torus"         -> ChaosTorus(g, r, f)
      [] g.alg = "dest_tag_fly"        -> DestTagFly(g, r, f)
      [] g.alg \in {"nca_fattree", "anca_fattree"} -> FatTreeNca(g, r, in, f)
      [] g.alg = "nca_qtree"           -> QTreeNca(g, r, f)
      [] g.alg = "nca_tree4"           -> Tree4Nca(g, r, f)
      [] g.alg = "anca_tree4"          -> Tree4Anca(g, r, f)
      [] g.alg = "xy_yx_cmesh"         -> XyYxCMesh(g, r, in, f, NearXyYx)
      [] g.alg = "xy_yx_no_express_cmesh" -> XyYxCMesh(g, r, in, f, NoExpress(g))
      [] g.alg = "dor_cmesh"           -> DorCMesh(g, r, f, NearDor(g))
      [] g.alg = "dor_no_express_cmesh" -> DorCMesh(g, r, f, NoExpress(g))
      [] g.alg = "min_dragonflynew"    -> MinDragonfly(g, r, in, f)
      [] g.alg = "ugal_dragonflynew"   -> UgalDragonfly(g, r, in, f)
      [] g.alg = "ran_min_flatfly"     -> MinFlatFly(g, r, f)
      [] g.alg \in {"xyyx_flatfly", "adaptive_xyyx_flatfly"} -> XyYxFlatFly(g, r, in, f)
      [] g.alg = "valiant_flatfly"     -> ValiantFlatFly(g, r, in, f)
      [] g.alg = "ugal_flatfly"        -> UgalFlatFly(g, r, in, f)
      [] g.alg = "ugal_pni_flatfly"    -> UgalPniFlatFly(g, r, in, f)
      [] g.alg = "ugal_xyyx_flatfly"   -> UgalXyYxFlatFly(g, r, in, f)
      [] g.alg = "min_anynet"          -> MinAnyNet(g, RouteTables[g], r, f)

Route(g, r, in, f) ==
    IF g.alg \notin Unclassed /\ f.vc \notin ClassVcs(g, f) THEN {Panic(f)}
    ELSE Outcomes(g, r, in, f)

-----------------------------------------------------------------------------
(* The way of a packet.                                                    *)

Injected(g) ==
    LET new(dest, type) == [dest |-> dest, type |-> type, vc |-> -1, ph |-> -1, intm |-> -1]
    IN  UNION {{<<Attach(g, src), [new(dest, type) EXCEPT !.vc = vc]>> :
                    src \in g.nodes, vc \in InjectVcs(g, new(dest, type))} :
                  dest \in g.nodes, type \in g.types}

\* The places and flits after one hop.
Hops(g, where, f) ==
    UNION {{<<Link(g, where[1], x[1]), [o.flit EXCEPT !.vc = x[2]]>> : x \in Ways(o.offers)} :
              o \in Route(g, where[1], where[2], f)}

Init == net \in Nets /\ \E s \in Injected(net) : at = s[1] /\ flit = s[2]

Hop ==
    /\ at[1] # -1
    /\ \E s \in Hops(net, at, flit) : at' = s[1] /\ flit' = s[2]
    /\ UNCHANGED net

Arrived == at[1] = -1 /\ UNCHANGED vars

Next == Hop \/ Arrived

Spec == Init /\ [][Next]_vars

FairSpec == Spec /\ WF_vars(Hop)

-----------------------------------------------------------------------------
(* Properties.                                                             *)

\* No assertion of a routing function fails, and it offers something, only
\* ports that the router has and no range that is empty or goes beyond the
\* channels that the configuration has.
NoPanic ==
    at[1] # -1 =>
        \A o \in Route(net, at[1], at[2], flit) :
            /\ o.offers # {}
            /\ \A range \in o.offers :
                /\ range.port \in 0..(NumPorts(net, at[1]) - 1)
                /\ range.vcs # {} /\ range.vcs \subseteq 0..(net.vcs - 1)

\* Nothing false is asserted on the way; a packet leaves the network at the
\* node it was sent to, and a request never takes a channel that is kept for
\* replies, nor a reply one of the requests'.
Delivered ==
    /\ NoPanic
    /\ at[1] = -1 => at[2] = flit.dest
    /\ flit.vc \in ClassVcs(net, flit)

\* Every packet arrives, whichever of the offered ways it is given each time.
Arrives == <>(at[1] = -1)

-----------------------------------------------------------------------------
(* Deadlock.  A packet's route is decided once at each router; its head     *)
(* then waits for one of the channels it was offered, and its body keeps    *)
(* the channels behind it.  A set of channels can be deadlocked if each may *)
(* be held by a packet whose head waits for channels of the set only.       *)

\* The channel whose buffer a packet's head is in.
Channel(s) == <<s[1], s[2].vc>>

\* The choices that the routing function may leave a head, each the set of
\* the channels in the ranges that are kept: it waits while all of them are
\* held.  None if it may leave the network.
Waits(g, s) ==
    {c \in {{<<Link(g, s[1][1], x[1]), x[2]>> : x \in Ways(o.offers)} :
                o \in Route(g, s[1][1], s[1][2], s[2])} :
        \A x \in c : x[1][1] # -1}

RECURSIVE ReachedFrom(_, _, _)
ReachedFrom(g, reached, new) ==
    LET next == UNION {{t \in Hops(g, s[1], s[2]) : t[1][1] # -1} : s \in new} \ reached
    IN  IF new = {} THEN reached ELSE ReachedFrom(g, reached \cup next, next)

\* Of the heads in S: those that can be blocked while the channels of all of
\* S are held, or whose packet's head gets blocked further on.
RECURSIVE Blockable(_, _, _)
Blockable(waits, next, S) ==
    LET held == {Channel(s) : s \in S}
        rest == {s \in S : (\E c \in waits[s] : c \subseteq held) \/ next[s] \cap S # {}}
    IN  IF rest = S THEN S ELSE Blockable(waits, next, rest)

\* The heads that can be part of a deadlock.
Deadlocked(g) ==
    LET all   == ReachedFrom(g, Injected(g), Injected(g))
        waits == [s \in all |-> Waits(g, s)]
        next  == [s \in all |-> Hops(g, s[1], s[2])]
    IN  Blockable(waits, next, all)

\* On a torus a chaos router does not rely on its channels: it has a queue of
\* its own to put packets aside (on a mesh its first range is in dimension
\* order). Two functions can deadlock: Valiant's routes on a mesh may pass the
\* destination in their first phase, where the phases are not kept apart;
\* ugal_dragonflynew takes local channels before and after a global one on the
\* same virtual channel.
MayDeadlock == {"chaos_torus", "valiant_mesh", "ugal_dragonflynew"}

Deadlocks == [g \in Nets |-> IF g.alg \in MayDeadlock THEN {} ELSE Deadlocked(g)]

\* No packet ever comes to where it can be part of a deadlock: that the order
\* of dimensions, the phases, the datelines and the escape channels of the
\* routing functions are there for.
DeadlockFree == <<at, flit>> \notin Deadlocks[net]
=============================================================================
