----------------------------- MODULE MCRouting -----------------------------
(* Instances of Routing for TLC.                                           *)
EXTENDS Routing

Untyped == {"any"}
Typed == {"request", "reply"}

Cube(alg, k, n, vcs, types) ==
    [topo |-> "cube", alg |-> alg, k |-> k, n |-> n, vcs |-> vcs, types |-> types,
     nodes |-> 0..(k^n - 1)]

Net(topo, alg, k, n, c, vcs, types, nodes) ==
    [topo |-> topo, alg |-> alg, k |-> k, n |-> n, c |-> c, vcs |-> vcs, types |-> types,
     nodes |-> nodes]

Meshes ==
    {Cube("dor_mesh", 3, 2, 2, Typed), Cube("xy_yx_mesh", 3, 2, 4, Typed),
     Cube("dim_order_ni_mesh", 2, 2, 4, Untyped), Cube("dim_order_pni_mesh", 3, 2, 6, Typed),
     Cube("romm_mesh", 3, 2, 2, Untyped), Cube("romm_ni_mesh", 2, 2, 8, Typed),
     Cube("valiant_mesh", 3, 2, 2, Untyped), Cube("min_adapt_mesh", 3, 2, 2, Untyped), Cube("planar_adapt_mesh", 3, 2, 3, Untyped),
     Cube("chaos_mesh", 3, 2, 1, Untyped)}

Tori ==
    {Cube("dim_order_torus", 5, 1, 4, Typed), Cube("dim_order_torus", 4, 1, 2, Untyped),
     Cube("dim_order_torus", 3, 2, 2, Untyped),
     Cube("dim_order_bal_torus", 5, 1, 2, Untyped), Cube("dim_order_bal_torus", 3, 2, 4, Typed),
     Cube("dim_order_ni_torus", 3, 1, 3, Untyped),
     Cube("min_adapt_torus", 4, 1, 4, Untyped), Cube("min_adapt_torus", 3, 2, 4, Untyped), Cube("min_adapt_torus", 3, 1, 8, Typed),
     Cube("chaos_torus", 4, 1, 1, Untyped)}

Trees ==
    {Net("fly", "dest_tag_fly", 2, 3, 1, 2, Typed, 0..7),
     Net("fattree", "nca_fattree", 2, 3, 1, 2, Typed, 0..7),
     Net("qtree", "nca_qtree", 4, 3, 1, 2, Typed, {0, 1, 5, 22, 47, 63}),
     Net("tree4", "nca_tree4", 4, 3, 1, 2, Typed, {0, 1, 5, 22, 47, 63}),
     Net("tree4", "anca_tree4", 4, 3, 1, 2, Untyped, {0, 1, 5, 22, 47, 63})}

\* One node of each router of a concentrated k by k network.
Corners(k) == {(2 * k) * (2 * y + 1) + 2 * x : x \in 0..(k - 1), y \in 0..(k - 1)}

CMeshes ==
    {Net("cmesh", "dor_cmesh", 4, 2, 4, 1, Untyped, Corners(4)),
     Net("cmesh", "dor_no_express_cmesh", 2, 2, 4, 2, Typed, 0..15),
     Net("cmesh", "xy_yx_cmesh", 4, 2, 4, 2, Untyped, Corners(4)),
     Net("cmesh", "xy_yx_no_express_cmesh", 2, 2, 4, 4, Typed, 0..15)}

FlatFlies ==
    {Net("flatfly", "ran_min_flatfly", 2, 2, 4, 2, Typed, 0..15),
     Net("flatfly", "xyyx_flatfly", 3, 2, 4, 4, Typed, Corners(3)),
     Net("flatfly", "valiant_flatfly", 3, 2, 4, 2, Untyped, Corners(3)),
     Net("flatfly", "ugal_flatfly", 3, 2, 4, 2, Untyped, Corners(3)),
     Net("flatfly", "ugal_xyyx_flatfly", 3, 2, 4, 4, Untyped, Corners(3)),
     Net("flatfly", "ugal_pni_flatfly", 4, 2, 4, 8, Untyped, {0, 21, 42, 50})}

Dragonflies ==
    {Net("dragonfly", "min_dragonflynew", 1, 1, 1, 2, Untyped, 0..5),
     Net("dragonfly", "min_dragonflynew", 2, 1, 1, 2, Untyped, {0, 1, 9, 18, 26, 35, 44, 71}),
     Net("dragonfly", "ugal_dragonflynew", 1, 1, 1, 3, Untyped, 0..5)}

\* A network from a file: links in one direction with their latencies.
AnyNet(routers, latency, host, ends) ==
    [topo |-> "anynet", alg |-> "min_anynet", routers |-> routers, latency |-> latency,
     host |-> host, ends |-> ends, vcs |-> 2, types |-> Typed, nodes |-> DOMAIN host]

Ones(links) == [l \in links |-> 1]

\* booksim2/config/anynet_map.cfg: 6 by 4 routers, each with a node;
\* examples/anynet/anynet_file; the line 1, 2, 3 with a slow channel, and 0 next
\* to all of them, which as an endpoint is no shortcut.
Grid == {l \in (0..23) \X (0..23) :
            \/ l[1] \div 6 = l[2] \div 6 /\ l[1] - l[2] \in {-1, 1}
            \/ l[1] - l[2] \in {-6, 6}}

Triangle == {l \in (0..2) \X (0..2) : l[1] # l[2]}

Hub == {l \in (0..3) \X (0..3) : 0 \in {l[1], l[2]} \/ 2 \in {l[1], l[2]}} \ {<<0, 0>>, <<2, 2>>}

AnyNets24 == AnyNet(24, Ones(Grid), [i \in 0..23 |-> i], {})

FileNets ==
    {[AnyNets24 EXCEPT !.nodes = {0, 5, 8, 15, 18, 23}],
     AnyNet(3, Ones(Triangle), [i \in 0..8 |-> i \div 3], {}),
     AnyNet(4, [l \in Hub |-> IF l = <<1, 2>> THEN 3 ELSE 1], [i \in 0..3 |-> i], {0})}

AllNets == Meshes \cup Tori \cup Trees \cup CMeshes \cup FlatFlies \cup Dragonflies \cup FileNets
=============================================================================
