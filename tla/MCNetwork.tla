----------------------------- MODULE MCNetwork -----------------------------
(***************************************************************************)
(* The networks that are checked: two routers in a row, three in a ring or *)
(* a row, four in a square, with the configurations of the router and of  *)
(* the buffers one after the other.                                        *)
(***************************************************************************)
EXTENDS Network

Net(k, n) == [k |-> k, n |-> n, vcs |-> 2]

Default ==
    [net |-> Net(2, 1), fn |-> "dor_mesh", vcs |-> 2, buf |-> 2, policy |-> "private", own |-> 1,
     maxHeld |-> 2, tailCredit |-> FALSE, routing |-> 0, spec |-> FALSE, piggyback |-> FALSE,
     specPrio |-> TRUE, specElig |-> TRUE, specCred |-> TRUE, specMask |-> FALSE, hold |-> FALSE,
     busyFull |-> FALSE, active |-> FALSE, creditDelay |-> 0, latency |-> 1, always |-> FALSE,
     script |-> <<>>]

Spec1 == [Default EXCEPT !.spec = TRUE, !.specPrio = FALSE]

Routers ==
    {Default,
     [Default EXCEPT !.routing = 1],
     [Default EXCEPT !.spec = TRUE],
     Spec1,
     [Spec1 EXCEPT !.specMask = TRUE, !.routing = 1],
     [Default EXCEPT !.spec = TRUE, !.specElig = FALSE, !.specCred = FALSE],
     [Spec1 EXCEPT !.piggyback = TRUE],
     [Default EXCEPT !.hold = TRUE, !.busyFull = TRUE],
     [Default EXCEPT !.creditDelay = 1, !.active = TRUE],
     [Default EXCEPT !.latency = 2, !.always = TRUE, !.active = TRUE]}

Buffers ==
    {[Default EXCEPT !.tailCredit = TRUE],
     [Default EXCEPT !.policy = "shared", !.buf = 3],
     [Default EXCEPT !.policy = "limited", !.buf = 3],
     [Default EXCEPT !.policy = "dynamic", !.buf = 3, !.spec = TRUE],
     [Default EXCEPT !.policy = "shifting", !.buf = 3]}

P(src, dest, size) == [src |-> src, dest |-> dest, size |-> size]

\* Two packets that follow each other, two that meet at the second node.
Line ==
    {[s EXCEPT !.script = x] : s \in Routers \cup Buffers,
                               x \in {<<P(0, 1, 3), P(0, 1, 1)>>, <<P(0, 1, 2), P(1, 1, 2)>>}}

Ring ==
    {[s EXCEPT !.net = Net(3, 1), !.fn = "dim_order_torus", !.script = <<P(0, 2, 2), P(1, 2, 2)>>]
        : s \in {Default, Spec1}}

Square ==
    {[s EXCEPT !.net = Net(2, 2), !.fn = f, !.script = <<P(0, 3, 2), P(1, 3, 1)>>]
        : <<s, f>> \in {<<Default, "dor_mesh">>, <<Spec1, "min_adapt_mesh">>}}

\* The head from node 0, in the escape channel, and the second one of node 1,
\* which is stalled while the first packet has one of its two channels, ask for
\* the same output.
Row ==
    {[Spec1 EXCEPT !.piggyback = TRUE, !.net = Net(3, 1), !.fn = "min_adapt_mesh",
                   !.script = <<P(1, 2, 1), P(1, 2, 1), P(0, 2, 1)>>]}

Everything == Line \cup Ring \cup Square \cup Row

LineChannels == (0..1) \X (-1..2)
=============================================================================
