------------------------------ MODULE AnyNets ------------------------------
(***************************************************************************)
(* A network read from a file (booksim2/src/networks/anynet.cpp), as the   *)
(* sample configuration of the simulator uses: g.routers routers,          *)
(* g.latency a function from the pairs of connected routers, g.host the    *)
(* router of each node, g.ends the endpoint routers ({}: none given).      *)
(* Every router has a table with its port to each node, from the shortest  *)
(* paths that Dijkstra's algorithm finds from it.                          *)
(***************************************************************************)
EXTENDS RouteOps, FiniteSets
LOCAL INSTANCE FiniteSetsExt

AnyRouters(g) == 0..(g.routers - 1)

Adjacent(g, r) == {q \in AnyRouters(g) : <<r, q>> \in DOMAIN g.latency}

Hosted(g, r) == {node \in DOMAIN g.host : g.host[node] = r}

\* The place of an element in a set of numbers, as a map iterates over it.
Rank(S, i) == Quantify(S, LAMBDA j : j < i)

Nth(S, n) == CHOOSE i \in S : Rank(S, i) = n

\* Ports: the nodes of the router, then its neighbours, by number.
NodePort(g, node) == Rank(Hosted(g, g.host[node]), node)

PortTo(g, r, q) == Cardinality(Hosted(g, r)) + Rank(Adjacent(g, r), q)

AnyLink(g, r, p) ==
    LET nodes == Cardinality(Hosted(g, r))
        to    == Nth(Adjacent(g, r), p - nodes)
    IN  IF p < nodes THEN <<-1, Nth(Hosted(g, r), p)>> ELSE <<to, PortTo(g, to, r)>>

AnyAttach(g, node) == <<g.host[node], NodePort(g, node)>>

-----------------------------------------------------------------------------
(* AnyNet::route.                                                          *)

\* From a router that is no endpoint, an endpoint leads to endpoints only.
Skipped(g, start, via, to) ==
    /\ g.ends # {}
    /\ start \notin g.ends /\ via \in g.ends /\ to \notin g.ends

\* found: the distances of the routers reached; prev: the last hop to each;
\* todo: those not yet selected.  The nearest is selected, the lowest of the
\* nearest, until none of those left has been reached (the code, which
\* expects a connected network, then goes on for ever).
RECURSIVE Paths(_, _, _, _, _)
Paths(g, start, found, prev, todo) ==
    LET reached == DOMAIN found \cap todo
        nearest == Min({found[r] : r \in reached})
        via     == Min({r \in reached : found[r] = nearest})
        better  == {q \in Adjacent(g, via) :
                       /\ ~Skipped(g, start, via, q)
                       /\ q \in DOMAIN found => found[via] + g.latency[<<via, q>>] < found[q]}
        next    == [q \in DOMAIN found \cup better |->
                       IF q \in better THEN found[via] + g.latency[<<via, q>>] ELSE found[q]]
        nextPrev == [q \in DOMAIN prev \cup better |-> IF q \in better THEN via ELSE prev[q]]
    IN  IF reached = {} THEN prev
        ELSE Paths(g, start, next, nextPrev, todo \ {via})

\* The first router after start on the way to r, by the last hops.
RECURSIVE FirstHop(_, _, _)
FirstHop(start, prev, r) == IF prev[r] = start THEN r ELSE FirstHop(start, prev, prev[r])

\* The routing table of a router: node to port.
RouteTable(g, start) ==
    LET prev == Paths(g, start, [r \in {start} |-> 0], [r \in {} |-> 0], AnyRouters(g))
    IN  [node \in {i \in DOMAIN g.host : g.host[i] \in DOMAIN prev \cup {start}} |->
            IF g.host[node] = start THEN NodePort(g, node)
            ELSE PortTo(g, start, FirstHop(start, prev, g.host[node]))]

-----------------------------------------------------------------------------

\* table: of this network, by router and node.
MinAnyNet(g, table, r, f) ==
    IF f.dest \notin DOMAIN table[r] THEN {Panic(f)}
    ELSE {Go(f, table[r][f.dest], ClassVcs(g, f))}
=============================================================================
