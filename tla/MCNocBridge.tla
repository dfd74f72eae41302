---------------------------- MODULE MCNocBridge ----------------------------
EXTENDS NocBridge, TLC

\* Five L2s: the core's own next to the L3, one of the others two hops away.
Plain(accesses) ==
    [cpu |-> 1, noc |-> 1, hopDelay |-> 1, size |-> 1,
     hops |-> <<0, 1, 0, 2, 0>>, memHops |-> 0,
     accLat1 |-> 1, accLat2 |-> 1, accLat3 |-> 2, invLat |-> 1, memLat |-> 2, loadLat |-> 1,
     accesses |-> accesses, late |-> 1]

Hit(shared) == [l3 |-> "hit", shared |-> shared]

Miss(victim, holders) == [l3 |-> "miss", victim |-> victim, holders |-> holders]

At(issue, dispatch, put, a) ==
    a @@ [issue |-> issue, dispatch |-> dispatch, put |-> put]

Clocked(s, cpu, noc) == [s EXCEPT !.cpu = cpu, !.noc = noc]

One(put, a) == Plain(<<At(1, 2, put, a)>>)

\* Every kind of access on its own.
Hits == {One("none", Hit(x)) : x \in {<<>>, <<2>>, <<2, 3>>, <<3, 2>>, <<2, 3, 4>>}}

Misses == {One("none", Miss("none", <<>>))}
    \cup {One("none", Miss(v, x)) : v \in {"clean", "dirty"}, x \in {<<>>, <<4>>, <<2, 3>>}}

Puts == {One(put, a) : put \in {"hit", "skip"}, a \in {Hit(<<>>), Hit(<<2>>), Miss("clean", <<2>>)}}

\* More invalidations than an event has children in a block, none late.
Many == {[One("none", a) EXCEPT !.late = 0]
            : a \in {Hit(<<2, 3, 4, 5>>), Miss("dirty", <<5, 4, 3, 2>>)}}

\* A second access that is dispatched before, or after, the first is answered.
Twos == {Plain(<<At(1, 2, "none", Hit(<<>>)), At(2, d, "none", a)>>)
            : d \in {4, 20}, a \in {Hit(<<2>>), Miss("none", <<>>)}}

\* The two clocks differ; then there is more than one cycle in a step, or more
\* than one step in a cycle, or both.
Clocks == {Clocked(One("none", a), c[1], c[2])
            : a \in {Hit(<<2>>), Miss("dirty", <<2, 3>>)}, c \in {<<2, 1>>, <<1, 2>>, <<2, 3>>, <<3, 2>>}}

Setups == Hits \cup Misses \cup Puts \cup Many \cup Twos \cup Clocks

MCRecordings == {Recorded(s) : s \in Setups}
=============================================================================
