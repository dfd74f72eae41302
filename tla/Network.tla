------------------------------ MODULE Network ------------------------------
(***************************************************************************)
(* A booksim2 network that zsim steps (booksim2/src/trafficmanager.cpp,    *)
(* interconnect_interface.cpp, networks/network.cpp, channel.hpp,          *)
(* flitchannel.cpp): nodes that inject and retire packets, routers that    *)
(* step through RouterOps, channels of flits one way and credits the other. *)
(* There is one node to a router, one subnetwork and one class.            *)
(*                                                                         *)
(* Between two steps packets are generated.  A step is one cycle and goes  *)
(* through the phases of TrafficManager::_Step in order; steps are left    *)
(* out, and only the time moves on, while no packet is outstanding.        *)
(*                                                                         *)
(* A configuration c has what RouterOps reads, latency (of the channels    *)
(* between routers), always (compiled with _NO_OPT_: no step is left out)  *)
(* and script (bound: the packets that zsim generates, in this order and   *)
(* each at any time).                                                      *)
(***************************************************************************)
EXTENDS RouterOps
LOCAL INSTANCE FiniteSetsExt
LOCAL INSTANCE SequencesExt
LOCAL INSTANCE Functions

CONSTANTS Setups,      \* the configurations
          Channels     \* at least all their channels: pairs of a router and a port

VARIABLES setup,
          pc,           \* the phase of the step, "idle" between steps
          turn,         \* the router that is evaluated next
          packets,      \* the packets generated: [src, dest, size]
          partial,      \* _partial_packets of each node
          lastVc,       \* _last_vc
          nodeBuf,      \* _buf_states, of the router's input from the node
          outstanding,  \* outstandingFlits: flits that a node and its router have
          outPackets,   \* outStandingPackets
          flitChan,     \* flit channels, by <<router, output port>>; <<n, -1>> injects
          credChan,     \* the credit channels that go with them
          flits,        \* the flits read from the network in this step
          router,
          arrived,      \* the flits retired, of each packet
          least,        \* the steps each packet has to take by its zero-load latency
          bad           \* another assertion failed

vars == <<setup, pc, turn, packets, partial, lastVc, nodeBuf, outstanding, outPackets,
          flitChan, credChan, flits, router, arrived, least, bad>>

c == setup

NodesOf(s) == 0..(CubeSize(s.net) - 1)

Nodes == NodesOf(c)

ChannelsOf(s) == NodesOf(s) \X ({-1} \cup Ports(s))

IsLocal(ch) == ch[2] \in {-1, Node(c.net)}

Inject(n) == <<n, -1>>

Eject(n) == <<n, Node(c.net)>>

\* The channel that ends at an input port.
Into(r, i) == IF i = Node(c.net) THEN Inject(r) ELSE <<CubeLink(c.net, r, i)[1], Flip(i)>>

SinkOf(ch) == CubeLink(c.net, ch[1], ch[2])[1]

Quiet == [in |-> Empty, wait |-> <<>>, out |-> Empty]

-----------------------------------------------------------------------------
(* Channels.                                                               *)

LatencyOf(ch) == IF IsLocal(ch) THEN 1 ELSE c.latency

\* Channel::ReadInputs.  left is the time until the item is due.
Taken(k, ch) ==
    IF k.in = Empty THEN k
    ELSE [k EXCEPT !.in = Empty, !.wait = Append(@, [item |-> Head(k.in), left |-> LatencyOf(ch) - 1])]

\* Channel::WriteOutputs
Written(k) ==
    IF k.wait = <<>> \/ Head(k.wait).left > 0 THEN [k EXCEPT !.out = Empty]
    ELSE [k EXCEPT !.out = <<Head(k.wait).item>>, !.wait = Tail(@)]

\* assert(GetSimTime() == time) fails.
Overtaken(k) == k.wait # <<>> /\ Head(k.wait).left < 0

\* The time moves on by one (bound: a due time is not followed past -1).
Aged(chans) ==
    [ch \in DOMAIN chans |->
        [chans[ch] EXCEPT !.wait = [i \in DOMAIN @ |->
            [@[i] EXCEPT !.left = IF @ < 0 THEN @ ELSE @ - 1]]]]

AgedCredits(rs) ==
    [r \in DOMAIN rs |->
        [rs[r] EXCEPT !.creds = [i \in DOMAIN @ |->
            [@[i] EXCEPT !.left = IF @ = 0 THEN 0 ELSE @ - 1]]]]

TimePasses(fc, cc, rs) ==
    /\ flitChan' = Aged(fc)
    /\ credChan' = Aged(cc)
    /\ router' = AgedCredits(rs)

-----------------------------------------------------------------------------
(* Between the steps.                                                      *)

NewFlit(p, i, size, dest) ==
    [p |-> p, i |-> i, head |-> i = 1, tail |-> i = size, dest |-> IF i = 1 THEN dest ELSE -1,
     type |-> "any", vc |-> -1, ph |-> 0, intm |-> 0, la |-> {}]

\* What zsim takes for the latency of packet k when nothing is in its way:
\* InterconnectInterface's hopDelay and BookSimNetwork::access.
HopDelay == c.routing + 1 + 1 + (IF c.spec THEN 1 ELSE 2)

\* zsim knows meshes only; on the ring the shorter way round is meant.
HopsIn(d, k) ==
    LET away == Digit(k.src, d, c.net.k) - Digit(k.dest, d, c.net.k)
        far  == Max({away, -away})
    IN  IF c.fn = "dim_order_torus" THEN Min({far, c.net.k - far}) ELSE far

Zll(k) == (MapThenSumSet(LAMBDA d : HopsIn(d, k), Dims(c.net)) + 1) * HopDelay + k.size - 1 + 2

\* _ManuallyGeneratePacket, by zsim.
Generate ==
    LET p == Len(packets) + 1
        k == c.script[p]
    IN  /\ pc = "idle"
        /\ p <= Len(c.script)
        /\ packets' = Append(packets, k)
        /\ partial' = [partial EXCEPT ![k.src] = @ \o [i \in 1..k.size |-> NewFlit(p, i, k.size, k.dest)]]
        /\ outstanding' = [outstanding EXCEPT ![k.src] = @ + k.size]
        /\ outPackets' = outPackets + 1
        /\ arrived' = Append(arrived, <<>>)
        /\ least' = Append(least, Zll(k))
        /\ UNCHANGED <<setup, pc, turn, lastVc, nodeBuf, flitChan, credChan, flits, router,
                       bad>>

\* InterconnectInterface::Step with nothing outstanding: incrTime.
Skip ==
    /\ pc = "idle"
    /\ outPackets = 0 /\ ~c.always
    /\ TimePasses(flitChan, credChan, router)
    /\ UNCHANGED <<setup, pc, turn, packets, partial, lastVc, nodeBuf, outstanding, outPackets,
                   flits, arrived, least, bad>>

-----------------------------------------------------------------------------
(* The phases of a step.                                                   *)

\* Mutant of Leaving: without the test of isLocalChannel.
LeavingAnywhere(n) == Cardinality({ch \in DOMAIN flitChan : ch[1] = n /\ flitChan[ch].in # Empty})

\* FlitChannel::ReadInputs: the flits that leave router n in this step.
Leaving(n) ==
    Cardinality({ch \in DOMAIN flitChan :
                    ch[1] = n /\ ~IsLocal(ch) /\ flitChan[ch].in # Empty})

\* IQRouter::ReadInputs: _ReceiveFlits, _ReceiveCredits.
ReadInputs(r) ==
    LET rt    == router[r]
        got   == [i \in Ports(c) |-> flitChan[Into(r, i)].out]
        creds == {o \in Ports(c) : credChan[<<r, o>>].out # Empty}
        new   == [k \in 1..Cardinality(creds) |->
                     LET o == SetToSortSeq(creds, <)[k]
                     IN  [left |-> c.creditDelay, vcs |-> Head(credChan[<<r, o>>].out), out |-> o]]
    IN  [rt EXCEPT !.in = [i \in Ports(c) |-> IF got[i] = Empty THEN @[i] ELSE got[i]],
                   !.creds = @ \o new,
                   !.active = @ \/ creds # {} \/ \E i \in Ports(c) : got[i] # Empty,
                   !.bad = @ \/ \E i \in Ports(c) : got[i] # Empty /\ rt.in[i] # Empty]

\* A node reads its ejection channel only while its count is not zero.
Read ==
    LET got == [n \in Nodes |-> IF outstanding[n] # 0 THEN flitChan[Eject(n)].out ELSE Empty]
    IN  /\ pc = "idle"
        /\ outPackets > 0 \/ c.always
        /\ flits' = got
        /\ outstanding' = [n \in Nodes |->
                              outstanding[n] - Leaving(n) - (IF got[n] # Empty THEN 1 ELSE 0)]
        /\ nodeBuf' = [n \in Nodes |->
                          LET k == credChan[Inject(n)].out
                          IN  IF k = Empty THEN nodeBuf[n] ELSE ProcessCredit(c, nodeBuf[n], Head(k))]
        /\ flitChan' = [ch \in DOMAIN flitChan |-> Taken(flitChan[ch], ch)]
        /\ credChan' = [ch \in DOMAIN credChan |-> Taken(credChan[ch], ch)]
        /\ router' = [r \in Nodes |-> ReadInputs(r)]
        /\ pc' = "inject"
        /\ bad' = (bad \/ \E n \in Nodes : outstanding'[n] < 0)
        /\ UNCHANGED <<setup, turn, packets, partial, lastVc, outPackets, arrived, least>>

\* The virtual channels in the order in which a head tries them: the first
\* one alone until the node has used one.
Tried(n) ==
    IF lastVc[n] \notin Vcs(c) THEN <<0>>
    ELSE [i \in 1..c.vcs |-> (lastVc[n] + i) % c.vcs]

\* The channel for node n's next flit; -1 if it has to wait.
InjectVc(n) ==
    LET f    == Head(partial[n])
        ok(v) == IsAvailableFor(nodeBuf[n], v) /\ ~IsFullFor(c, nodeBuf[n], v)
        free == SelectSeq(Tried(n), ok)
    IN  IF f.vc = -1 THEN (IF free = <<>> THEN -1 ELSE Head(free))
        ELSE IF IsFullFor(c, nodeBuf[n], f.vc) THEN -1 ELSE f.vc

Injects(n) == outstanding[n] # 0 /\ partial[n] # <<>> /\ InjectVc(n) # -1

\* The flit as it goes into the network: a head with its route at the router.
Injected(n) ==
    LET f == [Head(partial[n]) EXCEPT !.vc = InjectVc(n)]
    IN  IF f.head /\ c.routing = 0 THEN Routed(c, n, Node(c.net), f) ELSE f

\* The channel is passed on to the packet's next flit.
Popped(n) ==
    LET f == Injected(n)
    IN  [i \in 1..(Len(partial[n]) - 1) |->
            IF i = 1 /\ ~f.tail THEN [partial[n][2] EXCEPT !.vc = f.vc] ELSE partial[n][i + 1]]

Sent(n) ==
    LET f == Injected(n)
        b == IF f.head THEN TakeBuffer(c, nodeBuf[n], f.vc, 0) ELSE nodeBuf[n]
    IN  SendingFlit(c, b, f.vc, f.tail)

InjectFlits ==
    LET by == {n \in Nodes : Injects(n)}
    IN  /\ pc = "inject"
        /\ partial' = [n \in Nodes |-> IF n \in by THEN Popped(n) ELSE partial[n]]
        /\ lastVc' = [n \in Nodes |-> IF n \in by /\ Injected(n).head THEN Injected(n).vc
                                      ELSE lastVc[n]]
        /\ nodeBuf' = [n \in Nodes |-> IF n \in by THEN Sent(n) ELSE nodeBuf[n]]
        /\ flitChan' = [ch \in DOMAIN flitChan |->
                           IF ch[2] = -1 /\ ch[1] \in by
                           THEN [flitChan[ch] EXCEPT !.in = <<Injected(ch[1])>>] ELSE flitChan[ch]]
        /\ pc' = "retire"
        /\ UNCHANGED <<setup, turn, packets, outstanding, outPackets, credChan, flits, router,
                       arrived, least, bad>>

\* _RetireFlit: a head has come to its destination, a tail after its head.
Misdelivered(n) ==
    LET f == Head(flits[n])
    IN  \/ f.head /\ f.dest # n
        \/ f.tail /\ ~f.head /\ <<1, n>> \notin Range(arrived[f.p])

\* BookSimNetwork::noc_read_return_cb, called with a tail: zll <= lat.
TooEarly(n) ==
    LET f == Head(flits[n])
    IN  f.tail /\ least[f.p] > 0

\* A tail is reported to zsim: CallbackEverything.
Retire ==
    LET at == {n \in Nodes : flits[n] # Empty}
    IN  /\ pc = "retire"
        /\ credChan' = [ch \in DOMAIN credChan |->
                           IF ch[2] = Node(c.net) /\ ch[1] \in at
                           THEN [credChan[ch] EXCEPT !.in = <<{Head(flits[ch[1]]).vc}>>] ELSE credChan[ch]]
        /\ arrived' = [p \in DOMAIN arrived |->
                          arrived[p] \o SetToSeq({<<Head(flits[n]).i, n>> :
                                                    n \in {m \in at : Head(flits[m]).p = p}})]
        /\ outPackets' = outPackets - Cardinality({n \in at : Head(flits[n]).tail})
        /\ bad' = (bad \/ \E n \in at : Misdelivered(n) \/ TooEarly(n))
        /\ flits' = [n \in Nodes |-> Empty]
        /\ pc' = "evaluate"
        /\ turn' = 0
        /\ UNCHANGED <<setup, packets, partial, lastVc, nodeBuf, outstanding, flitChan, router,
                       least>>

\* Router::Evaluate, one router after the other; a router whose count is zero
\* is passed over.
Evaluate(r) ==
    /\ pc = "evaluate"
    /\ turn = r
    /\ IF outstanding[r] = 0 THEN UNCHANGED router
       ELSE \E rt \in InternalSteps(c, r, router[r]) : router' = [router EXCEPT ![r] = rt]
    /\ turn' = r + 1
    /\ pc' = IF r + 1 \in Nodes THEN pc ELSE "write"
    /\ UNCHANGED <<setup, packets, partial, lastVc, nodeBuf, outstanding, outPackets, flitChan,
                   credChan, flits, arrived, least, bad>>

\* IQRouter::_SendFlits and _SendCredits: what goes into a channel that has
\* been written (Empty: nothing).
SentFlit(fc, ch) ==
    LET out == router[ch[1]].outBuf[ch[2]]
    IN  IF ch[2] # -1 /\ out # <<>> /\ (c.active \/ fc[ch].wait = <<>>) THEN <<Head(out)>> ELSE Empty

\* The input port whose credits go by a channel.
PortOf(ch) == IF ch[2] = -1 THEN <<ch[1], Node(c.net)>> ELSE CubeLink(c.net, ch[1], ch[2])

SentCredit(cc, ch) ==
    LET at  == PortOf(ch)
        out == router[at[1]].credBuf[at[2]]
    IN  IF at[1] # -1 /\ out # <<>> /\ (c.active \/ cc[ch].wait = <<>>) THEN <<Head(out)>> ELSE Empty

\* Network::WriteOutputs: the channels, then the routers.
Write ==
    LET fc == [ch \in DOMAIN flitChan |-> Written(flitChan[ch])]
        cc == [ch \in DOMAIN credChan |-> Written(credChan[ch])]
        fin(ch) == SentFlit(fc, ch)
        cin(ch) == SentCredit(cc, ch)
        sent(r, o) == fin(<<r, o>>) # Empty
        paid(r, i) == cin(Into(r, i)) # Empty
    IN  /\ pc = "write"
        /\ TimePasses(
              [ch \in DOMAIN fc |-> IF fin(ch) = Empty THEN fc[ch] ELSE [fc[ch] EXCEPT !.in = fin(ch)]],
              [ch \in DOMAIN cc |-> IF cin(ch) = Empty THEN cc[ch] ELSE [cc[ch] EXCEPT !.in = cin(ch)]],
              [r \in Nodes |->
                  [router[r] EXCEPT
                      !.outBuf = [o \in Ports(c) |-> IF sent(r, o) THEN Tail(@[o]) ELSE @[o]],
                      !.credBuf = [i \in Ports(c) |-> IF paid(r, i) THEN Tail(@[i]) ELSE @[i]]]])
        /\ outstanding' = [n \in Nodes |->
                              outstanding[n] + Cardinality({ch \in DOMAIN fc :
                                  ~IsLocal(ch) /\ SinkOf(ch) = n /\ fc[ch].out # Empty})]
        /\ bad' = (bad \/ \E ch \in DOMAIN fc : Overtaken(flitChan[ch]) \/ Overtaken(credChan[ch]))
        /\ least' = [p \in DOMAIN least |-> Max({least[p] - 1, 0})]
        /\ pc' = "idle"
        /\ UNCHANGED <<setup, turn, packets, partial, lastVc, nodeBuf, outPackets, flits, arrived>>

-----------------------------------------------------------------------------

InitOf(s) ==
    /\ setup = s
    /\ pc = "idle"
    /\ turn = 0
    /\ packets = <<>>
    /\ partial = [n \in NodesOf(s) |-> <<>>]
    /\ lastVc = [n \in NodesOf(s) |-> -1]
    /\ nodeBuf = [n \in NodesOf(s) |-> EmptyBuffer(s)]
    /\ outstanding = [n \in NodesOf(s) |-> 0]
    /\ outPackets = 0
    /\ flitChan = [ch \in ChannelsOf(s) |-> Quiet]
    /\ credChan = [ch \in ChannelsOf(s) |-> Quiet]
    /\ flits = [n \in NodesOf(s) |-> Empty]
    /\ router = [r \in NodesOf(s) |-> NewRouter(s)]
    /\ arrived = <<>>
    /\ least = <<>>
    /\ bad = FALSE

Init == \E s \in Setups : InitOf(s)

Step == Read \/ InjectFlits \/ Retire \/ (\E r \in Nodes : Evaluate(r)) \/ Write

Next ==
    \/ Generate
    \/ Skip
    \/ Step

Spec == Init /\ [][Next]_vars

\* zsim's weave phase ticks the network again and again: a step that begins
\* comes to its end, and steps begin unless the network is passed over.
FairSpec ==
    /\ Spec
    /\ []<>(pc = "idle")
    /\ []<>(pc = "inject" \/ (outPackets = 0 /\ ~c.always))
-----------------------------------------------------------------------------
(* Properties.  The counts are compared between the steps.                 *)

BetweenSteps == pc = "idle"

CountIf(s, test(_)) == Len(SelectSeq(s, test))

\* Every assertion in the routers, the nodes and the buffer states holds and
\* no Error is raised: no buffer overflows or falls below zero, no virtual
\* channel is taken twice or gets flits of two packets at once, every flit
\* comes to its destination and a tail after its head; and no packet comes
\* sooner than zsim believes possible.
NoPanic ==
    /\ ~bad
    /\ \A n \in Nodes : ~nodeBuf[n].bad /\ ~router[n].bad
    /\ \A r \in Nodes : \A o \in Ports(c) : ~router[r].next[o].bad

\* Items in a channel, the wires at its ends included; what came out is taken
\* from it when the step reads.
InChannel(k) ==
    k.in \o [i \in DOMAIN k.wait |-> k.wait[i].item] \o IF BetweenSteps THEN k.out ELSE Empty

\* What the sender's buffer state, at channel ch, counts for virtual channels vs.
Counted(ch, vs) ==
    LET b == IF ch[2] = -1 THEN nodeBuf[ch[1]] ELSE router[ch[1]].next[ch[2]]
    IN  MapThenSumSet(LAMBDA v : b.occ[v], vs)

FlitsAhead(ch, vs) ==
    LET mine(f) == f.vc \in vs
        rt      == router[ch[1]]
        at      == PortOf(ch)
    IN  CountIf(InChannel(flitChan[ch]), mine)
          + (IF ch[2] = -1 THEN 0
             ELSE CountIf(rt.outBuf[ch[2]], mine)
                    + Cardinality({x \in rt.xbar : x[2] = ch[2] /\ x[1].vc \in vs}))
          + (IF at[1] = -1 THEN 0 ELSE CountIf(router[at[1]].in[at[2]], mine))

\* At a node a flit is in no buffer, but it has to be retired.
FlitsStored(ch, vs) ==
    LET at == PortOf(ch)
    IN  IF at[1] = -1 THEN CountIf(flits[at[2]], LAMBDA f : f.vc \in vs)
        ELSE MapThenSumSet(LAMBDA v : Len(router[at[1]].vc[<<at[2], v>>].buf), vs)

CreditsBack(ch, vs) ==
    LET at        == PortOf(ch)
        add(n, k) == n + Cardinality(k \cap vs)
        due       == SelectSeq(router[ch[1]].creds, LAMBDA k : k.out = ch[2])
    IN  FoldLeft(add, 0, InChannel(credChan[ch])
                           \o (IF at[1] = -1 THEN <<>> ELSE router[at[1]].credBuf[at[2]])
                           \o [i \in DOMAIN due |-> due[i].vcs])

\* A sender counts, for each virtual channel, exactly the flits that are on
\* the way to the buffer or in it and the credits on the way back.
CreditsExact ==
    \A ch \in DOMAIN flitChan : \A v \in Vcs(c) :
        Counted(ch, {v}) = FlitsAhead(ch, {v}) + FlitsStored(ch, {v}) + CreditsBack(ch, {v})

\* All virtual channels of a channel together are a channel of CreditFlow.
OfAll(ch, count(_, _)) == IF ch \in DOMAIN flitChan THEN count(ch, Vcs(c)) ELSE 0

Flow(ch) == INSTANCE CreditFlow WITH
                limit <- c.buf,
                occ <- OfAll(ch, Counted), flying <- OfAll(ch, FlitsAhead),
                stored <- OfAll(ch, FlitsStored), back <- OfAll(ch, CreditsBack)

\* The network is a system of credit-based channels, for which CreditFlowProofs
\* shows that no buffer overflows: a sender never passes the limit and no flit
\* or credit is lost or doubled, whatever the policy of the buffers.
ImplementsCreditFlow ==
    /\ \A ch \in Channels : Flow(ch)!Init
    /\ [][\A ch \in Channels : Flow(ch)!vars' # Flow(ch)!vars => Flow(ch)!Next]_vars

\* outstandingFlits, by which nodes and routers are passed over, counts the
\* flits at each node and in its router.
FlitsAt(n) ==
    LET rt == router[n]
        taken(o)  == Len(flitChan[<<n, o>>].in)
        came(i)   == Len(flitChan[Into(n, i)].out)
    IN  Len(partial[n]) + taken(-1)
          + Len(InChannel(flitChan[Eject(n)]))
          + MapThenSumSet(taken, Ports(c) \ {Node(c.net)})
          + MapThenSumSet(came, Ports(c))
          + MapThenSumSet(LAMBDA iv : Len(rt.vc[iv].buf), Ivs(c))
          + MapThenSumSet(LAMBDA o : Len(rt.outBuf[o]), Ports(c))
          + Cardinality(rt.xbar)

FlitsCounted == \A n \in Nodes : outstanding[n] = FlitsAt(n)

\* A virtual channel with a flit is in the list of its state, and in no other.
ListsOf(rt, iv) == {l \in {"route", "vcAlloc", "swAlloc", "swHold"} : iv \in rt[l]}

ListsFor(rt, iv) ==
    LET q == rt.vc[iv]
    IN  IF q.buf = <<>> THEN {}
        ELSE CASE q.state = "routing"  -> {"route"}
               [] q.state = "vc_alloc" -> (IF c.piggyback THEN {} ELSE {"vcAlloc"})
                                             \cup (IF c.spec THEN {"swAlloc"} ELSE {})
               [] q.state = "active"   -> IF Holds(rt, iv) THEN {"swHold"} ELSE {"swAlloc"}
               [] OTHER -> {"idle"}

Awake(rt) ==
    (rt.xbar # {} \/ rt.creds # <<>> \/ \E iv \in Ivs(c) : rt.vc[iv].buf # <<>>) => rt.active

\* No flit is forgotten: the counts by which a node or a router is passed over
\* are right, a virtual channel with a flit is in the list of its state, and a
\* router with work is awake.
NothingForgotten ==
    BetweenSteps =>
        /\ FlitsCounted
        /\ \A r \in Nodes :
              /\ Awake(router[r])
              /\ \A iv \in Ivs(c) : ListsOf(router[r], iv) = ListsFor(router[r], iv)

\* A packet is there when its flits have come to its destination in order.
Whole(p) ==
    arrived[p] = [i \in 1..packets[p].size |-> <<i, packets[p].dest>>]

Promise == INSTANCE PacketNet WITH
               Packets <- 1..3,
               delivered <- {p \in DOMAIN packets : Whole(p)},
               inFlight <- {p \in DOMAIN packets : ~Whole(p)}

\* The network keeps its promise: every packet is delivered once, its flits in
\* order, and none stays in it for ever.
ImplementsPacketNet == Promise!Spec

=============================================================================
