------------------------------ MODULE RouterOps ------------------------------
(***************************************************************************)
(* One cycle of booksim2's input-queued router                             *)
(* (booksim2/src/routers/iq_router.cpp, with buffer.cpp and vc.cpp).  A    *)
(* router is a record rt; an operator stands for each stage and returns the *)
(* router it leaves.  rt.bad says that an assertion failed or an Error was *)
(* raised.                                                                 *)
(*                                                                         *)
(* A configuration c has, besides what BufferOps reads: net (a network of  *)
(* CubeNets), fn (its routing function), routing (_routing_delay, 0 or 1), *)
(* spec, piggyback, specPrio, specElig, specCred, specMask, hold, busyFull, *)
(* active (_active_links), creditDelay.  Every other delay and every       *)
(* speedup is 1, the output buffers are unbounded and noq is off.  With    *)
(* those, an entry of the lists waits for one evaluation only, so a list   *)
(* is the set of the virtual channels in it.                               *)
(*                                                                         *)
(* What an allocator grants is any matching that the allocators' promise   *)
(* allows: some request is granted if there is one, and one of the highest *)
(* priority.  Round-robin pointers are therefore not modelled.             *)
(***************************************************************************)
EXTENDS BufferOps, CubeNets, Sequences
LOCAL INSTANCE FiniteSetsExt
LOCAL INSTANCE SequencesExt

\* A wire or a latch: empty, or with one item.
Empty == <<>>

Ports(c) == 0..Node(c.net)

Ivs(c) == Ports(c) \X Vcs(c)      \* an input port and a virtual channel

NoOutput == <<-1, -1>>

NewRouter(c) ==
    [in       |-> [i \in Ports(c) |-> Empty],         \* _in_queue_flits
     creds    |-> <<>>,                              \* _proc_credits
     active   |-> FALSE,
     vc       |-> [iv \in Ivs(c) |-> [state |-> "idle", buf |-> <<>>, expected |-> Nobody,
                                      offers |-> {}, out |-> NoOutput]],
     next     |-> [o \in Ports(c) |-> EmptyBuffer(c)],
     route    |-> {}, vcAlloc |-> {}, swHold |-> {}, swAlloc |-> {},
     hold     |-> {},                                \* the held <<input, vc, output>>
     xbar     |-> {},                                \* _crossbar_flits
     outCreds |-> [i \in Ports(c) |-> {}],           \* _out_queue_credits
     outBuf   |-> [o \in Ports(c) |-> <<>>],
     credBuf  |-> [i \in Ports(c) |-> <<>>],
     bad      |-> FALSE]

\* op(x), with x evaluated once.
With(x, op(_)) == CHOOSE y \in {op(v) : v \in {x}} : TRUE

\* op(x, .) for every x in S, one after the other.
InTurn(op(_, _), base, S) ==
    LET done[t \in SUBSET S] ==
            IF t = {} THEN base
            ELSE LET x == CHOOSE x \in t : TRUE
                 IN  With(done[t \ {x}], LAMBDA s : op(x, s))
    IN  done[S]

Fail(rt, if) == [rt EXCEPT !.bad = @ \/ if]

\* push_back on one of the lists.
Enlist(rt0, list, iv) ==
    With(rt0, LAMBDA rt : [Fail(rt, iv \in rt[list]) EXCEPT ![list] = @ \cup {iv}])

Outcomes(c, r, in, f) ==
    CASE c.fn = "dor_mesh"        -> DimOrderMesh(c.net, r, f)
      [] c.fn = "dim_order_torus" -> DimOrderTorus(c.net, r, in, f, FALSE)
      [] c.fn = "min_adapt_mesh"  -> MinAdaptMesh(c.net, r, in, f)

\* _rf(): the flit with the router's offers.  Empty of these functions draws a
\* random number in a configuration that is checked.
Routed(c, r, in, f) ==
    LET o == CHOOSE x \in Outcomes(c, r, in, f) : TRUE
    IN  [o.flit EXCEPT !.la = o.offers]

\* The route at the router that a channel leads to, if it leads to one.
LookAhead(c, link, f) ==
    IF link[1] = -1 THEN [f EXCEPT !.la = {}] ELSE Routed(c, link[1], link[2], f)

-----------------------------------------------------------------------------
(* _InputQueuing.                                                          *)

AwaitVc(c, rt, iv, offers) ==
    LET s == [rt EXCEPT !.vc[iv].state = "vc_alloc", !.vc[iv].offers = offers]
        t == IF c.spec THEN Enlist(s, "swAlloc", iv) ELSE s
    IN  IF c.piggyback THEN t ELSE Enlist(t, "vcAlloc", iv)

\* A packet's head is at the front of its virtual channel.
StartPacket(c, rt0, iv) ==
    With(rt0, LAMBDA rt :
        LET f == Head(rt.vc[iv].buf)
            t == Fail(rt, ~f.head)
        IN  IF c.routing = 0 THEN AwaitVc(c, t, iv, f.la)
            ELSE Enlist([t EXCEPT !.vc[iv].state = "routing"], "route", iv))

Holds(rt, iv) == \E h \in rt.hold : h[1] = iv[1] /\ h[2] = iv[2]

Stored(c, rt, i) == MapThenSumSet(LAMBDA v : Len(rt.vc[<<i, v>>].buf), Vcs(c))

AddFlit(c, rt, i) ==
    LET f  == Head(rt.in[i])
        iv == <<i, f.vc>>
        q  == rt.vc[iv]
        t  == Fail([rt EXCEPT !.in[i] = Empty,
                              !.vc[iv].buf = Append(@, f),
                              !.vc[iv].expected = IF f.tail THEN Nobody ELSE f.p],
                   \/ Stored(c, rt, i) >= c.buf
                   \/ q.expected # Nobody /\ q.expected # f.p)
    IN  IF q.state = "idle" THEN StartPacket(c, Fail(t, q.buf # <<>> \/ Holds(rt, iv)), iv)
        ELSE IF q.state = "active" /\ q.buf = <<>>
        THEN Enlist(t, IF Holds(rt, iv) THEN "swHold" ELSE "swAlloc", iv)
        ELSE t

\* Mutant of TakeCredits: the list is cleared, with what is not yet due.
TakeAllCredits(c, rt) ==
    LET due == SelectSeq(rt.creds, LAMBDA k : k.left = 0)
    IN  [rt EXCEPT !.next = FoldLeft(LAMBDA s, k : [s EXCEPT ![k.out] = ProcessCredit(c, @, k.vcs)], @, due),
                   !.creds = <<>>]

\* The credits whose delay has passed, oldest first.
TakeCredits(c, rt) ==
    LET due  == SelectSeq(rt.creds, LAMBDA k : k.left = 0)
        next == FoldLeft(LAMBDA s, k : [s EXCEPT ![k.out] = ProcessCredit(c, @, k.vcs)],
                         rt.next, due)
    IN  [rt EXCEPT !.next = next, !.creds = SelectSeq(@, LAMBDA k : k.left > 0)]

InputQueuing(c, rt) ==
    TakeCredits(c, InTurn(LAMBDA i, s : AddFlit(c, s, i), rt,
                           {i \in Ports(c) : rt.in[i] # Empty}))

-----------------------------------------------------------------------------
(* The allocators' requests and grants: _VCAllocEvaluate, _SWAllocAddReq,  *)
(* _SWAllocEvaluate.                                                       *)

\* No input and no output twice.
IsMatching(m) == \A a, b \in m : a # b => a[1] # b[1] /\ a[2] # b[2]

\* Mutant of Matchings: an allocator that may grant nothing.
AnyMatchings(requests) == {m \in SUBSET requests : IsMatching(m)}

Matchings(requests) ==
    {m \in SUBSET requests : IsMatching(m) /\ (m = {} => requests = {})}

Usable(c, rt, o) ==
    /\ IsAvailableFor(rt.next[o[1]], o[2])
    /\ ~IsFullFor(c, rt.next[o[1]], o[2])

\* Pairs of a virtual channel at an input and one at an output.
VcRequests(c, rt) ==
    UNION {{iv} \X {o \in Ways(rt.vc[iv].offers) :
                       /\ IsAvailableFor(rt.next[o[1]], o[2])
                       /\ c.busyFull => Usable(c, rt, o)} : iv \in rt.vcAlloc}

Blocked(rt, i, o) == \E h \in rt.hold : h[1] = i \/ h[3] = o

\* A range in which a head without a virtual channel might get one.
Promising(c, rt, range) ==
    LET o == range.port
    IN  /\ c.specElig => \E v \in range.vcs : IsAvailableFor(rt.next[o], v)
        /\ c.specCred => c.specElig /\ \E v \in range.vcs : Usable(c, rt, <<o, v>>)

\* Such a head asks for the outputs of its promising ranges.
MayRequest(c, rt, iv, o) ==
    \E range \in rt.vc[iv].offers : range.port = o /\ Promising(c, rt, range)

\* One range that is not leaves a STALL as the head's outcome, which is then
\* not overwritten by a grant: what its other ranges asked for stays in the
\* allocator and may be matched, but the head does not take it.
Stalled(c, rt, iv) == \E range \in rt.vc[iv].offers : ~Promising(c, rt, range)

\* <<input, output, vc, speculative>>
SwRequests(c, rt) ==
    {<<iv[1], o, iv[2], rt.vc[iv].state = "vc_alloc">> :
        <<iv, o>> \in {x \in rt.swAlloc \X Ports(c) :
            LET q == rt.vc[x[1]]
            IN  /\ ~Blocked(rt, x[1][1], x[2])
                /\ IF q.state = "vc_alloc" THEN MayRequest(c, rt, x[1], x[2])
                   ELSE x[2] = q.out[1] /\ ~IsFullFor(c, rt.next[x[2]], q.out[2])}}

\* One allocator for all requests: of those for an input and an output one of
\* the highest priority is entered, and speculation has the lower one.
PrioGrants(requests) ==
    LET entered == {q \in requests : q[4] => \A p \in requests :
                                        (p[1] = q[1] /\ p[2] = q[2]) => p[4]}
        firm    == {q \in requests : ~q[4]}
    IN  {m \in Matchings(entered) : firm # {} => m \cap firm # {}}

\* An allocator of its own for speculation; what it grants counts if the other
\* one granted neither the input nor (or had no request for) the output.
SeparateGrants(c, requests) ==
    LET firm  == {q \in requests : ~q[4]}
        kept(m, s) == {q \in s : /\ \A p \in m : p[1] # q[1]
                                 /\ \A p \in (IF c.specMask THEN firm ELSE m) : p[2] # q[2]}
    IN  {m \cup kept(m, s) : <<m, s>> \in Matchings(firm) \X Matchings(requests \ firm)}

SwMatchings(c, rt) ==
    LET requests == SwRequests(c, rt)
    IN  IF c.specPrio THEN PrioGrants(requests) ELSE SeparateGrants(c, requests)

\* The output channel that a granted flit leaves by; none if the grant is
\* skipped because the head is stalled, or dropped because it has got no
\* virtual channel there, or a full one.
LeavesBy(c, rt, vm, g) ==
    LET iv == <<g[1], g[3]>>
    IN  IF ~g[4] THEN {rt.vc[iv].out}
        ELSE IF Stalled(c, rt, iv) THEN {}
        ELSE IF c.piggyback
        THEN {o \in Ways(rt.vc[iv].offers) : o[1] = g[2] /\ Usable(c, rt, o)}
        ELSE {o \in {x[2] : x \in {y \in vm : y[1] = iv}} :
                 o[1] = g[2] /\ ~IsFullFor(c, rt.next[o[1]], o[2])}

\* The flits that go, each with the channel it leaves by.
Departures(c, rt, vm, m) ==
    LET granted == {g \in m : LeavesBy(c, rt, vm, g) # {}}
        choices == [granted -> UNION {LeavesBy(c, rt, vm, g) : g \in granted}]
    IN  {{<<<<g[1], g[3]>>, ch[g]>> : g \in granted} :
            ch \in {x \in choices : \A g \in granted : x[g] \in LeavesBy(c, rt, vm, g)}}

-----------------------------------------------------------------------------
(* The updates.                                                            *)

\* _RouteUpdate
RouteUpdate(c, r, rt, listed) ==
    InTurn(LAMBDA iv, s :
                LET f == Routed(c, r, iv[1], Head(s.vc[iv].buf))
                IN  AwaitVc(c, Fail([s EXCEPT !.vc[iv].buf[1] = f, !.route = @ \ {iv}],
                                    ~f.head \/ s.vc[iv].state # "routing"), iv, f.la),
            rt, listed)

Tag(c, iv) == iv[1] * c.vcs + iv[2]

TakeVc(c, rt, iv, o) ==
    [rt EXCEPT !.next[o[1]] = TakeBuffer(c, @, o[2], Tag(c, iv)),
               !.vc[iv].state = "active", !.vc[iv].out = o, !.vc[iv].offers = {}]

\* _VCAllocUpdate; a head that was granted nothing stays in the list.
VCAllocUpdate(c, rt, vm) ==
    InTurn(LAMBDA x, s :
                LET iv == x[1]
                    t  == TakeVc(c, [Fail(s, s.vc[iv].state # "vc_alloc")
                                        EXCEPT !.vcAlloc = @ \ {iv}], iv, x[2])
                IN  IF c.spec THEN t ELSE Enlist(t, "swAlloc", iv),
            rt, vm)

\* The front flit leaves; then the same packet goes on, holding the switch if
\* that is configured, or the next one starts.
SendFlit(c, r, rt, iv, o) ==
    LET q      == rt.vc[iv]
        f      == [Head(q.buf) EXCEPT !.vc = o[2]]
        h      == IF f.head /\ c.routing = 0 THEN LookAhead(c, CubeLink(c.net, r, o[1]), f) ELSE f
        more   == Len(q.buf) > 1
        goesOn == more /\ ~f.tail
        held   == <<iv[1], iv[2], o[1]>>
        s == [rt EXCEPT !.vc[iv].buf = Tail(@),
                        !.vc[iv].state = IF f.tail /\ ~more THEN "idle" ELSE @,
                        !.next[o[1]] = SendingFlit(c, @, o[2], f.tail),
                        !.xbar = @ \cup {<<h, o[1]>>},
                        !.outCreds[iv[1]] = @ \cup {iv[2]},
                        !.hold = IF c.hold /\ goesOn THEN @ \cup {held} ELSE @ \ {held}]
    IN  IF goesOn THEN Enlist(s, IF c.hold THEN "swHold" ELSE "swAlloc", iv)
        ELSE IF more THEN StartPacket(c, s, iv)
        ELSE s

\* _SWHoldUpdate: of the packets that hold the switch those with a full
\* channel let it go and ask again.
SWHoldUpdate(c, r, rt, listed, full) ==
    InTurn(LAMBDA iv, s :
                LET t == [Fail(s, ~Holds(s, iv)) EXCEPT !.swHold = @ \ {iv}]
                IN  IF iv \in full
                    THEN Enlist([t EXCEPT !.hold = {h \in @ : <<h[1], h[2]>> # iv}], "swAlloc", iv)
                    ELSE SendFlit(c, r, t, iv, t.vc[iv].out),
            rt, listed)

\* _SWAllocUpdate; with piggybacked allocation a head takes its channel here.
SWAllocUpdate(c, r, rt, departures) ==
    InTurn(LAMBDA d, s :
                LET iv == d[1]
                    t  == [Fail(s, Blocked(s, iv[1], d[2][1])) EXCEPT !.swAlloc = @ \ {iv}]
                    u  == IF c.piggyback /\ t.vc[iv].state = "vc_alloc"
                          THEN TakeVc(c, t, iv, d[2]) ELSE t
                IN  SendFlit(c, r, Fail(u, u.vc[iv].out # d[2]), iv, d[2]),
            rt, departures)

\* _SwitchUpdate, _OutputQueuing
SwitchUpdate(rt, crossing) ==
    [rt EXCEPT !.xbar = @ \ crossing,
               !.outBuf = [o \in DOMAIN @ |->
                              @[o] \o SetToSeq({x[1] : x \in {y \in crossing : y[2] = o}})]]

OutputQueuing(rt) ==
    [rt EXCEPT !.credBuf = [i \in DOMAIN @ |-> IF rt.outCreds[i] = {} THEN @[i]
                                              ELSE Append(@[i], rt.outCreds[i])],
               !.outCreds = [i \in DOMAIN @ |-> {}]]

\* _InternalStep, after _InputQueuing, with what the allocators gave: the
\* router stays active while one of the lists has something in it when its
\* own update is done.
Update(c, r, rt, vm, departures) ==
    LET full == {iv \in rt.swHold : IsFullFor(c, rt.next[rt.vc[iv].out[1]], rt.vc[iv].out[2])}
    IN  With(RouteUpdate(c, r, rt, rt.route), LAMBDA r1 :
        With(VCAllocUpdate(c, r1, vm), LAMBDA r2 :
        With(SWHoldUpdate(c, r, r2, rt.swHold, full), LAMBDA r3 :
        With(SWAllocUpdate(c, r, r3, departures), LAMBDA r4 :
        With(SwitchUpdate(r4, rt.xbar), LAMBDA r5 :
            OutputQueuing([r5 EXCEPT !.active =
                \/ rt.creds # <<>> \/ r1.route # {} \/ r2.vcAlloc # {}
                \/ r3.swHold # {} \/ r4.swAlloc # {} \/ r5.xbar # {}]))))))

InternalSteps(c, r, rt0) ==
    IF ~rt0.active THEN {rt0}
    ELSE With(InputQueuing(c, rt0), LAMBDA rt :
             UNION {{Update(c, r, rt, vm, ds) :
                        ds \in UNION {Departures(c, rt, vm, m) : m \in SwMatchings(c, rt)}} :
                    vm \in Matchings(VcRequests(c, rt))})
=============================================================================
