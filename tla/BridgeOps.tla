------------------------------ MODULE BridgeOps ------------------------------
(***************************************************************************)
(* What the bound phase records of an access that crosses a booksim        *)
(* network (booksim_net_ctrl.cpp, with cache.cpp, coherence_ctrls.cpp, the *)
(* memory behind the network and the recorder of an OOO core): L2s are the *)
(* children of a network below a shared L3, and another network lies       *)
(* between the L3 and the memory.                                          *)
(*                                                                         *)
(* g is a recording: ev are the events created so far, each named by its   *)
(* place; tr is the record of the EventRecorder, at most one; at is the    *)
(* cycle that the last call returned; bad says that an assertion failed.   *)
(*                                                                         *)
(* A setup s has cpu and noc (the two clocks), hopDelay, size (flits of a  *)
(* packet), hops and memHops (the way from each L2 to the L3 and from      *)
(* there to the memory), accLat1 to accLat3, loadLat (L1D_LAT), invLat (of *)
(* an L2 with what is above it), memLat, and the accesses of one core, with *)
(* the cycles at which they issue and are dispatched and what they do.     *)
(***************************************************************************)
EXTENDS Integers, Sequences
LOCAL INSTANCE SequencesExt

\* A delay is a uint32_t (bound: stands for 2^32); a minStartCycle that nobody
\* set is -1.
Wrap  == 65536
Never == -1

Later(from, to) == (to - from) % Wrap

NewEvent(kind, min) ==
    [kind |-> kind, min |-> min, pre |-> 0, post |-> 0, zll |-> 0, way |-> 0,
     inval |-> FALSE, kids |-> <<>>]

NocEvent(min, z, inval) ==
    [NewEvent("noc", min) EXCEPT !.zll = z.zll, !.way = z.way, !.inval = inval]

Delay(min, pre) == [NewEvent("delay", min) EXCEPT !.pre = pre]

Recording == [ev |-> <<>>, tr |-> <<>>, at |-> 0, bad |-> FALSE, last |-> 0, future |-> {}]

Add(g, new) == [g EXCEPT !.ev = @ \o new]

Link(g, parent, child) == [g EXCEPT !.ev[parent].kids = Append(@, child)]

Check(g, ok) == [g EXCEPT !.bad = @ \/ ~ok]

\* getSelectedChild(0): the first of the newest block of TIMING_BLOCK_EVENTS.
FirstKid(e) == e.kids[((Len(e.kids) - 1) \div 3) * 3 + 1]

\* getChildLeftDescendant
LeftEnd(ev, e) ==
    LET end[x \in DOMAIN ev] == IF ev[x].kids = <<>> THEN x ELSE end[FirstKid(ev[x])]
    IN  end[e]

\* The zero-load latency of a packet, in cycles of the cores and, of the way it
\* goes, in cycles of the network.
Zll(s, hops) ==
    LET way == (hops + 1) * s.hopDelay + s.size - 1 + 2
    IN  [zll |-> (way * s.cpu) \div s.noc, way |-> way]

\* pushRecord, popRecord.
Push(g, req, start, resp) ==
    [Check(g, g.tr = <<>>) EXCEPT !.tr = <<[req |-> req, start |-> start, resp |-> resp]>>]

Pop(g) == [g EXCEPT !.tr = <<>>]

-----------------------------------------------------------------------------
(* Invalidations on the way down: BookSimNetwork::invalidate.              *)

\* The second one starts a fork: both begin after a root and end in a sync.
Forked(g, cycle, first, t, r) ==
    LET root == Len(g.ev) + 1
        new  == <<[Delay(cycle, 0) EXCEPT !.inval = TRUE, !.kids = <<first, t>>],
                  [Delay(Never, 0) EXCEPT !.inval = TRUE]>>
    IN  Link(Link(Add(g, new), r, root + 1), LeftEnd(g.ev, first), root + 1)

\* A later one is added to the fork.
Joined(g, cycle, first, t, r) ==
    Link(Link(Check(g, g.ev[first].min = cycle), first, t), r, LeftEnd(g.ev, first))

NocInvalidate(s, g, child, cycle) ==
    LET z    == Zll(s, s.hops[child])
        t    == Len(g.ev) + 1
        back == cycle + z.zll + s.invLat
        resp == back + z.zll
        h    == Add(Pop(g), <<[NocEvent(cycle, z, TRUE) EXCEPT !.post = s.invLat, !.kids = <<t + 1>>],
                              NocEvent(back, z, TRUE)>>)
        first == g.tr[1].start
        done  == IF g.tr = <<>> THEN Push(h, cycle, t, resp)
                 ELSE IF Len(g.ev[first].kids) <= 1
                 THEN Push(Forked(Check(h, g.ev[first].kids # <<>>), cycle, first, t, t + 1),
                           cycle, t + 2, resp)
                 ELSE Push(Joined(h, cycle, first, t, t + 1), cycle, first, resp)
    IN  [done EXCEPT !.at = resp]

Latest(a, b) == IF a > b THEN a ELSE b

\* After more than one of them, the sync event's minStartCycle is set.
Synced(g, sent) ==
    LET first == g.tr[1].start
    IN  IF sent <= 1 THEN g
        ELSE [Check(g, Len(g.ev[first].kids) > 1) EXCEPT !.ev[LeftEnd(g.ev, first)].min = g.at]

\* MESITopCC::sendInvalidates to the L2s in children, all sent at cycle.
SendInvalidates(s, g, children, cycle) ==
    Synced(FoldLeft(LAMBDA h, i : [NocInvalidate(s, h, i, cycle) EXCEPT !.at = Latest(h.at, @)],
                    [g EXCEPT !.at = cycle], children),
           Len(children))

-----------------------------------------------------------------------------
(* Accesses on the way up.                                                 *)

\* WeaveSimpleMemory::access, for the other types than PUTS.
MemAccess(s, g, cycle) ==
    LET e == [NewEvent("mem", cycle) EXCEPT !.pre = s.memLat \div 2,
                                            !.post = s.memLat - s.memLat \div 2]
    IN  [Push(Add(g, <<e>>), cycle, Len(g.ev) + 1, cycle + s.memLat) EXCEPT !.at = cycle + s.memLat]

\* Mutant of AroundInval: the zero-load latency is not taken off.
AroundInvalLate(g, t, r, req, z, first) ==
    LET last == LeftEnd(g.ev, first)
    IN  [Link(Link(g, t, first), last, r) EXCEPT
            !.ev[t].post = Later(req, g.ev[first].min), !.ev[t].inval = TRUE, !.ev[r].inval = TRUE,
            !.ev[last].post = Later(g.ev[last].min + g.ev[last].zll, g.ev[r].min)]

\* The two events of an access around the invalidations that its parent sent.
AroundInval(g, t, r, req, z, first) ==
    LET last == LeftEnd(g.ev, first)
    IN  [Link(Link(g, t, first), last, r) EXCEPT
            !.ev[t].post = Later(req + z.zll, g.ev[first].min), !.ev[t].inval = TRUE, !.ev[r].inval = TRUE,
            !.ev[last].post = Later(g.ev[last].min + g.ev[last].zll, g.ev[r].min)]

\* ... and around what else the parent recorded.
AroundRecord(g, t, r, req, z, first) ==
    LET h == IF g.ev[first].kids = <<>> THEN g
             ELSE [g EXCEPT !.ev[t].post = Later(req + z.zll, g.ev[first].min)]
    IN  Link(Link(h, t, first), LeftEnd(g.ev, first), r)

\* Mutant of AfterInval: the access does not wait for the invalidations.
BesideInval(g, t, z, first) == g

\* A writeback follows the invalidations that collected the line.
AfterInval(g, t, z, first) ==
    LET last == LeftEnd(g.ev, first)
    IN  Link(Check(g, g.ev[last].min + g.ev[last].zll = g.ev[t].min), last, t)

\* BookSimNetwork::access, up to the parent's access: the network of the last
\* level keeps the record of invalidations to itself.
Upwards(g, llnoc) ==
    IF ~llnoc THEN g ELSE Check(Pop(g), g.tr = <<>> \/ g.ev[g.tr[1].start].inval)

\* ... and the rest: g0 is the recording before, g the one that the parent's
\* access left; z is the latency one way.
NocAccess(g0, g, cycle, llnoc, z) ==
    LET inv   == IF llnoc THEN g0.tr ELSE <<>>
        lat   == g.at - (cycle + z.zll)
        t     == Len(g.ev) + 1
        r     == t + 1
        resp  == cycle + z.zll + lat
        h     == Add(Pop(g), <<NocEvent(cycle, z, FALSE), NocEvent(resp, z, FALSE)>>)
        first == g.tr[1].start
        chain == IF g.tr = <<>> THEN Link([h EXCEPT !.ev[t].post = lat], t, r)
                 ELSE IF g.ev[first].inval THEN AroundInval(h, t, r, cycle, z, first)
                 ELSE AroundRecord(h, t, r, cycle, z, first)
        done  == IF inv = <<>> THEN Push(chain, cycle, t, resp + z.zll)
                 ELSE Push(AfterInval(chain, t, z, inv[1].start), cycle, inv[1].start, resp + z.zll)
    IN  IF lat = 0 THEN [(IF inv = <<>> THEN g ELSE [g EXCEPT !.tr = inv]) EXCEPT !.at = cycle]
        ELSE [Check(done, llnoc => g.tr # <<>>) EXCEPT !.at = resp + z.zll]

\* The network above the L3, with the memory.
LlnocAccess(s, g, cycle) ==
    LET z == Zll(s, s.memHops)
    IN  NocAccess(g, MemAccess(s, Upwards(g, TRUE), cycle + z.zll), cycle, TRUE, z)

\* Both an eviction and the access have left a record.
Stitched(g, cycle, wb) ==
    LET acc == g.tr[1]
        st  == Len(g.ev) + 1
        new == <<[Delay(cycle, 0) EXCEPT !.kids = <<st + 2, st + 1>>],
                 [Delay(cycle, Later(cycle, wb.req)) EXCEPT !.kids = <<wb.start>>],
                 [Delay(cycle, Later(cycle, acc.req)) EXCEPT !.kids = <<acc.start>>]>>
    IN  Push(Check(Add(Pop(g), new), wb.req >= cycle /\ acc.req >= cycle), cycle, st, acc.resp)

\* Cache::access: an eviction, which left out and whose time does not count, and
\* the access, which left g, made one record.
CacheAccess(out, g, cycle) ==
    IF out.tr = <<>> THEN g
    ELSE IF g.tr = <<>> THEN [g EXCEPT !.tr = out.tr]
    ELSE [Stitched(g, cycle, out.tr[1]) EXCEPT !.at = g.at]

\* A dirty victim of the L3 is written back, a clean one dropped.
Dropped(s, g, a) == IF a.victim = "dirty" THEN LlnocAccess(s, g, g.at) ELSE g

\* The L3's eviction of a victim that the L2s in a.holders have.
L3Evict(s, g, cycle, a) == Dropped(s, SendInvalidates(s, g, a.holders, cycle), a)

\* The L3's access of a line that it does not have, after the eviction.
L3Miss(s, out, looked, cycle) == CacheAccess(out, LlnocAccess(s, Pop(out), looked), cycle)

\* An access of the L3.  What a.l3 says: "hit", "miss", or "skip" if the line
\* was taken from the L2 before its writeback came; a.shared: the L2s that a
\* hit invalidates; a.victim: none, clean or dirty.
L3Access(s, g, cycle, a) ==
    LET looked == cycle + s.accLat3
    IN  CASE a.l3 = "skip" -> [g EXCEPT !.at = cycle]
          [] a.l3 = "hit"  -> CacheAccess(g, SendInvalidates(s, Pop(g), a.shared, looked), cycle)
          [] a.l3 = "miss" -> L3Miss(s, L3Evict(s, g, looked, a), looked, cycle)

\* The L3 by way of the network below it.
NocToL3(s, g, cycle, a) ==
    LET z == Zll(s, s.hops[1])
    IN  NocAccess(g, L3Access(s, Upwards(g, FALSE), cycle + z.zll, a), cycle, FALSE, z)

\* An L2's writeback of its victim (a.put: "none", "hit", "skip").
L2Evict(s, g, cycle, a) ==
    IF a.put = "none" THEN g ELSE NocToL3(s, g, cycle, [l3 |-> a.put, shared |-> <<>>])

\* An L2's access of a line that it does not have, after the eviction.
L2Miss(s, out, looked, cycle, a) == CacheAccess(out, NocToL3(s, Pop(out), looked, a), cycle)

L2Access(s, g, cycle, a) ==
    LET looked == cycle + s.accLat2
    IN  L2Miss(s, L2Evict(s, g, looked, a), looked, cycle, a)

-----------------------------------------------------------------------------
(* The core's recorder.                                                    *)

\* OOOCoreRecorder::addIssueEvent: after the responses that came before it
\* and after the last issue.
Issue(g, cycle) ==
    LET prior == {x \in g.future : x.at < cycle}
        max   == IF prior = {} THEN 0 ELSE CHOOSE m \in {x.at : x \in prior} : \A x \in prior : x.at <= m
        pre   == IF max = 0 THEN 0 ELSE cycle - max
        lastAt == g.ev[g.last].min
        i     == Len(g.ev) + 1
        h     == Add(g, <<[NewEvent("core", cycle) EXCEPT !.pre = pre],
                          [Delay(lastAt, Later(lastAt + pre, cycle)) EXCEPT !.kids = <<i>>]>>)
        linked == FoldLeft(LAMBDA y, x : Link(y, x.ev, i), h, SetToSeq(prior))
    IN  [Check(Link(linked, g.last, i + 1), \A x \in prior : x.at >= lastAt)
            EXCEPT !.last = i, !.future = @ \ prior]

\* OOOCoreRecorder::recordAccess, of a GET that was dispatched at dispatch and
\* answered at g.at.
RecordOOO(g0, cycle, dispatch) ==
    LET g     == Issue(Pop(g0), cycle)
        tr    == g0.tr[1]
        d     == Len(g.ev) + 1           \* dDisp, then dispEv, dUp and respEvent
        prior == {x \in g.future : x.at < dispatch}
        new   == <<[Delay(cycle, dispatch - cycle) EXCEPT !.kids = <<d + 1>>],
                   [NewEvent("core", dispatch) EXCEPT !.kids = <<d + 2>>],
                   [Delay(dispatch, Later(dispatch, tr.req)) EXCEPT !.kids = <<tr.start>>],
                   [NewEvent("resp", g0.at) EXCEPT !.pre = Later(tr.resp, g0.at)]>>
        after(h, x) == LET n == Len(h.ev) + 1
                       IN  Link(Add(h, <<[Delay(Never, dispatch - x.at) EXCEPT !.kids = <<d + 1>>]>>), x.ev, n)
        h     == Link(Add(g, new), g.last, d)
        ends  == Link(Link(h, LeftEnd(h.ev, tr.start), d + 3), tr.start, d + 3)
    IN  [FoldLeft(after, Check(ends, g0.at >= tr.resp), SetToSeq(prior))
            EXCEPT !.future = @ \cup {[at |-> g0.at, ev |-> d + 3]}]

\* A load that misses in the L1.
Access(s, g, a) ==
    RecordOOO([L2Access(s, g, a.dispatch + s.accLat1, a) EXCEPT !.at = @ + s.loadLat],
              a.issue, a.dispatch)

Start == [Recording EXCEPT !.ev = <<NewEvent("core", 0)>>, !.last = 1]

\* What the accesses of a setup leave.
Recorded(s) ==
    LET g == FoldLeft(LAMBDA h, a : Access(s, h, a), Start, s.accesses)
    IN  [setup |-> s, ev |-> g.ev, bad |-> g.bad]
=============================================================================
