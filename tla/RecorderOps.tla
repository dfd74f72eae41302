----------------------------- MODULE RecorderOps -----------------------------
(***************************************************************************)
(* What feeds the weave phase: the records that a memory                   *)
(* (weave_md1_mem.h) and a timing cache (timing_cache.cpp) make of an      *)
(* access, the core recorder that strings them together                    *)
(* (core_recorder.cpp), and what each kind of event does when it is        *)
(* simulated.                                                              *)
(*                                                                         *)
(* Left out: the tag arrays and coherence (an access hits or misses by     *)
(* choice), statistics, and the levels between the core and the cache.     *)
(***************************************************************************)
EXTENDS WeaveOps
LOCAL INSTANCE SequencesExt

\* state, gap (gapCycles), prev and prevCycle (prevRespEvent, prevRespCycle),
\* start and origStart (lastEventSimulated...), halted (lastUnhaltedCycle),
\* slack and stack (EventRecorder), cyc and phaseEnd (TimingCore).
NewRecorder ==
    [state |-> "HALTED", gap |-> 0, prev |-> 0, prevCycle |-> 0, start |-> 0,
     origStart |-> 0, halted |-> 0, slack |-> 0, stack |-> <<>>, cyc |-> 0, phaseEnd |-> 0]

NewCache == [lastFree |-> 0, lastAcc |-> 0, active |-> 0, pending |-> <<>>]

-----------------------------------------------------------------------------
(* Building the graph.                                                     *)

\* An edge from p to c, through a delay if there is one to cover.
LinkAfter(w, p, delay, c, start) ==
    IF delay = 0 THEN Link(w, p, c)
    ELSE LET d == Newest(w) + 1
         IN  Link(Link(WithEvent(w, [NewEvent("delay", Unset, delay, 0) EXCEPT !.min = start]),
                       p, d), d, c)

\* A timing record: its first and last event, when it starts and ends.
Record(first, last, req, resp) == [first |-> first, last |-> last, req |-> req, resp |-> resp]
NoRecord == Record(0, 0, 0, 0)

\* connect: tie two events to an optional record.
Connect(w, rec, from, to, start, end) ==
    IF rec = NoRecord THEN LinkAfter(w, from, end - start, to, start)
    ELSE LinkAfter(LinkAfter(w, from, rec.req - start, rec.first, start),
                   rec.last, end - rec.resp, to, rec.resp)

\* The event of a memory access in domain dom.
MemEvent(dom, cycle, extra) ==
    [NewEvent("mem", dom, ZeroLoadLat \div 2, ZeroLoadLat - (ZeroLoadLat \div 2)) EXCEPT
        !.n = extra, !.min = cycle]

\* The lookups and the swap of a replacement, from the miss's start to its
\* writeback.
LookupsFor(w) == (w.cands + (Ways - 1)) \div Ways - 1

RECURSIVE Lookups(_, _, _, _, _)
Lookups(w, p, sofar, fringe, req) ==
    IF sofar >= LookupsFor(w) THEN [w |-> w, last |-> p]
    ELSE LET accs == Minimum(fringe, LookupsFor(w) - sofar)
             ra   == [NewEvent("repl", 0, IF sofar = 0 THEN TagLat ELSE 0,
                               TagLat - Minimum(TagLat - 1, fringe)) EXCEPT
                        !.n = accs, !.min = req]
         IN  Lookups(Link(WithEvent(w, ra), p, Newest(w) + 1), Newest(w) + 1,
                     sofar + accs, fringe * (Ways - 1), req)

Replacement(w, mse, mwe, req) ==
    IF w.cands <= Ways THEN w
    ELSE LET looked == Lookups(w, mse, 0, Ways - 1, req)
             rd == Newest(looked.w) + 1
             swap(pre, post) == [NewEvent("repl", 0, pre, post) EXCEPT !.n = 1, !.min = req]
             made == WithEvent(WithEvent(looked.w, swap(TagLat, TagLat)), swap(0, 0))
         IN  Link(Link(Link(made, looked.last, rd), rd, rd + 1), rd + 1, mwe)

\* The accesses: w with the events, the record that reaches the core, and
\* the cycle at which the core goes on.  A hit in the timing cache.
Hit(w, req) ==
    LET ev == [NewEvent("hit", 0, 0, AccLat) EXCEPT !.min = req]
    IN  [w |-> WithEvent(w, ev), cyc |-> req + AccLat,
         rec |-> Record(Newest(w) + 1, Newest(w) + 1, req, req + AccLat)]

\* A miss: an upgrade evicts nothing, a miss evicts a clean line, or a dirty
\* one ("missWb") whose writeback to the memory makes a record of its own.
Miss(w, kind, req, memDom, extra) ==
    LET at   == req + AccLat
        resp == at + ZeroLoadLat + NetLat
        wb   == Newest(w) + 1
        wbs  == IF kind = "missWb" THEN WithEvent(w, MemEvent(memDom, at, extra)) ELSE w
        wbRec == IF kind = "missWb" THEN Record(wb, wb, at, at + ZeroLoadLat) ELSE NoRecord
        acc  == Newest(wbs) + 1
        mse  == acc + 1
        mre  == acc + 2
        mwe  == acc + 3
        evDone == CASE kind = "upgrade" -> 0
                    [] kind = "miss"    -> at
                    [] kind = "missWb"  -> at + ZeroLoadLat
        made == FoldLeft(WithEvent, wbs,
                  <<MemEvent(memDom, at, extra),
                    [NewEvent("mse", 0, 0, AccLat) EXCEPT !.min = req],
                    [NewEvent("mre", 0, 0, 0) EXCEPT !.min = resp],
                    [NewEvent("mwe", 0, 0, AccLat) EXCEPT !.min = Maximum(evDone, resp)]>>)
        got == Link(Connect(made, Record(acc, acc, at, at + ZeroLoadLat), mse, mre, at, resp),
                    mre, mwe)
    IN  [w |-> IF evDone = 0 THEN got
               ELSE Replacement(Connect(got, wbRec, mse, mwe, at, evDone), mse, mwe, req),
         rec |-> Record(mse, mre, req, resp), cyc |-> resp]

\* Without a timing cache the memory's record reaches the core: of a get, or
\* of a writeback alone.
Direct(w, req, memDom, extra) ==
    LET ev == Newest(w) + 1
    IN  [w |-> WithEvent(w, MemEvent(memDom, req, extra)),
         rec |-> Record(ev, ev, req, req + ZeroLoadLat), cyc |-> req + ZeroLoadLat + NetLat]

-----------------------------------------------------------------------------
(* CoreRecorder.                                                           *)

\* A TimingCoreEvent that covers delay cycles from the last response,
\* linked behind it.
CoreEvent(w, c, delay) ==
    LET rec == w.core[c]
        ev  == [NewEvent("core", Unset, 0, delay) EXCEPT
                  !.orig = rec.prevCycle - rec.gap, !.core = c, !.min = rec.prevCycle]
    IN  Link(WithEvent(w, ev), rec.prev, Newest(w) + 1)

\* The same, made the last event of the sequence.
Extend(w, c, delay) ==
    LET made == CoreEvent(w, c, delay)
    IN  [made EXCEPT !.core[c].prev = Newest(made), !.core[c].prevCycle = @ + delay]

NotifyJoin(w, c) ==
    LET rec == w.core[c]
        fresh == [NewEvent("core", 0, 0, 0) EXCEPT !.orig = w.glob, !.core = c, !.min = w.glob]
        made == WithEvent(Require(w, rec.prev = 0 /\ rec.halted <= w.glob, "notifyJoin"), fresh)
    IN  CASE rec.state = "HALTED" ->
               Queue([made EXCEPT !.core[c] =
                        [@ EXCEPT !.state = "RUNNING", !.gap = 0, !.slack = 0, !.cyc = w.glob,
                                  !.prev = Newest(made), !.prevCycle = w.glob]],
                     Newest(made), w.glob)
          [] rec.state = "DRAINING" ->
               [Require(w, rec.cyc >= w.glob, "notifyJoin") EXCEPT !.core[c].state = "RUNNING"]
          [] rec.state = "RUNNING" -> Require(w, FALSE, "notifyJoin")

NotifyLeave(w, c) ==
    LET rec == w.core[c]
        left == [Require(w, rec.state = "RUNNING" /\ rec.prev # 0, "notifyLeave")
                   EXCEPT !.core[c].state = "DRAINING"]
    IN  Extend(Extend(left, c, rec.cyc - rec.prevCycle), c, 0)

\* Cut the edges between domains below the event the record was added to.
RecordCrossings(w, first, c) ==
    IF NumDomains = 1 THEN w
    ELSE [ProduceCrossings(w, first, c) EXCEPT !.core[c].stack = <<>>]

InOrder(was, rec) == was.cyc >= was.prevCycle /\ rec.req >= was.cyc

\* recordAccess of a get: the sequence goes on at the record's end.
RecordGet(w, c, rec) ==
    LET was  == w.core[c]
        made == Link(CoreEvent(Require(w, InOrder(was, rec), "recordAccess"),
                               c, rec.req - was.prevCycle),
                     Newest(w) + 1, rec.first)
    IN  RecordCrossings([made EXCEPT !.core[c].prev = rec.last,
                                     !.core[c].prevCycle = rec.resp],
                        was.prev, c)

\* Of a put: a branch off the sequence, behind a delay.
RecordPut(w, c, rec) ==
    LET was   == w.core[c]
        delay == [NewEvent("delay", Unset, rec.req - was.prevCycle, 0) EXCEPT
                    !.min = was.prevCycle]
        d     == Newest(w) + 1
    IN  RecordCrossings(Link(Link(WithEvent(Require(w, InOrder(was, rec), "recordAccess"),
                                            delay), was.prev, d), d, rec.first),
                        was.prev, c)

\* cSimStart: a running core's sequence is brought to the core's cycle and
\* ends in an event that starts in a later phase.
CSimStart(w, c) ==
    LET rec  == w.core[c]
        next == w.glob + PhaseLength
        checked == Require(w, rec.cyc >= next, "cSimStart")
    IN  CASE rec.state = "HALTED" -> w
          [] rec.state = "DRAINING" -> [w EXCEPT !.core[c].cyc = Maximum(@, next)]
          [] rec.state = "RUNNING" ->
               Extend(IF rec.prevCycle < rec.cyc
                      THEN Extend(checked, c, rec.cyc - rec.prevCycle) ELSE checked, c, 0)

\* cSimEnd: the core's clock takes the delay that contention added.
CSimEnd(w, c) ==
    LET rec  == w.core[c]
        skew == rec.start - (rec.origStart + rec.gap)
        moved == [Require(w, rec.origStart + rec.gap <= rec.cyc /\ rec.start <= rec.cyc
                              /\ skew >= 0 /\ (rec.prev = 0 => rec.state = "DRAINING"),
                          "cSimEnd")
                    EXCEPT !.core[c] = [@ EXCEPT !.cyc = @ + skew, !.gap = @ + skew,
                                                 !.prevCycle = @ + skew]]
    IN  IF rec.state = "HALTED" THEN w
        ELSE IF rec.prev = 0
        THEN [moved EXCEPT !.core[c].halted = rec.start, !.core[c].state = "HALTED"]
        ELSE moved

\* reportEventSimulated.
Report(w, e, cycle) ==
    LET c == w.ev[e].core
        last == w.core[c].prev = e
    IN  [Require(w, last => w.core[c].state = "DRAINING", "reportEventSimulated") EXCEPT
            !.core[c] = [@ EXCEPT !.start = cycle, !.origStart = w.ev[e].orig,
                                  !.prev = IF last THEN 0 ELSE @,
                                  !.slack = cycle - w.ev[e].orig]]

-----------------------------------------------------------------------------
(* Simulating the events of the timing cache.                              *)

\* highPrioAccess: the cycle of the lookup, one per cycle.
LookupCycle(w, cycle) == Maximum(cycle, w.cache.lastAcc + 1)

HighPrio(w, cycle) ==
    [Require(w, cycle >= w.cache.lastFree, "highPrioAccess") EXCEPT
        !.cache.lastFree = IF w.cache.lastAcc < cycle - 1 THEN cycle - 1 ELSE @,
        !.cache.lastAcc = LookupCycle(w, cycle)]

\* tryLowPrioAccess: granted if the cycle before had a free slot.
HasSlot(w, cycle) == w.cache.lastAcc < cycle - 1 \/ w.cache.lastFree = cycle - 1

LowPrio(w, cycle) ==
    [w EXCEPT !.cache.lastFree = 0, !.cache.lastAcc = Maximum(cycle - 1, @)]

HasMSHR(w) == w.cache.active < NumMSHRs

Hold(w, e) ==
    [w EXCEPT !.ev[e].state = "HELD", !.cache.pending = Append(@, e)]

SimulateHit(w, e, cycle) ==
    IF HasMSHR(w) THEN Done(HighPrio(w, cycle), e, LookupCycle(w, cycle)) ELSE Hold(w, e)

SimulateMissStart(w, e, cycle) ==
    IF HasMSHR(w)
    THEN Done(HighPrio([w EXCEPT !.cache.active = @ + 1], cycle), e, LookupCycle(w, cycle))
    ELSE Hold(w, e)

\* Mutant of SimulateMissWriteback: leaves those that wait in the queue.
SimulateMissWritebackAlone(w, e, cycle) ==
    IF HasSlot(w, cycle)
    THEN Done([LowPrio(w, cycle) EXCEPT !.cache.active = @ - 1], e, cycle)
    ELSE Requeue(w, e, cycle + 1)

\* The MSHR is free again: all that wait for one try once more.
SimulateMissWriteback(w, e, cycle) ==
    LET freed == [LowPrio(Require(w, w.cache.active > 0, "simulateMissWriteback"), cycle) EXCEPT
                    !.cache.active = @ - 1, !.cache.pending = <<>>]
        retry(v, q) == Requeue(v, q, cycle + 1)
    IN  IF HasSlot(w, cycle)
        THEN Done(FoldLeft(retry, freed, w.cache.pending), e, cycle)
        ELSE Requeue(w, e, cycle + 1)

SimulateReplAccess(w, e, cycle) ==
    LET used == [LowPrio(Require(w, w.ev[e].n > 0, "simulateReplAccess"), cycle) EXCEPT
                    !.ev[e].n = @ - 1]
    IN  CASE ~HasSlot(w, cycle)  -> Requeue(w, e, cycle + 1)
          [] used.ev[e].n = 0    -> Done(used, e, cycle)
          [] OTHER               -> Requeue(used, e, cycle + 1)

Simulate(w, e, cycle) ==
    CASE w.ev[e].kind = "core" -> Done(Report(w, e, cycle), e, cycle)
      [] w.ev[e].kind = "mem"  -> Done(w, e, cycle + w.ev[e].n)
      [] w.ev[e].kind = "hit"  -> SimulateHit(w, e, cycle)
      [] w.ev[e].kind = "mse"  -> SimulateMissStart(w, e, cycle)
      [] w.ev[e].kind = "mre"  -> Done(w, e, cycle)
      [] w.ev[e].kind = "mwe"  -> SimulateMissWriteback(w, e, cycle)
      [] w.ev[e].kind = "repl" -> SimulateReplAccess(w, e, cycle)

\* run: the assertions and the change of state before simulate.
Running(w, e, cycle) ==
    [Require(w, w.ev[e].state \in {"NONE", "QUEUED"}
                  /\ w.ev[e].min # Unset /\ cycle >= w.ev[e].min, "run")
        EXCEPT !.ev[e].state = "RUNNING"]
=============================================================================
