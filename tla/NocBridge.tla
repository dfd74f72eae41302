------------------------------ MODULE NocBridge ------------------------------
(***************************************************************************)
(* The bridge between zsim and booksim (booksim_net_ctrl.cpp): the weave   *)
(* phase runs what BridgeOps says the bound phase records.  An event of a  *)
(* network hands a packet over and is held until the packet comes back;    *)
(* the network is stepped by a tick event at every cycle, as often as the  *)
(* two clocks say.  Of the network this module knows what the module       *)
(* Network shows: it is a PacketNet, and no packet is faster than the      *)
(* zero-load latency (TooEarly there).                                     *)
(*                                                                         *)
(* Recordings are records of a setup and what it leaves.  setup.late of    *)
(* the packets and memory accesses take Extra longer than without load     *)
(* (bounds).                                                               *)
(***************************************************************************)
EXTENDS BridgeOps, FiniteSets
LOCAL INSTANCE SequencesExt
LOCAL INSTANCE FiniteSetsExt

CONSTANTS Recordings, Extra

VARIABLES setup,
          ev,          \* the recorded events
          w,           \* their states, cycles, numParents; bad: an assertion failed
          now,         \* the cycle of the domain
          tickAt,      \* the cycle of the tick event
          todo,        \* the steps still to make in this tick
          counts,      \* <<nocCount, cpuCount>>
          steps,       \* nocCurCycle
          inflight,    \* inflightRequests: [ev, due], due in steps
          late,        \* how many packets and accesses took Extra longer
          slow         \* history: the cycles that packets and memory took longer in all

vars == <<setup, ev, w, now, tickAt, todo, counts, steps, inflight, late, slow>>

-----------------------------------------------------------------------------
(* The bound phase.                                                        *)

NumParents(evs, e) ==
    FoldLeft(LAMBDA n, p : n + Cardinality({i \in DOMAIN p.kids : p.kids[i] = e}), 0, evs)

InitOf(g) ==
    /\ setup = g.setup
    /\ ev = g.ev
    /\ w = [st   |-> [e \in DOMAIN g.ev |-> IF e = 1 THEN "queued" ELSE "none"],
            at   |-> [e \in DOMAIN g.ev |-> 0],
            left |-> [e \in DOMAIN g.ev |-> NumParents(g.ev, e)],
            bad  |-> g.bad]
    /\ now = 0
    /\ tickAt = 0
    /\ todo = 0
    /\ counts = <<0, 0>>
    /\ steps = 0
    /\ inflight = {}
    /\ late = 0
    /\ slow = 0

-----------------------------------------------------------------------------
(* Events.                                                                 *)

RECURSIVE ParentDone(_, _, _)

\* TimingEvent::done
Done(x, e, cycle) ==
    FoldLeft(LAMBDA y, k : ParentDone(y, k, cycle + ev[e].post), [x EXCEPT !.st[e] = "done"], ev[e].kids)

\* TimingEvent::parentDone and DelayEvent::parentDone; an event is enqueued
\* when its last parent is done, never in the past.
ParentDone(x, e, cycle) ==
    LET at == (IF x.at[e] > cycle THEN x.at[e] ELSE cycle)
               + (IF x.left[e] = 1 THEN ev[e].pre ELSE 0)
        y  == [x EXCEPT !.left[e] = @ - 1, !.at[e] = at]
    IN  IF y.left[e] > 0 THEN y
        ELSE IF ev[e].kind = "delay" THEN Done(y, e, at)
        ELSE [y EXCEPT !.st[e] = "queued", !.bad = @ \/ at < now \/ x.st[e] # "none"]

\* TimingEvent::run, with its assertion.
Begun(e) == [w EXCEPT !.bad = @ \/ now < ev[e].min]

Ready(e) == todo = 0 /\ w.st[e] = "queued" /\ w.at[e] = now

RunCore(e) ==
    /\ Ready(e) /\ ev[e].kind \in {"core", "resp"}
    /\ w' = Done(Begun(e), e, now)
    /\ UNCHANGED <<setup, ev, now, tickAt, todo, counts, steps, inflight, late, slow>>

Late == IF late < setup.late THEN {0, 1} ELSE {0}

\* The memory may take longer than its bound-phase latency, not less.
RunMem(e) ==
    /\ Ready(e) /\ ev[e].kind = "mem"
    /\ \E l \in Late :
         /\ w' = Done(Begun(e), e, now + l * Extra)
         /\ late' = late + l
         /\ slow' = slow + l * Extra
    /\ UNCHANGED <<setup, ev, now, tickAt, todo, counts, steps, inflight>>

\* BookSimNetwork::enqueue
RunNoc(e) ==
    /\ Ready(e) /\ ev[e].kind = "noc"
    /\ w' = [Begun(e) EXCEPT !.st[e] = "held"]
    /\ \E l \in Late :
         /\ inflight' = inflight \cup {[ev |-> e, due |-> steps + ev[e].way + l * Extra]}
         /\ late' = late + l
    /\ UNCHANGED <<setup, ev, now, tickAt, todo, counts, steps, slow>>

-----------------------------------------------------------------------------
(* The network.                                                            *)

\* Mutant of StepsOf: the step that fills the tick up is left out.
StepsOfShort(n, c) == (n - c) \div setup.cpu

\* The steps of the loop in tick().
StepsOf(n, c) == (n - c + setup.cpu - 1) \div setup.cpu

\* BookSimNetwork::tick
Tick ==
    LET n == counts[1] + setup.noc
        k == IF setup.cpu = setup.noc THEN 1 ELSE StepsOf(n, counts[2])
        c == counts[2] + k * setup.cpu
    IN  /\ todo = 0 /\ tickAt = now
        /\ todo' = k
        /\ counts' = IF c = n \/ setup.cpu = setup.noc THEN <<0, 0>> ELSE <<n, c>>
        /\ tickAt' = now + 1
        /\ UNCHANGED <<setup, ev, w, now, steps, inflight, late, slow>>

\* The cycle of the cores at a step of the network.
CycleOf(s) == (s * setup.cpu) \div setup.noc

\* noc_read_return_cb
Returned(x, p) ==
    LET cycle == CycleOf(steps)
        ok    == x.st[p.ev] = "held" /\ ev[p.ev].zll <= cycle - x.at[p.ev]
    IN  Done([x EXCEPT !.bad = @ \/ ~ok], p.ev, cycle)

\* InterconnectInterface::Step: the packets arrive that are due.
Step ==
    LET ps == {p \in inflight : p.due = steps}
    IN  /\ todo > 0
        /\ w' = FoldLeft(Returned, w, SetToSeq(ps))
        /\ inflight' = inflight \ ps
        /\ slow' = slow + MapThenSumSet(LAMBDA p : CycleOf(steps) - w.at[p.ev] - ev[p.ev].zll, ps)
        /\ steps' = steps + 1
        /\ todo' = todo - 1
        /\ UNCHANGED <<setup, ev, now, tickAt, counts, late>>

AllDone == \A e \in DOMAIN ev : w.st[e] = "done"

Awaited(cycle) ==
    \E e \in DOMAIN ev : w.st[e] = "held" \/ (w.st[e] = "queued" /\ w.at[e] >= cycle)

GoesOn == todo > 0 \/ tickAt = now \/ Awaited(now)

\* The domain goes on to the next cycle (bound: while an event is awaited).
NextCycle ==
    /\ todo = 0 /\ tickAt > now
    /\ Awaited(now + 1)
    /\ \A e \in DOMAIN ev : ~Ready(e)
    /\ now' = now + 1
    /\ UNCHANGED <<setup, ev, w, tickAt, todo, counts, steps, inflight, late, slow>>

\* Nothing is awaited any more: the ticks that go on find nothing (bound: they
\* are not followed).
Over == ~GoesOn /\ UNCHANGED vars

Next ==
    \/ \E e \in DOMAIN ev : RunCore(e) \/ RunMem(e) \/ RunNoc(e)
    \/ Tick \/ Step \/ NextCycle \/ Over

Init == \E g \in Recordings : InitOf(g)

Spec == Init /\ [][Next]_vars

\* The weave phase and the network go on while there is something to do: weak
\* fairness of Next, written out.
FairSpec == Spec /\ ([]<>~GoesOn \/ []<><<TRUE>>_vars)

-----------------------------------------------------------------------------
(* Properties.                                                             *)

\* No assertion of the bridge, of the recorders and of the events fails: one
\* record at a time, chains joined where they meet, no event run before its
\* bound-phase cycle or queued in the past, no packet back faster than zll.
NoPanic == ~w.bad

\* The chains that invalidations, writebacks, evictions and accesses are joined
\* to add no delay of their own: the core's events run at the cycles that the
\* bound phase promised, and later by no more than packets and memory took
\* longer in all.
DelaysAddUp ==
    \A e \in DOMAIN ev : (ev[e].kind \in {"core", "resp"} /\ w.st[e] = "done") =>
        w.at[e] \in ev[e].min..(ev[e].min + slow)

\* Every recorded event is run: no packet's event is held for ever, and none
\* waits for a parent that was recorded but not linked.
Answered == <>AllDone
=============================================================================
