-------------------------------- MODULE Weave --------------------------------
(***************************************************************************)
(* The two alternating phases of zsim's timing simulation                  *)
(* (zsim/src/contention_sim.cpp).  In the bound phase the cores run ahead, *)
(* up to the end of the phase, and record what they do.  In the weave      *)
(* phase the simulation threads execute the recorded events in order of    *)
(* time, each thread for the domains it owns, and the delay that they find *)
(* is added to the clocks of the cores.                                    *)
(*                                                                         *)
(* The caller of simulatePhase is the thread that ends the bound phase     *)
(* (the phase barrier's last); it wakes the simulation threads and waits   *)
(* for the last of them.  Futex locks are used as events here: all start   *)
(* locked and are unlocked by the thread that signals.                     *)
(***************************************************************************)
EXTENDS RecorderOps
LOCAL INSTANCE FiniteSetsExt
LOCAL INSTANCE SequencesExt

CONSTANTS
    Setups,       \* the systems to simulate, see below
    BblLens       \* instructions in a basic block

\* A setup: the cores that threads run on, the domain of the memory, the
\* number of simulation threads, the candidates for a replacement, the kinds
\* of access, bounds on the accesses and on the leaves of all the cores, and
\* the phases to simulate (zinfo->maxPhases).
ASSUME SetupAssumption ==
    \A s \in Setups :
        /\ s.cores \subseteq Cores /\ s.mem \in Domains
        /\ s.threads \in 1..NumDomains /\ NumDomains % s.threads = 0
        /\ s.cands >= Ways

VARIABLES
    w,         \* see WeaveOps
    setup,
    at,        \* where each core is: "out", "run", at the "barrier"
    thr,       \* the simulation threads
    caller,    \* of simulatePhase: "bound", "wake", "wait", "end"
    woken,     \* how many threads it has woken
    wakeLock,  \* of each thread, TRUE: locked
    waitLock,
    threadsDone,
    phases,    \* zinfo->numPhases
    accesses, leaves

vars == <<w, setup, at, thr, caller, woken, wakeLock, waitLock, threadsDone, phases,
          accesses, leaves>>

threadVars == <<thr, caller, woken, wakeLock, waitLock, threadsDone, phases>>

SimThreads == 0..(setup.threads - 1)

OwnedBy(t) == {d \in Domains : d \div (NumDomains \div setup.threads) = t}

\* e, cycle: the event dequeued and its cycle; next: of a crossing; the
\* rest is used by a thread with several domains: those ready, the stacks of
\* those stalled, those finished.
IdleThread ==
    [pc |-> "sleep", d |-> 0, e |-> 0, cycle |-> 0, next |-> 0, ready |-> {},
     stalled |-> <<>>, nextStalled |-> <<>>, finished |-> 0, wasStalled |-> FALSE]

Init ==
    /\ setup \in Setups
    /\ w = [ev |-> <<>>, broken |-> "", inCSim |-> FALSE,
            cands |-> setup.cands, glob |-> 0, limit |-> 0, lastLimit |-> 0,
            dom |-> [d \in Domains |-> [pq |-> EmptyQueue, cur |-> 0, prio |-> 0, queuePrio |-> 0]],
            last |-> [c \in Cores |-> [s \in Domains |-> [d \in Domains |->
                        [cycle |-> 0, ev |-> 0]]]],
            core |-> [c \in Cores |-> NewRecorder],
            cache |-> NewCache]
    /\ at = [c \in Cores |-> "out"]
    /\ thr = [t \in SimThreads |-> IdleThread]
    /\ caller = "bound" /\ woken = 0
    /\ wakeLock = [t \in SimThreads |-> TRUE] /\ waitLock = TRUE
    /\ threadsDone = 0
    /\ phases = 0 /\ accesses = 0 /\ leaves = 0

-----------------------------------------------------------------------------
(* The bound phase.                                                        *)

InBound == caller = "bound" /\ phases < setup.phases /\ w.broken = ""

Join(c) ==
    /\ InBound /\ at[c] = "out" /\ c \in setup.cores
    /\ w' = [NotifyJoin(w, c) EXCEPT !.core[c].phaseEnd = w.glob + PhaseLength]
    /\ at' = [at EXCEPT ![c] = "run"]
    /\ UNCHANGED <<threadVars, setup, accesses, leaves>>

Leave(c) ==
    /\ InBound /\ at[c] = "run" /\ leaves < setup.leaves
    /\ w' = NotifyLeave(w, c)
    /\ at' = [at EXCEPT ![c] = "out"]
    /\ leaves' = leaves + 1
    /\ UNCHANGED <<threadVars, setup, accesses>>

\* A basic block: past the end of the phase, the core takes the barrier.
Bbl(c, n) ==
    LET cycle == w.core[c].cyc + n
        ends  == cycle > w.core[c].phaseEnd
    IN  /\ InBound /\ at[c] = "run"
        /\ w' = [w EXCEPT !.core[c].cyc = cycle,
                          !.core[c].phaseEnd = IF ends THEN @ + PhaseLength ELSE @]
        /\ at' = IF ends THEN [at EXCEPT ![c] = "barrier"] ELSE at
        /\ UNCHANGED <<threadVars, setup, accesses, leaves>>

Recorded(v, c, kind, extra) ==
    LET req == v.core[c].cyc
        res == CASE kind = "hit" -> Hit(v, req)
                 [] kind \in {"upgrade", "miss", "missWb"} -> Miss(v, kind, req, setup.mem, extra)
                 [] kind \in {"get", "put"} -> Direct(v, req + AccLat, setup.mem, extra)
    IN  [IF kind = "put" THEN RecordPut(res.w, c, res.rec) ELSE RecordGet(res.w, c, res.rec)
            EXCEPT !.core[c].cyc = res.cyc]

\* A block has run, so that the cycle is not 0.
Access(c, kind, extra) ==
    /\ InBound /\ at[c] = "run" /\ accesses < setup.accesses
    /\ w.core[c].cyc > 0
    /\ w' = Recorded(w, c, kind, extra)
    /\ accesses' = accesses + 1
    /\ UNCHANGED <<threadVars, setup, at, leaves>>

-----------------------------------------------------------------------------
(* simulatePhase.                                                          *)

StartWeave ==
    /\ InBound
    /\ \A c \in Cores : at[c] # "run"
    /\ w' = [FoldSet(LAMBDA c, v: CSimStart(v, c), w, Cores) EXCEPT
                !.limit = w.glob + PhaseLength, !.inCSim = TRUE]
    /\ caller' = "wake" /\ woken' = 0
    /\ UNCHANGED <<setup, at, thr, wakeLock, waitLock, threadsDone, phases, accesses, leaves>>

WakeThread ==
    /\ caller = "wake"
    /\ wakeLock' = [wakeLock EXCEPT ![woken] = FALSE]
    /\ woken' = woken + 1
    /\ caller' = IF woken + 1 = setup.threads THEN "wait" ELSE "wake"
    /\ UNCHANGED <<w, setup, at, thr, waitLock, threadsDone, phases, accesses, leaves>>

WaitForThreads ==
    /\ caller = "wait" /\ ~waitLock
    /\ waitLock' = TRUE
    /\ caller' = "end"
    /\ UNCHANGED <<w, setup, at, thr, woken, wakeLock, threadsDone, phases, accesses, leaves>>

\* The rest of simulatePhase and of the phase's end.  A core whose clock was
\* moved past the end of the next phase stays at the barrier.
Late(v, c) == at[c] = "barrier" /\ v.core[c].cyc > v.core[c].phaseEnd

Resumed(v, c) ==
    IF Late(v, c) THEN [v EXCEPT !.core[c].phaseEnd = @ + PhaseLength] ELSE v

EndWeave ==
    LET ended == [FoldSet(LAMBDA c, v: CSimEnd(v, c), [w EXCEPT !.inCSim = FALSE], Cores)
                    EXCEPT !.lastLimit = w.limit, !.glob = @ + PhaseLength]
    IN  /\ caller = "end" /\ w.broken = ""
        /\ w' = FoldSet(LAMBDA c, v: Resumed(v, c), ended, Cores)
        /\ at' = [c \in Cores |->
                    IF at[c] = "barrier" /\ ~Late(ended, c) THEN "run" ELSE at[c]]
        /\ phases' = phases + 1
        /\ caller' = "bound"
        /\ UNCHANGED <<setup, thr, woken, wakeLock, waitLock, threadsDone, accesses, leaves>>

-----------------------------------------------------------------------------
(* simThreadLoop and simulatePhaseThread.                                  *)

callerVars == <<setup, at, caller, woken, phases, accesses, leaves>>

Wake(t) ==
    /\ thr[t].pc = "sleep" /\ ~wakeLock[t]
    /\ wakeLock' = [wakeLock EXCEPT ![t] = TRUE]
    /\ thr' = [thr EXCEPT ![t] = [IdleThread EXCEPT !.pc = "pick", !.ready = OwnedBy(t)]]
    /\ UNCHANGED <<callerVars, w, waitLock, threadsDone>>

Working(t, pc) ==
    /\ thr[t].pc = pc /\ w.broken = ""
    /\ UNCHANGED <<callerVars, wakeLock, waitLock, threadsDone>>

\* A thread with one domain stops before the limit, one with several after.
Pending(d, t) ==
    LET q == w.dom[d].pq
    IN  /\ ~IsEmpty(q)
        /\ IF Cardinality(OwnedBy(t)) = 1 THEN FirstCycle(q) < w.limit ELSE FirstCycle(q) <= w.limit

\* The next event of domain d, with what the thread's lists become.
Take(t, d, lists) ==
    LET next == Dequeue(w.dom[d].pq)
    IN  /\ w' = [Require(w, Cardinality(OwnedBy(t)) = 1 => next.cycle >= w.dom[d].cur,
                         "simulatePhaseThread")
                   EXCEPT !.dom[d].pq = next.rest, !.dom[d].cur = next.cycle]
        /\ thr' = [thr EXCEPT ![t] = [lists EXCEPT !.pc = "run", !.d = d, !.e = next.obj,
                                                   !.cycle = next.cycle]]

FinishDomain(t, d, lists) ==
    /\ w' = [w EXCEPT !.dom[d].cur = w.limit]
    /\ thr' = [thr EXCEPT ![t] = [lists EXCEPT !.finished = @ + 1]]

\* The ready domain that is least far, then the stalled ones, last first;
\* when these are through, those that stalled again.
PickReady(t) ==
    /\ Working(t, "pick")
    /\ \E d \in thr[t].ready :
        LET lists == [thr[t] EXCEPT !.ready = @ \ {d}, !.wasStalled = FALSE]
        IN  /\ \A o \in thr[t].ready : w.dom[d].queuePrio <= w.dom[o].queuePrio
            /\ IF Pending(d, t) THEN Take(t, d, lists) ELSE FinishDomain(t, d, lists)

Swapped(lists) ==
    IF lists.stalled = <<>>
    THEN [lists EXCEPT !.stalled = lists.nextStalled, !.nextStalled = <<>>]
    ELSE lists

PickStalled(t) ==
    /\ Working(t, "pick")
    /\ thr[t].ready = {} /\ thr[t].stalled # <<>>
    /\ LET n     == Len(thr[t].stalled)
           d     == thr[t].stalled[n]
           lists == [thr[t] EXCEPT !.stalled = SubSeq(@, 1, n - 1), !.wasStalled = TRUE]
       IN  IF Pending(d, t) THEN Take(t, d, lists) ELSE FinishDomain(t, d, Swapped(lists))

\* After an event the domain's cycle is that of its next event.
Moved(v, d) ==
    LET next == IF IsEmpty(v.dom[d].pq) THEN v.limit ELSE FirstCycle(v.dom[d].pq)
    IN  [v EXCEPT !.dom[d].cur = next, !.dom[d].queuePrio = next]

\* The event is through, with v: where the domain goes.
After(t, v) ==
    LET d     == thr[t].d
        moved == Moved(Require(v, Cardinality(OwnedBy(t)) = 1 =>
                                     (IsEmpty(v.dom[d].pq)
                                       \/ FirstCycle(v.dom[d].pq) >= thr[t].cycle),
                               "simulatePhaseThread"), d)
        stalls == Cardinality(OwnedBy(t)) > 1 /\ v.dom[d].prio # 0
        lists == CASE ~stalls -> [thr[t] EXCEPT !.ready = @ \cup {d}]
                   [] stalls /\ ~thr[t].wasStalled -> [thr[t] EXCEPT !.stalled = Append(@, d)]
                   [] stalls /\ thr[t].wasStalled -> [thr[t] EXCEPT !.nextStalled = Append(@, d)]
    IN  /\ w' = moved
        /\ thr' = [thr EXCEPT ![t] =
                     [(IF thr[t].wasStalled THEN Swapped(lists) ELSE lists) EXCEPT
                        !.pc = "pick", !.e = 0, !.cycle = 0, !.next = 0]]

\* The stalled path does without the assertions of run.
Started(t) ==
    IF thr[t].wasStalled THEN [w EXCEPT !.ev[thr[t].e].state = "RUNNING"]
    ELSE Running(w, thr[t].e, thr[t].cycle)

IsPoll(e) == w.ev[e].kind = "cross" /\ ~w.ev[e].called

RunEvent(t) ==
    LET e == thr[t].e IN
    /\ Working(t, "run")
    /\ ~IsPoll(e)
    /\ After(t, IF w.ev[e].kind = "cross" THEN FinishCrossing(Started(t), e, thr[t].cycle)
                ELSE Simulate(Started(t), e, thr[t].cycle))

\* A crossing whose source is not done: it reads how far the source's
\* domain is, how late the core is, and then looks once more.
SourceCycle(e) == w.dom[w.ev[e].src].cur + w.ev[e].preSlack + w.ev[e].postSlack

PollCycle(t) ==
    /\ Working(t, "run")
    /\ IsPoll(thr[t].e)
    /\ w' = Started(t)
    /\ thr' = [thr EXCEPT ![t].pc = "slack", ![t].next = SourceCycle(thr[t].e)]

CoreCycle(e) == w.ev[e].orig + w.core[w.ev[e].core].slack + w.ev[e].postSlack

PollSlack(t) ==
    /\ Working(t, "slack")
    /\ thr' = [thr EXCEPT ![t].pc = "check",
                          ![t].next = Max({@, CoreCycle(thr[t].e), thr[t].cycle})]
    /\ UNCHANGED w

PollCheck(t) ==
    LET e == thr[t].e IN
    /\ Working(t, "check")
    /\ After(t, IF w.ev[e].called THEN FinishCrossing(w, e, thr[t].cycle)
                ELSE RepeatCrossing(w, e, thr[t].cycle, thr[t].next))

\* A thread that has finished its domains; the last one has more to do.
Count(t) ==
    /\ thr[t].pc = "pick" /\ w.broken = ""
    /\ thr[t].finished = Cardinality(OwnedBy(t))
    /\ threadsDone' = threadsDone + 1
    /\ thr' = [thr EXCEPT ![t] =
                 [IdleThread EXCEPT !.pc = IF threadsDone + 1 = setup.threads THEN "reset" ELSE "sleep"]]
    /\ UNCHANGED <<callerVars, w, wakeLock, waitLock>>

AtEnd(t, from, to) == thr[t].pc = from /\ thr' = [thr EXCEPT ![t].pc = to]

\* Mutant of Finish: the caller is woken before the count is reset.
FinishSignalsFirst(t) ==
    /\ \/ AtEnd(t, "reset", "signal") /\ waitLock' = FALSE /\ UNCHANGED threadsDone
       \/ AtEnd(t, "signal", "sleep") /\ threadsDone' = 0 /\ UNCHANGED waitLock
    /\ UNCHANGED <<callerVars, w, wakeLock>>

\* The last thread resets the count, then wakes the caller.
Finish(t) ==
    /\ \/ AtEnd(t, "reset", "signal") /\ threadsDone' = 0 /\ UNCHANGED waitLock
       \/ AtEnd(t, "signal", "sleep") /\ waitLock' = FALSE /\ UNCHANGED threadsDone
    /\ UNCHANGED <<callerVars, w, wakeLock>>

-----------------------------------------------------------------------------

SimThread(t) ==
    \/ Wake(t) \/ PickReady(t) \/ PickStalled(t) \/ RunEvent(t)
    \/ PollCycle(t) \/ PollSlack(t) \/ PollCheck(t)
    \/ Count(t) \/ Finish(t)

Caller == StartWeave \/ WakeThread \/ WaitForThreads \/ EndWeave

BoundStep(c) ==
    \/ Join(c) \/ Leave(c)
    \/ \E n \in BblLens : Bbl(c, n)
    \/ \E kind \in setup.kinds, extra \in ExtraLats : Access(c, kind, extra)

\* zinfo->maxPhases is reached.
Terminated == phases = setup.phases /\ UNCHANGED vars

Next ==
    \/ \E c \in Cores : BoundStep(c)
    \/ Caller
    \/ \E t \in SimThreads : SimThread(t)
    \/ Terminated

Spec == Init /\ [][Next]_vars

-----------------------------------------------------------------------------

\* The operating system runs every simulation thread and the caller: weak
\* fairness of each, written out, since a thread's record changes with each
\* of its steps.  Nothing is assumed of the bound phase.
CanStep(t) == t \in SimThreads /\ (thr[t].pc # "sleep" \/ ~wakeLock[t])

Fairness ==
    /\ []<>(caller \notin {"wake", "end"}) \/ []<><<caller' # caller \/ woken' # woken>>_vars
    /\ []<>(caller # "wait" \/ waitLock) \/ []<><<WaitForThreads>>_vars
    /\ \A t \in 0..(NumDomains - 1) :
        []<>(~CanStep(t)) \/ []<><<t \in SimThreads /\ thr'[t] # thr[t]>>_vars

FairSpec == Spec /\ Fairness

-----------------------------------------------------------------------------

Live == {e \in DOMAIN w.ev : w.ev[e].kind # "freed"}

InDomain(d) == {e \in Live : w.ev[e].dom = d}

BeingRun(e) == \E t \in SimThreads : thr[t].e = e

\* No assertion or panic of the event graph, the queues, the recorders or
\* the timing cache fires: in particular no event runs before the cycle it
\* was recorded at, no link is made to an event that is already reclaimed,
\* no domain goes back in time and contention never speeds a core up.
NoPanic == w.broken = ""

\* Causality across domains: an event is queued or running only when every
\* event it was recorded to depend on is done, and no earlier than they
\* allow, although the threads of the domains are not synchronised and an
\* edge between domains is only polled.
Causal ==
    \A e \in Live :
        w.ev[e].state \in {"QUEUED", "RUNNING", "HELD"} /\ w.ev[e].kind # "cross" =>
            w.ev[e].need = {} /\ w.ev[e].priv >= w.ev[e].lb + w.ev[e].pre

\* The calendar queue of a domain holds exactly its queued events (but the
\* one being run), and its first cycle is theirs, near or far.
QueuesExact ==
    \A d \in Domains :
        LET q == w.dom[d].pq
            queued == {e \in InDomain(d) : ~BeingRun(e) /\
                        (w.ev[e].state = "QUEUED" \/ (w.ev[e].kind = "cross" /\ e \in Contents(q)))}
        IN  /\ Contents(q) = queued
            /\ queued # {} => FirstCycle(q) = Min({w.ev[e].priv : e \in queued})

\* An MSHR is taken for each miss between its start and its writeback, and
\* what waits for one waits only while all are taken.
MSHRsExact ==
    /\ w.cache.active =
         Cardinality({e \in Live : w.ev[e].kind = "mwe"})
           - Cardinality({e \in Live : w.ev[e].kind = "mse"})
    /\ w.cache.pending # <<>> => w.cache.active = NumMSHRs
    /\ {w.cache.pending[i] : i \in DOMAIN w.cache.pending} =
         {e \in Live : w.ev[e].state = "HELD"}

\* Every weave phase ends: no two domains wait for each other's crossings
\* for ever, and no wakeup between the caller and the threads is lost.
PhaseEnds == (caller = "wake") ~> (caller = "bound")
=============================================================================
