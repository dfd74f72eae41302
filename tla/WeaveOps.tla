------------------------------ MODULE WeaveOps ------------------------------
(***************************************************************************)
(* The weave phase of zsim as operators on a record w: the graph of timing *)
(* events that the bound phase records (zsim/src/timing_event.h, .cpp),    *)
(* the queues of the domains that simulate it (contention_sim.cpp), the    *)
(* recorder of each core (core_recorder.cpp) and the timing cache that     *)
(* builds most of the graph (timing_cache.cpp).                            *)
(*                                                                         *)
(* An event is named by its place in w.ev.  An event that is done is       *)
(* reclaimed at once: its place then holds Freed, so that a later use of   *)
(* it trips the assertions on the state of an event.  A failed assertion   *)
(* is recorded in w.broken, and the simulation ends.                       *)
(*                                                                         *)
(* need and lb are no fields of the code: the parents an event was         *)
(* recorded with that are not done, and the earliest cycle the others      *)
(* allow it, before its own delay.                                         *)
(***************************************************************************)
EXTENDS PrioQueueOps
LOCAL INSTANCE FiniteSetsExt
LOCAL INSTANCE SequencesExt

CONSTANTS
    Cores,        \* the cores, in domain 0
    NumDomains,
    PhaseLength,
    AccLat,       \* of the timing cache, in domain 0
    NetLat,       \* from a cache to the memory and back
    ZeroLoadLat,  \* the memory's, and what a loaded memory adds to it
    ExtraLats,
    NumMSHRs,
    Ways,         \* of the timing cache
    TagLat,       \* of a lookup for a replacement
    None          \* no core

Domains == 0..(NumDomains - 1)

ASSUME WeaveAssumption ==
    /\ NumDomains \in Nat \ {0} /\ PhaseLength \in Nat \ {0}
    /\ AccLat \in Nat \ {0} /\ NetLat \in Nat /\ ZeroLoadLat \in Nat
    /\ ExtraLats \subseteq Nat
    /\ NumMSHRs \in Nat \ {0} /\ Ways \in Nat \ {0, 1} /\ TagLat \in Nat \ {0}

Maximum(a, b) == IF a >= b THEN a ELSE b
Minimum(a, b) == IF a <= b THEN a ELSE b

Unset == -1       \* a domain or minStartCycle that is not set

\* n: the latency of a memory access, the lookups left of a replacement.
NewEvent(kind, dom, pre, post) ==
    [kind |-> kind, state |-> "NONE", cycle |-> 0, min |-> Unset, dom |-> dom,
     kids |-> <<>>, parents |-> 0, pre |-> pre, post |-> post, priv |-> 0,
     orig |-> 0, core |-> None, n |-> 0,
     src |-> Unset, called |-> FALSE, doneCycle |-> 0, mate |-> 0,
     preSlack |-> 0, postSlack |-> 0, need |-> {}, lb |-> 0]

Freed == [NewEvent("freed", Unset, 0, 0) EXCEPT !.state = "DONE"]

Newest(w) == Len(w.ev)

WithEvent(w, e) == [w EXCEPT !.ev = Append(@, e)]

\* assert and panic: the first failure is kept.
Require(w, cond, what) == IF cond \/ w.broken # "" THEN w ELSE [w EXCEPT !.broken = what]

-----------------------------------------------------------------------------
(* The event graph.                                                        *)

\* propagateDomain, down the children that have no domain.
RECURSIVE PropagateDomain(_, _, _)
PropagateDomain(w, e, dom) ==
    FoldLeft(LAMBDA v, k: IF v.ev[k].dom = Unset THEN PropagateDomain(v, k, dom) ELSE v,
             [w EXCEPT !.ev[e].dom = dom], w.ev[e].kids)

AddChild(w, p, c) ==
    LET checked == Require(w, w.ev[p].state \in {"NONE", "QUEUED"} /\ w.ev[c].state = "NONE",
                          "addChild")
        linked  == [checked EXCEPT !.ev[p].kids = Append(@, c), !.ev[c].parents = @ + 1]
    IN  IF w.ev[p].dom # Unset /\ w.ev[c].dom = Unset
        THEN PropagateDomain(linked, c, w.ev[p].dom)
        ELSE linked

\* An edge of the recorded graph.
Link(w, p, c) == [AddChild(w, p, c) EXCEPT !.ev[c].need = @ \cup {p}]

\* visitChildren: blocks of three, the newest block first.
VisitOrder(kids) ==
    LET n   == Len(kids)
        top == ((n - 1) \div 3) * 3
        place(i) == IF i < n - top THEN top + i
                    ELSE LET j == i - (n - top) IN (((top \div 3) - 1 - (j \div 3)) * 3) + (j % 3)
    IN  [i \in 1..n |-> kids[place(i - 1) + 1]]

\* ContentionSim::enqueue, in the weave phase, by the domain's own thread.
Enqueue(w, e, cycle) ==
    LET d == w.ev[e].dom
        checked ==
            Require(w, w.inCSim /\ w.ev[e].parents = 0 /\ cycle >= w.lastLimit
                        /\ cycle >= w.dom[d].cur /\ CanPut(w.dom[d].pq, cycle), "enqueue")
    IN  [checked EXCEPT !.ev[e].priv = cycle, !.dom[d].pq = Put(@, e, cycle)]

\* ContentionSim::enqueueSynced, in the bound phase, under the queue's lock.
EnqueueSynced(w, e, cycle) ==
    LET d == w.ev[e].dom
        checked ==
            Require(w, ~w.inCSim /\ d # Unset /\ w.ev[e].parents = 0 /\ cycle >= w.lastLimit
                        /\ CanPut(w.dom[d].pq, cycle), "enqueueSynced")
    IN  [checked EXCEPT !.ev[e].priv = cycle, !.dom[d].pq = Put(@, e, cycle)]

Queue(w, e, cycle) ==
    EnqueueSynced([Require(w, w.ev[e].state = "NONE" /\ w.ev[e].parents = 0, "queue")
                    EXCEPT !.ev[e].state = "QUEUED"], e, cycle)

Requeue(w, e, cycle) ==
    Enqueue([Require(w, w.ev[e].state \in {"RUNNING", "HELD"} /\ w.ev[e].parents = 0, "requeue")
              EXCEPT !.ev[e].state = "QUEUED"], e, cycle)

-----------------------------------------------------------------------------
(* Completion.                                                             *)

RECURSIVE Done(_, _, _)

\* parentDone of an ordinary event.
OneParentLess(w, e, cycle) ==
    LET less == [Require(w, w.ev[e].parents > 0, "parentDone")
                  EXCEPT !.ev[e].cycle = Maximum(@, cycle), !.ev[e].parents = @ - 1]
    IN  IF less.ev[e].parents > 0 THEN less
        ELSE Enqueue([Require(less, less.ev[e].state = "NONE", "parentDone")
                       EXCEPT !.ev[e].state = "QUEUED"],
                     e, less.ev[e].cycle + less.ev[e].pre)

\* A delay is never queued: it is done at once.
DelayParentDone(w, e, cycle) ==
    LET less == [w EXCEPT !.ev[e].cycle = Maximum(@, cycle), !.ev[e].parents = @ - 1]
    IN  IF less.ev[e].parents # 0 THEN less
        ELSE Done([less EXCEPT !.ev[e].state = "RUNNING"], e, less.ev[e].cycle + less.ev[e].pre)

\* The source side of a crossing tells the other side, markSrcEventDone.
SourceDone(w, e, cycle) ==
    LET x == w.ev[e].mate
        checked == Require(w, w.ev[e].parents = 1 /\ w.ev[e].kids = <<>>
                               /\ w.ev[e].state = "NONE" /\ ~w.ev[x].called
                               /\ cycle >= w.dom[w.ev[x].src].cur, "markSrcEventDone")
    IN  [checked EXCEPT !.ev[x].doneCycle = cycle, !.ev[x].called = TRUE, !.ev[e] = Freed]

\* A chained crossing is queued no earlier than it was recorded.
CrossingParentDone(w, e, cycle) ==
    LET at == Maximum(cycle, w.ev[e].min)
    IN  OneParentLess([w EXCEPT !.ev[e].doneCycle =
                          IF w.ev[e].called THEN Maximum(@, at) ELSE @], e, at)

ParentDone(w, e, cycle) ==
    CASE w.ev[e].kind = "delay" -> DelayParentDone(w, e, cycle)
      [] w.ev[e].kind = "src"   -> SourceDone(w, e, cycle)
      [] w.ev[e].kind = "cross" -> CrossingParentDone(w, e, cycle)
      [] OTHER                  -> OneParentLess(w, e, cycle)

\* done: tell the children, then reclaim the event.
Allow(w, i, e, after) ==
    [w EXCEPT !.ev[i].need = @ \ {e}, !.ev[i].lb = Maximum(@, after)]

Done(w, e, cycle) ==
    LET after == cycle + w.ev[e].post
        done  == [Require(w, w.ev[e].state = "RUNNING", "done") EXCEPT !.ev[e].state = "DONE"]
        noted == FoldSet(LAMBDA i, v: Allow(v, i, e, after), done,
                         {i \in DOMAIN w.ev : e \in w.ev[i].need})
    IN  [FoldLeft(LAMBDA v, k: ParentDone(v, k, after), noted, VisitOrder(w.ev[e].kids))
            EXCEPT !.ev[e] = Freed]

-----------------------------------------------------------------------------
(* Crossings: an edge between two domains is cut in two.  The parent gets  *)
(* a source event of its own domain; the crossing event, in the child's    *)
(* domain, is queued from the start and polls for the source.              *)

\* Mutant of EnqueueCrossing: chains to the last request though it may be done.
EnqueueCrossingStale(w, x, cycle, parent, c) ==
    LET src   == w.ev[x].src
        dst   == w.ev[x].dom
        stack == w.core[c].stack
        last  == w.last[c][src][dst]
        stored(v) == [v EXCEPT !.core[c].stack = <<[x |-> x, parent |-> parent]>> \o @,
                               !.last[c][src][dst] = [cycle |-> cycle, ev |-> x]]
    IN  IF stack # <<>> /\ w.ev[Head(stack).x].src = dst /\ w.ev[Head(stack).x].dom = src
        THEN AddChild([w EXCEPT !.core[c].stack = Tail(@)], Head(stack).parent, x)
        ELSE IF last.ev # 0 /\ last.cycle <= cycle
        THEN stored(AddChild(w, last.ev, x))
        ELSE stored(EnqueueSynced(w, x, cycle))

\* enqueueCrossing: a response waits for the parent of its request, a
\* request for the request of the same core before it, if that is still to
\* come; any other is queued at once.
EnqueueCrossing(w, x, cycle, parent, c) ==
    LET src   == w.ev[x].src
        dst   == w.ev[x].dom
        stack == w.core[c].stack
        req   == Head(stack)
        last  == w.last[c][src][dst]
        stored(v) == [v EXCEPT !.core[c].stack = <<[x |-> x, parent |-> parent]>> \o @,
                               !.last[c][src][dst] = [cycle |-> cycle, ev |-> x]]
    IN  IF stack # <<>> /\ w.ev[req.x].src = dst /\ w.ev[req.x].dom = src
        THEN AddChild([w EXCEPT !.core[c].stack = Tail(@)], req.parent, x)
        ELSE IF last.cycle > w.dom[src].cur /\ last.cycle <= cycle
        THEN stored(AddChild(w, last.ev, x))
        ELSE stored(EnqueueSynced(Require(w, cycle >= w.dom[src].cur, "enqueueCrossing"),
                                  x, cycle))

\* What a crossing adds to a cycle of the source before it polls again: the
\* delays it steals, and never nothing.
PreSlack(parent) == IF parent.post = 0 THEN 1 ELSE parent.post

\* handleCrossing and the constructor: the place of child c of p in p's
\* list is taken by the source event.
CrossDomain(w, p, place, core) ==
    LET c   == w.ev[p].kids[place]
        x   == Newest(w) + 1
        min == w.ev[p].min + PreSlack(w.ev[p])
        crossing ==
            [NewEvent("cross", w.ev[c].dom, 0, 0) EXCEPT
                !.src = w.ev[p].dom, !.core = core, !.min = min,
                !.orig = min - w.core[core].gap,
                !.preSlack = PreSlack(w.ev[p]), !.postSlack = w.ev[c].pre]
        source == [NewEvent("src", w.ev[p].dom, 0, 0) EXCEPT !.parents = 1, !.mate = x]
        made  == WithEvent(WithEvent(
                   [Require(w, w.ev[c].parents > 0 /\ w.ev[p].min # Unset, "handleCrossing")
                     EXCEPT !.ev[c].parents = @ - 1], crossing), source)
        queued == EnqueueCrossing(AddChild(made, x, c), x, Maximum(w.lastLimit, min), p, core)
    IN  [queued EXCEPT !.ev[p].kids[place] = x + 1]

\* produceCrossings goes through the children while it may add to them: a
\* block that is added on the way is not visited.
RECURSIVE ProduceCrossings(_, _, _)

CrossChild(w, p, place, core) ==
    LET c == w.ev[p].kids[place]
    IN  ProduceCrossings(IF w.ev[c].dom # w.ev[p].dom THEN CrossDomain(w, p, place, core) ELSE w,
                         c, core)

RECURSIVE VisitBlocks(_, _, _, _, _, _)
VisitBlocks(w, p, block, i, visited, core) ==
    LET place == 3 * block + i + 1
    IN  IF i < 3 /\ place <= Len(w.ev[p].kids)
        THEN VisitBlocks(CrossChild(w, p, place, core), p, block, i + 1, visited + 1, core)
        ELSE IF block > 0 THEN VisitBlocks(w, p, block - 1, 0, visited, core)
        ELSE Require(w, visited = Len(w.ev[p].kids), "visitChildren")

ProduceCrossings(w, p, core) ==
    LET n == Len(w.ev[p].kids)
    IN  CASE n = 0 -> w
          [] n = 1 -> CrossChild(w, p, 1, core)
          [] OTHER -> VisitBlocks(w, p, (n - 1) \div 3, 0, 0, core)

\* Mutant of FinishCrossing: the child starts when the crossing was polled.
FinishCrossingAtPoll(w, x, cycle) == Done([w EXCEPT !.dom[w.ev[x].dom].prio = 0], x, cycle)

\* simulate of a crossing whose source is done.
FinishCrossing(w, x, cycle) ==
    Done([w EXCEPT !.dom[w.ev[x].dom].prio = 0], x, Maximum(cycle, w.ev[x].doneCycle))

\* simulate of one whose source is not: poll again.
RepeatCrossing(w, x, cycle, next) ==
    Requeue([w EXCEPT !.dom[w.ev[x].dom].prio = IF next = cycle THEN 1 ELSE 2,
                      !.ev[x].parents = 0], x, next)
=============================================================================
