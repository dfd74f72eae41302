---------------------------- MODULE SchedulerOps ----------------------------
(***************************************************************************)
(* The thread scheduler of zsim (zsim/src/scheduler.h) as operators on the *)
(* Scheduler object: a record s with the fields of the class that          *)
(* schedLock protects, the phase barrier among them.  Simulated threads    *)
(* are placed on simulated cores (contexts); a core takes part in the      *)
(* phase barrier while a thread runs on it.                                *)
(*                                                                         *)
(* An operator that ends with a call of the barrier has several outcomes   *)
(* (the barrier shuffles its list, the quantum's end draws the victims at  *)
(* random) and returns their set.  A failed assert or panic ends the       *)
(* simulation: its outcome is the state before, with broken set.           *)
(*                                                                         *)
(* Left out: statistics, the futex wake/wait matching (futexJoin) and      *)
(* needsJoin, which no caller of wakeup sets.                              *)
(***************************************************************************)
EXTENDS BarrierOps

CONSTANTS
    Threads,      \* gids
    Mask,         \* the affinity mask of each thread, a set of core ids
    SchedQuantum, \* in phases
    MaxSleep,     \* bound on the phases a patched syscall sleeps
    None          \* nullptr

Cores == Tids

ASSUME SchedulerAssumption ==
    /\ Cores # {} /\ Cores = 0..(Cardinality(Cores) - 1)  \* 0..numCores-1
    /\ Mask \in [Threads -> (SUBSET Cores) \ {{}}]
    /\ SchedQuantum \in Nat \ {0}
    /\ MaxSleep \in Nat
    /\ None \notin Threads \cup Cores

\* NONE: the gid is not in gidMap.
ThreadStates == {"NONE", "STARTED", "RUNNING", "OUT", "BLOCKED", "SLEEPING", "QUEUED"}

\* wakeIn is wakeupPhase - curPhase.
ThreadInfos ==
    [state : ThreadStates, cid : Cores, handoff : Threads \cup {None},
     word : {0, 1}, marked : BOOLEAN, wakeIn : 0..MaxSleep]

NoThread ==
    [state |-> "NONE", cid |-> 0, handoff |-> None, word |-> 0,
     marked |-> FALSE, wakeIn |-> 0]

\* cur[c] is None when context c is IDLE; active holds the cores whose
\* recorder has seen a join() since the last leave() (core_recorder.cpp).
Schedulers ==
    [thr : [Threads -> ThreadInfos],
     cur : [Cores -> Threads \cup {None}],
     freeList : Seq(Cores),
     runQueue : Seq(Threads), outQueue : Seq(Threads), sleepQueue : Seq(Threads),
     fakeLeaves : Seq(Threads),
     phase : 0..(SchedQuantum - 1),
     active : SUBSET Cores,
     bar : Barriers,
     broken : BOOLEAN]

Members(q) == {q[i] : i \in 1..Len(q)}

\* The entries of q at the positions of I, in their order: the k-th of them
\* has k - 1 before it.
Sublist(q, I) ==
    [k \in 1..Cardinality(I) |->
        q[CHOOSE i \in I : Cardinality({j \in I : j < i}) = k - 1]]

Without(q, S) == Sublist(q, {i \in 1..Len(q) : q[i] \notin S})

Remove(q, e) == Without(q, {e})

First(I) == CHOOSE i \in I : \A j \in I : i <= j

\* The first entry of q that is in S, or None.
FirstOf(q, S) ==
    LET I == {i \in 1..Len(q) : q[i] \in S}
    IN  IF I = {} THEN None ELSE q[First(I)]

Asserting(p, s, outcomes) == IF p THEN outcomes ELSE {[s EXCEPT !.broken = TRUE]}

-----------------------------------------------------------------------------
(* Contexts: schedule, deschedule, wakeup                                  *)

CanSchedule(s, t, c) ==
    /\ s.thr[t].state \in {"STARTED", "BLOCKED", "QUEUED"}
    /\ s.cur[c] = None

Schedule(s, t, c) ==
    [s EXCEPT !.thr[t].state = "RUNNING", !.thr[t].cid = c, !.cur[c] = t]

CanDeschedule(s, t, c) ==
    /\ s.thr[t].state \in {"RUNNING", "OUT"}
    /\ s.thr[t].cid = c
    /\ s.cur[c] = t

Deschedule(s, t, c, target) == [s EXCEPT !.thr[t].state = target, !.cur[c] = None]

CanWake(s, t) == s.thr[t].word = 1

Wakeup(s, t) == [s EXCEPT !.thr[t].word = 0]

\* schedContext: the first queued thread that may use core c, or None.
SchedContext(s, c) == FirstOf(s.runQueue, {t \in Threads : c \in Mask[t]})

\* schedThread: the last context, if it is idle; else a free one; else one
\* whose thread is OUT.
SchedThread(s, t) ==
    LET last  == s.thr[t].cid
        free  == FirstOf(s.freeList, Mask[t])
        outTh == FirstOf(s.outQueue, {u \in Threads : s.thr[u].cid \in Mask[t]})
    IN  IF s.cur[last] = None /\ last \in Mask[t] THEN last
        ELSE IF free # None THEN free
        ELSE IF outTh # None THEN s.thr[outTh].cid
        ELSE None

\* ... and takes it from its list, which must have it.
CanTake(s, c) ==
    IF s.cur[c] = None THEN c \in Members(s.freeList)
    ELSE s.cur[c] \in Members(s.outQueue) /\ CanDeschedule(s, s.cur[c], c)

TakeContext(s, c) ==
    IF s.cur[c] = None THEN [s EXCEPT !.freeList = Remove(@, c)]
    ELSE Deschedule([s EXCEPT !.outQueue = Remove(@, s.cur[c])], s.cur[c], c, "BLOCKED")

-----------------------------------------------------------------------------
(* The end of a phase: the barrier calls callback                          *)

\* schedTick walks the run queue over a random order of the cores: m pairs
\* the i-th queued thread with the core whose thread is to hand over to it.
\* A thread is left out only if earlier ones took all its cores.
Pairings(s) ==
    LET n == Len(s.runQueue)
    IN  {m \in [1..n -> Cores \cup {None}] :
            \A i \in 1..n :
                LET earlier == {m[j] : j \in 1..(i - 1)}
                IN  IF Mask[s.runQueue[i]] \subseteq earlier THEN m[i] = None
                    ELSE m[i] \in Mask[s.runQueue[i]] \ earlier}

Victims(s, m) == {s.cur[c] : c \in Members(m) \ {None}}

Successor(s, m, t) == s.runQueue[CHOOSE i \in DOMAIN m : m[i] # None /\ s.cur[m[i]] = t]

HandOver(s, m) ==
    [s EXCEPT
        !.thr = [t \in Threads |->
            IF t \in Victims(s, m) THEN [@[t] EXCEPT !.handoff = Successor(s, m, t)] ELSE @[t]],
        !.runQueue = Without(@, {Successor(s, m, u) : u \in Victims(s, m)})]

\* assert(victimTh), line 731
SchedTick(s) ==
    UNION {Asserting(\A i \in DOMAIN m : m[i] # None => s.cur[m[i]] # None,
                     s, {HandOver(s, m)}) : m \in Pairings(s)}

\* The sleepers at the front of sleepQueue whose deadline the new phase meets.
Due(s) ==
    {s.sleepQueue[i] : i \in {j \in 1..Len(s.sleepQueue) :
                                \A k \in 1..j : s.thr[s.sleepQueue[k]].wakeIn <= 1}}

NextCurPhase(s) ==
    [s EXCEPT
        !.phase = (@ + 1) % SchedQuantum,
        !.thr = [t \in Threads |->
                    IF t \in Due(s)
                    THEN [s.thr[t] EXCEPT !.state = "BLOCKED", !.word = 0, !.wakeIn = 0]
                    ELSE IF s.thr[t].wakeIn > 0 THEN [s.thr[t] EXCEPT !.wakeIn = @ - 1]
                    ELSE s.thr[t]],
        !.sleepQueue = Without(@, Due(s))]

\* assert(th->wakeupPhase == curPhase), and the panic of wakeup
Callback(s) ==
    LET c == NextCurPhase(s)
    IN  Asserting(\A t \in Due(s) : s.thr[t].wakeIn = 1 /\ CanWake(s, t), s,
                  IF c.runQueue # <<>> /\ c.phase = 0 THEN SchedTick(c) ELSE {c})

\* The tail of every barrier operation: tryWakeNext on barrier b.
WithBarrier(s, b) ==
    Asserting(TryWakeNextAsserts(b), s,
        UNION {IF c.phaseCount = b.phaseCount THEN {[s EXCEPT !.bar = c]}
               ELSE {[r EXCEPT !.bar = c] : r \in Callback(s)} : c \in TryWakeNext(b)})

-----------------------------------------------------------------------------
(* The operations                                                          *)

\* cores[c]->join(); bar.join(c)
JoinCore(s, c) ==
    Asserting(/\ c \notin s.active
              /\ s.bar.state[c] \in {"LEFT", "OFFLINE"}
              /\ RejoinAssert(s.bar, c), s,
              WithBarrier([s EXCEPT !.active = @ \cup {c}], Joining(s.bar, c)))

\* Mutant of LeaveBarrier: a core that waits is let be.
LeaveBarrierRunningOnly(s, c) ==
    IF s.bar.state[c] = "RUNNING" THEN WithBarrier(s, Leaving(s.bar, c)) ELSE {s}

\* bar.leave(c)
LeaveBarrier(s, c) ==
    CASE s.bar.state[c] = "RUNNING" -> WithBarrier(s, Leaving(s.bar, c))
      [] s.bar.state[c] = "WAITING" -> {[s EXCEPT !.bar = LeavingWaiting(@, c)]}
      [] OTHER -> {[s EXCEPT !.broken = TRUE]}

\* A thread that became available takes a context and joins, or queues up.
PlaceThread(s, t) ==
    LET c == SchedThread(s, t)
        r == Schedule(TakeContext(s, c), t, c)
    IN  IF c = None
        THEN {[s EXCEPT !.thr[t].state = "QUEUED", !.thr[t].word = 1,
                        !.runQueue = Append(@, t)]}
        ELSE Asserting(CanTake(s, c) /\ CanSchedule(TakeContext(s, c), t, c), s, JoinCore(r, c))

Start(s, t) == [s EXCEPT !.thr[t] = [NoThread EXCEPT !.state = "STARTED"]]

FinishFakeLeave(s, t) == [s EXCEPT !.fakeLeaves = Remove(@, t)]

WakeEarly(s, t) ==
    [s EXCEPT !.thr[t].state = "BLOCKED", !.thr[t].wakeIn = 0, !.sleepQueue = Remove(@, t)]

\* Mutant of Join: the early end of a sleep is not handled.
JoinOnlyAwake(s, t) ==
    IF t \in Members(s.fakeLeaves)
    THEN Asserting(s.thr[t].state = "RUNNING", s, {FinishFakeLeave(s, t)})
    ELSE Asserting(~s.thr[t].marked /\ s.thr[t].state # "SLEEPING", s,
            IF s.thr[t].state = "OUT"
            THEN JoinCore([s EXCEPT !.thr[t].state = "RUNNING", !.outQueue = Remove(@, t)],
                          s.thr[t].cid)
            ELSE PlaceThread(s, t))

Join(s, t) ==
    LET r == IF s.thr[t].state = "SLEEPING" THEN WakeEarly(s, t) ELSE s
    IN  IF t \in Members(s.fakeLeaves)
        THEN Asserting(s.thr[t].state = "RUNNING", s, {FinishFakeLeave(s, t)})
        ELSE Asserting(~s.thr[t].marked, s,
                IF r.thr[t].state = "OUT"
                THEN JoinCore([r EXCEPT !.thr[t].state = "RUNNING", !.outQueue = Remove(@, t)],
                              r.thr[t].cid)
                ELSE Asserting(r.thr[t].state \in {"BLOCKED", "STARTED"}, r,
                               PlaceThread(r, t)))

\* Mutant of InsertSleeper: the deadlines are not looked at.
InsertSleeperLast(s, t) == Append(s.sleepQueue, t)

\* sleepQueue is ordered: t goes before the first later deadline.
InsertSleeper(s, t) ==
    LET q     == s.sleepQueue
        later == {i \in 1..Len(q) : s.thr[q[i]].wakeIn > s.thr[t].wakeIn}
        at    == IF later = {} THEN Len(q) + 1 ELSE First(later)
    IN  [i \in 1..(Len(q) + 1) |->
            IF i < at THEN q[i] ELSE IF i = at THEN t ELSE q[i - 1]]

\* Mutant of TakeOver: the core's recorder is not told.
TakeOverUnnoticed(s, t, c) ==
    Asserting(CanSchedule(s, t, c) /\ CanWake(s, t), s,
        {Wakeup(Schedule([s EXCEPT !.runQueue = Remove(@, t)], t, c), t)})

\* The leaving thread's context goes to a queued thread, which finds the
\* core in the barrier and does not join it.
TakeOver(s, t, c) ==
    Asserting(CanSchedule(s, t, c) /\ CanWake(s, t), s,
        {Wakeup(Schedule([s EXCEPT !.runQueue = Remove(@, t), !.active = @ \cup {c}], t, c), t)})

LeaveToSleep(s, t, c) ==
    LET in == SchedContext(s, c)
        r  == [Deschedule(s, t, c, "SLEEPING") EXCEPT
                 !.thr[t].marked = FALSE, !.sleepQueue = InsertSleeper(s, t)]
    IN  IF in # None THEN TakeOver(r, in, c)
        ELSE LeaveBarrier([r EXCEPT !.freeList = Append(@, c)], c)

LeaveRunning(s, t, c) ==
    LET in == SchedContext(s, c)
    IN  IF in # None THEN TakeOver(Deschedule(s, t, c, "BLOCKED"), in, c)
        ELSE LeaveBarrier([s EXCEPT !.thr[t].state = "OUT", !.outQueue = Append(@, t)], c)

\* leave(pid, tid, cid).  A nullptr in contexts[cid].curThread is as good
\* as a failed assert.
Leave(s, t, c) ==
    Asserting(/\ s.cur[c] = t
              /\ s.thr[t].state = "RUNNING"
              /\ s.thr[t].cid = c
              /\ c \in s.active, s,
        LET r == [s EXCEPT !.active = @ \ {c}]
        IN  IF s.thr[t].marked THEN LeaveToSleep(r, t, c) ELSE LeaveRunning(r, t, c))

Sync(s, t, c) ==
    Asserting(s.cur[c] = t /\ ~s.thr[t].marked /\ s.bar.state[c] = "RUNNING", s,
              WithBarrier(s, Syncing(s.bar, c)))

\* The second critical section of sync(), when handoffThread is set.
Handoff(s, t) ==
    LET c   == s.thr[t].cid
        dst == s.thr[t].handoff
        r   == Deschedule([s EXCEPT !.thr[t].handoff = None], t, c, "QUEUED")
    IN  Asserting(CanDeschedule(s, t, c) /\ CanSchedule(r, dst, c) /\ CanWake(s, dst), s,
                  PlaceThread(Wakeup(Schedule(r, dst, c), dst), t))

MarkForSleep(s, t, phases) ==
    Asserting(~s.thr[t].marked, s,
        {[s EXCEPT !.thr[t].marked = TRUE, !.thr[t].wakeIn = phases, !.thr[t].word = 1]})

NotifySleepEnd(s, t) ==
    Asserting(~s.thr[t].marked /\ s.thr[t].state \in {"SLEEPING", "BLOCKED"}, s,
              {IF s.thr[t].state = "SLEEPING" THEN WakeEarly(s, t) ELSE s})

\* The end of finish(), once any leave it owed is done: th->owner tells the
\* list the thread is on.
FinishUnlinks(s, t) ==
    LET c    == s.thr[t].cid
        gone == [s EXCEPT !.thr[t] = NoThread]
    IN  CASE s.thr[t].state = "QUEUED" ->
               Asserting(t \in Members(s.runQueue), s,
                         {[gone EXCEPT !.runQueue = Remove(@, t)]})
          [] s.thr[t].state = "OUT" ->
               Asserting(t \in Members(s.outQueue) /\ CanDeschedule(s, t, c), s,
                         {[gone EXCEPT !.outQueue = Remove(@, t), !.cur[c] = None,
                                       !.freeList = Append(@, c)]})
          [] s.thr[t].state \in {"STARTED", "BLOCKED"} -> {gone}
          [] OTHER -> {[s EXCEPT !.broken = TRUE]}
=============================================================================
