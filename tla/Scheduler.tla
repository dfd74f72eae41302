------------------------------ MODULE Scheduler ------------------------------
(***************************************************************************)
(* zsim's scheduler with its callers: the simulated threads, which join,   *)
(* sync at the end of each bound phase, enter and return from system calls *)
(* (zsim.cpp, virt/timeout.cpp, virt/time.cpp), and the watchdog thread    *)
(* (scheduler.cpp).  Every critical section of schedLock is one action.    *)
(* What a thread does between critical sections is its pc; the futex loops *)
(* of barrier and scheduler are one waiting pc each, left when the         *)
(* condition holds (module Barrier has the barrier's loop step by step).   *)
(***************************************************************************)
EXTENDS SchedulerOps

CONSTANT
    MaxDead  \* bound on the threads that are killed and not cleaned up yet

ASSUME DeadAssumption == MaxDead \in Nat

VARIABLES
    sched,  \* the Scheduler object
    pc,     \* where each simulated thread is
    wd      \* where the watchdog is

vars == <<sched, pc, wd>>

\* out      not simulated            start    about to join
\* bjoin, bsync  waiting in the barrier       ctx      in waitForContext
\* run      executing                handoff  found handoffThread set
\* sys      in a system call         tonap, totimed  marked for sleep
\* nap      in FUTEX_WAIT of a patched nanosleep
\* timed    in a patched futex/epoll/poll, which times out every 20 ms
\* woken    back from nap            intr     back from nap with EINTR
\* awake    isSleeping() said yes, about to call notifySleepEnd
\* finleave, finish   between the critical sections of finish
\* dead     killed                   deadnap, doomed  ... being reaped
PCs == {"out", "start", "bjoin", "bsync", "ctx", "run", "handoff", "sys", "tonap",
        "totimed", "nap", "timed", "woken", "intr", "awake", "finleave", "finish",
        "dead", "deadnap", "doomed"}

Idle == [at |-> "idle", th |-> None, cid |-> 0]

Watchdogs == [at : {"idle", "leaving", "reaping"}, th : Threads \cup {None}, cid : Cores]

InitSched ==
    [thr |-> [t \in Threads |-> NoThread],
     cur |-> [c \in Cores |-> None],
     freeList |-> [i \in 1..Cardinality(Cores) |-> i - 1],
     runQueue |-> <<>>, outQueue |-> <<>>, sleepQueue |-> <<>>, fakeLeaves |-> <<>>,
     phase |-> 0,
     active |-> {},
     bar |-> NewBarrier([c \in Cores |-> 1]),
     broken |-> FALSE]

Init ==
    /\ sched = InitSched
    /\ pc = [t \in Threads |-> "out"]
    /\ wd = Idle

\* The outcome of a critical section; a failed assert leaves things as they
\* were and stops the simulation.
Becomes(outcomes) ==
    \E s \in outcomes :
        sched' = IF s.broken THEN [sched EXCEPT !.broken = TRUE] ELSE s

Step(t, from, to) == pc[t] \in from /\ pc' = [pc EXCEPT ![t] = to] /\ ~sched.broken

-----------------------------------------------------------------------------
(* The simulated threads                                                   *)

ThreadStart(t) ==
    /\ Step(t, {"out"}, "start")
    /\ sched' = Start(sched, t)
    /\ UNCHANGED wd

\* Where join() leaves its caller.
AfterJoin(s, t) ==
    IF t \in Members(sched.fakeLeaves) THEN "run"
    ELSE IF s.thr[t].state = "QUEUED" THEN "ctx" ELSE "bjoin"

\* join(), at the first instrumentation point after a start or a syscall.
ThreadJoin(t) ==
    /\ ~sched.broken
    /\ pc[t] \in {"start", "sys", "woken", "intr"}
    /\ Becomes(Join(sched, t))
    /\ pc' = [pc EXCEPT ![t] = AfterJoin(sched', t)]
    /\ UNCHANGED wd

\* Out of the barrier: sync() then reads handoffThread.
BarrierReturn(t) ==
    /\ sched.bar.state[sched.thr[t].cid] = "RUNNING"
    /\ \/ Step(t, {"bjoin"}, "run")
       \/ Step(t, {"bsync"}, IF sched.thr[t].handoff = None THEN "run" ELSE "handoff")
    /\ UNCHANGED <<sched, wd>>

ContextReturn(t) ==
    /\ sched.thr[t].word = 0
    /\ Step(t, {"ctx"}, "run")
    /\ UNCHANGED <<sched, wd>>

ThreadSync(t) ==
    /\ Step(t, {"run"}, "bsync")
    /\ Becomes(Sync(sched, t, sched.thr[t].cid))
    /\ UNCHANGED wd

ThreadHandoff(t) ==
    /\ ~sched.broken
    /\ pc[t] = "handoff"
    /\ Becomes(Handoff(sched, t))
    /\ pc' = [pc EXCEPT ![t] = IF sched'.thr[t].state = "QUEUED" THEN "ctx" ELSE "bjoin"]
    /\ UNCHANGED wd

\* syscallLeave() of a call that is not blacklisted keeps the thread in the
\* simulation.
FakeLeave(t) ==
    /\ Step(t, {"run"}, "sys")
    /\ sched' = [sched EXCEPT !.fakeLeaves = Append(@, t)]
    /\ UNCHANGED wd

\* A blacklisted call really leaves, and so do the calls marked for sleep.
\* The critical section of syscallLeave before that of leave only reads
\* what no one else writes while the thread runs.
BlockingLeave(t) ==
    /\ Step(t, {"run"}, "sys")
    /\ Becomes(Leave(sched, t, sched.thr[t].cid))
    /\ UNCHANGED wd

\* Nanosleep waits one phase or more, the timed calls two.
EnterSleep(t) ==
    /\ \E phases \in 1..MaxSleep :
        /\ \/ Step(t, {"run"}, "tonap")
           \/ phases >= 2 /\ Step(t, {"run"}, "totimed")
        /\ Becomes(MarkForSleep(sched, t, phases))
    /\ UNCHANGED wd

SleepLeave(t) ==
    /\ Step(t, {"tonap"}, "nap") \/ Step(t, {"totimed"}, "timed")
    /\ Becomes(Leave(sched, t, sched.thr[t].cid))
    /\ UNCHANGED wd

\* FUTEX_WAIT on a word that is not 1 does not block.
NapEnds(t) ==
    /\ sched.thr[t].word # 1
    /\ Step(t, {"nap"}, "woken")
    /\ UNCHANGED <<sched, wd>>

NapInterrupted(t) ==
    /\ Step(t, {"nap"}, "intr")
    /\ UNCHANGED <<sched, wd>>

\* A timed call returns.  While the scheduler has the thread asleep, a call
\* that timed out is retried, without a step here.
TimedReturn(t) ==
    /\ Step(t, {"timed"}, IF sched.thr[t].state = "SLEEPING" THEN "awake" ELSE "woken")
    /\ UNCHANGED <<sched, wd>>

SleepEnd(t) ==
    /\ Step(t, {"awake"}, "woken")
    /\ Becomes(NotifySleepEnd(sched, t))
    /\ UNCHANGED wd

-----------------------------------------------------------------------------
(* finish(): by the thread itself at its end or when it fast-forwards, and *)
(* by the watchdog for a thread that died.                                 *)

WatchdogAfter(t) == IF wd.at = "reaping" /\ wd.th = t THEN Idle ELSE wd

\* The section that removes the gid: a suppressed leave, or one the thread
\* never made, comes first, outside the lock.
FinishBegins(t) ==
    IF sched.thr[t].state = "RUNNING"
    THEN /\ pc' = [pc EXCEPT ![t] = "finleave"]
         /\ sched' = FinishFakeLeave(sched, t)
         /\ UNCHANGED wd
    ELSE /\ pc' = [pc EXCEPT ![t] = "out"]
         /\ Becomes(FinishUnlinks(sched, t))
         /\ wd' = WatchdogAfter(t)

ThreadFinish(t) ==
    /\ ~sched.broken
    /\ pc[t] \in {"start", "sys", "woken", "intr"}
    /\ FinishBegins(t)

FinishLeave(t) ==
    /\ Step(t, {"finleave"}, "finish")
    /\ Becomes(Leave(sched, t, sched.thr[t].cid))
    /\ UNCHANGED wd

FinishEnd(t) ==
    /\ Step(t, {"finish"}, "out")
    /\ Becomes(FinishUnlinks(sched, t))
    /\ wd' = WatchdogAfter(t)

Finishing(t) == FinishLeave(t) \/ FinishEnd(t)

-----------------------------------------------------------------------------
(* The watchdog                                                            *)

ScheduledThreads == Cardinality({c \in Cores : sched.cur[c] # None})

\* A stall: the oldest fake leave is made real, in two critical sections.
\* A phase does not end while a fake leave is in it, so one that stays long
\* enough is always caught here.
WatchdogStall ==
    /\ ~sched.broken
    /\ wd.at = "idle"
    /\ sched.fakeLeaves # <<>>
    /\ LET t == Head(sched.fakeLeaves)
       IN  /\ wd' = [at |-> "leaving", th |-> t, cid |-> sched.thr[t].cid]
           /\ sched' = FinishFakeLeave(sched, t)
    /\ UNCHANGED pc

WatchdogLeave ==
    /\ ~sched.broken
    /\ wd.at = "leaving"
    /\ Becomes(Leave(sched, wd.th, wd.cid))
    /\ wd' = Idle
    /\ UNCHANGED pc

\* Mutant of WatchdogTick: time moves whoever runs.
WatchdogTickAnytime ==
    /\ ~sched.broken
    /\ wd.at = "idle"
    /\ sched.sleepQueue # <<>>
    /\ Becomes(Callback(sched))
    /\ UNCHANGED <<pc, wd>>

\* Mutant of WatchdogTick: it waits until no thread has a context.
WatchdogTickAllIdle ==
    /\ ~sched.broken
    /\ wd.at = "idle"
    /\ ScheduledThreads = 0
    /\ sched.sleepQueue # <<>>
    /\ Becomes(Callback(sched))
    /\ UNCHANGED <<pc, wd>>

\* Nobody runs and somebody sleeps: time is driven forward, one callback at
\* a time (the loop stops between two when somebody waits for the lock).
WatchdogTick ==
    /\ ~sched.broken
    /\ wd.at = "idle"
    /\ ScheduledThreads = Len(sched.outQueue)
    /\ sched.sleepQueue # <<>>
    /\ Becomes(Callback(sched))
    /\ UNCHANGED <<pc, wd>>

-----------------------------------------------------------------------------
(* Abrupt ends: the process of a thread is killed, and the watchdog cleans *)
(* up after it (processCleanup).                                           *)

Kill(t) ==
    /\ Step(t, PCs \ {"out", "finleave", "finish", "dead", "deadnap", "doomed"}, "dead")
    /\ Cardinality({u \in Threads : pc[u] \in {"dead", "deadnap", "doomed"}}) < MaxDead
    /\ UNCHANGED <<sched, wd>>

Reap(t) ==
    /\ wd.at = "idle"
    /\ Step(t, {"dead"}, IF sched.thr[t].state = "SLEEPING" THEN "deadnap" ELSE "doomed")
    /\ wd' = [at |-> "reaping", th |-> t, cid |-> 0]
    /\ UNCHANGED sched

\* notifySleepEnd on behalf of the dead.
ReapSleeper(t) ==
    /\ Step(t, {"deadnap"}, "doomed")
    /\ Becomes(NotifySleepEnd(sched, t))
    /\ UNCHANGED wd

ReapFinish(t) ==
    /\ ~sched.broken
    /\ pc[t] = "doomed"
    /\ FinishBegins(t)

-----------------------------------------------------------------------------

\* What a thread does with the lock, or waiting, between start and finish.
ThreadStep(t) ==
    \/ ThreadStart(t) \/ BarrierReturn(t) \/ ContextReturn(t) \/ ThreadSync(t)
    \/ ThreadHandoff(t) \/ FakeLeave(t) \/ BlockingLeave(t) \/ EnterSleep(t)
    \/ SleepLeave(t) \/ NapEnds(t) \/ NapInterrupted(t) \/ TimedReturn(t)
    \/ SleepEnd(t) \/ Finishing(t)

WatchdogStep == WatchdogStall \/ WatchdogLeave \/ WatchdogTick

\* Two races are kept out of the orderly system: a call that returns between
\* the two critical sections of WatchdogStall and WatchdogLeave, and a
\* thread that fast-forwards right after an interrupted nanosleep.
Caught(t) == wd.at = "leaving" /\ wd.th = t

OrderlyNext ==
    \/ \E t \in Threads : \/ ThreadStep(t)
                          \/ ~Caught(t) /\ ThreadJoin(t)
                          \/ ~Caught(t) /\ pc[t] # "intr" /\ ThreadFinish(t)
    \/ WatchdogStep

KillNext ==
    OrderlyNext \/ \E t \in Threads : Kill(t) \/ Reap(t) \/ ReapSleeper(t) \/ ReapFinish(t)

OrderlySpec == Init /\ [][OrderlyNext]_vars

KillSpec == Init /\ [][KillNext]_vars

\* A thread that waits goes on once it may, and one on its way to the lock
\* gets there; one that executes reaches the end of its phase, however often
\* it leaves on the way; a nap that was ended returns, and so does a timed
\* call, but only once the scheduler no longer has its thread asleep: until
\* then what times out is retried, and nothing promises an earlier event.
\* No other call need return and a thread need not start or finish.
\* The watchdog never stops.  Where the outcome does not matter, fairness is
\* put on the step of pc or wd that only the action meant takes.
OnItsWay == {"start", "handoff", "tonap", "totimed", "woken", "intr", "awake",
             "finleave", "finish"}

FairSpec ==
    /\ OrderlySpec
    /\ \A t \in Threads :
        /\ WF_vars(BarrierReturn(t)) /\ WF_vars(ContextReturn(t))
        /\ WF_vars(NapEnds(t))
        /\ WF_vars(sched.thr[t].state # "SLEEPING" /\ TimedReturn(t))
        /\ WF_pc(\E to \in PCs : Step(t, OnItsWay, to))
        /\ SF_pc(Step(t, {"run"}, "bsync"))
    /\ WF_vars(WatchdogStall) /\ WF_vars(WatchdogTick)
    /\ WF_wd(~sched.broken /\ wd.at = "leaving" /\ wd' = Idle)

-----------------------------------------------------------------------------
(* Properties                                                              *)

\* Types: the cids and phases stay in range, and no deadline is negative.
TypeOK ==
    /\ sched \in Schedulers
    /\ pc \in [Threads -> PCs]
    /\ wd \in Watchdogs

On(c) == sched.cur[c]
StateIn(t, states) == sched.thr[t].state \in states

\* Threads, contexts and lists agree: a thread has a context exactly when
\* it is RUNNING or OUT, and no two threads share one; an idle context is
\* on the free list; every list holds, once, the threads
\* in its state.  Each operation moves a thread and a context between lists
\* in several assignments, some on behalf of another thread.
ContextsAgree ==
    /\ \A t \in Threads :
        StateIn(t, {"RUNNING", "OUT"}) <=> \E c \in Cores : On(c) = t
    /\ \A c \in Cores :
        /\ On(c) = None <=> c \in Members(sched.freeList)
        /\ On(c) # None => sched.thr[On(c)].cid = c
    /\ Members(sched.outQueue) = {t \in Threads : StateIn(t, {"OUT"})}
    /\ Members(sched.sleepQueue) = {t \in Threads : StateIn(t, {"SLEEPING"})}
    /\ \A q \in {sched.freeList, sched.runQueue, sched.outQueue, sched.sleepQueue,
                  sched.fakeLeaves} : IsInjective(q)

\* A core waits or runs in the barrier, and its recorder is on, exactly when
\* its thread is RUNNING, whichever of the two threads of a takeover or a
\* handoff did the join (scheduler.h:52 names the discrepancy of the two).
BarrierAgrees ==
    \A c \in Cores :
        LET running == On(c) # None /\ StateIn(On(c), {"RUNNING"})
        IN  /\ running <=> sched.bar.state[c] \in {"WAITING", "RUNNING"}
            /\ running <=> c \in sched.active

\* A queued thread is pending: it is in the run queue, or exactly
\* one RUNNING thread is to hand its context over to it; and the wakeup it
\* will get finds its futex word set.
QueuedIsPending ==
    \A t \in Threads :
        LET givers == {u \in Threads : sched.thr[u].handoff = t}
        IN  /\ StateIn(t, {"QUEUED"}) <=> (t \in Members(sched.runQueue) \/ givers # {})
            /\ StateIn(t, {"QUEUED"}) => sched.thr[t].word = 1
            /\ t \in Members(sched.runQueue) => givers = {}
            /\ Cardinality(givers) <= 1
            /\ \A u \in givers : StateIn(u, {"RUNNING"})

\* What schedTick's note says (scheduler.h:716) and its assert needs: a
\* thread queues only while every core of its mask is held by a thread that
\* runs, since finish frees contexts without looking at the queue.
WorkConserving ==
    \A t \in Members(sched.runQueue) : \A c \in Mask[t] :
        On(c) # None /\ StateIn(On(c), {"RUNNING"})

\* All of this whichever processes are killed, at whatever place, and reaped
\* by the watchdog.
CleanupKeeps == ContextsAgree /\ BarrierAgrees /\ WorkConserving

\* A thread only runs on, and only keeps, a core its mask allows, whoever
\* gave it the core: a free list, a leaving thread, an OUT thread that lost
\* it, or a handoff agreed on phases before.
MasksKept == \A c \in Cores : On(c) # None => c \in Mask[On(c)]

\* A sleeper is pending: a thread blocked in a patched nanosleep is in
\* the sleep queue, the queue is in the order of the deadlines and none of
\* them is past.
SleepersPending ==
    /\ \A t \in Threads : pc[t] = "nap" /\ sched.thr[t].word = 1 => StateIn(t, {"SLEEPING"})
    /\ \A i \in 1..Len(sched.sleepQueue) :
        /\ sched.thr[sched.sleepQueue[i]].wakeIn > 0
        /\ \A j \in 1..(i - 1) :
             sched.thr[sched.sleepQueue[j]].wakeIn <= sched.thr[sched.sleepQueue[i]].wakeIn

\* Nobody is forgotten, though queues, states, futex words and deadlines
\* change in different assignments.
NobodyForgotten == QueuedIsPending /\ SleepersPending

\* Each thread is where it belongs: on a core it may use, on its way to one,
\* or asleep until its deadline.
ThreadsInPlace == NobodyForgotten /\ MasksKept

\* No assert or panic of the scheduler, of the barrier under it, or of the
\* core recorders fires, and everything keeps its type.
NoPanic == ~sched.broken /\ TypeOK

\* Time stands still for those inside the simulation: no phase ends, by the
\* barrier or by the watchdog, while a thread executes, is in a fake leave
\* or has a handoff to do.  So the deadline of a sleeper, and the choice of
\* a handoff's victim, still hold when they are acted on.
PhaseWaitsForRunners ==
    [][(sched'.bar.phaseCount # sched.bar.phaseCount \/ WatchdogTick) =>
         /\ \A t \in Threads : pc[t] = "run" => pc'[t] # "run"
         /\ sched.fakeLeaves = <<>>
         /\ \A t \in Threads : sched.thr[t].handoff = None]_vars

\* Nobody waits for ever: every thread that waits for a context gets to
\* execute, by a quantum's end or by a leave, if need be the watchdog's; and
\* every sleeper wakes, whoever else blocks, leaves or sleeps.
ThreadsGoOn ==
    \A t \in Threads :
        /\ (pc[t] = "ctx") ~> (pc[t] = "run")
        /\ (pc[t] \in {"nap", "timed"}) ~> (pc[t] \in {"woken", "intr"})
=============================================================================
