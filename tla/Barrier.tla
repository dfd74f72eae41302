------------------------------ MODULE Barrier ------------------------------
(***************************************************************************)
(* The callers of zsim's phase barrier (zsim/src/barrier.h): simulated     *)
(* cores join, sync at the end of every bound phase, and leave.  At most   *)
(* ParallelThreads of them run at once; a phase ends when the run list has *)
(* been walked to its end and nobody runs.  Every operation runs under the *)
(* scheduler's schedLock, so each is one action; what happens after        *)
(* futex_unlock(schedLock), the futex wait loop, is modelled step by step  *)
(* with pc.                                                                *)
(***************************************************************************)
EXTENDS BarrierOps

VARIABLES
    bar,      \* the Barrier object
    pc,       \* where the host thread driving each core is, outside the lock
    served,   \* history: cores that ran and synced in the current phase
    failed    \* an assert or panic of barrier.h has fired: the simulation is dead

vars == <<bar, pc, served, failed>>

PCs == {"out", "unlocked", "futex", "asleep", "awake", "run"}

-----------------------------------------------------------------------------

Init ==
    /\ \E junk \in [Tids -> Garbage] : bar = NewBarrier(junk)
    /\ pc = [t \in Tids |-> "out"]
    /\ served = {}
    /\ failed = FALSE

\* Finish an operation of core t: run tryWakeNext from b, wake the host
\* threads that sleep on a word it cleared, and leave t's host thread at
\* where.  done is the history of the phase so far, started afresh when
\* the operation ends the phase.
Complete(b, t, where, done) ==
    /\ bar' \in TryWakeNext(b)
    /\ failed' = ~TryWakeNextAsserts(b)
    /\ served' = IF bar'.phaseCount = b.phaseCount THEN done ELSE {}
    /\ pc' = [u \in Tids |->
                IF u = t THEN where
                ELSE IF /\ pc[u] = "asleep"
                        /\ b.state[u] = "WAITING"
                        /\ bar'.state[u] = "RUNNING"
                     THEN "awake" ELSE pc[u]]

Join(t) ==
    /\ ~failed
    /\ pc[t] = "out"
    /\ bar.state[t] \in {"LEFT", "OFFLINE"}
    /\ IF RejoinAssert(bar, t)
       THEN Complete(Joining(bar, t), t, "unlocked", served)
       ELSE failed' = TRUE /\ UNCHANGED <<bar, pc, served>>

Sync(t) ==
    /\ ~failed
    /\ pc[t] = "run"
    /\ bar.state[t] = "RUNNING"
    /\ Complete(Syncing(bar, t), t, "unlocked", served \cup {t})

\* leave by a core that runs; when its process died without a word, the
\* host thread may be anywhere after the wakeup (pc # "run").
Leave(t) ==
    /\ ~failed
    /\ bar.state[t] = "RUNNING"
    /\ Complete(Leaving(bar, t), t, "out", served)

\* leave on behalf of a core whose thread died while it waited.
LeaveWaiting(t) ==
    /\ ~failed
    /\ bar.state[t] = "WAITING"
    /\ bar' = LeavingWaiting(bar, t)
    /\ pc' = [pc EXCEPT ![t] = "out"]
    /\ served' = served \ {t}
    /\ UNCHANGED failed

-----------------------------------------------------------------------------
(* The wait loop of join and sync, after futex_unlock(schedLock).          *)

\* if (threadList[tid].state == WAITING)
TestState(t) ==
    /\ ~failed
    /\ pc[t] = "unlocked"
    /\ pc' = [pc EXCEPT ![t] = IF bar.state[t] = "WAITING" THEN "futex" ELSE "run"]
    /\ UNCHANGED <<bar, served, failed>>

\* Mutant of FutexWait: a plain sleep, which does not look at the word.
FutexWaitBlind(t) ==
    /\ ~failed
    /\ pc[t] = "futex"
    /\ pc' = [pc EXCEPT ![t] = "asleep"]
    /\ UNCHANGED <<bar, served, failed>>

\* FUTEX_WAIT on 1: the kernel blocks the caller only if the word is still 1.
FutexWait(t) ==
    /\ ~failed
    /\ pc[t] = "futex"
    /\ pc' = [pc EXCEPT ![t] = IF bar.futexWord[t] = 1 THEN "asleep" ELSE "awake"]
    /\ UNCHANGED <<bar, served, failed>>

\* FUTEX_WAIT returns EINTR; the loop goes around.
Interrupted(t) ==
    /\ ~failed
    /\ pc[t] = "asleep"
    /\ pc' = [pc EXCEPT ![t] = "futex"]
    /\ UNCHANGED <<bar, served, failed>>

\* The assertion after the loop: whoever woke us set our state.
Resume(t) ==
    /\ ~failed
    /\ pc[t] = "awake"
    /\ pc' = [pc EXCEPT ![t] = "run"]
    /\ failed' = (bar.state[t] # "RUNNING")
    /\ UNCHANGED <<bar, served>>

WaitLoop(t) == TestState(t) \/ FutexWait(t) \/ Interrupted(t) \/ Resume(t)

-----------------------------------------------------------------------------

\* Cores driven by threads that leave only by themselves.
OrderlyLeave(t) == pc[t] = "run" /\ Leave(t)

OrderlyNext ==
    \E t \in Tids : Join(t) \/ Sync(t) \/ OrderlyLeave(t) \/ WaitLoop(t)

\* ... and those whose process may be killed under them.
Next ==
    \E t \in Tids : \/ Join(t) \/ Sync(t) \/ Leave(t) \/ LeaveWaiting(t)
                    \/ WaitLoop(t)

OrderlySpec == Init /\ [][OrderlyNext]_vars

Spec == Init /\ [][Next]_vars

\* A core that runs reaches the end of its phase in the end: its clock only
\* goes forward, so however often it leaves and rejoins, it syncs (the one
\* step from run to unlocked).  The host's scheduler runs every thread that
\* is not asleep.
SyncStep(t) ==
    /\ ~failed
    /\ pc[t] = "run"
    /\ \E p \in [Tids -> PCs] : p[t] = "unlocked" /\ pc' = p

Fairness ==
    \A t \in Tids : /\ SF_pc(SyncStep(t))
                    /\ WF_vars(TestState(t))
                    /\ SF_vars(FutexWait(t))
                    /\ WF_vars(Resume(t))

FairSpec == OrderlySpec /\ Fairness

-----------------------------------------------------------------------------
(* Properties                                                              *)

\* Types, with the bounds the counters never leave.
TypeOK ==
    /\ bar \in Barriers
    /\ bar.curThreadIdx <= Len(bar.runList)
    /\ pc \in [Tids -> PCs]
    /\ served \subseteq Tids
    /\ failed \in BOOLEAN

\* The run list holds every core that is not OFFLINE exactly once, and the
\* two counters count the states they are named after, so that the comment
\* at barrier.h:87 (the rest of the list waits) is true.  The swaps of
\* join, of the compaction and of the shuffle must keep it so.
Bookkeeping ==
    /\ IsInjective(bar.runList)
    /\ OnList(bar) = {t \in Tids : bar.state[t] # "OFFLINE"}
    /\ bar.runningThreads = Cardinality({t \in Tids : bar.state[t] = "RUNNING"})
    /\ bar.leftThreads = Cardinality({t \in Tids : bar.state[t] = "LEFT"})

\* Nobody is stranded: between operations, a core that waits has not been
\* examined yet only because all the slots are taken, and while somebody
\* waits somebody runs, whose sync or leave will call tryWakeNext.
NoneStranded ==
    \A t \in Tids : bar.state[t] = "WAITING" =>
        /\ bar.runningThreads > 0
        /\ \/ bar.runningThreads = ParallelThreads
           \/ PositionOf(bar, t) <= bar.curThreadIdx

\* No wakeup is lost: a host thread asleep in the kernel is one whose core
\* still waits, and a core that waits has a 1 in its futex word, so the
\* wakeup it will get (the CAS of line 265) does not panic.
NoLostWakeup ==
    \A t \in Tids :
        /\ pc[t] = "asleep" => bar.state[t] = "WAITING"
        /\ bar.state[t] = "WAITING" => bar.futexWord[t] = 1
        /\ pc[t] = "run" => bar.state[t] = "RUNNING"

\* No assert or panic of barrier.h fires: a woken core runs (lines 161 and
\* 196), join swaps its own entry (137), the compaction drops as many as left
\* (216 and 232), and no core is woken twice (266).  That the operations are
\* called in the states they expect (126, 174 and 183) is up to the
\* scheduler, and checked in module Scheduler.
NoPanic == ~failed

\* The set view of the barrier.  A LEFT or OFFLINE core is in no set.
Abstract == INSTANCE PhaseBarrier WITH
    pending <- {t \in Tids : bar.state[t] = "WAITING" /\ t \notin served},
    running <- {t \in Tids : bar.state[t] = "RUNNING"},
    done    <- served

\* The run list, with the swaps, rewinds, compactions and shuffles it goes
\* through, implements a barrier over sets: no free slot is left empty
\* while a core is pending, no core runs twice in a phase (the same-phase
\* reschedule of join never brings back a core that is done), and a phase
\* ends when, and only when, every core still in the barrier has run in it.
PhaseBarrierSpec == Abstract!Spec

\* Every core that joins gets to run.
JoinersRun == \A t \in Tids : (bar.state[t] = "WAITING") ~> (pc[t] = "run")
=============================================================================
