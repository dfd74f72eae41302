----------------------------- MODULE FastForward -----------------------------
(***************************************************************************)
(* Fast-forwarding in zsim (zsim/src/zsim.cpp), and the queue of events    *)
(* that run at the ends of phases (zsim/src/event_queue.h).                *)
(*                                                                         *)
(* A process enters fast-forward at the request of the fftoggle program,   *)
(* which unlocks a futex its control thread sleeps on; by magic ops of the *)
(* program (ROI_BEGIN, ROI_END); or after a number of instructions (FFI).  *)
(* The thread that ends a phase runs the queue's events with the queue's   *)
(* lock held; one of them lets the control thread enter fast-forward while *)
(* nothing is simulated, another is FFI's, which enters it there and then. *)
(*                                                                         *)
(* Each process has one application thread.  Phases are counted relative   *)
(* to the current one: an event is kept with the number of phases to go.   *)
(* The locks ffLock and qLock are mutexes (FutexLock shows that futexes    *)
(* are); the toggle locks are futexes step by step, for they are unlocked  *)
(* by others than their holders.                                           *)
(***************************************************************************)
EXTENDS FutexOps, SequencesExt

CONSTANTS
    Procs,
    Setups,       \* see SetupAssumption
    LateInserts,  \* whether insert may come after the tick of its phase
    Free          \* the holder of a lock that nobody holds

\* A setup: the processes that use FFI, those with magic ops, those whose
\* fast-forward pauses the others (syncedFastForward), those that start in
\* it, and how often fftoggle is called for each.
ASSUME SetupAssumption ==
    \A s \in Setups :
        /\ s.ffi \union s.magic \union s.synced \union s.startFF \subseteq Procs
        /\ s.toggles \in [Procs -> Nat]

VARIABLES
    setup,
    inFF,      \* of each process, procTreeNode's inFastForward
    ffLock,    \* its holder: a control thread, "app" of a process, the ender
    qLock,
    events,    \* evMap: a sequence of [due, kind, proc] in order
    app,       \* where the application thread of each process is
    ender,     \* where the thread that ends the phase is
    current,   \* the event whose callback it runs, or NoEvent
    ctl,       \* where the control thread of each process is
    toggle,    \* ffToggleLocks, see FutexOps
    calls,     \* calls of fftoggle left
    heard,     \* how often the control thread took its toggle lock
    panicked

vars == <<setup, inFF, ffLock, qLock, events, app, ender, current, ctl, toggle, calls, heard,
          panicked>>

Ender == "ender"
Toggler == "fftoggle"
Control == "control"

\* Events are of a control thread ("sync", "left" once signalled), of FFI ("ffi", "fire" once it has
\* reached its target), or of the statistics ("dump").
Event(kind, p, due) == [kind |-> kind, proc |-> p, due |-> due]

NoEvent == Event("none", Free, 0)

Init ==
    /\ setup \in Setups
    /\ inFF = [p \in Procs |-> p \in setup.startFF]
    /\ ffLock = Free /\ qLock = Free
    /\ events = <<>>
    /\ app = [p \in Procs |-> IF p \in setup.startFF THEN "ff"
                              ELSE IF p \in setup.ffi THEN "track" ELSE "join"]
    /\ ender = "bound" /\ current = NoEvent
    /\ ctl = [p \in Procs |-> "init"]
    /\ toggle = [p \in Procs |-> FreeFutex({Control, Toggler})]
    /\ calls = setup.toggles
    /\ heard = [p \in Procs |-> 0]
    /\ panicked = FALSE

Asserts(holds) == panicked' = (panicked \/ ~holds)

-----------------------------------------------------------------------------
(* The event queue.                                                        *)

\* A multimap keeps equal keys in the order of insertion.
Inserted(queue, e) ==
    LET later == {i \in 1..Len(queue) : queue[i].due > e.due}
        first == CHOOSE i \in later : \A j \in later : i <= j
    IN  InsertAt(queue, IF later = {} THEN Len(queue) + 1 ELSE first, e)

\* Between the end of tick() and the next phase an insert for this phase is
\* too late; LateInserts = FALSE leaves out that it happens.
InTime == LateInserts \/ ender # "ticked"

Insert(e) ==
    /\ qLock = Free
    /\ InTime
    /\ events' = Inserted(events, e)

\* What process p has queued.
Queued(kind, p) == \E i \in 1..Len(events) : events[i].kind = kind /\ events[i].proc = p

-----------------------------------------------------------------------------
(* fftoggle and the control thread.                                        *)

\* fftoggle unlocks the lock, in three steps.
ToggleBegin(p) ==
    /\ calls[p] > 0
    /\ toggle[p].at[Toggler] = "idle"
    /\ calls' = [calls EXCEPT ![p] = @ - 1]
    /\ toggle' = [toggle EXCEPT ![p] = Decrement(@, Toggler)]
    /\ UNCHANGED <<setup, inFF, ffLock, qLock, events, app, ender, current, ctl, heard, panicked>>

ToggleEnd(p) ==
    /\ \/ /\ toggle[p].at[Toggler] = "store"
          /\ toggle' = [toggle EXCEPT ![p] = Store(@, Toggler)]
       \/ /\ toggle[p].at[Toggler] = "wake"
          /\ \E l \in Wakings(toggle[p], Toggler) : toggle' = [toggle EXCEPT ![p] = l]
    /\ UNCHANGED <<setup, inFF, ffLock, qLock, events, app, ender, current, ctl, calls, heard,
                   panicked>>

\* The control thread starts by taking the lock, and then tries to take it
\* again, five seconds at a time.  (One that nobody toggles stays out of the
\* model.)
Listening(p) == ctl[p] \in {"init", "listen"} /\ setup.toggles[p] > 0

ControlRequest(p) ==
    /\ Listening(p)
    /\ toggle[p].at[Control] \in {"idle", "failed", "held"}
    /\ toggle[p].at[Control] = "held" => ctl[p] = "listen"
    /\ toggle' = [toggle EXCEPT ![p] = Put(@, Control, "try")]
    /\ UNCHANGED <<setup, inFF, ffLock, qLock, events, app, ender, current, ctl, calls, heard,
                   panicked>>

ControlTries(p) ==
    LET l == toggle[p]
        next == CASE l.at[Control] = "try" -> TryLock(l, Control)
                  [] l.at[Control] = "swap" -> Swap(l, Control)
                  [] l.at[Control] = "wait" -> Wait(l, Control)
                  [] l.at[Control] = "asleep" -> WakeUp(l, Control)
                  [] l.at[Control] = "again" -> SwapAgain(l, Control, ctl[p] = "listen")
        got == next.at[Control] = "held"
    IN  /\ l.at[Control] \in {"try", "swap", "wait", "asleep", "again"}
        /\ toggle' = [toggle EXCEPT ![p] = next]
        /\ ctl' = IF ~got THEN ctl
                  ELSE [ctl EXCEPT ![p] = IF @ = "init" THEN "listen" ELSE "decide"]
        /\ heard' = IF got /\ ctl[p] = "listen" THEN [heard EXCEPT ![p] = @ + 1] ELSE heard
        /\ UNCHANGED <<setup, inFF, ffLock, qLock, events, app, ender, current, calls, panicked>>

ExitFastForward(p) ==
    /\ Asserts(inFF[p])
    /\ inFF' = [inFF EXCEPT ![p] = FALSE]

EnterFastForward(p) ==
    /\ Asserts(~inFF[p])
    /\ inFF' = [inFF EXCEPT ![p] = TRUE]

\* It takes ffLock and either exits fast-forward at once or keeps the lock
\* to queue its event.
ControlDecides(p) ==
    /\ ctl[p] = "decide"
    /\ ffLock = Free
    /\ IF inFF[p] THEN /\ ExitFastForward(p)
                       /\ ctl' = [ctl EXCEPT ![p] = "listen"]
                       /\ UNCHANGED ffLock
                  ELSE /\ ctl' = [ctl EXCEPT ![p] = "insert"]
                       /\ ffLock' = <<Control, p>>
                       /\ UNCHANGED <<inFF, panicked>>
    /\ UNCHANGED <<setup, qLock, events, app, ender, current, toggle, calls, heard>>

ControlInserts(p) ==
    /\ ctl[p] = "insert"
    /\ Insert(Event("sync", p, 0))
    /\ ffLock' = Free
    /\ ctl' = [ctl EXCEPT ![p] = "arrival"]
    /\ UNCHANGED <<setup, inFF, qLock, app, ender, current, toggle, calls, heard, panicked>>

\* Mutant of StillOutside: the lock was dropped, but nobody looks again.
StillOutsideBelieved(p) == TRUE

\* Somebody else may have made the process enter meanwhile.
StillOutside(p) == ~inFF[p]

\* Mutant of Signalled: nobody signals when there is nothing to do.
SignalledIfEntered(e, p) == IF inFF[p] THEN e ELSE [e EXCEPT !.kind = "left"]

\* signal() lets the callback return.
Signalled(e, p) == [e EXCEPT !.kind = "left"]

\* syncEv->wait() returned; under ffLock the process enters fast-forward.
ControlEnters(p) ==
    /\ ctl[p] = "arrived"
    /\ ffLock = Free
    /\ IF StillOutside(p) THEN EnterFastForward(p) ELSE UNCHANGED <<inFF, panicked>>
    /\ current' = Signalled(current, p)
    /\ ctl' = [ctl EXCEPT ![p] = "listen"]
    /\ UNCHANGED <<setup, ffLock, qLock, events, app, ender, toggle, calls, heard>>

-----------------------------------------------------------------------------
(* The application thread.                                                 *)

\* SimThreadStart: join needs the scheduler's lock, which the thread that
\* ends a phase holds all the time.
AppJoins(p) ==
    /\ app[p] = "join"
    /\ ender = "bound"
    /\ app' = [app EXCEPT ![p] = "sim"]
    /\ UNCHANGED <<setup, inFF, ffLock, qLock, events, ender, current, ctl, toggle, calls, heard,
                   panicked>>

AppArrives(p) ==
    /\ app[p] = "sim"
    /\ ender = "bound"
    /\ app' = [app EXCEPT ![p] = "barrier"]
    /\ UNCHANGED <<setup, inFF, ffLock, qLock, events, ender, current, ctl, toggle, calls, heard,
                   panicked>>

\* TakeBarrier after the sync: a process in fast-forward leaves.
AfterBarrier(p) == IF inFF[p] THEN "ff" ELSE "sim"

AppReturns(p) ==
    /\ app[p] = "returning"
    /\ ender = "bound"
    /\ app' = [app EXCEPT ![p] = AfterBarrier(p)]
    /\ UNCHANGED <<setup, inFF, ffLock, qLock, events, ender, current, ctl, toggle, calls, heard,
                   panicked>>

\* FFBasicBlock: the thread notices that fast-forward is over.
AppNotices(p) ==
    /\ app[p] = "ff" /\ p \notin setup.ffi
    /\ ~inFF[p]
    /\ app' = [app EXCEPT ![p] = "join"]
    /\ UNCHANGED <<setup, inFF, ffLock, qLock, events, ender, current, ctl, toggle, calls, heard,
                   panicked>>

RoiBegin(p) ==
    /\ p \in setup.magic /\ app[p] \in {"sim", "ff"}
    /\ ffLock = Free
    /\ inFF[p]
    /\ ExitFastForward(p)
    /\ UNCHANGED <<setup, ffLock, qLock, events, app, ender, current, ctl, toggle, calls, heard>>

\* ROI_END of a synced process is ignored, "to avoid deadlock".
Ignored(p) == p \in setup.synced

RoiEnd(p) ==
    /\ p \in setup.magic /\ app[p] \in {"sim", "ff"}
    /\ ffLock = Free
    /\ ~Ignored(p) /\ ~inFF[p]
    /\ EnterFastForward(p)
    /\ UNCHANGED <<setup, ffLock, qLock, events, app, ender, current, ctl, toggle, calls, heard>>

\* HEARTBEAT asks for a dump of the statistics at the end of the phase.
Heartbeat(p) ==
    /\ p \in setup.magic /\ app[p] \in {"sim", "ff"}
    /\ ~Queued("dump", p)
    /\ Insert(Event("dump", p, 0))
    /\ UNCHANGED <<setup, inFF, ffLock, qLock, app, ender, current, ctl, toggle, calls, heard,
                   panicked>>

\* FFIBasicBlock at the end of the interval: exit fast-forward, queue the
\* event that ends the next one, join.
FFIExits(p) ==
    /\ p \in setup.ffi /\ app[p] = "ff"
    /\ ffLock = Free
    /\ ExitFastForward(p)
    /\ app' = [app EXCEPT ![p] = "track"]
    /\ UNCHANGED <<setup, ffLock, qLock, events, ender, current, ctl, toggle, calls, heard>>

FFITracks(p) ==
    /\ app[p] = "track"
    /\ \E period \in 1..2 : Insert(Event("ffi", p, period))
    /\ Asserts(~inFF[p])
    /\ app' = [app EXCEPT ![p] = "join"]
    /\ UNCHANGED <<setup, inFF, ffLock, qLock, ender, current, ctl, toggle, calls, heard>>

-----------------------------------------------------------------------------
(* The end of a phase.                                                     *)

Simulating == {p \in Procs : app[p] \in {"sim", "barrier", "returning"}}

\* The last thread of the phase starts the end-of-phase actions.
PhaseOver ==
    /\ ender = "bound"
    /\ \E p \in Procs : app[p] = "barrier"
    /\ \A p \in Simulating : app[p] = "barrier"
    /\ ender' = "pause"
    /\ UNCHANGED <<setup, inFF, ffLock, qLock, events, app, current, ctl, toggle, calls, heard,
                   panicked>>

\* globalSyncedFFProcs.
SyncedFFProcs == {p \in setup.synced : inFF[p]}

\* It waits while a synced process fast-forwards, then takes qLock.
MayTick == SyncedFFProcs = {} /\ qLock = Free

Tick ==
    /\ ender = "pause"
    /\ MayTick
    /\ qLock' = Ender
    /\ ender' = "ticking"
    /\ UNCHANGED <<setup, inFF, ffLock, events, app, current, ctl, toggle, calls, heard, panicked>>

\* The events that are due, one after the other; one from an earlier phase
\* is a panic.  A SyncEvent's callback wakes the control thread first.
NextEvent ==
    /\ ender = "ticking"
    /\ events # <<>> /\ Head(events).due <= 0
    /\ Asserts(Head(events).due = 0)
    /\ current' = Head(events)
    /\ events' = Tail(events)
    /\ ender' = "callback"
    /\ ctl' = IF Head(events).kind = "sync" THEN [ctl EXCEPT ![Head(events).proc] = "arrived"]
              ELSE ctl
    /\ UNCHANGED <<setup, inFF, ffLock, qLock, app, toggle, calls, heard>>

\* Mutant of Left: the callback does not wait to be signalled.
LeftUnasked(e) == e.kind \in {"sync", "left"}

\* The callback of a SyncEvent returns once the control thread signals.
Left(e) == e.kind = "left"

SyncDone ==
    /\ ender = "callback" /\ Left(current)
    /\ ender' = "ticking" /\ current' = NoEvent
    /\ UNCHANGED <<setup, inFF, ffLock, qLock, events, app, ctl, toggle, calls, heard, panicked>>

DumpDone ==
    /\ ender = "callback" /\ current.kind = "dump"
    /\ ender' = "ticking" /\ current' = NoEvent
    /\ UNCHANGED <<setup, inFF, ffLock, qLock, events, app, ctl, toggle, calls, heard, panicked>>

\* An adaptive event whose target is not reached is queued again, with a
\* period of at least one phase.
FFIAgain ==
    /\ ender = "callback" /\ current.kind = "ffi"
    /\ \E period \in 1..2 : events' = Inserted(events, [current EXCEPT !.due = period])
    /\ ender' = "ticking" /\ current' = NoEvent
    /\ UNCHANGED <<setup, inFF, ffLock, qLock, app, ctl, toggle, calls, heard, panicked>>

\* The target is reached by instructions that the process simulated.
FFIReached ==
    /\ ender = "callback" /\ current.kind = "ffi"
    /\ app[current.proc] = "barrier"
    /\ current' = [current EXCEPT !.kind = "fire"]
    /\ UNCHANGED <<setup, inFF, ffLock, qLock, events, app, ender, ctl, toggle, calls, heard,
                   panicked>>

\* It enters fast-forward, and the event is disposed of.
FFIFires ==
    /\ ender = "callback" /\ current.kind = "fire"
    /\ ffLock = Free
    /\ EnterFastForward(current.proc)
    /\ ender' = "ticking" /\ current' = NoEvent
    /\ UNCHANGED <<setup, ffLock, qLock, events, app, ctl, toggle, calls, heard>>

TickDone ==
    /\ ender = "ticking"
    /\ events # <<>> => Head(events).due > 0
    /\ qLock' = Free
    /\ ender' = "ticked"
    /\ UNCHANGED <<setup, inFF, ffLock, events, app, current, ctl, toggle, calls, heard, panicked>>

\* numPhases++, and the threads at the barrier go on.
NextPhase ==
    /\ ender = "ticked"
    /\ events' = [i \in 1..Len(events) |-> [events[i] EXCEPT !.due = @ - 1]]
    /\ ender' = "bound"
    /\ app' = [p \in Procs |-> IF app[p] = "barrier" THEN "returning" ELSE app[p]]
    /\ UNCHANGED <<setup, inFF, ffLock, qLock, current, ctl, toggle, calls, heard, panicked>>

-----------------------------------------------------------------------------

App(p) == AppJoins(p) \/ AppArrives(p) \/ AppReturns(p) \/ AppNotices(p) \/ FFITracks(p)

Magic(p) == RoiBegin(p) \/ RoiEnd(p) \/ Heartbeat(p) \/ FFIExits(p)

ControlThread(p) ==
    ControlRequest(p) \/ ControlTries(p) \/ ControlDecides(p) \/ ControlInserts(p)
        \/ ControlEnters(p)

EndOfPhase ==
    PhaseOver \/ Tick \/ NextEvent \/ SyncDone \/ DumpDone \/ FFIAgain \/ FFIReached
        \/ FFIFires \/ TickDone \/ NextPhase

Next ==
    \/ \E p \in Procs : \/ ToggleBegin(p) \/ ToggleEnd(p) \/ ControlThread(p)
                        \/ App(p) \/ Magic(p)
    \/ EndOfPhase

Spec == Init /\ [][Next]_vars

\* Threads in zsim's own code go on; what the program and the user do (magic
\* ops, basic blocks in fast-forward, fftoggle) may stop.  A lock is free
\* again and again, and a waiter gets it: strong fairness.
FairSpec ==
    /\ Spec
    /\ WF_vars(EndOfPhase)
    /\ \A p \in Procs :
        /\ WF_vars(App(p)) /\ WF_vars(ToggleEnd(p))
        /\ WF_vars(ControlRequest(p) \/ ControlTries(p))
        /\ SF_vars(ControlDecides(p) \/ ControlInserts(p) \/ ControlEnters(p))

-----------------------------------------------------------------------------
(* What should hold.                                                       *)

\* No assertion fails (a process enters fast-forward only from outside, and
\* exits only from inside it, whoever asked for it), and no event is found
\* late by the queue.
NoPanic == ~panicked

\* A process enters fast-forward while the thread that ends the phase is
\* blocked in, or runs, a callback of the queue: nothing is simulated then.
\* Only magic ops of a process that pauses nobody do it at any time.
EntersAtPhaseEnd ==
    [][\A p \in Procs :
        ~inFF[p] /\ inFF'[p] =>
            \/ ender = "callback" /\ current.proc = p /\ qLock = Ender
            \/ p \in setup.magic \ setup.synced /\ app[p] \in {"sim", "ff"} /\ UNCHANGED ctl]_vars

\* No toggle is heard that was not made.
HeardToggles == \A p \in Procs : heard[p] + calls[p] <= setup.toggles[p]

\* ffLock is safe with the end-of-phase code: its holder does not wait for
\* the queue while the queue's callback waits for ffLock.
SafeWithEndOfPhase ==
    ~ /\ \E p \in Procs : ffLock = <<Control, p>> /\ ctl[p] = "insert" /\ qLock = Ender
      /\ ender = "callback"
      /\ current.kind = "fire" \/ current.kind = "sync"

\* The end of a phase that began with its events comes to its end, though
\* their callbacks wait for control threads and for ffLock; and a control
\* thread does not wait for ever, as long as phases end.
EverybodyReturns ==
    /\ ender = "ticking" ~> ender = "bound"
    /\ \A p \in Procs :
        []<>(ender = "ticking") => (ctl[p] \notin {"init", "listen"} ~> ctl[p] = "listen")
=============================================================================
