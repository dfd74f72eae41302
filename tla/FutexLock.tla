------------------------------ MODULE FutexLock ------------------------------
(***************************************************************************)
(* Threads that lock and unlock one futex lock (zsim/src/locks.h), some    *)
(* with a timeout.  The model's memory is sequentially consistent: every   *)
(* access to the word that matters is a locked instruction.                *)
(***************************************************************************)
EXTENDS FutexOps

CONSTANTS Threads, Nobody

ASSUME NobodyIsNoThread == Nobody \notin Threads

VARIABLES
    lock,      \* see FutexOps
    timed      \* the threads whose call has a timeout

vars == <<lock, timed>>

Init == lock = FreeFutex(Threads) /\ timed = {}

\* A call of futex_lock, or of futex_trylock_nospin_timeout.
Request(t) ==
    /\ lock.at[t] \in {"idle", "failed"}
    /\ lock' = Put(lock, t, "try")
    /\ timed' \in {timed \ {t}, timed \union {t}}

Attempt(t) ==
    /\ CanTry(lock, t)
    /\ lock' = TryLock(lock, t)
    /\ UNCHANGED timed

Exchange(t) ==
    /\ lock.at[t] = "swap"
    /\ lock' = Swap(lock, t)
    /\ UNCHANGED timed

Sleep(t) ==
    /\ lock.at[t] = "wait"
    /\ lock' = Wait(lock, t)
    /\ UNCHANGED timed

\* A signal interrupts the sleep, or the time is over.
Interrupt(t) ==
    /\ lock.at[t] = "asleep"
    /\ lock' = WakeUp(lock, t)
    /\ UNCHANGED timed

Woken(t) ==
    /\ lock.at[t] = "again"
    /\ lock' = SwapAgain(lock, t, t \in timed)
    /\ UNCHANGED timed

Unlock(t) ==
    /\ lock.at[t] = "held"
    /\ lock' = Decrement(lock, t)
    /\ UNCHANGED timed

Clear(t) ==
    /\ lock.at[t] = "store"
    /\ lock' = Store(lock, t)
    /\ UNCHANGED timed

Wake(t) ==
    /\ lock.at[t] = "wake"
    /\ lock' \in Wakings(lock, t)
    /\ UNCHANGED timed

\* What a thread does once it has called.
Step(t) ==
    Attempt(t) \/ Exchange(t) \/ Sleep(t) \/ Woken(t) \/ Unlock(t) \/ Clear(t) \/ Wake(t)

Next == \E t \in Threads : Request(t) \/ Interrupt(t) \/ Step(t)

Spec == Init /\ [][Next]_vars

\* A thread in the lock's code keeps running and gives the lock back.
FairSpec == Spec /\ \A t \in Threads : WF_vars(Step(t))

-----------------------------------------------------------------------------
(* What the lock guarantees.                                               *)

TypeOK ==
    /\ lock \in [word : 0..2, at : [Threads -> Places]]
    /\ timed \subseteq Threads

\* A thread has the lock from the step that found 0 to the one that leaves 0.
Owners == {t \in Threads : lock.at[t] \in {"held", "store"}}

At(place) == {t \in Threads : lock.at[t] = place}

\* Nobody sleeps unless somebody will wake it: a holder that saw 2, one about
\* to call FUTEX_WAKE, or a woken thread about to set the word to 2 itself.
NoLostWakeup ==
    At("asleep") # {} =>
        \/ lock.word = 2 /\ Owners # {}
        \/ At("store") \union At("wake") \union At("again") # {}

Holder == IF Owners = {} THEN Nobody ELSE CHOOSE t \in Owners : TRUE

M == INSTANCE Mutex WITH holder <- Holder

\* The lock is a mutex: it has one owner at a time, who releases it.
IsMutex == M!Spec

\* The word is 0 exactly when the lock has no owner, and the owner is alone.
OneOwner ==
    /\ \A s, t \in Owners : s = t
    /\ lock.word = 0 <=> Owners = {}

\* Unfair as it is, the lock is never left idle while somebody wants it: some
\* thread gets it, though not always the same one.
SomeoneGetsIn ==
    (\E t \in Threads \ timed : lock.at[t] \in {"try", "swap", "wait", "asleep", "again"})
        ~> Owners # {}
=============================================================================
