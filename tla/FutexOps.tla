------------------------------ MODULE FutexOps ------------------------------
(***************************************************************************)
(* The futex lock of zsim (zsim/src/locks.h, futex_lock and its variants), *)
(* step by step: a word that is 0 when free, 1 when held, 2 when held and  *)
(* somebody may sleep, and for each thread how far it is in its call.      *)
(*                                                                         *)
(* A lock is a record [word, at].  An unlock needs no owner: some futexes  *)
(* are locked by one thread and unlocked by another, as events.            *)
(***************************************************************************)
EXTENDS Integers

\* "try": about to test and set the word; "swap": about to exchange it for
\* 2; "wait": about to call FUTEX_WAIT; "asleep"; "again": woken, about to
\* exchange; "held"; unlocking: "store", "wake"; "failed": timed out.
Places == {"idle", "try", "swap", "wait", "asleep", "again", "held", "store", "wake", "failed"}

FreeFutex(threads) == [word |-> 0, at |-> [t \in threads |-> "idle"]]

Put(l, t, place) == [l EXCEPT !.at[t] = place]

PutWord(l, t, place, word) == [word |-> word, at |-> [l.at EXCEPT ![t] = place]]

CanTry(l, t) == l.at[t] = "try"

\* Mutant of TryLock: the test and the set are not one step.
TryLockTorn(l, t) == IF l.word # 2 THEN PutWord(l, t, "held", 1) ELSE Put(l, t, "swap")

\* The compare-and-swap of the fast path; spinning repeats it.
TryLock(l, t) == IF l.word = 0 THEN PutWord(l, t, "held", 1) ELSE Put(l, t, "swap")

\* The exchange before the sleep: whoever finds 0 holds the lock.
Swap(l, t) == PutWord(l, t, IF l.word = 0 THEN "held" ELSE "wait", 2)

\* Mutant of Wait: a sleep that does not compare the word.
WaitBlind(l, t) == Put(l, t, "asleep")

\* FUTEX_WAIT sleeps only if the word still is 2.
Wait(l, t) == Put(l, t, IF l.word = 2 THEN "asleep" ELSE "again")

\* A wakeup, a signal or a timeout end the sleep.
WakeUp(l, t) == Put(l, t, "again")

\* Mutant of SwapAgain: the woken thread says that nobody else sleeps.
SwapAgainOne(l, t, timed) ==
    PutWord(l, t, IF l.word = 0 THEN "held" ELSE IF timed THEN "failed" ELSE "try",
            IF l.word = 0 THEN 1 ELSE l.word)

\* Mutant of SwapAgain: the timed lock claims to have it after any sleep.
SwapAgainBelieves(l, t, timed) ==
    PutWord(l, t, IF l.word = 0 \/ timed THEN "held" ELSE "try", 2)

\* The exchange after the sleep; a timed lock fails where the other repeats.
SwapAgain(l, t, timed) ==
    PutWord(l, t, IF l.word = 0 THEN "held" ELSE IF timed THEN "failed" ELSE "try", 2)

\* futex_unlock: the decrement ends it if nobody can sleep.
Decrement(l, t) == PutWord(l, t, IF l.word = 1 THEN "idle" ELSE "store", l.word - 1)

Store(l, t) == PutWord(l, t, "wake", 0)

\* FUTEX_WAKE of one sleeper, if there is one.
Wakings(l, t) ==
    LET asleep == {s \in DOMAIN l.at : l.at[s] = "asleep"}
        done == Put(l, t, "idle")
    IN  IF asleep = {} THEN {done} ELSE {WakeUp(done, s) : s \in asleep}
=============================================================================
