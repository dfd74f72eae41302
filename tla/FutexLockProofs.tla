--------------------------- MODULE FutexLockProofs ---------------------------
(***************************************************************************)
(* The futex lock is a mutex and loses no wakeup, for any set of threads,  *)
(* with signals and timeouts at any time.                                  *)
(***************************************************************************)
EXTENDS FutexLock, TLAPS

\* The inductive invariant.
Inv == TypeOK /\ OneOwner /\ NoLostWakeup

\* The lock starts free and without sleepers.
LEMMA InitInv == Init => Inv
  BY DEF Init, Inv, TypeOK, OneOwner, NoLostWakeup, FreeFutex, Owners, At, Places

USE DEF Put, PutWord, CanTry, Places

\* FUTEX_WAKE changes no word and moves at most one sleeper.
Waking(t) ==
    /\ lock'.word = lock.word
    /\ \/ /\ \A s \in Threads : lock.at[s] # "asleep"
          /\ lock'.at = [lock.at EXCEPT ![t] = "idle"]
       \/ \E s \in Threads :
            /\ lock.at[s] = "asleep" /\ s # t
            /\ lock'.at = [lock.at EXCEPT ![t] = "idle", ![s] = "again"]

\* What FUTEX_WAKE returns to.
LEMMA WakeIs ==
    ASSUME TypeOK, NEW t \in Threads, Wake(t)
    PROVE  /\ Waking(t)
           /\ lock' = [word |-> lock'.word, at |-> lock'.at]
           /\ UNCHANGED timed
           /\ lock.at[t] = "wake"
<1> DEFINE sleepers == {s \in DOMAIN lock.at : lock.at[s] = "asleep"}
           done == [lock EXCEPT !.at[t] = "idle"]
<1>0. lock \in [word : 0..2, at : [Threads -> Places]]
  BY DEF TypeOK
<1>1. done = [word |-> lock.word, at |-> [lock.at EXCEPT ![t] = "idle"]]
  BY <1>0
<1>2. CASE sleepers = {}
  <2>1. lock' = done
    BY <1>2 DEF Wake, Wakings
  <2> QED
    BY <1>0, <1>1, <1>2, <2>1 DEF Wake, Waking
<1>3. CASE sleepers # {}
  <2>1. PICK s \in sleepers : lock' = [done EXCEPT !.at[s] = "again"]
    BY <1>3 DEF Wake, Wakings, WakeUp
  <2>2. s \in Threads /\ lock.at[s] = "asleep" /\ s # t
    BY <1>0 DEF Wake
  <2>3. lock' = [word |-> lock.word, at |-> [lock.at EXCEPT ![t] = "idle", ![s] = "again"]]
    BY <1>1, <2>1
  <2> QED
    BY <2>2, <2>3 DEF Wake, Waking
<1> QED
  BY <1>2, <1>3

\* Every step keeps the type invariant: only the decrement could leave the
\* range of the word, and an owner never decrements 0.
LEMMA TypeStep == Inv /\ [Next]_vars => TypeOK'
<1> SUFFICES ASSUME Inv, [Next]_vars PROVE TypeOK'
  OBVIOUS
<1> USE DEF Inv, TypeOK
<1>1. CASE UNCHANGED vars
  BY <1>1 DEF vars
<1>2. ASSUME NEW t \in Threads, Request(t) PROVE TypeOK'
  BY <1>2 DEF Request
<1>3. ASSUME NEW t \in Threads, Attempt(t) PROVE TypeOK'
  BY <1>3 DEF Attempt, TryLock
<1>4. ASSUME NEW t \in Threads, Exchange(t) PROVE TypeOK'
  BY <1>4 DEF Exchange, Swap
<1>5. ASSUME NEW t \in Threads, Sleep(t) PROVE TypeOK'
  BY <1>5 DEF Sleep, Wait
<1>6. ASSUME NEW t \in Threads, Interrupt(t) PROVE TypeOK'
  BY <1>6 DEF Interrupt, WakeUp
<1>7. ASSUME NEW t \in Threads, Woken(t) PROVE TypeOK'
  BY <1>7 DEF Woken, SwapAgain
<1>8. ASSUME NEW t \in Threads, Unlock(t) PROVE TypeOK'
  <2>1. lock.word \in {1, 2}
    BY <1>8 DEF Unlock, OneOwner, Owners
  <2>2. lock.word - 1 \in 0..2
    BY <2>1
  <2> QED
    BY <1>8, <2>2 DEF Unlock, Decrement
<1>9. ASSUME NEW t \in Threads, Clear(t) PROVE TypeOK'
  BY <1>9 DEF Clear, Store
<1>10. ASSUME NEW t \in Threads, Wake(t) PROVE TypeOK'
  <2>1. /\ Waking(t)
        /\ lock' = [word |-> lock'.word, at |-> lock'.at]
        /\ UNCHANGED timed
        /\ lock.at[t] = "wake"
    BY <1>10, WakeIs
  <2> QED
    BY <2>1 DEF Waking
<1> HIDE DEF Inv, TypeOK, OneOwner, Owners, NoLostWakeup, At
<1> QED
  BY <1>1, <1>2, <1>3, <1>4, <1>5, <1>6, <1>7, <1>8, <1>9, <1>10 DEF Next, Step

\* Every step keeps the word and its owner in agreement.
LEMMA OwnerStep == Inv /\ [Next]_vars => OneOwner'
<1> SUFFICES ASSUME Inv, [Next]_vars PROVE OneOwner'
  OBVIOUS
<1> USE DEF Inv, TypeOK, OneOwner, Owners
<1>1. CASE UNCHANGED vars
  BY <1>1 DEF vars
<1>2. ASSUME NEW t \in Threads, Request(t) PROVE OneOwner'
  BY <1>2 DEF Request
<1>3. ASSUME NEW t \in Threads, Attempt(t) PROVE OneOwner'
  BY <1>3 DEF Attempt, TryLock
<1>4. ASSUME NEW t \in Threads, Exchange(t) PROVE OneOwner'
  BY <1>4 DEF Exchange, Swap
<1>5. ASSUME NEW t \in Threads, Sleep(t) PROVE OneOwner'
  BY <1>5 DEF Sleep, Wait
<1>6. ASSUME NEW t \in Threads, Interrupt(t) PROVE OneOwner'
  BY <1>6 DEF Interrupt, WakeUp
<1>7. ASSUME NEW t \in Threads, Woken(t) PROVE OneOwner'
  BY <1>7 DEF Woken, SwapAgain
<1>8. ASSUME NEW t \in Threads, Unlock(t) PROVE OneOwner'
  BY <1>8 DEF Unlock, Decrement
<1>9. ASSUME NEW t \in Threads, Clear(t) PROVE OneOwner'
  BY <1>9 DEF Clear, Store
<1>10. ASSUME NEW t \in Threads, Wake(t) PROVE OneOwner'
  <2>1. /\ Waking(t)
        /\ lock' = [word |-> lock'.word, at |-> lock'.at]
        /\ UNCHANGED timed
        /\ lock.at[t] = "wake"
    BY <1>10, WakeIs
  <2> QED
    BY <2>1 DEF Waking
<1> HIDE DEF Inv, TypeOK, OneOwner, Owners, NoLostWakeup, At
<1> QED
  BY <1>1, <1>2, <1>3, <1>4, <1>5, <1>6, <1>7, <1>8, <1>9, <1>10 DEF Next, Step

\* Every step keeps somebody who will wake the sleepers.
LEMMA WakeupStep == Inv /\ [Next]_vars => NoLostWakeup'
<1> SUFFICES ASSUME Inv, [Next]_vars PROVE NoLostWakeup'
  OBVIOUS
<1> USE DEF Inv, TypeOK, OneOwner, Owners, NoLostWakeup, At
<1>1. CASE UNCHANGED vars
  BY <1>1 DEF vars
<1>2. ASSUME NEW t \in Threads, Request(t) PROVE NoLostWakeup'
  BY <1>2 DEF Request
<1>3. ASSUME NEW t \in Threads, Attempt(t) PROVE NoLostWakeup'
  BY <1>3 DEF Attempt, TryLock
<1>4. ASSUME NEW t \in Threads, Exchange(t) PROVE NoLostWakeup'
  BY <1>4 DEF Exchange, Swap
<1>5. ASSUME NEW t \in Threads, Sleep(t) PROVE NoLostWakeup'
  BY <1>5 DEF Sleep, Wait
<1>6. ASSUME NEW t \in Threads, Interrupt(t) PROVE NoLostWakeup'
  BY <1>6 DEF Interrupt, WakeUp
<1>7. ASSUME NEW t \in Threads, Woken(t) PROVE NoLostWakeup'
  BY <1>7 DEF Woken, SwapAgain
<1>8. ASSUME NEW t \in Threads, Unlock(t) PROVE NoLostWakeup'
  BY <1>8 DEF Unlock, Decrement
<1>9. ASSUME NEW t \in Threads, Clear(t) PROVE NoLostWakeup'
  BY <1>9 DEF Clear, Store
<1>10. ASSUME NEW t \in Threads, Wake(t) PROVE NoLostWakeup'
  <2>1. /\ Waking(t)
        /\ lock' = [word |-> lock'.word, at |-> lock'.at]
        /\ UNCHANGED timed
        /\ lock.at[t] = "wake"
    BY <1>10, WakeIs
  <2> QED
    BY <2>1 DEF Waking
<1> HIDE DEF Inv, TypeOK, OneOwner, Owners, NoLostWakeup, At
<1> QED
  BY <1>1, <1>2, <1>3, <1>4, <1>5, <1>6, <1>7, <1>8, <1>9, <1>10 DEF Next, Step

\* The inductive invariant of the lock.
THEOREM Invariant == Spec => []Inv
<1>1. Inv /\ [Next]_vars => Inv'
  BY TypeStep, OwnerStep, WakeupStep DEF Inv
<1> QED
  BY InitInv, <1>1, PTL DEF Spec

\* No thread sleeps on the lock without somebody who will wake it.
THEOREM WakeupsOfLockNotLost == Spec => []NoLostWakeup
  BY Invariant, PTL DEF Inv

-----------------------------------------------------------------------------
(* The refinement of the mutex.                                            *)

\* The only owner is the holder.
LEMMA HolderIs ==
    ASSUME NEW t \in Owners, OneOwner
    PROVE  Holder = t
  BY DEF Holder, OneOwner, Owners

\* Without an owner the mutex is free.
LEMMA HolderIsNobody == Owners = {} => Holder = Nobody
  BY DEF Holder

\* Only taking the lock and clearing its word change the holder.
LEMMA SameOwners ==
    ASSUME Inv, Inv', Owners' = Owners
    PROVE  Holder' = Holder
<1>1. CASE Owners = {}
  BY <1>1, HolderIsNobody DEF Holder
<1>2. CASE Owners # {}
  <2>1. PICK t : t \in Owners
    BY <1>2
  <2>2. Holder = t
    BY <2>1, HolderIs DEF Inv
  <2>3. \A s \in Owners' : s = t
    BY <2>1 DEF Inv, OneOwner, Owners
  <2>4. Owners' # {}
    BY <2>1
  <2> QED
    BY <2>2, <2>3, <2>4 DEF Holder
<1> QED
  BY <1>1, <1>2

\* A thread that becomes an owner acquires the mutex.
LEMMA Taking ==
    ASSUME Inv, Inv', NEW t \in Threads, Owners = {}, t \in Owners'
    PROVE  M!Next
<1>1. Holder = Nobody
  BY HolderIsNobody
<1>2. Holder' = t
  <2>1. \A s \in Owners' : s = t
    BY DEF Inv, OneOwner
  <2> QED
    BY <2>1 DEF Holder
<1> QED
  BY <1>1, <1>2 DEF M!Next, M!Acquire

\* An owner that stops to be one releases it.
LEMMA Leaving ==
    ASSUME Inv, NEW t \in Owners, Owners' = {}
    PROVE  M!Next
<1>1. Holder = t
  BY HolderIs DEF Inv
<1>2. Holder' = Nobody
  BY DEF Holder
<1>3. t \in Threads
  BY DEF Owners
<1> QED
  BY <1>1, <1>2, <1>3 DEF M!Next, M!Release

\* The free lock is a free mutex.
LEMMA InitMutex == Init => M!Init
  BY HolderIsNobody DEF Init, FreeFutex, Owners, M!Init

\* Every step of a thread acquires the mutex, releases it, or does neither.
LEMMA StepMutex ==
    ASSUME Inv, Inv', [Next]_vars
    PROVE  [M!Next]_Holder
<1> USE DEF Owners
<1> SUFFICES ASSUME Owners' # Owners PROVE M!Next
  BY SameOwners
<1>1. ~UNCHANGED vars
  BY DEF vars
<1>2. PICK t \in Threads : Request(t) \/ Interrupt(t) \/ Step(t)
  BY <1>1 DEF Next
<1>3. /\ lock \in [word : 0..2, at : [Threads -> Places]]
      /\ lock.word = 0 <=> Owners = {}
  BY DEF Inv, TypeOK, OneOwner
<1>4. CASE Request(t) \/ Interrupt(t) \/ Sleep(t)
  <2>1. CASE Request(t)
    BY <1>3, <2>1 DEF Request
  <2>2. CASE Interrupt(t)
    BY <1>3, <2>2 DEF Interrupt, WakeUp
  <2>3. CASE Sleep(t)
    BY <1>3, <2>3 DEF Sleep, Wait
  <2> QED
    BY <1>4, <2>1, <2>2, <2>3
<1>7. CASE Wake(t)
  <2>1. Waking(t) /\ lock.at[t] = "wake"
    BY <1>7, WakeIs DEF Inv
  <2>2. Owners' = Owners
    BY <1>3, <2>1 DEF Waking
  <2> QED
    BY <2>2
<1>5. CASE Attempt(t) \/ Exchange(t) \/ Woken(t)
  <2>1. lock.word = 0
    BY <1>3, <1>5 DEF Attempt, Exchange, Woken, TryLock, Swap, SwapAgain
  <2>2. t \in Owners'
    BY <1>3, <1>5, <2>1 DEF Attempt, Exchange, Woken, TryLock, Swap, SwapAgain
  <2> QED
    BY <1>3, <2>1, <2>2, Taking
<1>6. CASE Clear(t)
  <2>1. t \in Owners
    BY <1>3, <1>6 DEF Clear
  <2>2. Owners' = {}
    BY <1>3, <1>6 DEF Clear, Store, Inv, OneOwner
  <2> QED
    BY <2>1, <2>2, Leaving
<1>8. CASE Unlock(t)
  <2>1. t \in Owners
    BY <1>3, <1>8 DEF Unlock
  <2>2. CASE lock.word = 1
    <3>1. Owners' = {}
      BY <1>3, <1>8, <2>2 DEF Unlock, Decrement, Inv, OneOwner
    <3> QED
      BY <2>1, <3>1, Leaving
  <2>3. CASE lock.word # 1
    BY <1>3, <1>8, <2>3 DEF Unlock, Decrement
  <2> QED
    BY <2>2, <2>3
<1> QED
  BY <1>2, <1>4, <1>5, <1>6, <1>7, <1>8 DEF Step

\* The futex lock implements the mutex of module Mutex.
THEOREM ImplementsMutex == Spec => IsMutex
<1>1. Inv /\ Inv' /\ [Next]_vars => [M!Next]_Holder
  BY StepMutex
<1> QED
  BY Invariant, InitMutex, <1>1, PTL DEF Spec, IsMutex, M!Spec
=============================================================================
