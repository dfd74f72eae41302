---------------------------- MODULE PhaseBarrier ----------------------------
(***************************************************************************)
(* What a phase barrier with limited parallelism promises, without a run   *)
(* list: of the cores that joined, some are pending, at most               *)
(* ParallelThreads run, and some are done with the phase.  A free slot     *)
(* never stays empty while a core is pending, a core runs once per phase,  *)
(* and the phase ends exactly when nobody is pending or running.  Module   *)
(* Barrier implements it (Barrier!PhaseBarrierSpec).                       *)
(***************************************************************************)
EXTENDS Integers, FiniteSets, FiniteSetsExt

CONSTANTS Tids, ParallelThreads

VARIABLES pending, running, done

vars == <<pending, running, done>>

\* The choices of who among the cores of p gets the slots free beside r.
Starts(p, r) ==
    kSubset(Min({Cardinality(p), ParallelThreads - Cardinality(r)}), p)

\* What becomes of the sets p, r, d that an operation leaves behind.
Settles(p, r, d) ==
    IF p = {} /\ r = {} /\ d # {}
    THEN \E S \in Starts(d, {}) : pending' = d \ S /\ running' = S /\ done' = {}
    ELSE \E S \in Starts(p, r) : pending' = p \ S /\ running' = r \cup S /\ done' = d

Init == pending = {} /\ running = {} /\ done = {}

Join(t) ==
    /\ t \notin pending \cup running \cup done
    /\ Settles(pending \cup {t}, running, done)

Sync(t) == t \in running /\ Settles(pending, running \ {t}, done \cup {t})

Leave(t) == t \in running /\ Settles(pending, running \ {t}, done)

Next == \E t \in Tids : Join(t) \/ Sync(t) \/ Leave(t)

Spec == Init /\ [][Next]_vars
=============================================================================
