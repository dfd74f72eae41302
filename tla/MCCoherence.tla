----------------------------- MODULE MCCoherence -----------------------------
(* Small cache hierarchies for Coherence.                                  *)
EXTENDS Coherence, TLC

CONSTANTS l1a, l1b, l2a, l2b, l3, x, y

\* Each core has an L1 and an L2 of its own; the L3 is shared.
PrivateL2 == (l1a :> l2a) @@ (l1b :> l2b) @@ (l2a :> l3) @@ (l2b :> l3)

OneWay == [c \in Caches |-> {1}]

OneProcess == [c \in Leaves \cup Lines |-> 1]

\* The first core and the first line belong to one process, the second core
\* and the second line to another.
TwoProcesses == (l1a :> 1) @@ (x :> 1) @@ (l1b :> 2) @@ (y :> 2)

SwapLines == Permutations({x, y})
=============================================================================
