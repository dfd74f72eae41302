------------------------------- MODULE MCWeave -------------------------------
(* Instances of Weave for TLC.                                             *)
EXTENDS Weave

CONSTANTS c1, c2

Setup(cores, mem, threads, cands, kinds, n, away, ph) ==
    [cores |-> cores, mem |-> mem, threads |-> threads, cands |-> cands, kinds |-> kinds,
     accesses |-> n, leaves |-> away, phases |-> ph]

\* A timing cache and a memory in another domain, with a thread for each
\* domain or one for both, one core or two; the same in one domain, where
\* every kind of miss can be recorded; caches without timing.
AllSetups ==
    {Setup({c1}, 1, 1, 2, {"upgrade", "miss"}, 2, 1, 2),
     Setup({c1}, 1, 2, 2, {"hit", "miss"}, 2, 0, 2),
     Setup({c1, c2}, 1, 1, 2, {"hit", "miss"}, 2, 0, 1),
     Setup({c1}, 0, 1, 4, {"hit", "missWb"}, 2, 1, 2),
     Setup({c1}, 1, 1, 2, {"get", "put"}, 2, 1, 2),
     Setup({c1}, 1, 2, 2, {"get", "put"}, 2, 0, 2)}
=============================================================================
