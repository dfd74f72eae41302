------------------------------ MODULE RouteOps ------------------------------
(***************************************************************************)
(* What booksim2's routing functions have in common                        *)
(* (booksim2/src/routefunc.cpp).  A routing function is given the router a *)
(* packet's head is at, the port it came in by and the head flit, may      *)
(* change the flit's phase and intermediate node, and offers output ports  *)
(* with ranges of virtual channels, in an OutputSet (outputset.cpp); the   *)
(* router's allocators take one of them.  It is an operator that returns   *)
(* the set of its outcomes: a random number and a comparison of loads are  *)
(* choices.                                                                *)
(*                                                                         *)
(* A network is a record g: its size (k, n, and c or other parameters of   *)
(* the topology), vcs = gNumVCs, the routing function, the packet types.   *)
(* A flit is a record [dest, type, vc, ph, intm]; a flit that a routing    *)
(* function reads more of says so.                                         *)
(***************************************************************************)
EXTENDS Integers

\* A range of virtual channels at a port.
VcRange(port, vcs, pri) == [port |-> port, vcs |-> vcs, pri |-> pri]

\* The ranges that are kept of those added one after the other: the set is
\* ordered by the priority alone, and an element whose equal is in it already
\* is not inserted.
OutputSet(added) ==
    {added[i] : i \in {j \in DOMAIN added : \A h \in 1..(j - 1) : added[h].pri # added[j].pri}}

\* The pairs of a port and a virtual channel in a set of ranges.
Ways(offers) == UNION {{range.port} \X range.vcs : range \in offers}

\* An outcome: the flit as the function leaves it, and the ranges it offers.
Go(f, port, vcs) == [flit |-> f, offers |-> {VcRange(port, vcs, 0)}]

GoAny(f, added) == [flit |-> f, offers |-> OutputSet(added)]

\* An assertion of the routing function fails.
Panic(f) == [flit |-> f, offers |-> {}]

\* The virtual channels of the flit's class: requests have the lower half,
\* replies the upper one, a flit without a type has them all.
VcBegin(g, f) == IF f.type = "reply" THEN g.vcs \div 2 ELSE 0

VcEnd(g, f) == IF f.type = "request" THEN g.vcs \div 2 - 1 ELSE g.vcs - 1

ClassVcs(g, f) == VcBegin(g, f)..VcEnd(g, f)

\* Half of the class's channels, rounded down.
AvailableVcs(g, f) == (VcEnd(g, f) - VcBegin(g, f) + 1) \div 2

LowerVcs(g, f) == VcBegin(g, f)..(VcEnd(g, f) - AvailableVcs(g, f))

UpperVcs(g, f) == (VcBegin(g, f) + AvailableVcs(g, f))..VcEnd(g, f)

\* assert(available_vcs > 0), then the half that the packet is to stay in.
GoHalf(g, f, port, lower) ==
    IF AvailableVcs(g, f) = 0 THEN Panic(f)
    ELSE Go(f, port, IF lower THEN LowerVcs(g, f) ELSE UpperVcs(g, f))

\* The i-th of the equal parts of the class when there is one for each of
\* `of' destinations.
PartVcs(g, f, i, of) ==
    LET each  == (VcEnd(g, f) - VcBegin(g, f) + 1) \div of
        begin == VcBegin(g, f) + i * each
    IN  begin..(begin + each - 1)

-----------------------------------------------------------------------------
(* Numbers written in base k.                                              *)

Digit(x, d, k) == (x \div k^d) % k

\* x with its digit in dimension d replaced.
WithDigit(x, d, k, i) == x + (i - Digit(x, d, k)) * k^d

Flip(port) == IF port % 2 = 0 THEN port + 1 ELSE port - 1     \* port ^ 1
=============================================================================
