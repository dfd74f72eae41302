----------------------------- MODULE PacketNet -----------------------------
(***************************************************************************)
(* What zsim is promised of a network (the use that booksim_net_ctrl.cpp   *)
(* makes of booksim2's interface): a packet that is handed over is         *)
(* delivered, once and whole, some time later; packets may overtake each   *)
(* other, and several may be delivered in one step.                        *)
(***************************************************************************)
CONSTANT Packets

VARIABLES inFlight, delivered

vars == <<inFlight, delivered>>

Init == inFlight = {} /\ delivered = {}

Generate(p) ==
    /\ p \notin inFlight \cup delivered
    /\ inFlight' = inFlight \cup {p}
    /\ UNCHANGED delivered

Deliver(ps) ==
    /\ ps # {} /\ ps \subseteq inFlight
    /\ inFlight' = inFlight \ ps
    /\ delivered' = delivered \cup ps

Next ==
    \/ \E p \in Packets : Generate(p)
    \/ \E ps \in SUBSET inFlight : Deliver(ps)

\* No packet stays in the network.
Prompt == \A p \in Packets : []<>(p \notin inFlight)

Spec == Init /\ [][Next]_vars /\ Prompt
=============================================================================
