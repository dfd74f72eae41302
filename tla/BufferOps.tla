------------------------------ MODULE BufferOps ------------------------------
(***************************************************************************)
(* What the sender at one end of a channel knows of the buffer at the      *)
(* other (booksim2/src/buffer_state.cpp): how many flits each virtual      *)
(* channel has there, which packet has the channel, and a policy that says *)
(* how much of the buffer a channel may take.                              *)
(*                                                                         *)
(* A configuration c has vcs, buf (the buffer's size), policy, own (the    *)
(* private part of each channel), maxHeld, tailCredit.  A buffer state b   *)
(* is a record; b.bad says that an Error was raised or an assertion failed. *)
(* The two feedback policies, which measure round trips, are not here.     *)
(***************************************************************************)
EXTENDS Integers, FiniteSets
LOCAL INSTANCE FiniteSetsExt

Nobody == -1

Vcs(c) == 0..(c.vcs - 1)

EmptyBuffer(c) ==
    LET all(x) == [v \in Vcs(c) |-> x]
    IN  [occ |-> all(0), by |-> all(Nobody), tail |-> all(FALSE), resv |-> all(0),
         priv |-> all(0), shared |-> 0, activeVcs |-> 0, bad |-> FALSE]

Limited(c) == c.policy \in {"limited", "dynamic", "shifting"}

Shares(c) == Limited(c) \/ c.policy = "shared"

\* Mutant of SharedSize: the private parts are forgotten.
WholeSize(c) == c.buf

SharedSize(c) == c.buf - c.vcs * c.own

\* How often i can be halved until it is 0.
Halvings(i) == CHOOSE n \in 0..i : 2^n > i /\ (n = 0 \/ 2^(n - 1) <= i)

\* _max_held_slots, the most that any one channel may have.
MaxHeld(c, b) ==
    LET others == IF b.activeVcs = 0 THEN 0 ELSE b.activeVcs - 1
    IN  CASE c.policy = "limited"  -> c.maxHeld
          [] c.policy = "dynamic"  -> c.buf \div (others + 1)
          [] c.policy = "shifting" -> c.buf \div 2^Halvings(others)

Occupancy(b) == MapThenSumSet(LAMBDA v : b.occ[v], DOMAIN b.occ)

IsAvailableFor(b, v) == b.by[v] = Nobody

SharedIsFullFor(c, b, v) ==
    /\ b.resv[v] = 0
    /\ b.priv[v] >= c.own
    /\ b.shared >= SharedSize(c)

\* Mutant of IsFullFor: off by one.
IsOverfullFor(c, b, v) ==
    IF Shares(c) THEN SharedIsFullFor(c, b, v) ELSE b.occ[v] > c.buf \div c.vcs

IsFullFor(c, b, v) ==
    IF Shares(c)
    THEN \/ SharedIsFullFor(c, b, v)
         \/ Limited(c) /\ b.occ[v] >= MaxHeld(c, b)
    ELSE b.occ[v] >= c.buf \div c.vcs

-----------------------------------------------------------------------------

TakeBuffer(c, b, v, tag) ==
    LET t == [b EXCEPT !.by[v] = tag, !.tail[v] = FALSE,
                       !.activeVcs = IF Limited(c) THEN @ + 1 ELSE @]
    IN  [t EXCEPT !.bad = \/ @
                          \/ b.by[v] # Nobody
                          \/ t.activeVcs > c.vcs
                          \/ c.policy \in {"dynamic", "shifting"} /\ MaxHeld(c, t) = 0]

\* ProcessFreeSlot, n times.
FreeSlots(c, b, v, n) ==
    LET fromShared == Cardinality({i \in 1..n : b.priv[v] - i >= c.own})
        t == [b EXCEPT !.priv[v] = @ - n, !.shared = @ - fromShared]
    IN  [t EXCEPT !.bad = @ \/ t.priv[v] < 0 \/ t.shared < 0]

\* SharedBufferPolicy::SendingFlit: a reserved slot is used first; what is
\* still reserved for the channel when the tail leaves is given back.
TakeSlot(c, b, v, isTail) ==
    LET t == IF b.resv[v] > 0 THEN [b EXCEPT !.resv[v] = @ - 1]
             ELSE [b EXCEPT !.priv[v] = @ + 1,
                            !.shared = IF b.priv[v] >= c.own THEN @ + 1 ELSE @]
        s == IF isTail THEN FreeSlots(c, [t EXCEPT !.resv[v] = 0], v, t.resv[v]) ELSE t
    IN  [s EXCEPT !.bad = @ \/ t.shared > SharedSize(c)]

SendingFlit(c, b, v, isTail) ==
    LET t == [b EXCEPT !.occ[v] = @ + 1]
        s == IF Shares(c) THEN TakeSlot(c, t, v, isTail) ELSE t
        p == IF Limited(c) /\ isTail THEN [s EXCEPT !.activeVcs = @ - 1] ELSE s
        u == IF isTail
             THEN [p EXCEPT !.tail[v] = TRUE, !.by[v] = IF c.tailCredit THEN @ ELSE Nobody]
             ELSE p
    IN  [u EXCEPT !.bad = \/ @
                          \/ Occupancy(t) > c.buf
                          \/ ~Shares(c) /\ t.occ[v] > c.buf \div c.vcs
                          \/ p.activeVcs < 0
                          \/ isTail /\ ~c.tailCredit /\ b.by[v] = Nobody]

\* SharedBufferPolicy::FreeSlotFor: the slot of a channel that is taken and
\* has nothing in the buffer stays reserved for it.
FreeSlotFor(c, b, v) ==
    IF ~Shares(c) THEN b
    ELSE IF ~IsAvailableFor(b, v) /\ b.occ[v] = 0 THEN [b EXCEPT !.resv[v] = @ + 1]
    ELSE FreeSlots(c, b, v, 1)

CreditFor(c, b, v) ==
    LET t     == [b EXCEPT !.occ[v] = @ - 1]
        frees == c.tailCredit /\ t.occ[v] = 0 /\ b.tail[v]
        s     == IF frees THEN [t EXCEPT !.by[v] = Nobody] ELSE t
    IN  FreeSlotFor(c, [s EXCEPT !.bad = \/ @
                                         \/ c.tailCredit /\ b.by[v] = Nobody
                                         \/ t.occ[v] < 0], v)

ProcessCredit(c, b, vcs) == FoldSet(LAMBDA v, s : CreditFor(c, s, v), b, vcs)
=============================================================================
