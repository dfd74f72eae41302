----------------------------- MODULE CreditFlow -----------------------------
(***************************************************************************)
(* Credit-based flow control on one channel, of any latency and with a     *)
(* buffer of any size.  The sender counts what it sends and uncounts what  *)
(* credits come back for; it sends while the count is below the buffer's   *)
(* size.  A flit is on its way (flying) or in the buffer at the end        *)
(* (stored), its credit on the way back.  A step of the network moves any  *)
(* number of them, at one end of the channel.                              *)
(***************************************************************************)
EXTENDS Integers, TLAPS

VARIABLES limit,     \* the size of the buffer
          occ,       \* what the sender counts
          flying, stored, back

vars == <<limit, occ, flying, stored, back>>

Init ==
    /\ limit \in Nat
    /\ occ = 0 /\ flying = 0 /\ stored = 0 /\ back = 0

\* Credits are taken, then flits are sent.
Sender ==
    /\ UNCHANGED <<limit, stored>>
    /\ back' <= back /\ flying' >= flying
    /\ occ' = occ - (back - back') + (flying' - flying)
    /\ flying' > flying => occ' <= limit

\* Flits come in, then flits leave the buffer.
Receiver ==
    /\ UNCHANGED <<limit, occ>>
    /\ flying' <= flying /\ back' >= back
    /\ stored' = stored + (flying - flying') - (back' - back)

Next == (Sender \/ Receiver) /\ {occ', flying', stored', back'} \subseteq Nat

Spec == Init /\ [][Next]_vars

-----------------------------------------------------------------------------

TypeOK == {limit, occ, flying, stored, back} \subseteq Nat

\* The sender counts every flit ahead and every credit that is due.
Exact == occ = flying + stored + back

\* The buffer at the end of the channel never overflows, though the sender
\* does not see it.
NoOverflow == stored <= limit

-----------------------------------------------------------------------------
(* Credit-based flow control is safe for a channel of any latency, a       *)
(* buffer of any size and any traffic.                                     *)

\* The count is exact, and within the limit: that alone bounds the buffer.
IInv == TypeOK /\ Exact /\ occ <= limit

\* Nothing is on its way at first.
LEMMA InitInv == Init => IInv
BY DEF Init, IInv, TypeOK, Exact

\* The sender takes credits, so its count falls by as much as fewer come back,
\* and it rises only by what flies more.
LEMMA SenderInv == IInv /\ Sender /\ {occ', flying', stored', back'} \subseteq Nat => IInv'
<1> SUFFICES ASSUME IInv, Sender, {occ', flying', stored', back'} \subseteq Nat
             PROVE  IInv'
    OBVIOUS
<1>1. TypeOK'
    BY DEF IInv, TypeOK, Sender
<1>2. Exact'
    BY <1>1 DEF IInv, TypeOK, Exact, Sender
<1>3. occ' <= limit'
  <2>1. CASE flying' > flying
      BY <2>1 DEF IInv, TypeOK, Sender
  <2>2. CASE ~(flying' > flying)
      BY <1>1, <2>2 DEF IInv, TypeOK, Sender
  <2> QED  BY <2>1, <2>2
<1> QED  BY <1>1, <1>2, <1>3 DEF IInv

\* The receiver moves items between the three places and leaves their sum.
LEMMA ReceiverInv == IInv /\ Receiver /\ {occ', flying', stored', back'} \subseteq Nat => IInv'
<1> SUFFICES ASSUME IInv, Receiver, {occ', flying', stored', back'} \subseteq Nat
             PROVE  IInv'
    OBVIOUS
<1>1. TypeOK'
    BY DEF IInv, TypeOK, Receiver
<1>2. Exact'
    BY <1>1 DEF IInv, TypeOK, Exact, Receiver
<1>3. occ' <= limit'
    BY DEF IInv, TypeOK, Receiver
<1> QED  BY <1>1, <1>2, <1>3 DEF IInv

\* Every step keeps the invariant.
LEMMA StepInv == IInv /\ [Next]_vars => IInv'
<1> SUFFICES ASSUME IInv, [Next]_vars
             PROVE  IInv'
    OBVIOUS
<1>1. CASE Next
    BY <1>1, SenderInv, ReceiverInv DEF Next
<1>2. CASE UNCHANGED vars
    BY <1>2 DEF vars, IInv, TypeOK, Exact
<1> QED  BY <1>1, <1>2

\* What the sender counts is exact and within the limit.
THEOREM CountExact == Spec => []IInv
<1> QED  BY InitInv, StepInv, PTL DEF Spec

\* The buffer at the end of a channel never overflows, whatever the latency
\* of the channel, the size of the buffer and the delay of the credits.
THEOREM BufferSafe == Spec => []NoOverflow
<1>1. IInv => NoOverflow
    BY DEF IInv, TypeOK, Exact, NoOverflow
<1> QED  BY CountExact, <1>1, PTL
=============================================================================
