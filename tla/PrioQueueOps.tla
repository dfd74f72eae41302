---------------------------- MODULE PrioQueueOps ----------------------------
(***************************************************************************)
(* The calendar queue of a weave domain (zsim/src/prio_queue.h): a ring of *)
(* B blocks, each with one list of objects per cycle, for the near future, *)
(* and a map for the objects beyond it, moved into the ring half a turn at *)
(* a time.                                                                 *)
(***************************************************************************)
EXTENDS Integers, Sequences, FiniteSets
LOCAL INSTANCE FiniteSetsExt

CONSTANTS
    Blocks,       \* B, 1024 in the code
    BlockCycles   \* 64 in the code: the bits of occ

ASSUME PrioQueueAssumption ==
    /\ BlockCycles \in Nat \ {0}
    /\ Blocks \in Nat \ {0} /\ Blocks % 2 = 0

Offsets == 0..(BlockCycles - 1)

\* near[b][o] is the list of block b at offset o (a bit of occ says whether
\* it is empty), far the map, ordered by cycle.
EmptyQueue ==
    [near |-> [b \in 0..(Blocks - 1) |-> [o \in Offsets |-> <<>>]],
     far |-> <<>>, curBlock |-> 0]

\* Block::enqueue puts an object in front of its list.
PutNear(q, obj, cycle) ==
    [q EXCEPT !.near[(cycle \div BlockCycles) % Blocks][cycle % BlockCycles] =
        <<obj>> \o @]

\* The map keeps the order of insertion among equal cycles.
PutFar(q, obj, cycle) ==
    LET upTo(x) == x.cycle <= cycle
        after(x) == x.cycle > cycle
    IN  [q EXCEPT !.far = SelectSeq(@, upTo) \o <<[cycle |-> cycle, obj |-> obj]>>
                            \o SelectSeq(@, after)]

CanPut(q, cycle) == cycle \div BlockCycles >= q.curBlock

\* Mutant of Put: the object a full turn ahead goes into the current block.
PutFullTurn(q, obj, cycle) ==
    IF cycle \div BlockCycles <= q.curBlock + Blocks
    THEN PutNear(q, obj, cycle)
    ELSE PutFar(q, obj, cycle)

Put(q, obj, cycle) ==
    IF cycle \div BlockCycles < q.curBlock + Blocks
    THEN PutNear(q, obj, cycle)
    ELSE PutFar(q, obj, cycle)

-----------------------------------------------------------------------------

Occupied(q, b) == \E o \in Offsets : q.near[b % Blocks][o] # <<>>

FirstOffset(q, b) == Min({o \in Offsets : q.near[b % Blocks][o] # <<>>})

FirstIn(q, b) == b * BlockCycles + FirstOffset(q, b)

IsEmpty(q) == q.far = <<>> /\ \A b \in 0..(Blocks - 1) : ~Occupied(q, b)

\* firstCycle: beyond half a turn, a far object may come earlier.
FirstCycle(q) ==
    LET half    == Blocks \div 2
        within(lo, hi) == {b \in (q.curBlock + lo)..(q.curBlock + hi) : Occupied(q, b)}
        soon    == within(0, half - 1)
        later   == within(half, Blocks - 1)
    IN  IF soon # {} THEN FirstIn(q, Min(soon))
        ELSE IF later = {} THEN Head(q.far).cycle
        ELSE IF q.far = <<>> THEN FirstIn(q, Min(later))
        ELSE Min({FirstIn(q, Min(later)), Head(q.far).cycle})

\* At every half turn the far objects that fit move into the ring.
RECURSIVE MoveNear(_, _)
MoveNear(q, topCycle) ==
    IF q.far # <<>> /\ Head(q.far).cycle < topCycle
    THEN MoveNear(PutNear([q EXCEPT !.far = Tail(@)],
                          Head(q.far).obj, Head(q.far).cycle), topCycle)
    ELSE q

RECURSIVE AtOccupied(_)
AtOccupied(q) ==
    IF Occupied(q, q.curBlock) THEN q
    ELSE LET next == [q EXCEPT !.curBlock = @ + 1]
         IN  AtOccupied(
               IF next.curBlock % (Blocks \div 2) = 0
               THEN MoveNear(next, (next.curBlock + Blocks) * BlockCycles)
               ELSE next)

\* dequeue: the object, its cycle and the queue without it.
Dequeue(q) ==
    LET at  == AtOccupied(q)
        b   == at.curBlock % Blocks
        off == FirstOffset(at, b)
    IN  [obj |-> Head(at.near[b][off]),
         cycle |-> at.curBlock * BlockCycles + off,
         rest |-> [at EXCEPT !.near[b][off] = Tail(@)]]

-----------------------------------------------------------------------------

Contents(q) ==
    UNION {{q.near[b][o][i] : i \in DOMAIN q.near[b][o]} :
               b \in 0..(Blocks - 1), o \in Offsets}
      \cup {q.far[i].obj : i \in DOMAIN q.far}
=============================================================================
