------------------------------ MODULE Coherence ------------------------------
(***************************************************************************)
(* The MESI coherence controllers of zsim's inclusive cache hierarchy      *)
(* (zsim/src/coherence_ctrls.h, coherence_ctrls.cpp), the cache that calls *)
(* them (cache.cpp) and the filter cache in front of an L1                 *)
(* (filter_cache.h).  The caches form a tree with the L1s, one per core,   *)
(* as leaves; memory is above the root.                                    *)
(*                                                                         *)
(* A core's thread walks the hierarchy itself: accesses climb towards      *)
(* memory, invalidations descend towards the cores, and the calls in       *)
(* progress are the thread's stack.  Every cache has a bcc lock (its       *)
(* lines' states) and every non-terminal one a tcc lock (its directory).   *)
(* One step goes from one lock operation to the next.  The filter lock is  *)
(* only held within a step: whoever takes it already holds the bcc lock of *)
(* the L1, or touches nothing but the filter.                              *)
(*                                                                         *)
(* A core runs the threads of one process, and processes use distinct      *)
(* virtual lines.                                                          *)
(*                                                                         *)
(* Left out: latencies and event records, prefetches, non-inclusive        *)
(* caches, several banks above a cache, the flags of requests.             *)
(***************************************************************************)
EXTENDS Naturals, Sequences, SequencesExt, FiniteSets

CONSTANTS
    Caches,
    Leaves,        \* the L1s; a core, its thread and its L1 share the name
    Root,          \* the last-level cache
    Parent,        \* the cache above each cache but Root
    Ways,          \* the lines each cache holds: Ways[c] is a set of numbers
    Lines,         \* line addresses, procMask included
    Process,       \* whose thread a core runs, and whose address a line is
    None

ASSUME CoherenceAssumption ==
    /\ Leaves \subseteq Caches
    /\ Root \in Caches \ Leaves
    /\ Parent \in [Caches \ {Root} -> Caches \ Leaves]
    /\ Ways \in [Caches -> SUBSET Nat]
    /\ DOMAIN Process = Leaves \cup Lines
    /\ None \notin Caches \cup Lines

\* Every way up ends at the root: each cache has its distance from it.
ASSUME TreeAssumption ==
    /\ IsFiniteSet(Caches)
    /\ \E depth \in [Caches -> 0..Cardinality(Caches)] :
         \A c \in Caches \ {Root} : depth[c] = depth[Parent[c]] + 1

VARIABLES
    array,   \* array[c][w]: tag, MESI state and directory entry of a line
    filter,  \* the filter entry of each L1
    tcc,     \* who holds the tcc lock of each cache
    bcc,     \* who holds the bcc lock of each cache
    stack,   \* the calls each thread has in progress, innermost last
    dirty,   \* history: memory misses a core's writes to the line
    failed   \* an assert or panic has fired

vars == <<array, filter, tcc, bcc, stack, dirty, failed>>

States == {"I", "S", "E", "M"}

Children(c) == {d \in Caches \ {Root} : Parent[d] = c}

Entries(c) ==
    [tag : Lines \cup {None}, st : States, sharers : SUBSET Children(c), excl : BOOLEAN]

Gets == {"GETS", "GETX"}
Puts == {"PUTS", "PUTX"}
Invs == {"INV", "INVX"}

\* A call of Cache::access (op in Gets or Puts, for the child from, whose
\* line was in state init) or of Cache::invalidate (op in Invs).  way is the
\* line it works on; wb is lowerLevelWriteback.
Frames ==
    [at : Caches, op : Gets \cup Puts \cup Invs, line : Lines,
     from : Caches \cup {None}, init : States, way : Nat \cup {None}, wb : BOOLEAN,
     pc : {"tcc", "bcc", "evict", "evicted", "access", "grant", "end", "down"}]

Call(c, op, l, from, init) ==
    [at |-> c, op |-> op, line |-> l, from |-> from, init |-> init, way |-> None,
     wb |-> FALSE, pc |-> IF c \in Leaves \/ op \in Invs THEN "bcc" ELSE "tcc"]

Init ==
    /\ array = [c \in Caches |-> [w \in Ways[c] |->
                   [tag |-> None, st |-> "I", sharers |-> {}, excl |-> FALSE]]]
    /\ filter = [p \in Leaves |-> [rd |-> None, wr |-> None]]
    /\ tcc = [c \in Caches \ Leaves |-> None]
    /\ bcc = [c \in Caches |-> None]
    /\ stack = [p \in Leaves |-> <<>>]
    /\ dirty = [l \in Lines |-> FALSE]
    /\ failed = FALSE

-----------------------------------------------------------------------------
(* Lines and stacks                                                        *)

WaysOf(c, l) == {w \in Ways[c] : array[c][w].tag = l}
Cached(c, l) == WaysOf(c, l) # {}
WayOf(c, l) == CHOOSE w \in WaysOf(c, l) : TRUE

StateIn(c, l) == IF Cached(c, l) THEN array[c][WayOf(c, l)].st ELSE "I"

Exclusive(e) == e.excl /\ Cardinality(e.sharers) = 1

\* array with entry e in way w of c, and with line l of child d in state s.
SetEntry(c, w, e) == [array EXCEPT ![c][w] = e]
SetChild(a, d, l, s) == IF d = None THEN a ELSE [a EXCEPT ![d][WayOf(d, l)].st = s]

Busy(p) == stack[p] # <<>>
Top(p) == Last(stack[p])

\* Thread p is in a call at pc; c, f and e name what it works on.
At(p, pc) == ~failed /\ Busy(p) /\ Top(p).pc = pc

Goes(p, f) == stack' = [stack EXCEPT ![p] = Append(Front(@), f)]
Calls(p, f, g) == stack' = [stack EXCEPT ![p] = Append(Append(Front(@), f), g)]
Returns(p) == stack' = [stack EXCEPT ![p] = Front(@)]

-----------------------------------------------------------------------------
(* The core: filter cache and instrumented accesses                        *)

\* A load that hits in the filter changes nothing; one that misses goes
\* through replace().
Load(p, l) ==
    /\ ~failed /\ ~Busy(p)
    /\ Process[l] = Process[p]
    /\ filter[p].rd # l
    /\ stack' = [stack EXCEPT ![p] = <<Call(p, "GETS", l, None, "I")>>]
    /\ UNCHANGED <<array, filter, tcc, bcc, dirty, failed>>

Store(p, l) ==
    /\ ~failed /\ ~Busy(p)
    /\ Process[l] = Process[p]
    /\ IF filter[p].wr = l
       THEN dirty' = [dirty EXCEPT ![l] = TRUE] /\ UNCHANGED stack
       ELSE /\ stack' = [stack EXCEPT ![p] = <<Call(p, "GETX", l, None, "I")>>]
            /\ UNCHANGED dirty
    /\ UNCHANGED <<array, filter, tcc, bcc, failed>>

\* The core's thread is descheduled and one of the same process comes on.
ContextSwitch(p) ==
    /\ ~failed /\ ~Busy(p)
    /\ filter' = [filter EXCEPT ![p] = [rd |-> None, wr |-> None]]
    /\ UNCHANGED <<array, tcc, bcc, stack, dirty, failed>>

-----------------------------------------------------------------------------
(* Cache::access, from one lock operation to the next                      *)

\* startAccess: the child's lock was dropped by the call itself; tcc first.
LockTcc(p) ==
    /\ At(p, "tcc")
    /\ LET f == Top(p)
       IN  /\ tcc[f.at] = None
           /\ tcc' = [tcc EXCEPT ![f.at] = p]
           /\ Goes(p, [f EXCEPT !.pc = "bcc"])
    /\ UNCHANGED <<array, filter, bcc, dirty, failed>>

\* CheckForMESIRace: an invalidation came in while the child was unlocked.
Raced(f) == f.from # None /\ StateIn(f.from, f.line) # f.init

RaceAsserts(f) ==
    LET now == StateIn(f.from, f.line)
    IN  CASE f.op \in Puts  -> now \in {"I", "S"}
          [] f.op = "GETX"  -> f.init = "S" /\ now = "I"
          [] f.op = "GETS"  -> FALSE

\* Mutant of Skips: a writeback goes on though its line is gone.
SkipsNever(f) == FALSE

Skips(f) == Raced(f) /\ f.op \in Puts /\ StateIn(f.from, f.line) = "I"

RacedOp(f) == IF Raced(f) /\ f.op = "PUTX" THEN "PUTS" ELSE f.op

\* The replacement policy takes the first invalid line, or the least
\* recently used one, which may be any.
Victims(c) ==
    LET invalid == {w \in Ways[c] : array[c][w].st = "I"}
    IN  IF invalid = {} THEN Ways[c]
        ELSE {w \in invalid : \A v \in invalid : w <= v}

\* bcc locked, races resolved, the line looked up: skip, go on with the line
\* found, or make room.  A writeback must find its line (shouldAllocate).
LockBcc(p) ==
    /\ At(p, "bcc")
    /\ LET f == Top(p)
           g == [f EXCEPT !.op = RacedOp(f)]
       IN  /\ f.op \notin Invs
           /\ bcc[f.at] = None
           /\ bcc' = [bcc EXCEPT ![f.at] = p]
           /\ failed' = \/ Raced(f) /\ ~RaceAsserts(f)
                        \/ ~Skips(f) /\ f.op \in Puts /\ ~Cached(f.at, f.line)
           /\ \/ Skips(f) /\ Goes(p, [f EXCEPT !.pc = "end"])
              \/ /\ ~Skips(f) /\ Cached(f.at, f.line)
                 /\ Goes(p, [g EXCEPT !.pc = "access", !.way = WayOf(f.at, f.line)])
              \/ /\ ~Skips(f) /\ ~Cached(f.at, f.line)
                 /\ \E v \in Victims(f.at) : Goes(p, [g EXCEPT !.pc = "evict", !.way = v])
    /\ UNCHANGED <<array, filter, tcc, dirty>>

\* MESITopCC::processEviction: no child may keep the victim.
EvictChild(p) ==
    /\ At(p, "evict")
    /\ LET f == Top(p)
           e == array[f.at][f.way]
       IN  \E d \in e.sharers : Calls(p, f, Call(d, "INV", e.tag, None, "I"))
    /\ UNCHANGED <<array, filter, tcc, bcc, dirty, failed>>

\* The victim's state, once its children's dirty data is in.
VictimState(f, e) == IF f.wb THEN "M" ELSE e.st

\* postinsert: the victim's way takes the new line.
Inserts(p, f, e) ==
    /\ array' = SetEntry(f.at, f.way, [e EXCEPT !.tag = f.line, !.st = "I"])
    /\ Goes(p, [f EXCEPT !.pc = "access", !.wb = FALSE])

\* MESIBottomCC::processEviction: the victim is written back with the bcc
\* lock dropped; the last level drops clean lines, and memory takes its
\* dirty ones.
EvictLine(p) ==
    /\ At(p, "evict")
    /\ LET f == Top(p)
           e == array[f.at][f.way]
           s == VictimState(f, e)
       IN  /\ e.sharers = {}
           /\ failed' = (f.wb /\ e.st \notin {"M", "E"})
           /\ \/ /\ f.at = Root \/ s = "I"
                 /\ Inserts(p, f, e)
                 /\ dirty' = IF s = "M" THEN [dirty EXCEPT ![e.tag] = FALSE] ELSE dirty
                 /\ UNCHANGED bcc
              \/ /\ f.at # Root /\ s # "I"
                 /\ array' = SetEntry(f.at, f.way, [e EXCEPT !.st = s])
                 /\ Calls(p, [f EXCEPT !.pc = "evicted", !.wb = FALSE],
                             Call(Parent[f.at], IF s = "M" THEN "PUTX" ELSE "PUTS",
                                  e.tag, f.at, s))
                 /\ bcc' = [bcc EXCEPT ![f.at] = None]
                 /\ UNCHANGED dirty
    /\ UNCHANGED <<filter, tcc>>

Evicted(p) ==
    /\ At(p, "evicted")
    /\ LET f == Top(p)
           e == array[f.at][f.way]
       IN  failed' = (e.st # "I") /\ Inserts(p, f, e)
    /\ UNCHANGED <<filter, tcc, bcc, dirty>>

\* MESIBottomCC::processAccess: the permissions this cache needs itself.
Misses(f, e) == f.op \in Gets /\ e.st \in IF f.op = "GETS" THEN {"I"} ELSE {"I", "S"}

PutAsserts(f, e) ==
    /\ f.op = "PUTS" => e.st # "I"
    /\ f.op = "PUTX" => e.st \in {"M", "E"}

Hit(p) ==
    /\ At(p, "access")
    /\ LET f == Top(p)
           e == array[f.at][f.way]
       IN  /\ ~Misses(f, e)
           /\ failed' = ~PutAsserts(f, e)
           /\ array' = SetEntry(f.at, f.way,
                          [e EXCEPT !.st = IF f.op \in {"GETX", "PUTX"} THEN "M" ELSE @])
           /\ Goes(p, [f EXCEPT !.pc = "grant"])
    /\ UNCHANGED <<filter, tcc, bcc, dirty>>

\* ... from memory, which gives what is asked for,
MissToMemory(p) ==
    /\ At(p, "access")
    /\ LET f == Top(p)
           e == array[f.at][f.way]
       IN  /\ Misses(f, e)
           /\ f.at = Root
           /\ array' = SetEntry(Root, f.way, [e EXCEPT !.st = IF f.op = "GETS" THEN "E" ELSE "M"])
           /\ Goes(p, [f EXCEPT !.pc = "grant"])
    /\ UNCHANGED <<filter, tcc, bcc, dirty, failed>>

\* Mutant of MissToParent: the miss keeps the bcc lock.
MissToParentLocked(p) ==
    /\ At(p, "access")
    /\ LET f == Top(p)
           e == array[f.at][f.way]
       IN  /\ Misses(f, e)
           /\ f.at # Root
           /\ Calls(p, [f EXCEPT !.pc = "grant"],
                       Call(Parent[f.at], f.op, f.line, f.at, e.st))
    /\ UNCHANGED <<array, filter, tcc, bcc, dirty, failed>>

\* ... or from the cache above, with the bcc lock dropped.
MissToParent(p) ==
    /\ At(p, "access")
    /\ LET f == Top(p)
           e == array[f.at][f.way]
       IN  /\ Misses(f, e)
           /\ f.at # Root
           /\ Calls(p, [f EXCEPT !.pc = "grant"],
                       Call(Parent[f.at], f.op, f.line, f.at, e.st))
           /\ bcc' = [bcc EXCEPT ![f.at] = None]
    /\ UNCHANGED <<array, filter, tcc, dirty, failed>>

-----------------------------------------------------------------------------
(* MESITopCC::processAccess: the directory, and the child's new state      *)

\* Mutant of GivesE: whoever fetches gets what this cache has.
GivesEAlways(e) == e.st \in {"E", "M"}

\* A fetch by the only child that will have the line is given E.
GivesE(e) == e.sharers = {} /\ e.st \in {"E", "M"}

\* Who must lose or lower their copy before f's child can have the line.
Rivals(f, e) ==
    CASE f.op = "GETX" -> e.sharers \ {f.from}
      [] f.op = "GETS" -> IF Exclusive(e) THEN e.sharers ELSE {}
      [] OTHER         -> {}

GrantAsserts(f, e) ==
    CASE f.op = "PUTS" -> f.from \in e.sharers
      [] f.op = "PUTX" -> f.from \in e.sharers /\ Exclusive(e)
      [] f.op = "GETS" -> e.st # "I" /\ f.from \notin e.sharers
      [] f.op = "GETX" -> e.st = "M" /\ (f.from \in e.sharers => ~Exclusive(e))

ClearRivals(p) ==
    /\ At(p, "grant")
    /\ LET f == Top(p)
           e == array[f.at][f.way]
       IN  /\ failed' = ~GrantAsserts(f, e)
           /\ \E d \in Rivals(f, e) :
                  Calls(p, f, Call(d, IF f.op = "GETX" THEN "INV" ELSE "INVX",
                                   f.line, None, "I"))
           /\ array' = SetEntry(f.at, f.way,
                          [e EXCEPT !.sharers = IF f.op = "GETX" THEN @ \ {f.from} ELSE @])
    /\ UNCHANGED <<filter, tcc, bcc, dirty>>

\* Mutant of Granted: the directory is given the wrong id.
GrantedToSelf(f, e) ==
    CASE f.op \in Puts -> [e EXCEPT !.sharers = @ \ {f.from}]
      [] f.op = "GETS"  -> [e EXCEPT !.sharers = @ \cup {f.at}, !.excl = GivesE(e)]
      [] f.op = "GETX"  -> [e EXCEPT !.sharers = {f.from}, !.excl = TRUE]

\* Mutant of Granted: a clean writeback leaves its sender in the directory.
GrantedPutsStay(f, e) ==
    CASE f.op = "PUTX" -> [e EXCEPT !.sharers = @ \ {f.from}]
      [] f.op = "PUTS" -> e
      [] f.op = "GETS" -> [e EXCEPT !.sharers = @ \cup {f.from}, !.excl = GivesE(e)]
      [] f.op = "GETX" -> [e EXCEPT !.sharers = {f.from}, !.excl = TRUE]

\* The entry with f's child added or removed, and the state the child gets.
Granted(f, e) ==
    CASE f.op \in Puts -> [e EXCEPT !.sharers = @ \ {f.from}]
      [] f.op = "GETS"  -> [e EXCEPT !.sharers = @ \cup {f.from}, !.excl = GivesE(e)]
      [] f.op = "GETX"  -> [e EXCEPT !.sharers = {f.from}, !.excl = TRUE]

ChildState(f, e) ==
    CASE f.op \in Puts -> "I"
      [] f.op = "GETS"  -> IF GivesE(e) THEN "E" ELSE "S"
      [] f.op = "GETX"  -> "M"

\* Mutant of WrittenBack: the rival's data is forgotten.
WrittenBackNever(f, e) == e

\* processWritebackOnAccess: data a rival wrote is now this cache's.
WrittenBack(f, e) == IF f.wb THEN [e EXCEPT !.st = "M"] ELSE e

Grant(p) ==
    /\ At(p, "grant")
    /\ LET f == Top(p)
           e == array[f.at][f.way]
       IN  /\ Rivals(f, e) = {}
           /\ Goes(p, [f EXCEPT !.pc = "end", !.wb = FALSE])
           /\ IF f.at \in Leaves
              THEN UNCHANGED <<array, failed>>
              ELSE /\ failed' = \/ ~GrantAsserts(f, e)
                                \/ f.wb /\ e.st \notin {"E", "M"}
                   /\ array' = SetChild(SetEntry(f.at, f.way, WrittenBack(f, Granted(f, e))),
                                        f.from, f.line, ChildState(f, e))
    /\ UNCHANGED <<filter, tcc, bcc, dirty>>

\* endAccess: the child is locked again before the locks here are dropped.
EndAccess(p) ==
    /\ At(p, "end")
    /\ LET f == Top(p)
       IN  /\ f.at \notin Leaves
           /\ bcc[f.from] = None
           /\ bcc' = [bcc EXCEPT ![f.from] = p, ![f.at] = None]
           /\ tcc' = [tcc EXCEPT ![f.at] = None]
    /\ Returns(p)
    /\ UNCHANGED <<array, filter, dirty, failed>>

\* ... and in an L1, replace() then fills the filter: the filter lock that
\* endAccess takes keeps invalidations out until it has.
Fill(p) ==
    /\ At(p, "end")
    /\ LET f == Top(p)
       IN  /\ f.at \in Leaves
           /\ bcc' = [bcc EXCEPT ![f.at] = None]
           /\ filter' = [filter EXCEPT ![p] =
                            [rd |-> f.line, wr |-> IF f.op = "GETX" THEN f.line ELSE None]]
           /\ dirty' = [dirty EXCEPT ![f.line] = @ \/ f.op = "GETX"]
    /\ Returns(p)
    /\ UNCHANGED <<array, tcc, failed>>

-----------------------------------------------------------------------------
(* Cache::invalidate                                                       *)

\* startInv takes bcc only; the line must be there.
LockInv(p) ==
    /\ At(p, "bcc")
    /\ LET f == Top(p)
       IN  /\ f.op \in Invs
           /\ bcc[f.at] = None
           /\ bcc' = [bcc EXCEPT ![f.at] = p]
           /\ failed' = ~Cached(f.at, f.line)
           /\ IF Cached(f.at, f.line)
              THEN Goes(p, [f EXCEPT !.pc = "down", !.way = WayOf(f.at, f.line)])
              ELSE UNCHANGED stack
    /\ UNCHANGED <<array, filter, tcc, dirty>>

\* sendInvalidates: a downgrade only goes to an exclusive sharer.
Sends(f, e) == IF f.op = "INV" \/ Exclusive(e) THEN e.sharers ELSE {}

SendInvalidate(p) ==
    /\ At(p, "down")
    /\ LET f == Top(p)
       IN  \E d \in Sends(f, array[f.at][f.way]) :
              Calls(p, f, Call(d, f.op, f.line, None, "I"))
    /\ UNCHANGED <<array, filter, tcc, bcc, dirty, failed>>

\* The caller's entry once its sharer d has been invalidated or downgraded.
Answered(e, op, d) ==
    IF op = "INV" THEN [e EXCEPT !.sharers = @ \ {d}] ELSE [e EXCEPT !.excl = FALSE]

\* The stack after the innermost call, an invalidation, returns; reqWriteback
\* is a flag of the access it was made for.
Unwound(s, wrote) ==
    LET access == CHOOSE i \in DOMAIN s : /\ s[i].op \notin Invs
                                          /\ \A j \in DOMAIN s : j > i => s[j].op \in Invs
    IN  Front([s EXCEPT ![access].wb = @ \/ wrote])

\* Mutant of FilterAfter: write permission stays.
FilterAfterKeepsWr(c, l, p) == IF filter[c].rd = l THEN [filter[c] EXCEPT !.rd = None] ELSE filter[c]

\* The filter of core c once thread p has invalidated line l there.  It holds
\* virtual lines, and p compares with the procMask of its own process.
FilterAfter(c, l, p) ==
    IF filter[c].rd = l /\ Process[p] = Process[l]
    THEN [rd |-> None, wr |-> None]
    ELSE filter[c]

Invalidate(p) ==
    /\ At(p, "down")
    /\ LET f == Top(p)
           e == array[f.at][f.way]
           g == Last(Front(stack[p]))
       IN  /\ Sends(f, e) = {}
           /\ failed' = (e.st \notin IF f.op = "INV" THEN {"S", "E", "M"} ELSE {"E", "M"})
           /\ array' = [SetEntry(f.at, f.way, [e EXCEPT !.st = IF f.op = "INV" THEN "I" ELSE "S"])
                           EXCEPT ![g.at][g.way] = Answered(@, f.op, f.at)]
           /\ stack' = [stack EXCEPT ![p] = Unwound(@, e.st = "M")]
           /\ bcc' = [bcc EXCEPT ![f.at] = None]
           /\ filter' = IF f.at \in Leaves
                        THEN [filter EXCEPT ![f.at] = FilterAfter(f.at, f.line, p)]
                        ELSE filter
    /\ UNCHANGED <<tcc, dirty>>

Issue(p) == \E l \in Lines : Load(p, l) \/ Store(p, l)

Access(p) ==
    \/ LockTcc(p)
    \/ LockBcc(p)
    \/ EvictChild(p)
    \/ EvictLine(p)
    \/ Evicted(p)
    \/ Hit(p)
    \/ MissToMemory(p)
    \/ MissToParent(p)
    \/ ClearRivals(p)
    \/ Grant(p)
    \/ EndAccess(p)
    \/ Fill(p)

Invalidation(p) == LockInv(p) \/ SendInvalidate(p) \/ Invalidate(p)

Next == \E p \in Leaves : Issue(p) \/ ContextSwitch(p) \/ Access(p) \/ Invalidation(p)

Spec == Init /\ [][Next]_vars

-----------------------------------------------------------------------------
(* Properties                                                              *)

\* The type invariant of the hierarchy's state.
TypeOK ==
    /\ \A c \in Caches : array[c] \in [Ways[c] -> Entries(c)]
    /\ filter \in [Leaves -> [rd : Lines \cup {None}, wr : Lines \cup {None}]]
    /\ tcc \in [Caches \ Leaves -> Leaves \cup {None}]
    /\ bcc \in [Caches -> Leaves \cup {None}]
    /\ \A p \in Leaves : \A i \in DOMAIN stack[p] : stack[p][i] \in Frames
    /\ dirty \in [Lines -> BOOLEAN]
    /\ failed \in BOOLEAN

\* No assert of the controllers and no panic fires: the races CheckForMESIRace
\* knows are all there are, an evicted line ends in I, a writeback and an
\* invalidation find their line, a child is never granted what its parent lacks.
\* And everything keeps its type.
NoPanic == ~failed /\ TypeOK

\* Hand-over-hand locking down and never up leaves no set of threads in which
\* each waits for a lock that another one, or itself, holds.
WaitsFor(p) ==
    IF ~Busy(p) THEN None
    ELSE LET f == Top(p)
         IN  CASE f.pc = "tcc" -> tcc[f.at]
               [] f.pc = "bcc" -> bcc[f.at]
               [] f.pc = "end" /\ f.from # None -> bcc[f.from]
               [] OTHER -> None

NoLockCycle ==
    \A T \in (SUBSET Leaves) \ {{}} : \E p \in T : WaitsFor(p) \notin T

\* Single writer or many readers, at every moment, between cores: a core
\* whose L1 holds a line in E or M is the only one whose L1 holds it.
SingleWriter ==
    \A p, q \in Leaves, l \in Lines :
        p # q /\ StateIn(p, l) \in {"E", "M"} => StateIn(q, l) = "I"

\* Inclusion, while lines move: every copy below has one above, and write
\* permission below needs it above.
Inclusion ==
    \A c \in Caches \ {Root}, l \in Lines :
        /\ StateIn(c, l) # "I" => StateIn(Parent[c], l) # "I"
        /\ StateIn(c, l) \in {"E", "M"} => StateIn(Parent[c], l) \in {"E", "M"}

\* Whenever a cache is unlocked, its directory lists exactly the children that
\* hold each line, and marks as exclusive exactly those that may write it.
DirectoryExact ==
    \A c \in Caches \ Leaves : bcc[c] = None =>
        \A w \in Ways[c] :
            LET e == array[c][w]
            IN  e.tag # None =>
                  /\ e.sharers = {d \in Children(c) : StateIn(d, e.tag) # "I"}
                  /\ Exclusive(e) <=> \E d \in Children(c) : StateIn(d, e.tag) \in {"E", "M"}

\* The caches form an inclusive tree whose directories tell the truth.
InclusiveDirectories == Inclusion /\ DirectoryExact

\* What the filter cache answers by itself the L1 would have answered too: a
\* load hit is of a line the L1 holds, a store hit of one it holds modified.
\* (A core in a miss does not look; the line its L1 evicts is in the filter's
\* set, which the miss overwrites.)
FilterCoherent ==
    \A p \in Leaves, l \in Lines : ~Busy(p) =>
        /\ filter[p].rd = l => StateIn(p, l) # "I"
        /\ filter[p].wr = l => StateIn(p, l) = "M"

\* A core's writes reach memory: until they do, some cache holds the line
\* modified, or the access that took it from one has yet to record that.
WritebackNotLost ==
    \A l \in Lines : dirty[l] =>
        \/ \E c \in Caches : StateIn(c, l) = "M"
        \/ \E p \in Leaves : \E i \in DOMAIN stack[p] :
              LET f == stack[p][i]
              IN  f.wb /\ array[f.at][f.way].tag = l
=============================================================================
