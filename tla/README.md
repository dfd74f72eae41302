# A verification development for bzsim

bzsim is zsim, a parallel simulator of multicore x86 machines driven by Pin
instrumentation, with the BookSim2 network simulator built in. Simulated time
advances in *phases*: in the *bound* half of a phase every scheduled core runs
its thread for `phaseLength` cycles, at most `parallelism` cores at a time; in
the *weave* half the recorded memory events are simulated in detail.

This directory holds TLA+ modules translated from the source, the TLC
configurations that check them on small instances, and proofs checked by
TLAPS. Paths below are relative to `src/zsim/src` unless they start with
`booksim2/`, which is `src/booksim2/src`.

## 1. Inventory

| Part | State it keeps | Operations | Hard behaviour | Correct when |
|---|---|---|---|---|
| Phase barrier, `barrier.h` | run list, scan index, per-core state and futex word, counters of running and left cores, phase count | `join`, `leave`, `sync`, `checkRunList`, `checkEndPhase`, `tryWakeNext` | leaves and joins in any order; lazy removal of left cores by swaps; wakeups across a lock; rewind for cores that come back in the same phase | no core runs twice in a phase, none is stranded, a phase ends when everybody ran |
| Scheduler, `scheduler.h`, `scheduler.cpp` | thread and context tables, free list, run, out and sleep queues, fake leaves, the barrier | `start`, `finish`, `join`, `leave`, `sync`, `syscallLeave`, `markForSleep`, `notifySleepEnd`, `callback`, `schedTick` | more threads than cores, affinity masks, handoffs that complete later, sleepers, unlocked windows | threads, contexts, lists and barrier agree; queued threads run; sleepers wake |
| Watchdog, `scheduler.cpp` | last phase seen, the fake leave it works on | break stalls, drive time for sleepers, clean up killed processes | runs beside everybody else; drops the lock between steps | never ends a phase over a running core; never wedges |
| Glue and syscall patching, `zsim.cpp`, `virt/timeout.cpp`, `virt/time.cpp` | per-thread function table, fake timeout mode | thread start and end, `TakeBarrier`, `Join`, `SyscallEnter`, `SyscallExit`, patched sleeps | signals, retries, fast-forward, killed processes | calls the scheduler in the states it expects |
| Fast-forward, `zsim.cpp`, `fftoggle.cpp`, `process_tree.cpp`, and the phase event queue, `event_queue.h` | fast-forward flags, toggle futexes, `ffLock`, the queue and its lock | toggles, magic ops, FFI, callbacks at the end of a phase | a control thread, the application and the end of a phase hold two locks in turn | entered only while nothing is simulated; nobody waits for ever |
| Locks, `locks.h`, `mutex.h` | futex word; ticket pair; reader count | lock, try, lock with a timeout, unlock | lost wakeups, a timeout racing an unlock | mutual exclusion, no lost wakeup |
| Coherence and caches, `coherence_ctrls.*`, `cache.cpp`, `filter_cache.h` | MESI state and directory entry per line, two locks per cache, filter entries | access, eviction, invalidation, filter hit and replace | hand-over-hand locking with races resolved late; two lock directions | one writer or many readers, directory covers children, dirty data reaches memory, no deadlock |
| NoC bridge, `booksim_net_ctrl.*` | records of accesses, packets in flight, clock dividers | access, invalidate, tick, packet callbacks | builds event chains out of invalidations, writebacks and accesses; events finish from callbacks | every event runs no earlier than the bound phase said, and at that time when nothing interferes |
| BookSim2 topologies and routing, `booksim2/networks`, `booksim2/routefunc.cpp` | links; tables of networks from files | a routing function at each hop | virtual channels that break cycles, adaptive routes | packets arrive at the right node; no set of packets waits for itself |
| BookSim2 routers and traffic, `booksim2/routers/iq_router.cpp`, `buffer*.cpp`, `trafficmanager.cpp`, `interconnect_interface.cpp` | buffers, credits, lists of virtual channels per pipeline stage, counters of what is outstanding | inject, route, allocate, eject, skip idle parts | credit loops, speculation, counters by which work is left out | credits never exceed buffers; every packet arrives, once and in order |
| Weave phase, `contention_sim.*`, `timing_event.*`, `prio_queue.h`, `event_recorder.h` | event graph, calendar queue per domain, done counter and wake locks | phase start and end, run, requeue, crossing | threads per domain, crossings, reuse of events | no event runs before its parents, domain clocks never go back, all threads meet at the phase end |
| Core recorders, timing caches, `core_recorder.*`, `ooo_core_recorder.*`, `timing_cache.*` | running, draining, halted; gap cycles; MSHRs | join, leave, record, phase start and end; miss, response, writeback | draining across phases; MSHRs that run out | clock skew never negative; every miss gets an MSHR |
| Cores, decoder, memory timing, arrays, partitioning, prefetcher | per-object tables | sequential | numeric accuracy | out of a model checker's interest, mostly |
| Harness, process tree, virtualization, traces, statistics, heap, configuration | process groups, files | start-up, I/O | signals, restarts | not protocol code |

The threads are: one host thread per simulated thread (in any of several
processes that share memory), one fast-forward control thread per process, the
watchdog, the harness, and the contention simulation threads. Threads meet in
the scheduler under one lock (`schedLock`), which also protects the barrier; the
barrier and a queued thread's wait for a context block on futex words outside
the lock. The end of a phase runs in whichever thread's barrier call ends it
(`EndOfPhaseActions`, which runs the weave phase and the event queue, then
`Scheduler::callback`), with the lock held. During the bound phase the threads
of the cores walk the caches under the caches' own locks and record events;
during the weave phase the simulation threads run those events, and one of them
steps the network.

## 2. Modules

| Module | Models | State |
|---|---|---|
| `BarrierOps` | the `Barrier` class as operators from a barrier to the barriers it may become | none |
| `Barrier` | cores that call it, and the futex loops of `join` and `sync` step by step | `bar`, `pc`, `served`, `failed` |
| `PhaseBarrier` | what a phase barrier promises, over three sets of cores | `pending`, `running`, `done` |
| `BarrierLoops` | one call of `tryWakeNext`, iteration by iteration of its loops | `input`, `object`, `loop`, `idx`, `newSize`, `callFailed` |
| `SchedulerOps` | the `Scheduler` class as operators, over the barrier's | none |
| `Scheduler` | simulated threads, the watchdog, killed processes | `sched`, `pc`, `wd` |
| `FutexOps`, `FutexLock` | `futex_lock` and its variants as operators; threads that use one lock | the lock and where each thread is |
| `Mutex` | what a lock promises | `holder` |
| `Coherence` | a tree of caches with their MESI controllers, the cores' accesses and the filter caches | `array`, `filter`, `tcc`, `bcc`, `stack`, `dirty`, `failed` |
| `PrioQueueOps` | the calendar queue of a domain | none |
| `WeaveOps` | timing events, delays, crossings, domains, core recorders as operators on a record | none |
| `RecorderOps` | what memories and timing caches record, and what each kind of event does when it runs | none |
| `Weave` | cores that record, the caller and the simulation threads | `w`, the threads, the locks |
| `FastForward` | processes with an application and a control thread, the end of the phase, the event queue | per process and queue |
| `RouteOps`, `CubeNets`, `TreeNets`, `CMeshNets`, `DragonflyNets`, `FlatFlyNets`, `AnyNets` | links and routing functions of the topologies | none |
| `Routing` | one packet's way, and the channels that wait for each other | the network and the packet |
| `BufferOps` | the sender's view of a downstream buffer and its policies | none |
| `RouterOps` | a cycle of the input-queued router, one operator per stage | none |
| `Network` | nodes, routers and channels that step together | nodes, routers, channels, counters |
| `PacketNet` | what zsim is promised of a network | handed over, delivered |
| `CreditFlow` | credit-based flow control on one channel | flits sent, flying, stored; credits |
| `BridgeOps` | what the bound phase records of an access that crosses a network, for an OOO core | none |
| `NocBridge` | the weave phase over those events: clocks, ticks, packets in flight | `ev`, `w`, clocks, `inflight` |
| `MC*` | instances for TLC | |
| `BarrierOpsProofs`, `BarrierProofs` | lemmas about the barrier's operators; its theorems | |
| `BarrierLoopsProofs` | the loop invariants, and that the loops compute those operators | |
| `SchedulerProofs` | what each operator of `SchedulerOps` does to the tables, and keeps; theorems with kills (`KillSpec`) and without (`OrderlySpec`) | |
| `FutexLockProofs`, `FastForwardProofs` | theorems of `FutexLock` and `FastForward`; those of `CreditFlow` stand in the module itself | |
| `CoherenceProofs` | the inductive invariant of `Coherence`, what follows from it, and the filters | |

How they compose: `Scheduler` contains a barrier (through `BarrierOps`), and the
phase recorders of the cores; `Barrier` implements `PhaseBarrier`; `FutexLock`
implements `Mutex`, which is why every other module takes a lock as one variable
and a wait for it as a guard; `Weave` is the end of a phase that `Scheduler`
takes as one step; `Network` routes with `CubeNets` and implements `PacketNet`
as a whole and `CreditFlow` on every channel; `NocBridge` stands on `PacketNet`
and on the least time that `Network` shows a packet to take. `Coherence` shares
no state with the others: the scheduler decides which threads run, and any set
of them may be walking the caches at a time.

A critical section of a lock is one action where nothing else touches what it
reads and writes. Whatever happens outside (the futex loops, reading
`handoffThread` after the barrier, `finish` and the watchdog dropping the lock
in the middle) is split where the code unlocks.

**Barrier.** `bar` is the object: `runList` (a sequence of cores),
`curThreadIdx`, `runningThreads`, `leftThreads`, `phaseCount`, and per core
`state`, `futexWord`, `lastIdx` (indices count from 1). `CheckRunList` is the
scan, in closed form: the entries up to `ScanEnd` wake. `Compacted` and
`Shuffled` are the two rewrites at a phase end; the code's loops move one entry
at a time. `BarrierLoops` has those loops, one action per iteration and per exit,
from the call of `tryWakeNext` to its return; its `LoopsAsModelled` says that what
they leave is what the closed forms say, and `LoopsEnd` that they end. The
random number generator of the shuffle is a choice among all permutations.
`pc` is where the host thread of a core is after the unlock: about to test the
state (`unlocked`), about to wait (`futex`), in the kernel, woken, running.
An assertion of the code that fails sets `failed`. `served` remembers the cores
that ran in the phase, for the refinement. `lastIdx` starts with any value of
`Garbage`, because the constructor leaves it unset.

**Scheduler.** `sched` is the object: `thr` (a `ThreadInfo` per thread), `cur`
(which thread a context holds), the lists, `fakeLeaves`, `bar`, the `phase` and
`active`, the cores whose recorder is running. `word` is a thread's futex word;
`wakeIn` is `wakeupPhase` relative to the phase now, which makes the state
space finite without a bound on time. An operation is an operator from a
scheduler to the set of schedulers it may become, because the barrier inside
may shuffle; a failed assertion gives one with `broken` set, and the system
stops there. A simulated thread's `pc` follows the instrumentation: it joins,
executes, syncs at each phase end, enters calls that leave for real or only
pretend to, sleeps, returns, is interrupted, finishes. A process has one
thread, so a killed process is a killed thread.

**Coherence.** `array[c][w]` is a line of a cache: its tag (`CacheArray`), its
MESI state (`MESIBottomCC`) and its directory entry (`MESITopCC::Entry`).
`bcc` and `tcc` are the two locks of a cache. There are no messages: a core's
thread calls from cache to cache, and `stack[p]` holds the calls it has in
progress, each a frame with the cache, the request, the way it works on and
`pc`, the place in `Cache::access` or in `Cache::invalidate`. One step goes from
one lock operation to the next, and one action stands for each such stretch.
`f.wb` is the flag `lowerLevelWriteback` of an access, which the invalidations
it makes set through a pointer. `dirty` is history: a core wrote the line and
memory does not have it yet. The replacement policy picks the first invalid
way, or any when there is none. Memory (mem_ctrls.cpp) grants E on a GETS and M
on a GETX and takes no lock.

**Locks.** `FutexOps` has one operator per access to the futex word; `at` says
how far a thread is in its call. Each access that matters is a locked
instruction, so memory is sequentially consistent.

**Weave.** `w.ev` holds the events, named by their place; a place is `Freed`
when its event is done, since the code reclaims it at once, so that a late use
trips the assertions on its state. A domain's queue is `PrioQueueOps`: blocks of
lists for the near cycles, a map beyond, moved over half a turn at a time. A
simulation thread runs the event at the front of one of its domains; a crossing
polls the other domain's clock and is requeued. The bound phase is a set of
actions of the cores (`Join`, `Leave`, `Bbl`, `Access`, with hits, misses and
writebacks by choice), so every
order of recordings occurs. The hand-shake at the phase's start and end uses
futex locks as events, and those are single variables here.

**Fast-forward.** Each process has an application thread and a control thread
with a `pc`; the end of the phase is a thread of its own that takes the queue's
lock and runs the callbacks in order, blocked in one when it waits for a control
thread. Phases are counted relative to the current one.

**Routing.** A network is a record with its parameters; a routing function is
an operator from the router, the input port and the flit to the set of its
outcomes, each a new flit and a set of ranges of channels at a port.
`OutputSet` keeps what the code's set keeps, of the ranges added with one
priority the first (outputset.hpp:59). `Deadlocks` builds the channels that one
packet may hold while it waits for others and asks whether a set of packets waits
only for itself, each for every channel of every range that is kept.

**Routers and network.** A step of `Network` is one cycle of
`TrafficManager::_Step`: it reads the channels, injects, runs each router's
stages in the code's order and writes the channels, with `Generate` between the
steps for packets that zsim hands over and `Skip` for the cycles that are left
out. An allocator grants any matching that contains a request and one of the
highest priority; round-robin pointers are therefore not state. A head that bids for the
switch before it has a channel asks at the output of every range it is promised
something in, and if one range promises nothing it is stalled: its other requests
occupy the allocator, but what it is granted is skipped (`Stalled`,
iq_router.cpp:1460, 1467, 1512). A router's lists
(`_route_vcs`, `_vc_alloc_vcs`, `_sw_hold_vcs`, `_sw_alloc_vcs`,
`_crossbar_flits`) are sets, since with delays of one an entry waits for one
evaluation only.

**Bridge.** `BridgeOps` rebuilds the event chain that one access leaves in the
recorder: the L2's own writeback, the network's transmit and receive events,
invalidations of other L2s (a fork, a chain for each, a join), the second
network and the memory, stitched where two records meet. `NocBridge` takes that
graph and runs it cycle by cycle as the weave phase does; a packet comes back
when the network steps, after its zero-load latency or `Extra` steps later.

## 3. Runs

| Run | Instance | Distinct states | Checks | Shows |
|---|---|---|---|---|
| `barrier` | 3 cores, 1 slot; the loops of one call with run lists of up to 4 cores | 25 836 | `NoPanic`, `Bookkeeping`, `NoLostWakeup`, `LoopsAsModelled`, `PhaseBarrierSpec`, `JoinersRun` | refines `PhaseBarrier`; the bookkeeping agrees; no wakeup lost; no assertion fires; joiners run; the closed forms of the scan, the compaction and the shuffle are what the loops compute |
| `scheduler` | 3 threads (one pinned to a core), 2 cores, 2 slots, sleeps of 2 phases, quantum 1 | 557 953 | `ThreadsInPlace`, `NoPanic`, `PhaseWaitsForRunners` | no queued thread and no sleeper is forgotten, no thread has a core outside its mask, no assertion fires, no phase ends over a running core |
| `scheduler_kill` | 3 threads (two pinned to a core), 2 cores, 1 slot, sleeps of 1 phase, two dead at a time | 1 145 098 | `CleanupKeeps` | what survives the cleanup of killed processes |
| `scheduler_live` | 3 threads, 1 core, sleeps of 2 phases | 74 538 | `ThreadsGoOn` | queued threads run, sleepers wake |
| `locks` | 3 threads, signals and timeouts | 7 326 | `NoLostWakeup`, `IsMutex`, `SomeoneGetsIn` | the futex lock implements a mutex, loses no wakeup, and somebody gets in |
| `coherence` | 2 cores, each with an L1 and an L2, a shared L3, 1 way each, 2 lines | 527 671 | `NoPanic`, `NoLockCycle`, `SingleWriter`, `InclusiveDirectories`, `FilterCoherent`, `WritebackNotLost` | one writer or many readers, inclusion, exact directories, no dirty data lost, filter right, no assertion fires, no lock cycle |
| `weave` | 6 setups of 1 or 2 cores, 1 or 2 simulation threads, 2 domains, with or without timing caches | 398 196 | `NoPanic`, `Causal`, `QueuesExact`, `MSHRsExact`, `PhaseEnds` | events run after their causes and never in their domain's past, calendar queues and MSHRs exact, every phase ends |
| `fastforward` | 2 processes, 4 setups of FFI, magic ops, toggles and paused processes | 120 909 | `NoPanic`, `HeardToggles`, `EntersAtPhaseEnd`, `EverybodyReturns` | fast-forward is entered only at the end of a phase, no toggle is invented, everybody returns |
| `fastforward_deadlock` | 2 processes, one toggle each | violated | `SafeWithEndOfPhase` | the lock order of control thread and end of phase |
| `routing` | 45 networks | 18 970 | `Delivered`, `DeadlockFree`, `Arrives` | packets arrive where they should, requests and replies keep apart, no deadlock |
| `network` | 35 setups: 2 or 3 routers in a row, 3 in a ring, 4 in a square; every option | 256 920 | `NoPanic`, `CreditsExact`, `NothingForgotten`, `ImplementsCreditFlow`, `ImplementsPacketNet` | no assertion or Error, credits and counters exact, no virtual channel forgotten, implements `CreditFlow` and `PacketNet` |
| `bridge` | 32 setups of one or two loads, up to 5 L2s, clocks of five ratios | 538 046 | `NoPanic`, `DelaysAddUp`, `Answered` | no assertion fails; events run when the bound phase said, and later only by what packets and memory took longer; every recorded event is run |

**Bounds.** *Barrier and scheduler.* Three cores on one slot give every kind of
interplay of the barrier: one core runs, one waits in front of the scan index
and one behind. `MCBarrier` lets a call of `tryWakeNext` by itself go through its loops
before the cores begin, on every object with a list of up to four cores, in any
states and with any entries scanned: four are the least for a compaction that fills
two holes, and one that puts a core which left into a hole, to be dropped from there.
With one slot a walk wakes at most one core; `LoopsTheorem` holds for any number of
slots. The fourth core (not in `Users`) then stays out of the barrier.
`CleanupPeriod` is 2 instead of 32, so that phase ends with and without
compaction alternate, and `PhaseWrap` (the range of `phaseCount`) keeps its
parity. Three threads on two cores are the least for a handoff while another
thread sits in a fake leave or sleeps; one pinned thread makes affinity masks
overlap in part, and two pinned ones do so under kills, where `MaxDead` bounds the
threads that wait for the cleanup: two, so that one dies while another is being
cleaned up. The two threads of the same mask are interchangeable, hence the
symmetry. A quantum of one phase makes every phase end a scheduling
tick; longer quanta only skip ticks. Sleeps of two phases are the least that a
patched timed wait asks for, and make two deadlines differ.

*Coherence.* Caches of one way make every second access evict, at each level,
and two lines are what it takes; three levels are the least in which a cache has
a directory above and below it, so that invalidations descend through a cache
that an access of its own is leaving. With two cores, both sharers of the L3's
directory occur, and every race of `CheckForMESIRace` does. The two lines are
interchangeable, hence the symmetry.

*Weave.* The calendar has `Blocks` = 4 blocks of `BlockCycles` = 2 cycles
instead of 1024 of 64, so that an event 3 cycles late (`ExtraLats`) goes past
half a turn, into the map, and comes back. A phase is 4 cycles and a basic block
2 or 5, so that cores end phases on time and late. One MSHR makes the second
miss wait; two accesses by each core are the least for a chain, a crossing that
follows another, and a response beyond the phase's end.

*Locks.* Three threads are the least where one holds the lock, one sleeps and
one comes; the theorems of section 5 hold for any number.

*Fast-forward.* Two processes are the least for a control thread that waits for
the other's; two toggles of one process go in and out once.

*Routing.* Every family is taken at the smallest size where its special cases
occur: rings of 3 to 5 routers (odd and even, ties between the two ways), trees
of three levels, concentrated meshes and flattened butterflies with at least two
routers a side and the ones that need more at their least size, dragonflies of
three and nine groups. `nodes` limits the sources and destinations of the large
ones to one node of each router, or to corners and the middle.

*Network.* Two packets are the least that compete for a virtual channel, a port
or a buffer slot; they either follow each other on one way or meet at a router.
Packets are of one to three flits and buffers of two or three slots, so that a
packet can fill a buffer and wait for credits. Each option of the router and each
buffer policy is set in a setup of its own against a default; the ring has the
dateline and the square a turn and an escape channel. In the row of three routers
three packets meet at an output of the middle one: one holds a channel, one is
stalled by it although it is granted the output, one goes by the escape channel.

*Bridge.* Five L2s make four parallel invalidations, one more than the children
that fit in a `TimingEventBlock`, so that the left descendant changes. The ways
to them differ in length, so that the chains of a fork end at different cycles, in
either order. Every kind of access (a hit with or without invalidations, a miss
with no, a clean or a dirty victim that other L2s hold or not, each with or
without a writeback of the L2 that the L3 takes or skips) occurs on its own, and
pairs of them before and after the first answer. One packet or memory access is
late by one cycle (`late`, `Extra`). The clocks go 1:1, 2:1, 1:2, 2:3 and 3:2: one
step a tick, some ticks without a step, several steps a tick, and both in turn.

**Deadlock** is checked in every run but `scheduler_kill`, where the system may
stop because all processes are dead.

**Fairness.** `Barrier!FairSpec`: the host runs every thread that is not
asleep (weak fairness on the loop's steps, strong on `FutexWait`, which a
signal may send round the loop again and again) and a core that keeps running
reaches the end of its phase, because its clock only goes forward (strong
fairness on the step from running to syncing).
`Scheduler!FairSpec` says the same of threads, adds that an ended nap returns, that
a timed call whose thread the scheduler no longer has asleep returns (its 20 ms
timeout is then not retried, timeout.cpp:141) and that the watchdog never stops.
While the thread is SLEEPING the timed call may return early, on an outside event,
but need not: `ThreadsGoOn` then rests on the scheduler's own wakeup. Any other
system call need never return, a thread need never start or finish. Where only the step of a thread
matters, fairness names `pc` alone: the step that takes `pc` there is unique,
and `ENABLED` of the full action is costly to evaluate.
`FutexLock!FairSpec`: threads inside a lock operation are run; nobody need call
one, and a holder that never unlocks is not assumed away but excused.
`Weave!FairSpec`: the host runs the caller and every simulation thread that is
not asleep; nothing is assumed of the bound phase, so `PhaseEnds` speaks of
weave phases only. `FastForward!FairSpec`: threads inside zsim's code go on, with
strong fairness where a control thread takes a lock that is free again and
again; what the program and the user do may stop. `Routing!FairSpec`: a packet
whose next channel is free moves on. `Network!FairSpec`: a cycle that begins ends,
and cycles begin again and again unless the network is passed over, because the
weave phase's tick event steps the network at every cycle. That a packet gets
through also needs that some request of the highest priority is granted, which is
part of what an allocator is here.
`NocBridge!FairSpec`: the weave phase, which steps the network, goes on while an
event is awaited.

## 4. Findings and known limits

One run shows a disagreement between the code and what it says of itself; the
others below were met while modelling, and the models leave the situation out
or say so.

`fastforward_deadlock`: the comment in `EnterFastForward` says "we have the ff
lock, this should be safe with end of phase code" (zsim.cpp:391). The control
thread inserts its `SyncEvent` while it holds `ffLock` (zsim.cpp:1349, 1357), and
`insert()` takes the queue's lock, which `tick()` holds while it waits for another
process's control thread; that one takes `ffLock` first (zsim.cpp:1363).

**Scheduler.** `OrderlyNext` leaves out two races, with which `NoPanic` is
false: a call that returns between the two critical sections of the watchdog's
stall handling joins while RUNNING (scheduler.cpp:156-160, assertion of
scheduler.h:313); and a thread that finishes right after an interrupted
nanosleep is still SLEEPING (virt/time.cpp:240, scheduler.h:254). Under kills,
a QUEUED thread that is promised a context is in no queue when it is reaped
(scheduler.h:256), a killed victim takes the promise with it
(`QueuedIsPending` fails), a context freed from a thread that waited at the
barrier reaches its next thread without the barrier's leave (the open case of
scheduler.h:52), and a join may end a phase. That open case also lets a thread
run outside its mask: the thread that took such a context starts in a core that
WAITS in the barrier, so it can be made a handoff's victim before it executes,
go to sleep with the handoff still to do, come back on another core, and hand over
that one, which the promised thread may not be allowed. `MasksKept` is therefore
part of `ThreadsInPlace`, which speaks of the system without kills, and not of
`CleanupKeeps`. Futex matching (scheduler.cpp:346,
virt/timeout.cpp:203) and the remaining time of an interrupted sleep
(virt/time.cpp:256) are not modelled.

**Coherence.** With two processes the filter cache compares an invalidated line
with the wrong address mask and keeps the entry, as the FIXME at
filter_cache.h:155 says; the run has one process.

**Fast-forward.** Toggling two processes in one phase, or one beside FFI,
deadlocks (`fastforward_deadlock`), so the passing run has no such setup; the
safety theorems cover them. An
insertion between `tick()` and the increment of `numPhases` is found late by the
queue and panics (event_queue.h:97): `LateInserts` is FALSE. ROI ops in a process
that uses FFI (zsim.cpp:347) and termination are left out.

**Weave.** When a cache stitches a writeback and an access together
(cache.cpp:112-153) the delays are taken from the start of the access although the
record's first event may begin earlier or later (149-150). A dirty eviction to a
memory in another domain records a child while the parent's children are visited,
which breaks the count of timing_event.h:308; the run keeps such writebacks in one
domain.

**Routing.** `OutputSet` is a set ordered by priority alone, so that a range is lost
when one of its priority is in it. `min_adapt_mesh`, `planar_adapt_mesh`, the chaos
functions and `tree4_anca` therefore offer the first of the ports they list and are
not adaptive between them, and `min_adapt_torus` only adds an escape to its first
one; the model has it that way. `chaos_torus`, `valiant_mesh` and
`ugal_dragonflynew` are not part of the deadlock analysis: the first relies on
misrouting, the second shares its channels between its two legs, and of the third
dragonfly.cpp:461 and :490 say that three channels suffice where routefunc.cpp:854
says two. The analysis takes it that a packet goes on by any range of its set that
has a free channel. With a separate VC allocator the code does that; with piggybacked
VC allocation and speculation a head is stalled until every range of its set has a
channel, and an escape channel then does not help: if one range that is taken is
enough to wait, `min_adapt_torus` on a ring of four routers can deadlock. `xy_yx_cmesh` with 8
routers a side sends packets back and forth on express channels for ever.
`min_adapt_mesh` gives requests' channels to replies, by an escape range that begins at 0. Odd numbers of channels
overlap at the middle one where a function halves them. `valiant_torus` and
`valiant_ni_torus` read the flit's partition before anyone sets it and are not
modelled. The tables of anynet may loop with the endpoint rule, and
`AnyNet::route` does not end on a network that is not connected.
`KNCube::InsertRandomFaults` never inserts one. Nodes always consume what arrives.

**Network.** When no packet is outstanding `Step()` only moves the time on
(interconnect_interface.cpp:220-224), but credits of the last packet may still wait
in a channel of more than a few cycles (the chip-to-chip links of anynet). The next
step finds them past due, and `Channel::WriteOutputs` asserts (channel.hpp:125). The
run has channels of one cycle, and one of two cycles where no cycle is left out, so
that this does not happen there. `outstandingFlits` counts by node id where a router
is meant and looks at subnetwork 0 only; the model has one node to a router and one
subnetwork. `IncVcBufferSize` (networks/network.cpp:331) enlarges the upstream
credits and not the buffer. With `vc_alloc_delay` above 1 the assertion of
iq_router.cpp:785 does not hold. iSLIP and others ignore priorities.

**Bridge.** With a timing core, `CoreRecorder::recordAccess` continues from the
record's `endEvent` (core_recorder.cpp:118-147), which the bridge sets to its
*transmit* event (booksim_net_ctrl.cpp:283), so that the core's next event runs
before its `minStartCycle` and the assertion of timing_event.h:204 fails; the
configurations in the repository use OOO or simple cores, and the module an OOO
core. The memory behind the network must leave a record
(booksim_net_ctrl.cpp:196), which `SimpleMemory` does not. When a dirty victim of
the L3 is written back, its chain is delayed twice (cache.cpp:139 and the event's
own start), which is off the critical path. A `parentRTT` other than 0
would move the response past the receive event. `nocCount` and `cpuCount` are not
initialised (the module starts them at 0), and matter only when the clocks differ.
The zero-load latency counts the hops of a mesh; in a torus the way round may be
shorter and the assertion of line 446 fails. A line's sharers are named by core
(line 174) and by child, so the module has private L2s. Left out are the locks
(`netLockAcc` before `netLockInv`, the child's lock released first), several
networks of one kind (only one is ticked, init.cpp:643), and simple cores, which
record nothing.

## 5. Theorems

| Theorem | Statement |
|---|---|
| `BarrierProofs!TypeCorrect` | `Spec => []TypeOK` |
| `BarrierProofs!BookkeepingHolds` | `Spec => []Bookkeeping` |
| `BarrierProofs!NobodyStranded` | `Spec => []NoneStranded` |
| `BarrierProofs!WakeupsNotLost` | `Spec => []NoLostWakeup` |
| `BarrierProofs!OrderlyNeverPanics` | `OrderlySpec => []NoPanic` |
| `BarrierProofs!ImplementsPhaseBarrier` | `OrderlySpec => PhaseBarrierSpec` |
| `BarrierLoopsProofs!LoopsTheorem` | `CallSpec => []LoopsAsModelled` |
| `BarrierLoopsProofs!LoopsTerminate` | `CallSpec => LoopsEnd` |
| `SchedulerProofs!CleanupIsSafe` | `KillSpec => []CleanupKeeps` |
| `SchedulerProofs!KillTypes` | `KillSpec => []TypeOK` |
| `SchedulerProofs!NothingPanics` | `OrderlySpec => []NoPanic` |
| `SchedulerProofs!EveryoneInPlace` | `OrderlySpec => []ThreadsInPlace` (from `NobodyIsForgotten` and `MasksAreKept`) |
| `SchedulerProofs!TimeStandsStill` | `OrderlySpec => PhaseWaitsForRunners` |
| `SchedulerProofs!OrderHolds` | `OrderlySpec => []OrderInv`, the inductive invariant of the last four |
| `FutexLockProofs!WakeupsOfLockNotLost` | `Spec => []NoLostWakeup` |
| `FutexLockProofs!ImplementsMutex` | `Spec => IsMutex` |
| `CreditFlow!CountExact` | `Spec => []IInv`: the sender's count is exact and within the limit |
| `CreditFlow!BufferSafe` | `Spec => []NoOverflow` |
| `CoherenceProofs!Invariant` | `Spec => []IInv`, the inductive invariant of the next four |
| `CoherenceProofs!NeverPanics` | `Spec => []NoPanic` |
| `CoherenceProofs!DirectoriesAreInclusive` | `Spec => []InclusiveDirectories` |
| `CoherenceProofs!OnlyOneWrites` | `Spec => []SingleWriter` |
| `CoherenceProofs!LocksHaveNoCycle` | `Spec => []NoLockCycle` |
| `CoherenceProofs!FiltersAnswer` | `SameProcess` implies `Spec => []FilterCoherent` |
| `CoherenceProofs!WritesReachMemory` | `SameProcess` implies `Spec => []WritebackNotLost` |
| `FastForwardProofs!OnlyTogglesAreHeard` | `Spec => []HeardToggles` |
| `FastForwardProofs!EntersWhenNobodySimulates` | `Spec => EntersAtPhaseEnd` |
| `FastForwardProofs!FastForwardNeverPanics` | `~LateInserts` and `FFIAlone` imply `Spec => []NoPanic` |

**The barrier's** hold for any finite set of cores, any number of slots, any
period of the compaction and any garbage in `lastIdx` (`BarrierAssumption`).
`Spec` lets cores leave at any time, so the first four cover killed processes.
None of the invariants is inductive alone. The inductive one, `Inv`, is: the
barrier is well formed (`WF`: the list holds exactly the cores that are not
OFFLINE, once each, and the counters count), it is settled (`Settled`: a
core that waits is behind the scan index or all slots are taken), if somebody
waits somebody runs, and the place of a host thread tells its core's state
(`HostThreads`). `OrderlyInv` adds that `lastIdx` is right for every core the
scan passed, which the assertion of `join` needs and abrupt leaves break.
`BarrierOpsProofs` shows operator by operator that the scan, the compaction,
the shuffle, the rewind of a rejoining core and the loop of `tryWakeNext` keep
well-formedness; the main argument there is that the compaction's fillings are
a bijection from holes to surviving tail entries, and the shuffle a bijection
of positions, so a list without repetition stays one.

The refinement `ImplementsPhaseBarrier` maps the list to three sets: the cores that
wait for a slot in this phase (`pending`), that run, and that are done with the
phase. The two lemmas it rests on are in `BarrierOpsProofs`: the scan has passed
every core that runs and, of those that wait, exactly the ones that are done
(`Scanned`, which `TryWakeNextScanned` keeps), so that it wakes pending cores only and
leaves no slot free while there is one; and the phase ends when nobody is pending or
runs (`PhaseEndsWhen`). A step outside the lock is a stutter.

**The loops'** hold for any finite set of cores, any slots and any objects that are
well formed (`InputsAssumption`: `WF`, which `BarrierProofs` shows of every object
that an operation hands to `tryWakeNext`). The invariant of the call, `CallInv`, has
one part per loop. `Walks`: the entries passed that waited are woken, the other cores
as they were, and there was a slot left at each. `Compacts`: the positions before
`idx` hold the cores that stay, and in the place of each that left one from the end
of the list, the later holes with the earlier of these (`Matched`, `Placed`); up to
`newSize` nothing else has moved, but for a core put into the position that is looked
at; the cores dropped are OFFLINE (`Offline`); and each `lastIdx` is that of the hole
its core was put into last, for cores that left too (`Indexed`). `Shuffles`: the list
is a permutation of the one at the start, in which positions not yet reached hold their own entry or one
from behind, and the index of each core that was swapped is its position. The second
walk begins with an object that `CheckEndPhase` allows. `LoopsTerminate` needs only
the types that follow from this. The converse for the shuffle, that its draws can
bring every permutation, would be an induction over the list; it is not stated, as
more orders than the code can draw would only make the properties above stronger.

**The scheduler's** hold for any finite set of cores numbered from 0, any set of
threads, any nonempty masks, any quantum and any bound on sleeps
(`SchedulerAssumption`, which is what the constructor and the configuration check),
and with any barrier of the theorems above inside.

*With kills.* `CleanupKeeps` is not inductive: that a context's thread is a thread of
that context says nothing of the queues which the next operation takes threads and
contexts from. `Consistent` is: contexts and states agree (`Contexts`); the
free list, the queue of OUT threads and the sleep queue hold exactly, and once, what
is in that state, and the run queue holds only QUEUED threads (`Lists`); a thread
is promised a context by at most one other and is then off the run queue with its
futex word set (`Promises`); whoever queues finds all cores of its mask running
(`Conserves`); the barrier is well formed (`WF`), and its cores and the
recorders are exactly the ones whose thread is RUNNING (`Fits`). `Conserves` is what
lets `leave` free a context after `schedContext` found nobody, and `schedTick`
assume a thread on every core it picks. `SchedulerProofs` begins
with three layers:
for each primitive (`Schedule`, `Deschedule`, `Wakeup`, a removal) what the record
is afterwards, field by field; for each kind of change (an exchange of a context, a
placement, a context freed) that it keeps the tables; for each operation that an
outcome is such changes followed by `tryWakeNext`, or a failed assertion. `KInv`
adds where the threads and the watchdog are, as far as kills leave that true.

*Without.* That no assertion fails needs more. `Ready` says of the tables that a
QUEUED thread is on the run queue or promised a context (`Awaited`), that sleepers
are in order with deadlines to come (`Asleep`), and that a thread has, or will be
handed, only what its mask allows (`Allowed`). `AtPlace` gives for every `pc` the
thread's state, its mark, its promise and whether its core has its slot (`Execs`);
`Watched` says that the thread the watchdog is about to leave for is still in its
call on the same core. The last part speaks of time: there is a set `D` of cores
that the barrier has served in this phase, and the thread of each is in
`bsync` with no handoff to do (`Done`). It is what an end of a phase rests on:
`callback` promises contexts of running threads, so at that moment no thread may be
marked for sleep, execute, or owe an earlier handoff. An operation of one thread
therefore either stays within the phase and leaves all the others as they are but for
a context lost or gained (`Lands`), or ends it, and then every other thread that
runs is one of `D` (`Closes`); the two lemmas `LandsOrderly` and `ClosesOrderly`
turn that into the invariant. `TimeStandsStill` is an action property and follows
from the same two.

**The futex lock's** hold for any set of threads. The inductive invariant says
who the holder is, that the word is 0 exactly when nobody is, and that if
somebody sleeps then the word is 2, or a thread is awake that will put a 2 there
or pass the lock on. The refinement maps the moment of acquisition to the
exchange that finds 0, which a timed-out locker may also make.

**Credit flow's** hold for any buffer size and any latency: the count is the sum
of what flies, is stored and comes back. Run `network` shows that every channel of
a network implements `CreditFlow`, so that no buffer overflows there either.

**Coherence's** hold for any tree of caches of any depth, where cores may share
caches at any level, any numbers of ways and any lines (`CoherenceAssumption`).
`TreeAssumption` says that every cache but the root is one step further from it
than its parent, which initialisation makes sure of: one parent per group
(init.cpp:543), one group without (init.cpp:600), and no loop among those below it
(init.cpp:620).

No property of the run is inductive: a call in progress has dropped a lock since it
read what it goes by, and its thread may stand in the middle of a chain of calls.
`IInv` says, for each call in progress and each line:
- `Threads`: what a stack looks like. Accesses climb, evictions and invalidations
  descend from the cache that makes them, and each call was made by the one below
  it for its line (`Shape`); and the holders of `tcc` and `bcc` are exactly the
  threads with such calls in the right places (`HeldTcc`, `HeldBcc`).
- `Calling`: what a call relies on. In its own cache (`Own`): that its way is its
  line's, or the victim's, and that a line it was given permission for still has it
  while the `bcc` lock is held. In its caller's (`Caller`): before it has the
  `bcc` lock the child's line may have been lowered since it was looked at, in just
  the ways that `CheckForMESIRace` resolves (`Knows`); and whom it invalidates is
  still a sharer.
- `Directories`: an entry tells the truth about every child, but for one that asks
  for write permission: `processAccess` takes it off the list of sharers while it
  still has its shared copy (`Owed`).
- `Tags` and `Included`: a line is in one way of a cache; and what is below is
  above, with the permissions it needs.

For each step, one lemma says what changes in the stacks and locks, and others
what it does to the lines. The step that grants a permission and the one that
returns from an invalidation change both a cache and its parent or child, and rest
on what the two calls knew. Other threads' calls keep what they rely on because a
cache's lines change only under its `bcc` lock or from its parent's.

`SingleWriter` is about cores that may have several levels between them and the
cache they share. Going up from both, the deepest cache above one whose parent is
above the other too gives two children of one cache (`Meeting`), whose directory
entry lists both, and which an exclusive entry does not. For `NoLockCycle`, take a
set of threads that wait for one another. Whoever holds a `bcc` lock and waits, waits
for the one of a cache further down (`BccOrder`): had the set a thread that waits for
a `bcc` lock, the deepest such cache would have a holder that waits deeper. So all
wait for `tcc` locks, and whoever holds one of those waits nearer to the root
(`TccOrder`), which ends at the nearest.

The last two need more than `IInv`. `FilterInv` says that an idle core's filter
names lines that its L1 has, with permission to write what it names for writes, and
that a line some core wrote and memory has not seen is modified somewhere or on its
way up. They hold when all addresses belong to one process (`SameProcess`), the only
case in which an invalidation finds the filter's entry (filter_cache.h:155), and it
is at this step alone that the hypothesis is used.

**Fast-forwarding's** hold for any set of processes and any setups, the ones that
deadlock included, with any number of toggles (the runs make up to two).
`HeardToggles` alone is not inductive: a toggle lives between `fftoggle` and the
control thread as a pending store of 0 or as the free word of a lock. `Toggles` counts
each as one: what was heard, what is still to be called and what is on its way
(`Token`) never exceeds the setup's number. Two calls may still become one: `<=` says
that toggles can be lost, and that none is invented. `EntersAtPhaseEnd` rests on two
facts about the callback that runs: it was taken from the queue under its lock
(`Callback`), and a control thread has `arrived` only while the callback is its own
event's and waits for it (`Syncs`).

That no assertion of the handlers fails, and no event comes late, needs the order of
the queue (`Ordered`, which the multimap keeps under insertions) and that an FFI
event belongs to a process that is out of fast-forward, is the only one of its
process, and is not in the queue while its own callback runs (`FFI`). Both
hypotheses name what section 4 reports of the code: `LateInserts` the panic of
event_queue.h:97, and `FFIAlone` that a process with FFI has neither ROI ops nor
toggles, which would enter or leave fast-forward behind its back (zsim.cpp:347). Both
hold in the runs' setups.

Only model-checked: the weave phase, routing, the routers and the bridge. `Weave`,
`NocBridge` and `Routing` walk graphs of events and paths by recursive definitions,
out of the prover's reach, as is induction over data; `Network` counts credits and
slots with folds over sets and sequences, whose sums are such an induction; and
liveness (`JoinersRun`, `ThreadsGoOn` and the other temporal properties under
fairness) is beyond it altogether.

## 6. Not modelled

- Scheduler: futex matching, `needsJoin` (no caller sets it), statistics,
  termination, the run of real leaves when more than eight fake leaves are
  pending, and the pattern that decides which calls are blacklisted (a call may
  or may not be). A process has one thread.
- Coherence: the flags of requests (prefetches, NOEXCL, and PUTX_KEEPEXCL, which
  nobody sets), forwards, non-inclusive caches, several banks above a cache, and
  the requests that a NoC relays between two levels.
- Locks: the spin and ticket locks (one assignment each, and unused) and
  `rwmutex` (used by no other code).
- BookSim2: the event router, the feedback buffer policies, next-hop output
  queueing, speedups, bounded output buffers, several classes and subnetworks,
  the traffic patterns and the statistics of its own experiments, power models.
- Replacement policies, partitioning and its monitors, DRAM timing, the
  out-of-order core's pipeline and the decoder: sequential and numeric; what matters is their
  accuracy, which no invariant states.
- NoC bridge: timing cores, local networks, the locks, and the phases of the
  out-of-order recorder (gap cycles, draining).
- Prefetcher, network latency table, access traces, statistics, virtualized
  files and clocks, the harness, configuration: tables, I/O or start-up code.
- The shared heap is vendored (`g_heap/dlmalloc`).
