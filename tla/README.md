# A verification of Manticore's runtime system in TLA+

Manticore compiles PML, a parallel dialect of ML, and runs it on *vprocs*, one
OS thread each. The compiler is sequential SML; what is hard to get right is
the runtime underneath: C code in `src/src/lib/parallel-rt` and low-level PML in
`src/src/lib/basis`, which share memory, mask signals and schedule each other.
This directory models that part, from the source; TLC checks the models on small
instances and TLAPS proves the main safety results for any number of vprocs,
signals, threads and chunks, and for any size of deques and heaps.

Short names below: `vproc.pml`, `scheduler-action.pml`, `vproc-queue.pml`,
`vproc-init.pml`, `fls.pml` are in `basis/runtime`, `round-robin.pml`,
`classify.pml` and `work-stealing*.pml` in `basis/scheduler`,
`multilisp-future.pml` and `implicit-thread*.pml` in `basis/implicit-thread`,
`alt-prim-chan.pml`, `prim-event.pml` and `cvar.pml` in `basis/cml`, `vproc.c` and
`apply.c` in `parallel-rt/vproc`, `main.c` in `parallel-rt/misc`, `topology.c` in
`parallel-rt/cpu`, `global-gc.c`, `major-gc.c`, `minor-gc.c`, `alloc.c` and `heap.c` in
`parallel-rt/gc`, `os-threads.h` and `heap.h` in `parallel-rt/include`.

## 1. Inventory

| Component | State | Operations | Talks to | What makes it correct |
|---|---|---|---|---|
| Signals between vprocs (`vproc.pml`, `scheduler-action.pml`, `vproc.c`, `apply.c`, `main.c`) | per vproc: landing pad, limit pointer, sigPending, atomic, sleeping, a mutex and a condition | send, receive, preempt, mask and unmask signals, heap check, timer ping, sleep, nanosleep, wake | everything: it is the only way to another vproc | no signal is lost, taken twice or left behind; a sleeping vproc wakes |
| Thread queues (`vproc-queue.pml`) | primary and secondary queue, two lists each | enqueue, dequeue, poll the pad, dequeue with a predicate | the scheduler of the same vproc | FIFO; no thread lost or duplicated |
| Round-robin scheduler (`round-robin.pml`, `classify.pml`) | queues, sleeping list, currTime, each thread's doneComm flag | handle STOP, PREEMPT, BLOCK, SLEEP; dispatch; wait for work | queues, landing pad, clock | every ready or sleeping thread runs again; a vproc with work does not sleep |
| Startup and shutdown (`vproc.c`, `apply.c`, `main.c`, `vproc-init.pml`, `topology.c`) | InitData_t, two barriers, ShutdownFlg, shutdownPending, a counter | discover the machine, place and start the vprocs, return, count down, exit | signals | each vproc at its own place; all start, and all stop, none before the others are done |
| Work-stealing deque (`work-stealing-deque.pml`, `gc/work-stealing-deque.c`) | circular buffer, claim count | push and pop at the new end, pop at the old end, resize, prune | the work-stealing scheduler, the collector | a bounded double-ended queue; memory is freed when unclaimed |
| Work stealing (`work-stealing.pml`) | deques, idle flags, nIdle, terminated | spawn, steal through a signal, idle, terminate | deques, signals, round-robin | no task lost; terminated only when there is no task |
| Global collection (`global-gc.c`, `os-threads.h`) | GCLock, in-progress and ready counters, three barriers, chunk lists | start as leader or follower, forward, scan, finish | signals (interrupts every vproc) | all take part in each collection, nobody waits for ever, the scan ends when all is scanned |
| CML (`alt-prim-chan.pml`, `prim-event.pml`, `cvar.pml`, mvars) | channel queues, event flags, waiter lists | send, receive, choose, synchronise, wait, signal | signals, round-robin | one partner each and one return; no thread blocked with a partner waiting; messages of their senders |
| Locks, barrier, Cilk-5 deque (`basis/synch`) | locks, THE indices | lock, push, pop, steal | schedulers | mutual exclusion; each element goes to one taker |
| Implicit threads (`basis/implicit-thread`) | futures, ivars, cancelation trees | create, touch, cancel | work groups | a future runs once; cancelation reaches all children |
| Memo tables, oracle and other experimental schedulers | caches, heuristics | | | |
| Local collections and the heap (`minor-gc.c`, `major-gc.c`, `alloc.c`, `heap.c`, `heap.h`) | each vproc's local heap and its pointers, its list of chunks | allocate, promote, minor and major collection | compiled code, the global collection | invisible to the program; the next collector can walk what they leave; there is room afterwards |
| Compiler, log tools, parallel arrays and ropes, sequential library | | | | |

Hard behaviour in this code: compare-and-swap loops between vprocs, flags that
one vproc writes and another reads without a lock, a preemption request that is
nothing but a zero in the limit pointer and can be consumed at any heap check,
sleep and wakeup with a missing lock, time limits, scheduling policies that can
starve, counters that detect termination, and a collector that walks memory while
it fills it. `PROJECT.json` lists the hazards at
their lines, with the properties that cover them.

## 2. What is modelled

### `VProcSignal`: signals between vprocs

A step is one shared access of the code. The variables are the fields of
`VProc_t` and the registers that live across steps:

| Variable | Code |
|---|---|
| `landingPad` | `vp->landingPad`, the list with the newest item first |
| `limitZero` | `vp->limitPtr == 0`, the request for a preemption |
| `sigPending`, `sleeping` | the fields of the same names |
| `blocked` | membership in the wait set of `vp->wait` |
| `pc`, `cur` | where the vproc is, and the fiber it runs; `atomic` is false exactly at `pc = "thread"` |
| `ready`, `done` | the vproc's thread queues as a set (their order is `RoundRobin`'s), and the stopped fibers |
| `item`, `dst`, `seen` | the arguments and `ldgPadOrig` of a send or receive |
| `started` | the vproc has left `IdleVProc`, whose sleep has no time limit |

| Actions | Code |
|---|---|
| `SendBegin` .. `SendPreempt` | `@send-in-atomic`: load, CAS and retry, test the sleeping flag, `VProcWake`, zero the limit pointer |
| `PollEmpty`, `PollNonEmpty`, `RecvLoad`, `RecvCAS` | `@recv-in-atomic` inside `@poll-landing-pad-in-atomic` |
| `AtomicBegin`, `AtomicEnd`, `Stop`, `Dispatch` | `scheduler-action.pml` and `dispatch` |
| `HeapCheck`, `HeapExhausted` | the loop of `RunManticore` for `REQ_GC`; masked code only records the signal |
| `Ping` | the timer thread, which skips a vproc that it sees asleep |
| `SleepRequest` .. `SleepExit` | `REQ_Sleep`, `VProcNanosleep` and `VProcSleep`, with spurious wakeups and timeouts |

A vproc falls asleep under `vp->lock`, but no sender takes that lock, so it
excludes nobody and is not a variable. A vproc that tries to zero a limit
pointer with a CAS succeeds in the end and the value is then zero; the retries
are one step. A signal is a fiber of its own and sent once; a fiber that is on
the pad of two vprocs would be run by both.

`Mailbox` is the abstract specification: a pad that anyone may put a signal on
and only its owner empties, all at once. `VProcSignal` implements it with
`box <- landingPad`, and `taken` the signals its destination has got.

### `VProcQueue` and `RoundRobin`: threads of a vproc

`VProcQueue` has the operations of the two-list queues as functions from queues
to queues, and `Lists` the selection of elements that it shares with the channels of CML.
`RoundRobin` EXTENDS both with the scheduler: one action per signal
handler, because a handler runs with signals masked and works on its own
vproc's data. It touches what other vprocs see once (it takes the pad) and the
clock once. How a pad works inside is left to `VProcSignal`, which justifies
taking it in one step (`ImplementsMailbox`).

`Stop`, `Preempt`, `Block` and `Sleep` each do all their handler does: move or
demote threads by the classification, update `doneComm`, put the thread away,
poll the pad and wake sleepers where the code does. `Dispatch` takes the next
thread, `WaitPoll`, `WaitWakeup` and `NanosleepReturns` are `waitForWork`,
`LeaveIdle` is the first signal to a vproc in `IdleVProc`, and `EnqueueReady` is
a thread that spawns or resumes another, here or on another vproc. A lost
wakeup of `LeaveIdle` is `VProcSignal`'s subject and is not repeated.

Time is kept relative to the present, so that the state space is finite without
a bound on the clock: a sleeper's `left` is how long until its wake-up time (or
`Past`), and `lag` the age of `currTime`, cut off at `LongAgo`, after which no
sleep could still be short of its end. A duration is given in nanoseconds and
added to a clock in microseconds (`time.pml`), so a sleep of d microseconds
takes `d * NsPerTick` of them: the code oversleeps by a factor of 1000. The
theorems hold for any `NsPerTick`; the run has 1, because the factor only makes
sleeps longer.

In every module, definitions marked as faulty variants are deliberate bugs, for
the mutation check of the properties.

### `ToSpace`, `GlobalGC` and `StopTheWorld`: the global collection

`ToSpace` has the chunks: their status, the lists of the nodes (as sets), the
list of each vproc and the parallel scan. `GlobalGC` EXTENDS it with
`StartGlobalGC`. The data is abstracted to counts: `copied[c]` objects have come
to chunk c in this collection and `scanned[c]` of them have had their fields
scanned. `scanned` stands for the chunk's `scanProgress` and for the scan
pointer of the vproc that is at it, which agree whenever one of the two is read.
Scanning an object may copy any number of others, up to `MaxLive` in a
collection; an object that another vproc forwards first may still cost a chunk.

| Actions | Code |
|---|---|
| `NewChunk` | `EnsureGlobalSpace`, or a promotion or major collection that fills a chunk |
| `Enter` | the end of `MajorGC` and the two resets at the head of `StartGlobalGC` |
| `Lead`, `Interrupt`, `LeaderWait` | the leader, under `GCLock`: one step for each interrupt |
| `Follow`, `FollowerWait` | a follower |
| `Setup`, `StartCopying`, `DoneCopying`, `AfterCopying`, `Resume` | what lies between `GCLock`, the three barriers and the end; `AfterCopying` of the leader reclaims from-space and sets the limit |
| `Forward`, `RootsDone` | `ForwardObjGlobal`, `GlobalGC` up to its scan |
| `GetNextScanChunk`, `WakeScanWait`, `BroadcastScanWait`, `SignalScanWait` | the loop of `GetNextScanChunk` and the two calls that wake, which are made without the node's lock |
| `ScanObject`, `ScanMore`, `ScanDone` | the body of `ScanGlobalToSpace` |
| `SpuriousWakeup`, `SpuriousReturn` | condition variables may return unasked |

A vproc's private work between two synchronisations is one step, and arriving at
a barrier belongs to the step before it. The barrier is the one of
`os-threads.h`, whose counter is set back only by the leader's `BarrierInit`. An
interrupt sets `globalGCPending`; its way through pad and limit pointer is
`VProcSignal`'s. Which of several free chunks is taken makes no difference, so
one is CHOSEN.

`StopTheWorld` is the abstract specification: running, stopped, copying,
finished, where nobody copies before all have stopped and nobody continues before
all have finished. `GlobalGC` implements it with a `status` read off the `pc`.

### `WorkStealingDeque` and `WorkStealing`: work groups and futures

`WorkStealingDeque` has the circular buffer and its operations as functions from
deques to deques. `WorkStealing` EXTENDS it with the workers and thieves of one
work group and with a program of futures, the main thread and up to `MaxFutures`
others, called in any nesting.

| Variable | Code |
|---|---|
| `primary`, `resumeDeques` | the two fields of the vproc's entry in `PerVProcLists` |
| `pc`, `nTries` | where the worker is in `schedLp` and `@idle-loop-in-atomic` |
| `running` | the task that runs under the worker, `NoTask` when none does |
| `victim`, `ch` | the cell of the worker's thief: NONE while `victim` is a vproc, then the list |
| `idleFlags`, `nIdle`, `terminated` | the group's array, counter and flag |
| `calledBy`, `done`, `waiters` | each future's context, and its ivar |

| Actions | Code |
|---|---|
| `Start`, `RunNext`, `RunResumed`, `RunDry` | `init` and `executeNextTask` |
| `Preempt`, `YieldReturns` | `schedLp` on PREEMPT (and BLOCK, the same code) |
| `StealFromSelf`, `SkipIdleVictim`, `SendThief`, `Answered` | `@try-steal-in-atomic` and `@thief-in-atomic` on the worker's vproc |
| `Thief` | the fiber `thief` on the victim's vproc |
| `LastTry` .. `Activate` | the rest of the idle loop; each access to `nIdle`, `terminated` and the flags is a step |
| `Begin`, `WorkGroupStarted`, `EndMain` | entering and leaving the group |
| `CallFuture`, `EndBody`, `RaiseInBody` | `@future-no-cancelation` up to the call of the body, and its two ends |
| `TouchEmpty` | `@get` on an empty ivar; a touch of a full one changes nothing |
| `Prune` | `PruneDequeList` at a collection |

A thief runs with signals masked on the vproc whose deques it takes from, so it
is one step, possible while the worker there has yielded or runs with signals
unmasked (`Released`). How it gets there is the matter of `VProcSignal` and
`RoundRobin`. The victim is a random one, so any; spinning and sleeping are one
state, `asleep`. The steps of `@get` and `@put` inside the spin lock are one
step, and so is the end of a body: between `@remove-task` and its stop a body
touches the deques of its own vproc only, and a preemption in between would put
it away and bring it back. `@spawn-task` on a full deque raises an exception;
this is left out, the deques of the run have room for all tasks.
Claims of a deque are counted up to 1, since they are compared with 0 only.

### `CmlEvents`: channels, choices and condition variables

An operation is begun by a thread and has a number, which stands for its
continuation, its message and its items. `what[id]` says what it is: a plain send,
receive or wait, a signal, or a synchronisation on a sequence of base events.

| Variable | Code |
|---|---|
| `queue`, `lock` | the two queues and `CH_LOCK` of each channel |
| `item` | the item a thread has taken off a queue and not matched or put back |
| `local`, `state` | the flag object `@sync` allocates, and the flag that items point to |
| `promoted`, `forwarded` | whether `state` is a copy of `local`; whether the thread's own pointer has been forwarded to it |
| `cvState`, `waiting`, `toWake` | `CV_STATE`, `CV_WAITING`, the list that `signalWaiting` walks |
| `resumed`, `got` | history: how often a continuation was thrown to or enqueued, and what a receive got |

| Actions | Code |
|---|---|
| `Try`, `Spin`, `TryEmpty` | `tryLp` and `matchLp` of `@chan-send`, `@chan-recv` and the two `doFn`s, the same loop four times |
| `Poll`, `DoEvents` | `poll` and `doEvt` of `@sync` |
| `BlockEmpty`, `BlockTake` | a `blkFn` that finds nobody, or takes an item |
| `Claim`, `ClaimFails`, `Match`, `MatchFails`, `RollBack` | the two CASes of a `blkFn`'s `matchLp` and their branches; `Match` of a send keeps the channel's lock |
| `TryWait`, `BlockWait`, `BeginSignal`, `WakeWaiter` | `cvar.pml` |

A step is one CAS with what is done before it under the lock. `promote` in the
first `blkFn` copies the flag to the global heap, since the item points to it; the
thread's pointer keeps denoting the old object until a collection, which may fall
between any two later steps (`MayCollect`). All of this is in the code, and is where
the violation `cml_choice` comes from. Which vproc a thread is on is left out:
signals are masked during an operation. A synchronisation has at least one base event,
because a `pevent` is one or a choice of two.

### `HeapSizes`, `LocalHeap`, `HeapLayout` and `ObjectGraph`: the local collections

`HeapSizes` is the arithmetic of `heap.h` in words. `LocalHeap` has one vproc's
memory as a function from data addresses to objects, each with fields, a forward
pointer and a name that no copy changes. The collectors are written as the code
has them: forward the roots, then scan what has been copied, header by header, up to
a top that moves meanwhile. The vproc does this alone, so each collection is
a step, except that the end of a minor one (`MinorEnd`) is separate from its
copying, where the code decides whether to go on to `MajorGC`.

| Actions | Code |
|---|---|
| `AllocLocal`, `AllocGlobal`, `Load`, `Compute` | the program: `alloc.c` and compiled code |
| `Promote` | `PromoteObj` |
| `MinorGC`, `MinorEnd` | `MinorGC` and its last part, with `SetAllocPtr` |
| `MajorGC` | `MajorGC`: roots, the young objects, the scan of the new chunks (`ScanGlobalToSpace`), the memmove, `PushToSpaceChunks` |

Two abstract specifications: `ObjectGraph` is what the program may know, objects
that refer to each other and are forgotten when no root leads to them;
`LocalHeap` implements it by reading names off addresses. `HeapLayout` has the
regions only, with any number of survivors; `LocalHeap` implements it too, and the
proofs are about it. A collection asked for by `globalGCPending` is followed by the
global one in the code, which is `GlobalGC`'s. Left out: raw objects and big
arrays, the difference between the headers of vectors, raw and mixed objects, and
statistics.

### `Placement` and `Lifecycle`: startup and shutdown

`Placement` is the arithmetic by which `VProcInit` gives each vproc a hardware
thread, with the three bit fields of a `Location_t`. `Lifecycle` EXTENDS it.

| Actions | Code |
|---|---|
| `Spawn`, `NewVProc`, `FreeInitData`, `RunInitFn` | `VProcInit`, `NewVProc`, `InitBarrier` |
| `SleepEnter`, `SleepTest`, `SleepBlock` | `VProcSleep` of `IdleVProc` |
| `Top`, `HeapCheck`, `SleepRequest`, `SleepExit` | the loop of `RunManticore` |
| `ProgramSignal`, `Ping` | what the program and the timer do to other vprocs |
| `Return`, `Push`, `Wake`, `Preempt` | `REQ_Return`: for each vproc in turn a push, a test of the sleeping flag, a zeroed limit pointer |
| `CountDown`, `VProcExit`, `Leave` | `shutdownCont`, `ShutdownBarrier`, `exit(0)` |

A signal of the program is one step, and only the first one to a vproc in its
initial sleep matters here. Left out: collections while vprocs spin
in `shutdownCont`, the end of the process by a Unix signal, and lists of processors
on the command line.

## 3. What the runs show

| Run | Instance | Properties |
|---|---|---|
| `vproc_signal_safety` | 3 vprocs, 2 signals, symmetric, 1.5 million states | `TypeOK`, `PreemptionOwed`, `ImplementsMailbox` |
| `vproc_signal_live` | 2 vprocs, 2 signals, 70,000 states | `ReceivedIfStarted` |
| `lost_wakeup` (violation) | 2 vprocs, 1 signal | `ReceivedIfIdle` |
| `round_robin` | 2 vprocs, 3 threads, 2 of them sent to either vproc, sleeps of 1, 370,000 states | `TypeOK`, `OneHome`, `NeverIdleWithWork`, `PrimaryServed`, `SleepersWake`, `PadPolled` |
| `global_gc` | 3 vprocs on 2 nodes, 2 objects per collection, 1 to a chunk, symmetric, 2.5 million states | `TypeOK`, `ImplementsStopTheWorld` |
| `global_gc_live` | 2 vprocs on 1 node, 3 objects, 2 to a chunk, 55,000 states | `ChunkHome`, `SizeIsCounted`, `ReclaimedWhenScanned`, `CollectionEnds` |
| `work_stealing` | 2 vprocs, 2 futures, deques of 4 slots, 67,000 states | `TypeOK`, `OneHome`, `ContextOnTop`, `FinishedWhenTerminated`, `DequeOrder`, `ThiefAnswers`, `TasksEnd`, `WorkersStop` |
| `cml_events` | 3 threads, 2 channels, 4 operations with at most 2 choices, symmetric, 300,000 states | `TypeOK`, `OnceUnlessChoice`, `NoMissedMatch`, `MessageIntegrity`, `WaitersKept`, `Fifo` |
| `cml_choice` (violation) | 3 operations, one a choice of two sends | `ResumedOnce` |
| `local_heap` | a local heap of 20 words, 3 objects, 2 roots, 2 chunks of 8 words, 280,000 states | `TypeOK`, `ChunksParse`, `PointersKept`, `ImplementsObjectGraph`, `ImplementsHeapLayout`, `CollectionMakesRoom` |
| `global_alloc` (violation) | as `local_heap`, with `GlobalAllocNonUniform` | `ChunksParse` |
| `lifecycle` | 3 vprocs on three machines, 110,000 states | `TypeOK`, `ShutdownIsFinal`, `LocationsOK`, `ProgramExits` |

*Signals.* `ImplementsMailbox`: a signal is put on one pad and taken once, whoever
competes. `PreemptionOwed`: a vproc that runs fibers while a signal waits on its pad has its limit pointer
zeroed, has recorded the signal, or has a sender on the way to zero it, so no
order of pushes, heap checks, ticks, dispatches and sleeps uses up the
preemption of a signal that is still on the pad. `ReceivedIfStarted`: once a
vproc has left its first sleep every signal is received; the wakeup can be lost
but the nanosleep ends. Three vprocs give two senders that compete for one pad
while its owner receives, and a vproc that is sender and receiver; two signals
give a retried CAS and a pad of two. The liveness run has two vprocs: the
competition of two senders is in the safety run, and progress depends on one
vproc's pad, sleep and timer.

*Scheduler.* `OneHome`: over queues, pads, sleeping lists and running threads,
no thread is lost or in two places. `NeverIdleWithWork`: no vproc waits or
sleeps with a thread on either queue. `PrimaryServed`: a thread
on a primary queue gets its turn although the pad jumps the queue.
`SleepersWake`, `PadPolled`: also on a vproc that never runs dry. The three are
stated as "again and again, no thread is there", which is the same as that one who
is there leaves, and cheaper to check. Three threads let one vproc send a thread, again and
again, to a vproc on whose primary queue another one waits: the pad is put before
it. Four fibers can meet on a queue (with the dummy fiber of the second vproc),
which makes the tail list be reversed, demotion and promotion both happen, and
threads move between the vprocs through the pads. Any thread may sleep, so that one of a vproc's sleepers can be due and another not.
`Movers` is a bound: in the run the main thread, which starts on the lead vproc, is only
resumed there, locally or through its pad, while the other two go to and fro. In the
theorems any thread may be sent anywhere.

*Global collection.* `ImplementsStopTheWorld`: see above. Three vprocs give two
followers and a node with two scanners next to a node with one; the symmetry is that
of the two on one node. One object fills a chunk in this run, so the second one that a vproc
copies, of its roots or while it scans, begins another chunk, and the full one goes to
the node, for either of its vprocs to scan. The three vprocs have three chunks, which is
`MaxToSpace`: the program begins none between collections (`NewChunk`) in this run.
The second run has fewer vprocs and larger chunks: there `NewChunk` happens, and a
chunk can fill up while it is scanned. So the chunks are followed there.
`ChunkHome`: a chunk is on one list, of one vproc or being scanned, with the status
that fits, while chunks are filled, pushed to the node, taken by whichever vproc
scans next and put on the scanned list. `SizeIsCounted`: `ToSpaceSz` is the size of
to-space whenever somebody decides by it, so its reset never races with an
allocation. `ReclaimedWhenScanned`: from-space is freed only when every object in
to-space has been scanned. `CollectionEnds`: who enters a collection gets out.
That chunks are in one place and counted with more vprocs and nodes is proved
(`HomesCorrect`, `SizesCorrect`). In both runs `Chunks` is never used up, and several
collections follow each other, from the limit and from a flag that
a vproc keeps (see below). Deadlock is not checked, because a program that allocates nothing more
stops; `CollectionEnds` excludes the deadlocks that matter. A scan that is
declared complete too early (a stale `completed`, a count not taken back) costs
parallelism only: each vproc goes on until its own chunk and the node's list are
scanned. So no property depends on that reset.

*Work stealing.* `OneHome`: over deques, answers of thieves, blocked lists and
running tasks, a task that is not over is in exactly one place. `ContextOnTop`:
who ends a body finds its context on top of a deque that is not empty, which is
what makes the slow clone, who drops whatever else it pops, right.
`FinishedWhenTerminated`: the count of idle workers reaches all of them only when
no task is left, although a stolen task travels in a cell, a waiting worker does
not count as idle and `nIdle` starts at -1. `DequeOrder`: a deque changes at its
ends only, and the old end only for a thief. `ThiefAnswers`, `TasksEnd`,
`WorkersStop`: nobody waits for ever for a thief, no task is forgotten, and a
declared end stops everybody. Two
vprocs steal from each other, while both may have a thief on the way; two
futures give nested and sibling calls, a touch that blocks, a resumption on
another vproc and two contexts on one deque. Four slots hold the three tasks and
the open slot, so that both ends wrap around. (The safety properties also hold for
three vprocs, with 2.1 million states.)

*CML.* `OnceUnlessChoice`: plain operations and choices of one return once,
whatever choices others make, although matches, claims and roll backs race on
their flags. `NoMissedMatch`: a send and a receive never both wait, whatever stale
items lie before them. `WaitersKept`: who waits can still be found, while items are
taken off and put back and lists of waiters are handed over. `Fifo`: an item that is put
back is at its old place. `MessageIntegrity`: a plain receive gets the message of
one send, and no other does. They are stated for plain operations, because a
choice that is resumed twice breaks all of them. Four operations let a choice wait
for one partner while two others come and go; the choice of a send and a receive on
one channel meets its own items.

*Heap.* `ChunksParse`: the used part of a chunk is whole objects one after the
other, as the scans assume. `PointersKept`: no pointer from the global heap into a
local one, from old data into the nursery, or to nowhere. `ImplementsObjectGraph`:
program and collector agree on every field, after any sequence of allocations,
promotions and collections. `ImplementsHeapLayout`, `CollectionMakesRoom`: survivors
fit, and a collection is not asked for again at once. The heap is small enough to
be collected after three objects, and large enough for old data, survivors and
nursery to coexist; chunks of 8 words fill up while they are scanned and promoted
into. Deadlock is checked: a collection always comes to its end.

*Lifecycle.* `ShutdownIsFinal`: nobody exits before everybody has stopped running
the program. `ProgramExits`: once the program returns and every vproc has left its
initial sleep, the process ends. `LocationsOK`: every vproc is on a hardware thread
of the machine, on its own while there are enough, and nodes get equal shares. Three
vprocs give every layout: nodes with one and two vprocs, cores with one and two,
and dense. Deadlock is not checked, since the program ends.

*Violations.* These are disagreements between the code and its comments:

1. `lost_wakeup`. `VProcWake` signals without `vp->lock`. Between the sleeper's
   test of the pad and its wait, the wakeup goes to nobody. In
   `VProcNanosleep` the timeout repairs this; `VProcSleep`, "put the vproc to
   sleep until a signal arrives" (vproc.c:494), sleeps on until another signal
   comes, and the timer does not ping it. This is also why `ProgramExits` asks for
   vprocs that have left that sleep: the signal of a shutdown can be missed too.
2. `cml_choice`. A choice's flag is local; the first item takes a copy of it to the
   global heap. Another thread matches that item and sets the copy to SYNCHED. The
   next `blkFn` does its CAS on the old object, which is still WAITING, and matches
   a second partner: `@sync` returns twice. "we must check to make sure that some
   other thread has not already claimed the event" (alt-prim-chan.pml:425).
3. `global_alloc`. `GlobalAllocNonUniform` reads `globNextW`, then makes sure of the
   space, which may begin another chunk. The object is then written behind the
   used part of the old chunk, "[baseAddr..usedTop) is the part of the chunk in
   use" (internal-heap.h:31), and as many words of the new one are skipped.
   `VProcSendSignal` uses it for every signal.

Seen while modelling, and not runs:

- The `blkFn` of a send that matches a receive does not unlock the channel
  (alt-prim-chan.pml:552), and that of a receive hands over field 2 of the item, the
  sender's vproc, instead of the message (line 442). A roll back stores WAITING to
  the partner's flag, not to its own. `CmlEvents` does the same.
- `cvar-wait-evt` leaves signals masked when its `doFn` runs and allocates a flag of its
  own in its `blockFn`, so that a choice with it can be resumed twice as well.
- A SLEEP may end before its time: `addToSleepingList` adds to the cached
  `currTime`, 0 at the start (round-robin.pml:31), while scheduler-action.pml:43
  promises "a minimum of t nanoseconds".
- A vproc that enters a global collection by itself clears `globalGCPending` before
  it has `GCLock`; the leader sets it again, and the vproc stops everybody for one
  more collection (global-gc.c:176).
- `@spawn-task` fills a deque up to its last slot but one; a preemption then pushes
  one more, and the deque is empty (theorem `PushOnFullLosesAll`, for every size; in
  the code the size is 64000).
- Looking at the resume deques claims them all and releases none, so that an
  emptied one is never freed (work-stealing.pml:167).
- `LogicalId` masks a sum, since `+` binds tighter than `&` (topology.h:72), so a core's
  number over all nodes is taken modulo 256. A location has room for "max 2^8 cores per
  node" and "max 2^10 nodes per system" (topology.h:30-31), but on five nodes of 64
  cores the first core of the last one has the number of the first core of all, and
  five vprocs get four hardware threads. (TLC finds `LocationsOK` violated there;
  up to 256 cores in all it holds, theorem `VProcsWellPlaced`.)
- `-p` divides by `NumHWCores` of the whole machine where it means those of a node
  (vproc.c:156). `GlobalAllocRawArray` makes sure of as many words as it has elements,
  whatever their size (alloc.c:172); nothing in a default build calls it.
- The secondary queue is served only when the primary one is empty. Two threads
  that resume each other, each preempted once per turn, keep a third, demoted one
  from running for ever.
- The end of a work group is found by chance only: workers alternate between idle
  and active, and no schedule forces them to be idle all at once. So no property
  says that a group whose tasks are over is declared finished.
- `terminated` is never reset. All workers going idle while the main thread is
  blocked outside the group (in a CML operation) stops them for good.
- A thread of a group that CML resumes through `VProcQueue` runs outside its worker;
  the end of a body there would pop a thread of whatever deque it finds and drop
  it. The model's threads block on ivars only.
- heap.c:40-48 describes a heap limit of at
  least `BaseHeapSzB + NumVProcs * PerVprocHeapSzb`. The code (global-gc.c:349-352)
  uses neither the base, after the first collection, nor the configured
  `PerVprocHeapSzb`.

### Fairness

`Lifecycle`: weak fairness of the main thread and of what each vproc does
whatever the program is, heap checks included; strong fairness of counting
down and leaving the spin, since between two ticks of the timer a vproc executes
more than a heap check. None of the program, which need not return, nor of the
timer. `CmlEvents` and `LocalHeap` have safety properties only.

`WorkStealing`: weak fairness of the worker's own steps. Strong fairness of the
thief: a fiber on the pad or queue of a vproc gets its turn there (`PadPolled`,
`PrimaryServed`), provided the worker gives the vproc up again and again, which
its yields, and preemptions of the tasks, bring about. Strong fairness of the ends of tasks: the program's
bodies are finite and go on whenever they are scheduled; nothing requires a task to
call or touch a future.

`GlobalGC`: weak fairness of each vproc inside a collection (the OS runs every
thread; locks are held for one step, or by the leader for as many as it has
interrupts to send) and of entering when a collection is pending (compiled code
reaches a heap check). A vproc in the untimed sleep of `IdleVProc` can miss this
interrupt, see violation 1: then the leader waits with everybody else. None of
the mutator's allocations or of spurious wakeups.

`VProcSignal`: weak fairness of what a vproc does by itself (the OS runs every
thread; a section with signals masked ends; a timed wait times out), of the
heap check (every cycle of compiled code has one,
`cfg-opt/add-alloc-checks-fn.sml:6-12`) and of the timer's ping. No fairness of
fibers that stop, mask signals or send, nor of spurious wakeups.

`RoundRobin`: weak fairness of the scheduler's own steps and of the clock.
Strong fairness of `Preempt`: the timer zeroes the limit pointer of a vproc that
is not asleep again and again, and a vproc that runs threads over and over is
caught in one now and then. This is an assumption about threads long enough to
reach a heap check with signals unmasked; a signal recorded while signals are
masked is delivered at `@atomic-end` or at the next unmasked heap check, not by
`@stop`. No thread ever has to stop, block, sleep or resume another one.

## 4. What is proved

`VProcSignalProofs`, for all sets of vprocs and signals that satisfy
`VProcSignalAssumption` (the lead is a vproc, names differ):

- `TypeCorrect`, `Spec => []TypeOK`. `TypeOK` alone is not inductive: that a
  preempted fiber is a fiber needs that a vproc has a current one exactly while
  it executes one's code, and that a sender holds its signal until the push.
  `TypeInv` adds the two; one lemma per group of actions shows it preserved.
- `PreemptionNotLost`, `Spec => []PreemptionOwed`. The invariant is inductive
  with `TypeInv`. Most steps are covered by one notion, `KeepsOwed`: the step
  leaves the others' registers alone, only empties pads, and leaves its vproc
  with the request it had or with an empty pad. Only a push makes a debt, and it
  leaves the sender on the way to pay it.
- `LandingPadIsMailbox`, `Spec => ImplementsMailbox`: the loads and CASes on a pad
  implement a mailbox. What has to be shown beyond `TypeInv` is `SendsUnsent`: an item
  that a sender holds, between its first load and the CAS that succeeds, is on no pad,
  has been received by nobody and is held by no other vproc. A step that moves fibers
  between the queues of one vproc maps to a stutter (`KeepsLandedIsStutter`), a push and
  the receiver's exchange to the two actions of `Mailbox`.

`RoundRobinProofs` begins with the queues, for any threads: enqueueing appends to the
sequence that a pair of lists stands for (`EnqueueAppends`, `SecondaryEnqueueAppends`) and
dequeueing takes its first element and keeps the rest in order, whether or not
the tail list is reversed (`PrimaryDequeueTakesFirst`). They rest on the lemmas of
`ListProofs` about `Reverse`, concatenation and `SelectAt`. Three more say the same of
sets, for proofs that only ask where a thread is: with every thread on one list once
(`EachOnce`), an enqueue adds its thread (`EnqueueKeepsThreads`), a delivery all that it is
given (`DeliverKeepsThreads`), and a dequeue takes one thread and keeps the rest
(`DequeueKeepsThreads`).

Of the scheduler, for any vprocs and threads that `RoundRobinAssumption` allows, any
lengths of sleeps and any bound on the cached time: `TypesCorrect`, `HomesCorrect`
(`Spec => []OneHome`) and `NeverIdle` (`Spec => []NeverIdleWithWork`). The inductive
invariant `Inv` is the conjunction of

- `TypeOK`;
- `Homes`: what a vproc has (its queues, its pad, its sleepers and the fiber it runs)
  it has once, no two vprocs have the same thread, and every thread that no `IdleVProc`
  has set aside is had by one. It is `OneHome` stated with sets, so that a handler is
  proved to move a thread by the lemmas about the queues;
- `IdleParked`: `dummyK` of a vproc is on no list before the first signal to it. Without
  this, `LeaveIdle` could enqueue a fiber that some list has already;
- `NeverIdleWithWork`.

A handler is a chain of functions on one vproc's lists, so a lemma (`Rehomed`) reduces
each action to what its own vproc has before and after, and one lemma per stage
(`MoveThreadsKeeps`, `PutPreemptedKeeps`, `WakeupKeeps`, `DeliveredPad`) says what the
stage adds. `Ranks`, `Positions` and `Selected` of `ListProofs` show that the two halves of
`List.partition` have the elements of the whole, each once.

`GlobalGCProofs`, for any number of vprocs and nodes, any chunks that give each vproc one
(`FirstChunks`) and any limits; the sets of vprocs and of chunks are finite, because the
code counts both. It proves `StopsTheWorld` (`Spec => ImplementsStopTheWorld`),
`TypesCorrect`, `SizesCorrect`, `HomesCorrect` and `ReclaimsScanned`, from two invariants:

- `ControlInv` is about where the vprocs can be together and is inductive alone. It
  distinguishes a collection that gathers its vprocs, one that all have entered, and the
  time between: in each it gives the places that occur and ties the counts of the
  leader's handshake and of the three barriers to the number of vprocs at each place.
  A barrier that opens therefore opens because all have come, and it is reset only when
  nobody of the last round is still in front of it. Each step of the program then
  is a step of `StopTheWorld` or a stutter.
- `HeapInv` is inductive with `ControlInv`. What a vproc has of its own depends on where
  it is (`OwnChunks`); each chunk is in one place (`Places`); a node's scan is not over
  while one of its vprocs may still copy or scan, and then nothing is left unscanned
  (`Waiting`, `Detection`, `Scanned`); nothing that the next collection reads is left from
  the last (`EmptyLists`); and `ToSpaceSz` counts the chunks of to-space except from the
  leader's reset to the last setup (`Sized`).

  `ReclaimsScanned` needs the part that is easy to overlook: the allocation chunk of a
  vproc that has found nothing to scan is on no list, and nobody scans it for its owner.
  It has been scanned because the owner scans it last, and copies no more after that.

`WorkStealingProofs`, first for the deque by itself, of every size of at least two
slots, every content and every place where the buffer wraps around: the operations
keep a deque well formed; pushing on a deque with room appends to its contents
(`PushAppends`), popping takes the last (`PopNewTakesLast`) or the first element
(`PopOldTakesFirst`) and keeps the others in order; and pushing on a full one
empties it (`PushOnFullLosesAll`). The key is `SlotsDiffer`: the slots of the
contents differ from the open slot, and only the first and the last of them are at
the ends.

Then for the work group, with any number of vprocs and futures:

- Whatever the size of the deques: `TypesCorrect`; `OwnContextOnTop`
  (`Spec => []ContextOnTop`); and `NoTaskTwice`, the half of `OneHome` that also holds of
  deques that overflow.
- Under `Fits`, which is `MaxFutures + 2 <= DequeSz`: `TasksHaveOneHome`
  (`Spec => []OneHome`), `FinishedAtTheEnd` (`Spec => []FinishedWhenTerminated`) and
  `DequesKeepOrder` (`Spec => DequeOrder`). A deque of `DequeSz` slots has room for
  `DequeSz - 1` threads and there are `MaxFutures + 1` tasks, so `Fits` says that no
  deque ever fills up. Without it these are false: the PREEMPT handler pushes without a
  test, and `PushOnFullLosesAll` is what becomes of the threads. The runtime allocates
  deques of 64000 slots (`DEFAULT_DEQUE_SZ`).

`NextActs` reduces each step to one of a few effects on the contents of the deques, lists
of deques and cells (take the newest, take the oldest, leave an answer, call, ...). Every
invariant is kept effect by effect, so that slots and indices are dealt with once.

- `TypeInv`: types; `running` and `ch` hold something only at the places where the worker has
  a task or an answer (`AtWork`); `nIdle` is the number of workers in the idle part of the
  loop, less one until the group has started (`Counted`).
- `HomeInv`: a task is at one of its `Labels` at most, and only if it is not over (`Homed`); on
  one list no thread comes twice (`Listed`); under `Fits` each is at some label
  (`AllHome`). `OneHome` speaks of positions, `HomeInv` of labels: `HomeOfLabel` goes from
  one to the other.
- `CallInv`: the chain of calls. The context of a caller is on the deque its callee was
  called on until somebody steals it, so the threads on a primary deque are contexts of
  calls, each of the future that the next one up is a thread of, the topmost of the one that
  runs there (`ChainInv`). A context on a deque or with a thief is that of its task's
  last call (`ContextInv`). `ContextOnTop` follows, but is not inductive: that nobody else
  is on top depends on the whole chain. A worker that looks for work has nothing on its
  deques, but for the main thread when the group has just begun (`IdleInv`).
- `OverInv`: once the last worker is idle, nobody is left. All deques are empty then by
  `IdleInv`, and no cell holds an answer, so what is not over is blocked. `NotAllBlocked`
  excludes this: a task touches futures that it called itself, or that its caller had
  called before it. Of the futures that are not over take those with the latest
  caller, and of these the first: it has nobody to wait for.

`StealInv`, the first three, is inductive; `OverInv` needs it and `Fits`.

`HeapLayoutProofs`, for all sizes that `HeapSizesAssumption` allows, which is what
`heap.h` and `HeapInit` guarantee (a threshold and a nursery of 16K against a slop of 4K):
the regions never overlap (`RegionsAreDisjoint`) and a collection always makes room
(`CollectionAlwaysMakesRoom`). The invariant adds to the regions how much room the last
`SetAllocPtr` left: the words in use of the nursery are at most its size, so the
survivors stay below it, and a minor collection that leaves less than the
threshold becomes a major one, after which at most half is in use.

`LifecycleProofs`, for any number of vprocs and any machines: `LifecycleTypeCorrect`
(with it, that `initData` is not read after it was freed and no vproc is touched before
it is set up) and `ShutdownFinal`. The invariant ties the barriers and `initData` to the
places of the vprocs (`StartupInv`), and the counter to the number of vprocs that have
counted themselves down (`ShutdownInv`): `shutdownPending` is set exactly for those on
their way through the shutdown, so that none counts twice although heap checks bring
each back to the test of the flag. `VProcsWellPlaced` (`Spec => []LocationsOK`) is
for machines with `FitsBytes`: at most 256 threads to a core, and at most 256 cores on all nodes
together. The latter is less than the fields of a `Location_t` allow, which has eight bits for a
core of each node: in `LogicalId` (topology.h:72) the mask applies to the sum with the cores of
the nodes before, since `+` binds tighter than `&`. The proof shows that this does no
harm up to that size. It goes from the arithmetic of `\div` and `%` (`DivideBy`,
`Divided`, `QuotientBelow`) to the parts of a location (`LocationParts`, `SpreadParts`), the
difference between two vprocs (`SpreadApart`), and a pairing of the vprocs of
two nodes (`SpreadEvenly`).

`CmlEventsProofs`, for any threads, channels and operations, and any bounds on how many are
begun: `TypesCorrect`, `ReturnsOnce` (`Spec => []OnceUnlessChoice`), `MatchesAreMade`
(`Spec => []NoMissedMatch`), `MessagesCorrect` (`Spec => []MessageIntegrity`) and
`StoppedCanBeResumed` (`Spec => []WaitersKept`). One inductive invariant has all five. Its
idea is that an operation on one base event makes one *offer*: its item, on a queue or in
the hands of a thread that has taken it, or its waiter, on `waiting` or on a list that a
signal has taken.

- `Typed` and `Control`: what a thread does fits its operation, and it holds the lock of
  the channel whose item it has.
- `QueuesFit`, `HandsFit`, `WaitersApart`: an offer is where its event says, and only once.
- `NotOffered`: an operation that is still being tried has made no offer and was not resumed.
- `OffersOpen`, `WaitersOpen`: an operation with an offer was not resumed. With the last two,
  whoever takes an offer resumes its operation for the first time.
- `Flags`: the flag of a plain operation is WAITING until it is resumed. So a purge of stale
  items cannot drop its item, and a claim that gives an item up has some other item.
- `NoMatchLeft`: no two offers fit, those in hands included. On the queues alone it would not
  be inductive: an item in somebody's hands may be put back beside its partner. It is
  kept because whoever leaves an item has purged the opposite queue under the lock that
  keeps others from holding an item of the channel, and found it empty but for items of
  its own flag.
- `Messages` and `OfferKept`: what was received was sent; what stopped has its offer.

The roll back to the partner's flag and the lock that a send keeps, both in the code, are in
the way of none of this; a choice is resumed twice in spite of it (violation 2), since its items
share a flag but are several offers. `OfferStep` says what a step does to the offers, one
lemma per conjunct shows such a step harmless, and each action is proved to be one.

Only model-checked: everything under fairness and every use of ENABLED (out of the
prover's reach), such as the progress of `RoundRobin` and the last three properties of
`WorkStealing`; the refinements of `ObjectGraph` and `HeapLayout`, and all of `LocalHeap`,
whose scans are RECURSIVE operators; and `Fifo` of `CmlEvents`, which filters
sequences.

TLC checked every inductive invariant on the instance of a run before it was proved:
`Inv` of `RoundRobinProofs` on the states of `RoundRobin`, `ControlInv` and `HeapInv` on
those of `GlobalGC` and `GlobalGCLive`, `StealInv` and `OverInv` on those of `WorkStealing`, of
three futures, and (without what `Fits` adds) of deques that overflow, `Inv` of
`CmlEventsProofs` on those of `CmlEvents` and of larger instances. The proof of
`CmlEvents` found a fault of the model: the count of `resumed` was cut off before the
addition and could pass its bound of 2, when a choice, which can be resumed twice
already, meets its own item.

## 5. What is not modelled

- Collections in `VProcSignal`, and signals in `GlobalGC`. `StartGlobalGC` clears `sigPending`
  (global-gc.c:177), so with collections `PreemptionOwed` can fail until the
  next timer tick; the dummy fibers a leader or `REQ_Return` sends are not
  unique. Both are the next step of the plan.
- Where the compiler puts heap checks in PML that masks signals (the FIXME in
  `@atomic-begin`).
- mvars and nacks, the lock-free channels, cancelation, memo tables, the experimental
  schedulers, the Cilk-5 deque: see their notes in `PROJECT.json`.
- Much of the C code is statistics, logging, performance counters, option parsing and
  offline log tools, a JSON parser among them; the parts with state and
  control are the ones above. The compiler is sequential and large.

## 6. Plan

In this order; each step has its runs, its mutants and, where it says so,
proofs.

1. mvars, as a third user of the queues of `CmlEvents`, and the progress of operations
   once the lock of a send is released.
2. `VProcSignal` with collections: the leader's interrupts as signals, and
   `sigPending` cleared by a collection.
3. `WorkStealing` with the steps of `@get` and `@put` around the spin lock, with
   cancelation, and with threads that block outside the group.
4. `CilkDeque`: the THE protocol and `freeSpace`.
5. The rest of `VProcQueue` (`@more-than-one`, dequeues with a predicate), `TimespecAdd`.
6. `WorkStealing` with deques that overflow, as a run: what `NoTaskTwice` leaves open is
   which threads are lost.
