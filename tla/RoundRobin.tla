----------------------------- MODULE RoundRobin -----------------------------
(***************************************************************************)
(* The top-level scheduler of every vproc: basis/scheduler/round-robin.pml *)
(* with the thread classification of classify.pml and the thread queues of *)
(* vproc-queue.pml.                                                        *)
(*                                                                         *)
(* Each vproc runs the threads of its queues in turn.  A running thread    *)
(* stops, yields, is preempted or goes to sleep by handing a signal to the *)
(* scheduler; the handler puts the thread away and dispatches the next.  A *)
(* vproc with nothing to run polls its landing pad and its sleeping list.  *)
(*                                                                         *)
(* One action is one handler: it only touches what its vproc owns, except  *)
(* for the landing pad and the clock, each of which it uses once.  How a   *)
(* landing pad works is VProcSignal's business; a push or a take is atomic *)
(* here.                                                                   *)
(*                                                                         *)
(* Points of time are kept relative to the present: a sleeper's "left" is  *)
(* the time until its wake-up time, or Past once that time has passed, and *)
(* "lag" is the time since the vproc last set currTime.                    *)
(***************************************************************************)
EXTENDS VProcQueue, Lists

CONSTANTS
  VProcs,      \* the virtual processors
  Lead,        \* vproc 0, which runs the program's main thread
  Threads,     \* the threads of the program
  Main,        \* the main thread
  Movers,      \* the threads that are not always resumed on Lead (bound)
  MaxSleep,    \* the longest sleep, in units of the clock (microseconds)
  NsPerTick    \* nanoseconds in a unit of the clock (1000)

ASSUME RoundRobinAssumption ==
  /\ Lead \in VProcs
  /\ Main \in Threads
  /\ Movers \subseteq Threads
  /\ VProcs \intersect Threads = {}
  /\ NoThread \notin Threads \union VProcs
  /\ MaxSleep \in Nat
  /\ NsPerTick \in Nat \ {0}

(* dummyK, the fiber of a vproc that leaves IdleVProc, is named by its vproc. *)
Fibers == Threads \union VProcs

Past == -1
LongAgo == MaxSleep * NsPerTick + 1   \* after such a lag every sleep is over

VARIABLES
  queue,       \* the thread queues of each vproc
  landingPad,  \* the threads other vprocs have sent, newest first
  sleeping,    \* the sleeping list, newest first: [thread, left]
  lag,         \* the time since currTime was set, at most LongAgo
  current,     \* the running fiber, or NoThread
  pc,          \* where the vproc is
  parked,      \* the fibers no vproc holds: not spawned yet, or stopped
  doneComm     \* the doneComm flag in the storage of each fiber

clocks == <<sleeping, lag>>
vars == <<queue, landingPad, clocks, current, pc, parked, doneComm>>

(* currTime starts as 0, long before the program; FLS.@new sets doneComm. *)
Init ==
  /\ queue = [v \in VProcs |-> EmptyQueue]
  /\ landingPad = [v \in VProcs |-> <<>>]
  /\ sleeping = [v \in VProcs |-> <<>>]
  /\ lag = [v \in VProcs |-> LongAgo]
  /\ current = [v \in VProcs |-> IF v = Lead THEN Main ELSE NoThread]
  /\ pc = [v \in VProcs |-> IF v = Lead THEN "run" ELSE "idle"]
  /\ parked = Fibers \ {Main}
  /\ doneComm = [f \in Fibers |-> TRUE]

Larger(a, b) == IF a > b THEN a ELSE b
Smaller(a, b) == IF a < b THEN a ELSE b

----------------------------------------------------------------------------
(* Classification of threads: classify.pml. *)

(* @move-threads-in-atomic: a voluntary release by a thread whose previous *)
(* release was voluntary brings one demoted thread back.                   *)
MoveThreads(q, f) ==
  LET demoted == SecondaryDequeue(q)
  IN  IF doneComm[f] /\ demoted.item # NoThread
      THEN Enqueue(demoted.rest, demoted.item)
      ELSE q

(* @demote-test-in-atomic: demote when the previous release was involuntary too. *)
PutPreempted(q, f) ==
  IF doneComm[f] THEN Enqueue(q, f) ELSE SecondaryEnqueue(q, f)

UpdateDoneComm(f, voluntary) == doneComm' = [doneComm EXCEPT ![f] = voluntary]

----------------------------------------------------------------------------
(* The sleeping list. *)

(* addToSleepingList: a duration in nanoseconds is added to currTime, which *)
(* is in microseconds and was read when the vproc last woke its sleepers.   *)
TimeLeft(v, d) == Larger(Past, d * NsPerTick - lag[v])

AddToSleepingList(v, f, d) ==
  /\ sleeping' = [sleeping EXCEPT ![v] = <<[thread |-> f, left |-> TimeLeft(v, d)]>> \o @]
  /\ UNCHANGED lag

(* Faulty variant: the operands of the comparison are swapped. *)
IsDueSwapped(e) == e.left > 0

IsDue(e) == e.left < 0

Due(v) == {i \in DOMAIN sleeping[v] : IsDue(sleeping[v][i])}

DueThreads(v) ==
  LET due == SelectAt(sleeping[v], Due(v)) IN [i \in DOMAIN due |-> due[i].thread]

(* wakeupSleepingThreads, given the queue that is to get the threads. *)
WakeupSleepingThreads(v, q) ==
  /\ queue' = [queue EXCEPT ![v] = EnqueueAll(q, DueThreads(v))]
  /\ sleeping' = [sleeping EXCEPT ![v] = SelectAt(@, DOMAIN @ \ Due(v))]
  /\ lag' = [lag EXCEPT ![v] = 0]

----------------------------------------------------------------------------
(* The switch continuation: one action per signal. *)

Running(v) == pc[v] = "run"

(* Control is back in the scheduler, which is about to dispatch. *)
ToDispatch(v) ==
  /\ current' = [current EXCEPT ![v] = NoThread]
  /\ pc' = [pc EXCEPT ![v] = "dispatch"]

Stop(v) ==
  /\ Running(v)
  /\ queue' = [queue EXCEPT ![v] = MoveThreads(@, current[v])]
  /\ UpdateDoneComm(current[v], TRUE)
  /\ parked' = parked \union {current[v]}
  /\ ToDispatch(v)
  /\ UNCHANGED <<landingPad, clocks>>

(* Faulty variant: a preemption that does not poll the landing pad. *)
PreemptWithoutPoll(v) ==
  /\ Running(v)
  /\ WakeupSleepingThreads(v, PutPreempted(queue[v], current[v]))
  /\ UpdateDoneComm(current[v], FALSE)
  /\ ToDispatch(v)
  /\ UNCHANGED <<landingPad, parked>>

(* The timer or another vproc preempts the thread, or the thread yields. *)
Preempt(v) ==
  /\ Running(v)
  /\ WakeupSleepingThreads(v, Deliver(PutPreempted(queue[v], current[v]), landingPad[v]))
  /\ UpdateDoneComm(current[v], FALSE)
  /\ landingPad' = [landingPad EXCEPT ![v] = <<>>]
  /\ ToDispatch(v)
  /\ UNCHANGED parked

Block(v) ==
  /\ Running(v)
  /\ current[v] \in Threads
  /\ WakeupSleepingThreads(v,
       Deliver(Enqueue(MoveThreads(queue[v], current[v]), current[v]), landingPad[v]))
  /\ UpdateDoneComm(current[v], TRUE)
  /\ landingPad' = [landingPad EXCEPT ![v] = <<>>]
  /\ ToDispatch(v)
  /\ UNCHANGED parked

Sleep(v, d) ==
  /\ Running(v)
  /\ current[v] \in Threads
  /\ queue' = [queue EXCEPT ![v] = MoveThreads(@, current[v])]
  /\ UpdateDoneComm(current[v], TRUE)
  /\ AddToSleepingList(v, current[v], d)
  /\ ToDispatch(v)
  /\ UNCHANGED <<landingPad, parked>>

(* Faulty variant: the result of the dequeue is not tested for Option.NONE. *)
DispatchUntested(v) ==
  /\ pc[v] = "dispatch"
  /\ queue' = [queue EXCEPT ![v] = Dequeue(@).rest]
  /\ current' = [current EXCEPT ![v] = Dequeue(queue[v]).item]
  /\ pc' = [pc EXCEPT ![v] = "run"]
  /\ UNCHANGED <<landingPad, clocks, parked, doneComm>>

(* dispatch: run the next thread, or wait for work. *)
Dispatch(v) ==
  /\ pc[v] = "dispatch"
  /\ queue' = [queue EXCEPT ![v] = Dequeue(@).rest]
  /\ current' = [current EXCEPT ![v] = Dequeue(queue[v]).item]
  /\ pc' = [pc EXCEPT ![v] = IF Dequeue(queue[v]).item = NoThread THEN "wait" ELSE "run"]
  /\ UNCHANGED <<landingPad, clocks, parked, doneComm>>

----------------------------------------------------------------------------
(* waitForWork and IdleVProc. *)

WaitPoll(v) ==
  /\ pc[v] = "wait"
  /\ landingPad[v] # <<>>
  /\ queue' = [queue EXCEPT ![v] = Deliver(@, landingPad[v])]
  /\ landingPad' = [landingPad EXCEPT ![v] = <<>>]
  /\ pc' = [pc EXCEPT ![v] = "dispatch"]
  /\ UNCHANGED <<clocks, current, parked, doneComm>>

(* The pad stayed empty: look for sleepers, and sleep if none is due. *)
WaitWakeup(v) ==
  /\ pc[v] = "wait"
  /\ landingPad[v] = <<>>
  /\ WakeupSleepingThreads(v, queue[v])
  /\ pc' = [pc EXCEPT ![v] = IF DueThreads(v) = <<>> THEN "nanosleep" ELSE "dispatch"]
  /\ UNCHANGED <<landingPad, current, parked, doneComm>>

(* @nanosleep-in-atomic returns, because of a signal or of the time limit. *)
NanosleepReturns(v) ==
  /\ pc[v] = "nanosleep"
  /\ pc' = [pc EXCEPT ![v] = "wait"]
  /\ UNCHANGED <<queue, landingPad, clocks, current, parked, doneComm>>

(* The first signal to a vproc in IdleVProc: schedCont forwards PREEMPT(dummyK). *)
LeaveIdle(v) ==
  /\ pc[v] = "idle"
  /\ landingPad[v] # <<>>
  /\ WakeupSleepingThreads(v, Deliver(PutPreempted(queue[v], v), landingPad[v]))
  /\ UpdateDoneComm(v, FALSE)
  /\ landingPad' = [landingPad EXCEPT ![v] = <<>>]
  /\ parked' = parked \ {v}
  /\ ToDispatch(v)

----------------------------------------------------------------------------
(* What threads do to each other, and time. *)

(* Threads.@enqueue-ready: spawn a thread or resume a stopped one, on vproc d. *)
EnqueueReady(v, t, d) ==
  /\ Running(v)
  /\ current[v] \in Threads
  /\ t \in parked
  /\ parked' = parked \ {t}
  /\ \/ /\ d = v
        /\ queue' = [queue EXCEPT ![v] = Enqueue(@, t)]
        /\ UNCHANGED landingPad
     \/ /\ d # v
        /\ landingPad' = [landingPad EXCEPT ![d] = <<t>> \o @]
        /\ UNCHANGED queue
  /\ UNCHANGED <<clocks, current, pc, doneComm>>

(* The clock of the machine advances. *)
Tick ==
  /\ lag' = [v \in VProcs |-> Smaller(lag[v] + 1, LongAgo)]
  /\ sleeping' = [v \in VProcs |->
       [i \in DOMAIN sleeping[v] |-> [sleeping[v][i] EXCEPT !.left = Larger(@ - 1, Past)]]]
  /\ UNCHANGED <<queue, landingPad, current, pc, parked, doneComm>>

Schedule(v) ==
  \/ Dispatch(v)
  \/ WaitPoll(v)
  \/ WaitWakeup(v)
  \/ NanosleepReturns(v)
  \/ LeaveIdle(v)

Next ==
  \/ \E v \in VProcs :
       \/ Stop(v)
       \/ Preempt(v)
       \/ Block(v)
       \/ \E d \in 1..MaxSleep : Sleep(v, d)
       \/ \E t \in Threads, d \in VProcs :
            (t \in Movers \/ d = Lead) /\ EnqueueReady(v, t, d)
       \/ Schedule(v)
  \/ Tick

Spec == Init /\ [][Next]_vars

(***************************************************************************)
(* A scheduler goes on by itself, time passes, and a signal wakes an idle  *)
(* vproc (the wakeup lost in VProcSignal is not repeated here).  The timer *)
(* keeps zeroing the limit pointer, so a vproc that goes on running        *)
(* threads preempts one now and then, however short each of them runs.     *)
(* Nothing makes a thread stop, block, sleep or resume another.            *)
(***************************************************************************)
Fairness ==
  /\ \A v \in VProcs : WF_vars(Schedule(v)) /\ SF_vars(Preempt(v))
  /\ WF_vars(Tick)

FairSpec == Spec /\ Fairness

----------------------------------------------------------------------------
(* Every variable keeps to its type, and a vproc has a fiber exactly while *)
(* it runs one: dispatch never runs "no thread".                           *)
TypeOK ==
  /\ queue \in [VProcs -> QueueOf(Fibers)]
  /\ landingPad \in [VProcs -> Seq(Threads)]
  /\ sleeping \in [VProcs -> Seq([thread : Threads, left : Past..(MaxSleep * NsPerTick)])]
  /\ lag \in [VProcs -> 0..LongAgo]
  /\ current \in [VProcs -> Fibers \union {NoThread}]
  /\ pc \in [VProcs -> {"run", "dispatch", "wait", "nanosleep", "idle"}]
  /\ parked \subseteq Fibers
  /\ doneComm \in [Fibers -> BOOLEAN]
  /\ \A v \in VProcs : current[v] # NoThread <=> pc[v] = "run"

(* What v holds, list after list. *)
Held(v) ==
  queue[v].rdyHd \o queue[v].rdyTl \o queue[v].sndHd \o queue[v].sndTl
    \o landingPad[v] \o [i \in DOMAIN sleeping[v] |-> sleeping[v][i].thread]
    \o IF current[v] = NoThread THEN <<>> ELSE <<current[v]>>

(* No handler, poll or wake-up loses a thread, or leaves it in two lists,  *)
(* from where two vprocs would run the same continuation.                  *)
OneHome ==
  /\ \A v \in VProcs : IsInjective(Held(v))
  /\ \A u, v \in VProcs : u # v => ToSet(Held(u)) \intersect ToSet(Held(v)) = {}
  /\ Fibers \ parked = UNION {ToSet(Held(v)) : v \in VProcs}

(* A vproc neither waits nor sleeps in the OS while one of its queues has  *)
(* a thread.                                                               *)
NeverIdleWithWork ==
  \A v \in VProcs :
    pc[v] \in {"wait", "nanosleep", "idle"} =>
      PrimaryEmpty(queue[v]) /\ SecondaryEmpty(queue[v])

(* A thread on a primary queue is dispatched in the end, whatever the      *)
(* others do, although threads from the landing pad are put before it at   *)
(* every poll (vproc-queue.pml:348): no thread stays on a primary queue.   *)
PrimaryServed ==
  \A t \in Threads : []<>(\A v \in VProcs : t \notin ToSet(Primary(queue[v])))

(* A sleeping thread is woken in the end, even while the vproc is busy.    *)
SleepersWake ==
  \A t \in Threads : []<>(\A v \in VProcs : \A e \in ToSet(sleeping[v]) : e.thread # t)

(* A thread on a landing pad is taken in the end, also from the pad of a   *)
(* vproc that never runs out of threads.                                   *)
PadPolled ==
  \A v \in VProcs : []<>(landingPad[v] = <<>>)
=============================================================================
