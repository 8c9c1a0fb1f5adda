---------------------------- MODULE VProcSignal ----------------------------
(***************************************************************************)
(* Asynchronous signals between vprocs: the landing pad, the preemption    *)
(* that goes with a signal, and the sleep/wakeup protocol.                 *)
(*                                                                         *)
(* A vproc is an OS thread that runs fibers.  To hand a fiber to another   *)
(* vproc it pushes the fiber on that vproc's landing pad with a CAS, wakes *)
(* the vproc if it is seen asleep, and zeroes its heap-limit pointer so    *)
(* that its next heap check enters the runtime.  A vproc empties its pad   *)
(* when its scheduler handles a preemption and while it waits for work.    *)
(*                                                                         *)
(* The steps are the atomic accesses of the PML code in                    *)
(* basis/runtime/vproc.pml and basis/runtime/scheduler-action.pml and of   *)
(* the C code in parallel-rt/vproc.  The ready queue is a set here: its    *)
(* order is RoundRobin's business.                                         *)
(***************************************************************************)
EXTENDS SequencesExt

CONSTANTS
  VProcs,    \* the virtual processors
  Signals,   \* the fibers that are sent from vproc to vproc
  Lead,      \* vproc 0, which runs the program's main fiber
  Main,      \* the main fiber
  NoFiber    \* stands for "no fiber"

(***************************************************************************)
(* dummyK, the fiber a vproc runs when it leaves IdleVProc, is named by    *)
(* its vproc.                                                              *)
(***************************************************************************)
Fibers == Signals \union {Main} \union VProcs

ASSUME VProcSignalAssumption ==
  /\ Lead \in VProcs
  /\ Main \notin VProcs \union Signals
  /\ VProcs \intersect Signals = {}
  /\ NoFiber \notin Fibers

VARIABLES
  landingPad,  \* vp->landingPad, a list with the newest signal first
  sleeping,    \* vp->sleeping
  blocked,     \* vp is in the wait set of its condition variable vp->wait
  limitZero,   \* vp->limitPtr == 0: a preemption was requested
  sigPending,  \* vp->sigPending
  started,     \* vp has left the VProcSleep of IdleVProc
  pc,          \* where the OS thread of vp is
  cur,         \* the fiber vp is running, or NoFiber
  ready,       \* the fibers on vp's ready queues
  done,        \* the fibers that have stopped
  item,        \* the fiber that vp is sending, until it is on the pad
  dst,         \* the vproc it is sending to
  seen         \* ldgPadOrig, the pad as last loaded by vp

pads == <<landingPad, limitZero>>          \* what a sender changes at its destination
sleepState == <<sleeping, blocked, started>>
queues == <<cur, ready, done>>
regs == <<item, dst, seen>>
vars == <<pads, sleepState, sigPending, pc, queues, regs>>

SendSteps == {"sendLoad", "sendCAS", "sendCheck", "sendWake", "sendPreempt"}
FiberSteps == {"thread", "masked"} \union SendSteps
RecvSteps == {"recvLoad", "recvCAS"}
SchedSteps == {"poll", "dispatch", "wait", "sleepReq"} \union RecvSteps
SleepSteps == {"sleepEnter", "sleepCheck", "sleepBlock", "condWait", "sleepExit"}

Goto(v, label) == pc' = [pc EXCEPT ![v] = label]

(***************************************************************************)
(* NewVProc, IdleVProc and MainVProc: the lead vproc runs the main fiber,  *)
(* the others go to sleep until a signal arrives.                          *)
(***************************************************************************)
Init ==
  /\ landingPad = [v \in VProcs |-> <<>>]
  /\ limitZero = [v \in VProcs |-> FALSE]
  /\ sleeping = [v \in VProcs |-> FALSE]
  /\ blocked = [v \in VProcs |-> FALSE]
  /\ started = [v \in VProcs |-> v = Lead]
  /\ sigPending = [v \in VProcs |-> FALSE]
  /\ pc = [v \in VProcs |-> IF v = Lead THEN "thread" ELSE "sleepEnter"]
  /\ cur = [v \in VProcs |-> IF v = Lead THEN Main ELSE NoFiber]
  /\ ready = [v \in VProcs |-> {}]
  /\ done = {}
  /\ item = [v \in VProcs |-> NoFiber]
  /\ dst = [v \in VProcs |-> v]
  /\ seen = [v \in VProcs |-> <<>>]

----------------------------------------------------------------------------
(* The running fiber. *)

(* Where a fiber can be found. *)
Places(f) ==
  {<<"pad", v>> : v \in {u \in VProcs : f \in ToSet(landingPad[u])}}
    \union {<<"ready", v>> : v \in {u \in VProcs : f \in ready[u]}}
    \union {<<"running", v>> : v \in {u \in VProcs : cur[u] = f}}
    \union {<<"sending", v>> : v \in {u \in VProcs : item[u] = f}}
    \union {<<"done", f>> : g \in {f} \intersect done}

(* The scheduler gets PREEMPT(k): the fiber is enqueued and the pad polled. *)
Preempt(v) ==
  /\ sigPending' = [sigPending EXCEPT ![v] = FALSE]
  /\ ready' = [ready EXCEPT ![v] = @ \union {cur[v]}]
  /\ cur' = [cur EXCEPT ![v] = NoFiber]
  /\ Goto(v, "poll")

(* SchedulerAction.@atomic-begin: mask signals. *)
AtomicBegin(v) ==
  /\ pc[v] = "thread"
  /\ cur[v] \notin VProcs
  /\ Goto(v, "masked")
  /\ UNCHANGED <<pads, sleepState, sigPending, queues, regs>>

(* SchedulerAction.@atomic-end: unmask signals, or yield when one is pending. *)
AtomicEnd(v) ==
  /\ pc[v] = "masked"
  /\ \/ ~ sigPending[v] /\ Goto(v, "thread") /\ UNCHANGED <<sigPending, cur, ready>>
     \/ sigPending[v] /\ Preempt(v)
  /\ UNCHANGED <<pads, sleepState, done, regs>>

(* SchedulerAction.@stop: the scheduler dispatches without polling the pad. *)
Stop(v) ==
  /\ pc[v] \in {"thread", "masked"}
  /\ done' = done \union {cur[v]}
  /\ cur' = [cur EXCEPT ![v] = NoFiber]
  /\ Goto(v, "dispatch")
  /\ UNCHANGED <<pads, sleepState, sigPending, ready, regs>>

----------------------------------------------------------------------------
(* VProc.@send-in-atomic, VProcSendSignal and VProcPreempt. *)

SendBegin(v, d, s) ==
  /\ pc[v] = "masked"
  /\ d # v
  /\ Places(s) = {}
  /\ item' = [item EXCEPT ![v] = s]
  /\ dst' = [dst EXCEPT ![v] = d]
  /\ Goto(v, "sendLoad")
  /\ UNCHANGED <<pads, sleepState, sigPending, queues, seen>>

SendLoad(v) ==
  /\ pc[v] = "sendLoad"
  /\ seen' = [seen EXCEPT ![v] = landingPad[dst[v]]]
  /\ Goto(v, "sendCAS")
  /\ UNCHANGED <<pads, sleepState, sigPending, queues, item, dst>>

(* ldgPadOrig goes out of scope after the CAS. *)
Forget(v) == seen' = [seen EXCEPT ![v] = <<>>]

(* The new landing pad of the destination is the item and the list it points to. *)
Push(v) ==
  /\ landingPad' = [landingPad EXCEPT ![dst[v]] = <<item[v]>> \o seen[v]]
  /\ item' = [item EXCEPT ![v] = NoFiber]
  /\ Goto(v, "sendCheck")

SendCAS(v) ==
  /\ pc[v] = "sendCAS"
  /\ \/ landingPad[dst[v]] = seen[v] /\ Push(v)
     \/ landingPad[dst[v]] # seen[v] /\ Goto(v, "sendLoad") /\ UNCHANGED <<landingPad, item>>
  /\ Forget(v)
  /\ UNCHANGED <<limitZero, sleepState, sigPending, queues, dst>>

SendCheck(v) ==
  /\ pc[v] = "sendCheck"
  /\ Goto(v, IF sleeping[dst[v]] THEN "sendWake" ELSE "sendPreempt")
  /\ UNCHANGED <<pads, sleepState, sigPending, queues, regs>>

(* VProcWake: signal the condition variable, without holding vp->lock. *)
SendWake(v) ==
  /\ pc[v] = "sendWake"
  /\ blocked' = [blocked EXCEPT ![dst[v]] = FALSE]
  /\ Goto(v, "sendPreempt")
  /\ UNCHANGED <<pads, sleeping, started, sigPending, queues, regs>>

(* Faulty variant: the sender does not preempt its destination. *)
SendOnly(v) ==
  /\ pc[v] = "sendPreempt"
  /\ Goto(v, "masked")
  /\ UNCHANGED <<pads, sleepState, sigPending, queues, regs>>

(* Zero the limit pointer of the destination; a failed CAS tries again. *)
SendPreempt(v) ==
  /\ pc[v] = "sendPreempt"
  /\ limitZero' = [limitZero EXCEPT ![dst[v]] = TRUE]
  /\ Goto(v, "masked")
  /\ UNCHANGED <<landingPad, sleepState, sigPending, queues, regs>>

----------------------------------------------------------------------------
(* Entering the runtime: heap checks (REQ_GC of RunManticore) and the timer. *)

(* Faulty variant: the signal is delivered even to code that masks signals. *)
HeapCheckUnmasked(v) ==
  /\ pc[v] \in FiberSteps \union SchedSteps
  /\ limitZero[v]
  /\ limitZero' = [limitZero EXCEPT ![v] = FALSE]
  /\ Preempt(v)
  /\ UNCHANGED <<landingPad, sleepState, done, regs>>

(***************************************************************************)
(* The limit pointer is zero, so the heap check that every cycle of the    *)
(* control flow holds enters RunManticore.  Masked code only records the   *)
(* signal; an unmasked fiber is preempted.                                 *)
(***************************************************************************)
HeapCheck(v) ==
  /\ pc[v] \in FiberSteps \union SchedSteps
  /\ limitZero[v]
  /\ limitZero' = [limitZero EXCEPT ![v] = FALSE]
  /\ \/ /\ pc[v] # "thread"
        /\ sigPending' = [sigPending EXCEPT ![v] = TRUE]
        /\ UNCHANGED <<pc, cur, ready>>
     \/ pc[v] = "thread" /\ Preempt(v)
  /\ UNCHANGED <<landingPad, sleepState, done, regs>>

(* The nursery is exhausted: a pending signal is delivered to an unmasked fiber. *)
HeapExhausted(v) ==
  /\ pc[v] = "thread"
  /\ ~ limitZero[v]
  /\ sigPending[v]
  /\ Preempt(v)
  /\ UNCHANGED <<pads, sleepState, done, regs>>

(* Ping: the timer thread preempts every vproc it does not see asleep. *)
Ping(v) ==
  /\ ~ sleeping[v]
  /\ ~ limitZero[v]
  /\ limitZero' = [limitZero EXCEPT ![v] = TRUE]
  /\ UNCHANGED <<landingPad, sleepState, sigPending, pc, queues, regs>>

----------------------------------------------------------------------------
(* VProc.@recv-in-atomic and the scheduler around it. *)

(* The pad is empty: the scheduler dispatches, waitForWork gives up polling. *)
PollEmpty(v) ==
  /\ pc[v] \in {"poll", "wait"}
  /\ landingPad[v] = <<>>
  /\ Goto(v, IF pc[v] = "poll" THEN "dispatch" ELSE "sleepReq")
  /\ UNCHANGED <<pads, sleepState, sigPending, queues, regs>>

PollNonEmpty(v) ==
  /\ pc[v] \in {"poll", "wait"}
  /\ landingPad[v] # <<>>
  /\ Goto(v, "recvLoad")
  /\ UNCHANGED <<pads, sleepState, sigPending, queues, regs>>

RecvLoad(v) ==
  /\ pc[v] = "recvLoad"
  /\ seen' = [seen EXCEPT ![v] = landingPad[v]]
  /\ Goto(v, "recvCAS")
  /\ UNCHANGED <<pads, sleepState, sigPending, queues, item, dst>>

(* The pad is emptied and what was on it enqueued. *)
Take(v) ==
  /\ landingPad' = [landingPad EXCEPT ![v] = <<>>]
  /\ ready' = [ready EXCEPT ![v] = @ \union ToSet(seen[v])]
  /\ Goto(v, "dispatch")

(* Faulty variant: a store where the code has a CAS. *)
RecvStore(v) ==
  /\ pc[v] = "recvCAS"
  /\ Take(v)
  /\ Forget(v)
  /\ UNCHANGED <<limitZero, sleepState, sigPending, cur, done, item, dst>>

RecvCAS(v) ==
  /\ pc[v] = "recvCAS"
  /\ \/ landingPad[v] = seen[v] /\ Take(v)
     \/ landingPad[v] # seen[v] /\ Goto(v, "recvLoad") /\ UNCHANGED <<landingPad, ready>>
  /\ Forget(v)
  /\ UNCHANGED <<limitZero, sleepState, sigPending, cur, done, item, dst>>

(* dispatch: run some ready fiber unmasked, without looking at sigPending. *)
Dispatch(v) ==
  /\ pc[v] = "dispatch"
  /\ \/ \E f \in ready[v] :
          /\ cur' = [cur EXCEPT ![v] = f]
          /\ ready' = [ready EXCEPT ![v] = @ \ {f}]
          /\ Goto(v, "thread")
     \/ ready[v] = {} /\ Goto(v, "wait") /\ UNCHANGED <<cur, ready>>
  /\ UNCHANGED <<pads, sleepState, sigPending, done, regs>>

----------------------------------------------------------------------------
(* VProcSleep and VProcNanosleep. *)

(* REQ_Sleep of RunManticore: resetting the limit drops a preemption request. *)
SleepRequest(v) ==
  /\ pc[v] = "sleepReq"
  /\ limitZero' = [limitZero EXCEPT ![v] = FALSE]
  /\ Goto(v, "sleepEnter")
  /\ UNCHANGED <<landingPad, sleepState, sigPending, queues, regs>>

SleepEnter(v) ==
  /\ pc[v] = "sleepEnter"
  /\ sleeping' = [sleeping EXCEPT ![v] = TRUE]
  /\ Goto(v, "sleepCheck")
  /\ UNCHANGED <<pads, blocked, started, sigPending, queues, regs>>

SleepCheck(v) ==
  /\ pc[v] = "sleepCheck"
  /\ Goto(v, IF landingPad[v] = <<>> THEN "sleepBlock" ELSE "sleepExit")
  /\ UNCHANGED <<pads, sleepState, sigPending, queues, regs>>

SleepBlock(v) ==
  /\ pc[v] = "sleepBlock"
  /\ blocked' = [blocked EXCEPT ![v] = TRUE]
  /\ Goto(v, "condWait")
  /\ UNCHANGED <<pads, sleeping, started, sigPending, queues, regs>>

(* CondWait or CondTimedWait returns because the condition was signalled. *)
Awoken(v) ==
  /\ pc[v] = "condWait"
  /\ ~ blocked[v]
  /\ Goto(v, "sleepCheck")
  /\ UNCHANGED <<pads, sleepState, sigPending, queues, regs>>

(* POSIX allows a wait to return for no reason. *)
SpuriousWakeup(v) ==
  /\ pc[v] = "condWait"
  /\ blocked[v]
  /\ blocked' = [blocked EXCEPT ![v] = FALSE]
  /\ Goto(v, "sleepCheck")
  /\ UNCHANGED <<pads, sleeping, started, sigPending, queues, regs>>

(* Faulty variant: a timeout that goes back to waiting. *)
TimeoutIgnored(v) ==
  /\ pc[v] = "condWait"
  /\ started[v]
  /\ blocked[v]
  /\ UNCHANGED vars

(* CondTimedWait times out: only VProcNanosleep waits with a limit. *)
Timeout(v) ==
  /\ pc[v] = "condWait"
  /\ started[v]
  /\ blocked' = [blocked EXCEPT ![v] = FALSE]
  /\ Goto(v, "sleepExit")
  /\ UNCHANGED <<pads, sleeping, started, sigPending, queues, regs>>

(***************************************************************************)
(* Back from the sleep: waitForWork polls again.  A vproc that leaves      *)
(* IdleVProc runs schedCont, which forwards PREEMPT(dummyK) to the         *)
(* scheduler: dummyK is enqueued and the pad polled.                       *)
(***************************************************************************)
SleepExit(v) ==
  /\ pc[v] = "sleepExit"
  /\ sleeping' = [sleeping EXCEPT ![v] = FALSE]
  /\ started' = [started EXCEPT ![v] = TRUE]
  /\ \/ started[v] /\ Goto(v, "wait") /\ UNCHANGED ready
     \/ ~ started[v] /\ Goto(v, "poll") /\ ready' = [ready EXCEPT ![v] = @ \union {v}]
  /\ UNCHANGED <<pads, blocked, sigPending, cur, done, regs>>

----------------------------------------------------------------------------
(* The steps a vproc takes without an outside choice. *)
Advance(v) ==
  \/ AtomicEnd(v)
  \/ SendLoad(v) \/ SendCAS(v) \/ SendCheck(v) \/ SendWake(v) \/ SendPreempt(v)
  \/ PollEmpty(v) \/ PollNonEmpty(v) \/ RecvLoad(v) \/ RecvCAS(v) \/ Dispatch(v)
  \/ SleepRequest(v) \/ SleepEnter(v) \/ SleepCheck(v) \/ SleepBlock(v)
  \/ Awoken(v) \/ Timeout(v) \/ SleepExit(v)

Next ==
  \E v \in VProcs :
    \/ AtomicBegin(v)
    \/ Stop(v)
    \/ \E d \in VProcs, s \in Signals : SendBegin(v, d, s)
    \/ HeapCheck(v)
    \/ HeapExhausted(v)
    \/ Ping(v)
    \/ SpuriousWakeup(v)
    \/ Advance(v)

(***************************************************************************)
(* The OS runs every vproc and the timer thread, sections with signals     *)
(* masked end, timed waits time out, and every cycle of compiled code      *)
(* holds a heap check.  Nothing makes a fiber stop, mask signals, send or  *)
(* allocate, and no wait is promised a spurious wakeup.                    *)
(***************************************************************************)
Fairness ==
  \A v \in VProcs :
    /\ WF_vars(Advance(v))
    /\ WF_vars(HeapCheck(v))
    /\ WF_vars(Ping(v))

Spec == Init /\ [][Next]_vars
FairSpec == Spec /\ Fairness

----------------------------------------------------------------------------
(* Every variable keeps to the values the fields of VProc_t can hold; in   *)
(* particular a scheduler that handles a signal is never itself preempted, *)
(* which would enqueue "no fiber".                                         *)
TypeOK ==
  /\ landingPad \in [VProcs -> Seq(Signals)]
  /\ limitZero \in [VProcs -> BOOLEAN]
  /\ sleeping \in [VProcs -> BOOLEAN]
  /\ blocked \in [VProcs -> BOOLEAN]
  /\ started \in [VProcs -> BOOLEAN]
  /\ sigPending \in [VProcs -> BOOLEAN]
  /\ pc \in [VProcs -> FiberSteps \union SchedSteps \union SleepSteps]
  /\ cur \in [VProcs -> Fibers \union {NoFiber}]
  /\ ready \in [VProcs -> SUBSET Fibers]
  /\ done \in SUBSET Fibers
  /\ item \in [VProcs -> Signals \union {NoFiber}]
  /\ dst \in [VProcs -> VProcs]
  /\ seen \in [VProcs -> Seq(Signals)]

(* A vproc that runs fibers while a signal waits on its landing pad owes   *)
(* its scheduler a preemption: its limit pointer is zero, or the signal is *)
(* recorded in sigPending, or a sender is between its push and its         *)
(* preemption.  No order of pushes, heap checks, timer ticks and dispatches*)
(* may consume the preemption that belongs to a signal still on the pad.   *)
PreemptionOwed ==
  \A v \in VProcs :
    /\ pc[v] \in FiberSteps \union {"dispatch"}
    /\ landingPad[v] # <<>>
    => \/ limitZero[v]
       \/ sigPending[v]
       \/ \E u \in VProcs :
            dst[u] = v /\ pc[u] \in {"sendCheck", "sendWake", "sendPreempt"}

(* The landing pads of the runtime are Mailbox's boxes: a signal is pushed *)
(* once, on the front, and leaves only with all the others on the pad.     *)
Landed(s) == s \in done \/ \E v \in VProcs : s \in ready[v] \/ s = cur[v]
MB == INSTANCE Mailbox WITH box <- landingPad, taken <- {s \in Signals : Landed(s)}
ImplementsMailbox == MB!Spec

(* Once a vproc has left its initial sleep, every signal on its landing    *)
(* pad is taken: by a preemption, by waitForWork's polling, or after the   *)
(* timeout of the nanosleep when the wakeup raced with falling asleep.     *)
ReceivedIfStarted ==
  \A v \in VProcs, s \in Signals :
    started[v] /\ s \in ToSet(landingPad[v]) ~> s \notin ToSet(landingPad[v])

(* "put the vproc to sleep until a signal arrives" (vproc.c:494): the same *)
(* for a vproc that still is in the untimed VProcSleep of IdleVProc.       *)
ReceivedIfIdle ==
  \A v \in VProcs, s \in Signals :
    ~ started[v] /\ s \in ToSet(landingPad[v]) ~> s \notin ToSet(landingPad[v])
=============================================================================
