----------------------------- MODULE Lifecycle -----------------------------
(***************************************************************************)
(* Starting the vprocs and shutting them down.                             *)
(*                                                                         *)
(* The main OS thread lays out the vprocs, spawns an OS thread for each,   *)
(* waits for all of them at a barrier and becomes the timer.  Vproc 0 then *)
(* runs the program, the others sleep until they get a signal.  When the   *)
(* program returns, its vproc sets ShutdownFlg and signals and preempts    *)
(* everybody.  A vproc that finds the flag set, the next time it leaves    *)
(* compiled code, goes to its shutdown continuation: it counts itself      *)
(* down, spins until all have, and exits through a barrier.                *)
(*                                                                         *)
(* The signals of the program are the subject of VProcSignal; here one is  *)
(* a single step.  Those of the shutdown are done access by access.        *)
(***************************************************************************)
EXTENDS Placement

CONSTANT Layouts  \* the machines the runtime finds itself on, and whether -dense is given

ASSUME LifecycleAssumption ==
  \A l \in Layouts :
    /\ l.machine.NumHWNodes \in Nat \ {0}
    /\ l.machine.NumCoresPerNode \in Nat \ {0} /\ l.machine.NumThdsPerCore \in Nat \ {0}
    /\ l.dense \in BOOLEAN

VARIABLES
  machine, dense, \* what DiscoverTopology found, and the option -dense
  loc,            \* the locations of the vprocs
  main,           \* where the main OS thread is
  nSpawned,       \* how many vprocs it has spawned
  initData,       \* FALSE once it has been freed
  started,        \* the vprocs whose VProc_t is initialised
  initFn,         \* what they are to run, the local variable of NewVProc
  atInit, atExit, \* who has come to InitBarrier and ShutdownBarrier
  pc,             \* where a vproc is
  resumeAt,       \* where its compiled code goes on after a request
  pad,            \* is there something on its landing pad?
  sleeping,       \* its flag
  limitZero,      \* its limit pointer is zero
  dst,            \* the loop variable of REQ_Return
  ShutdownFlg, shutdownPending,
  shutdownCnt,    \* the counter of the shutdown continuations
  exited          \* exit(0) has ended the process

layout == <<machine, dense, loc>>
startup == <<layout, nSpawned, initData, started, initFn, atInit>>
signals == <<pad, sleeping, limitZero, dst>>
shutdown == <<ShutdownFlg, shutdownPending, shutdownCnt, atExit, exited>>
vars == <<main, startup, pc, resumeAt, signals, shutdown>>

GoTo(v, where) == pc' = [pc EXCEPT ![v] = where]

(* HeapInit and VProcInit up to the creation of the vprocs. *)
Init ==
  /\ \E l \in Layouts : machine = l.machine /\ dense = l.dense
  /\ loc = [v \in VProc |-> Place(machine, dense, v)]
  /\ main = "spawn"
  /\ nSpawned = 0
  /\ initData = TRUE
  /\ started = {}
  /\ initFn = [v \in VProc |-> "none"]
  /\ atInit = {} /\ atExit = {}
  /\ pc = [v \in VProc |-> "none"]
  /\ resumeAt = [v \in VProc |-> "program"]
  /\ pad = [v \in VProc |-> FALSE]
  /\ sleeping = [v \in VProc |-> FALSE]
  /\ limitZero = [v \in VProc |-> FALSE]
  /\ dst = 0
  /\ ShutdownFlg = FALSE
  /\ shutdownPending = [v \in VProc |-> FALSE]
  /\ shutdownCnt = NumVProcs
  /\ exited = FALSE

-----------------------------------------------------------------------------
(* Startup *)

(* The main thread, at InitBarrier. *)
Main == NumVProcs

(* The next vproc's thread.  After the last one the main thread comes to   *)
(* InitBarrier.                                                            *)
Spawn ==
  /\ main = "spawn"
  /\ GoTo(nSpawned, "new")
  /\ nSpawned' = nSpawned + 1
  /\ IF nSpawned + 1 = NumVProcs
     THEN main' = "initBarrier" /\ atInit' = atInit \union {Main}
     ELSE UNCHANGED <<main, atInit>>
  /\ UNCHANGED <<layout, initData, started, initFn, resumeAt, signals, shutdown>>

(* What a vproc finds in its InitData_t. *)
InitFn(v) == IF ~ initData THEN "garbage" ELSE IF v = 0 THEN "MainVProc" ELSE "IdleVProc"

(* Up to InitBarrier. *)
NewVProc(v) ==
  /\ pc[v] = "new"
  /\ started' = started \union {v}
  /\ initFn' = [initFn EXCEPT ![v] = InitFn(v)]
  /\ GoTo(v, "initBarrier")
  /\ atInit' = atInit \union {v}
  /\ UNCHANGED <<main, layout, nSpawned, initData, resumeAt, signals, shutdown>>

(* Faulty variant: the main thread is not counted. *)
OnlyVProcs == Cardinality(atInit) >= NumVProcs

InitBarrierOpen == Cardinality(atInit) = NumVProcs + 1

(* The main thread frees initData and goes to PingLoop. *)
FreeInitData ==
  /\ main = "initBarrier" /\ InitBarrierOpen
  /\ main' = "ping"
  /\ initData' = FALSE
  /\ UNCHANGED <<layout, nSpawned, started, initFn, atInit, pc, resumeAt, signals, shutdown>>

(* MainVProc, and IdleVProc up to VProcSleep. *)
RunInitFn(v) ==
  /\ pc[v] = "initBarrier" /\ InitBarrierOpen
  /\ GoTo(v, IF initFn[v] = "MainVProc" THEN "top" ELSE "idle")
  /\ UNCHANGED <<main, startup, resumeAt, signals, shutdown>>

-----------------------------------------------------------------------------
(* The untimed sleep of IdleVProc *)

SleepEnter(v) ==
  /\ pc[v] = "idle"
  /\ sleeping' = [sleeping EXCEPT ![v] = TRUE]
  /\ GoTo(v, "test")
  /\ UNCHANGED <<main, startup, resumeAt, pad, limitZero, dst, shutdown>>

(* The pad is tested; when it is empty, the wait begins a step later. *)
SleepTest(v) ==
  /\ pc[v] = "test"
  /\ GoTo(v, IF pad[v] THEN "top" ELSE "wait")
  /\ sleeping' = [sleeping EXCEPT ![v] = ~ pad[v]]
  /\ UNCHANGED <<main, startup, resumeAt, pad, limitZero, dst, shutdown>>

SleepBlock(v) ==
  /\ pc[v] = "wait"
  /\ GoTo(v, "blocked")
  /\ UNCHANGED <<main, startup, resumeAt, signals, shutdown>>

-----------------------------------------------------------------------------
(* RunManticore *)

(* Faulty variant: the shutdown continuation is thrown to once more. *)
MustShutDownAgain(v) == ShutdownFlg

MustShutDown(v) == ShutdownFlg /\ ~ shutdownPending[v]

(* The head of the loop, and ASM_Apply.  (What resumeAt holds in compiled  *)
(* code does not matter.)                                                  *)
Top(v) ==
  /\ pc[v] = "top"
  /\ IF MustShutDown(v)
     THEN GoTo(v, "shutdown") /\ shutdownPending' = [shutdownPending EXCEPT ![v] = TRUE]
     ELSE GoTo(v, resumeAt[v]) /\ UNCHANGED shutdownPending
  /\ resumeAt' = [resumeAt EXCEPT ![v] = "program"]
  /\ UNCHANGED <<main, startup, signals, ShutdownFlg, shutdownCnt, atExit, exited>>

Compiled == {"program", "shutdown", "spin"}

(* REQ_GC: a heap check has found the limit pointer zeroed. *)
HeapCheck(v) ==
  /\ pc[v] \in Compiled
  /\ limitZero[v]
  /\ limitZero' = [limitZero EXCEPT ![v] = FALSE]
  /\ resumeAt' = [resumeAt EXCEPT ![v] = pc[v]]
  /\ GoTo(v, "top")
  /\ UNCHANGED <<main, startup, pad, sleeping, dst, shutdown>>

(* REQ_Sleep.  The wait ends by a signal or by itself. *)
SleepRequest(v) ==
  /\ pc[v] = "program"
  /\ limitZero' = [limitZero EXCEPT ![v] = FALSE]
  /\ sleeping' = [sleeping EXCEPT ![v] = TRUE]
  /\ GoTo(v, "nanosleep")
  /\ UNCHANGED <<main, startup, resumeAt, pad, dst, shutdown>>

SleepExit(v) ==
  /\ pc[v] = "nanosleep"
  /\ sleeping' = [sleeping EXCEPT ![v] = FALSE]
  /\ GoTo(v, "top")
  /\ UNCHANGED <<main, startup, resumeAt, pad, limitZero, dst, shutdown>>

(* A signal of the program to a vproc that sleeps in IdleVProc, or is      *)
(* about to; the first one counts.                                         *)
ProgramSignal(v, d) ==
  /\ pc[v] = "program"
  /\ d # 0 /\ ~ pad[d]
  /\ pad' = [pad EXCEPT ![d] = TRUE]
  /\ limitZero' = [limitZero EXCEPT ![d] = TRUE]
  /\ pc' = [pc EXCEPT ![d] = IF @ = "blocked" THEN "test" ELSE @]
  /\ UNCHANGED <<main, startup, resumeAt, sleeping, dst, shutdown>>

(* The timer does not preempt a vproc that it sees asleep. *)
Ping(v) ==
  /\ main = "ping"
  /\ ~ sleeping[v]
  /\ limitZero' = [limitZero EXCEPT ![v] = TRUE]
  /\ UNCHANGED <<main, startup, pc, resumeAt, pad, sleeping, dst, shutdown>>

-----------------------------------------------------------------------------
(* Shutdown *)

(* REQ_Return: the program's main function returns, on whatever vproc its  *)
(* thread has come to.                                                     *)
Return(v) ==
  /\ pc[v] = "program"
  /\ ~ ShutdownFlg
  /\ ShutdownFlg' = TRUE
  /\ limitZero' = [limitZero EXCEPT ![v] = FALSE]
  /\ dst' = 0
  /\ GoTo(v, "push")
  /\ UNCHANGED <<main, startup, resumeAt, pad, sleeping, shutdownPending, shutdownCnt, atExit,
                 exited>>

(* VProcSendSignal pushes, then wakes a vproc that it sees asleep; waking  *)
(* one that does not wait yet does nothing.                                *)
Push(v) ==
  /\ pc[v] = "push"
  /\ pad' = [pad EXCEPT ![dst] = TRUE]
  /\ GoTo(v, "wake")
  /\ UNCHANGED <<main, startup, resumeAt, sleeping, limitZero, dst, shutdown>>

Wake(v) ==
  /\ pc[v] = "wake"
  /\ pc' = [pc EXCEPT ![v] = "preempt",
                      ![dst] = IF sleeping[dst] /\ @ = "blocked" THEN "test" ELSE @]
  /\ UNCHANGED <<main, startup, resumeAt, signals, shutdown>>

Preempt(v) ==
  /\ pc[v] = "preempt"
  /\ limitZero' = [limitZero EXCEPT ![dst] = TRUE]
  /\ IF dst = NumVProcs - 1
     THEN GoTo(v, "top") /\ UNCHANGED dst
     ELSE GoTo(v, "push") /\ dst' = dst + 1
  /\ UNCHANGED <<main, startup, resumeAt, pad, sleeping, shutdown>>

(* shutdownCont: FetchAndAdd, and the loop that waits for zero. *)
CountDown(v) ==
  /\ pc[v] = "shutdown"
  /\ shutdownCnt' = shutdownCnt - 1
  /\ GoTo(v, "spin")
  /\ UNCHANGED <<main, startup, resumeAt, signals, ShutdownFlg, shutdownPending, atExit, exited>>

(* VProcExit up to ShutdownBarrier. *)
VProcExit(v) ==
  /\ pc[v] = "spin"
  /\ shutdownCnt = 0
  /\ GoTo(v, "exitBarrier")
  /\ atExit' = atExit \union {v}
  /\ UNCHANGED <<main, startup, resumeAt, signals, ShutdownFlg, shutdownPending, shutdownCnt,
                 exited>>

(* Faulty variant: ShutdownBarrier counts the main thread, as InitBarrier does. *)
EverybodyAndMain == Cardinality(atExit) = NumVProcs + 1

ShutdownBarrierOpen == Cardinality(atExit) = NumVProcs

(* The process ends when vproc 0 is through, whoever else is. *)
Leave(v) ==
  /\ pc[v] = "exitBarrier" /\ ShutdownBarrierOpen
  /\ GoTo(v, "gone")
  /\ exited' = (v = 0)
  /\ UNCHANGED <<main, startup, resumeAt, signals, ShutdownFlg, shutdownPending, shutdownCnt,
                 atExit>>

-----------------------------------------------------------------------------
MainThread == Spawn \/ FreeInitData

(* What a vproc does whatever the program is. *)
Go(v) ==
  \/ NewVProc(v) \/ RunInitFn(v)
  \/ SleepEnter(v) \/ SleepTest(v) \/ SleepBlock(v) \/ SleepExit(v)
  \/ Top(v) \/ Push(v) \/ Wake(v) \/ Preempt(v)
  \/ CountDown(v) \/ VProcExit(v) \/ Leave(v)

Program(v) ==
  \/ SleepRequest(v) \/ Return(v)
  \/ \E d \in VProc : ProgramSignal(v, d)

Next ==
  /\ ~ exited
  /\ \/ MainThread
     \/ \E v \in VProc : Go(v) \/ HeapCheck(v) \/ Program(v) \/ Ping(v)

Spec == Init /\ [][Next]_vars

(* The OS runs every thread, every cycle of compiled code has a heap       *)
(* check, and between two ticks of the timer code gets somewhere.  The     *)
(* program need not do anything.                                           *)
Fairness ==
  /\ WF_vars(~ exited /\ MainThread)
  /\ \A v \in VProc :
       /\ WF_vars(~ exited /\ (Go(v) \/ HeapCheck(v)))
       /\ SF_vars(~ exited /\ (CountDown(v) \/ VProcExit(v)))

FairSpec == Spec /\ Fairness

-----------------------------------------------------------------------------
Waiting == {"none", "new", "initBarrier", "idle", "test", "wait", "blocked"}
Exiting == {"exitBarrier", "gone"}
Places ==
  Waiting \union Compiled \union Exiting \union {"top", "nanosleep", "push", "wake", "preempt"}

(* Every variable has its type.  A vproc has read its initData before it   *)
(* was freed, and nobody touches a vproc that has not been set up.         *)
TypeOK ==
  /\ main \in {"spawn", "initBarrier", "ping"}
  /\ nSpawned \in 0 .. NumVProcs
  /\ initData \in BOOLEAN
  /\ started \subseteq VProc
  /\ initFn \in [VProc -> {"none", "MainVProc", "IdleVProc"}]
  /\ atInit \subseteq VProc \union {Main} /\ atExit \subseteq VProc
  /\ pc \in [VProc -> Places]
  /\ resumeAt \in [VProc -> Compiled]
  /\ pad \in [VProc -> BOOLEAN] /\ sleeping \in [VProc -> BOOLEAN]
  /\ limitZero \in [VProc -> BOOLEAN]
  /\ dst \in VProc
  /\ ShutdownFlg \in BOOLEAN /\ shutdownPending \in [VProc -> BOOLEAN]
  /\ shutdownCnt \in 0 .. NumVProcs
  /\ exited \in BOOLEAN
  /\ \A v \in VProc : pad[v] \/ limitZero[v] => v \in started

(* A vproc that has counted itself down.  It may be on its way back from a *)
(* heap check.                                                             *)
CountedDown(v) ==
  \/ pc[v] \in {"spin"} \union Exiting
  \/ pc[v] = "top" /\ shutdownPending[v] /\ resumeAt[v] = "spin"

(* No vproc leaves as long as another may still run the program, collect   *)
(* or send it a signal; and the process ends after all of them.            *)
ShutdownIsFinal ==
  /\ \A v \in VProc : pc[v] \in Exiting => \A u \in VProc : CountedDown(u)
  /\ exited => \A v \in VProc : pc[v] \in Exiting

(* DiscoverTopology and VProcInit place the vprocs well. *)
LocationsOK == WellPlaced(machine, dense, loc)

(* Once the program has returned the process ends, if every vproc has left *)
(* the sleep of IdleVProc: wherever they are, asleep, in the middle of a   *)
(* request or in compiled code, they notice.  (The wakeup of that sleep can *)
(* be lost: see VProcSignal.)                                              *)
ProgramExits ==
  ShutdownFlg /\ (\A v \in VProc : pc[v] \notin Waiting) ~> exited
=============================================================================
