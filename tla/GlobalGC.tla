------------------------------ MODULE GlobalGC ------------------------------
(***************************************************************************)
(* The global collection: StartGlobalGC.                                   *)
(*                                                                         *)
(* Each vproc enters when its major collection finds that to-space has     *)
(* grown to its limit or that a collection is pending.  The first one      *)
(* leads: it interrupts the others, waits until all have entered, and      *)
(* gives from-space back in the end.  Between setup, copying and           *)
(* reclaiming all meet at a barrier.                                       *)
(*                                                                         *)
(* A step reaches from one synchronisation to the next.  How an interrupt  *)
(* travels is VProcSignal's subject: here it sets globalGCPending, and     *)
(* its vproc gets to a heap check in the end.                              *)
(***************************************************************************)
EXTENDS ToSpace

CONSTANTS
  BaseHeapSz,     \* BaseHeapSzB, the first limit, in chunks
  HeapScaleNum, HeapScaleDenom,  \* the limit grows with the live data
  PerVProcSz,     \* PER_VPROC_HEAP_SZB in chunks
  MaxToSpace      \* vprocs between collections use less than this (bound)

(* There is a vproc, and a chunk for each.  *)
FirstChunks == {f \in [VProcs -> Chunks] : \A u, v \in VProcs : u # v => f[u] # f[v]}

ASSUME GlobalGCAssumption ==
  /\ VProcs # {}
  /\ FirstChunks # {}
  /\ {BaseHeapSz, PerVProcSz, MaxToSpace} \subseteq Nat
  /\ HeapScaleNum \in Nat
  /\ HeapScaleDenom \in Nat \ {0}
  /\ HeapScaleNum >= HeapScaleDenom

VARIABLES
  globalGCPending,     \* vp->globalGCPending
  inProgress,          \* GlobalGCInProgress
  allReady,            \* AllReadyForGC
  nReady,              \* NReadyForGC
  leader,              \* the vproc with leaderVProc set in this collection
  toInterrupt,         \* the vprocs the leader has yet to interrupt
  blocked,             \* those in the wait sets of LeaderWait and FollowerWait
  nWaiting,            \* of GCBarrier0, GCBarrier1 and GCBarrier2
  toSpaceLimit         \* ToSpaceLimit, in chunks

handshake == <<inProgress, allReady, nReady, leader, toInterrupt, blocked>>
flags == <<globalGCPending, handshake>>
vars == <<heapVars, detection, scan, pc, flags, nWaiting, toSpaceLimit>>

NumVProcs == Cardinality(VProcs)

(* InitVProcHeap gives each vproc a chunk. *)
Init ==
  /\ HeapInit(CHOOSE f \in FirstChunks : TRUE)
  /\ pc = [v \in VProcs |-> "run"]
  /\ globalGCPending = [v \in VProcs |-> FALSE]
  /\ inProgress = FALSE
  /\ allReady = FALSE
  /\ nReady = 0
  /\ leader = CHOOSE v \in VProcs : TRUE
  /\ toInterrupt = {}
  /\ blocked = {}
  /\ nWaiting = <<0, 0, 0>>
  /\ toSpaceLimit = BaseHeapSz

----------------------------------------------------------------------------
(* Between collections. *)

(* EnsureGlobalSpace, and promotions and major collections that fill a      *)
(* chunk: the full chunk is for the next collection to find.               *)
NewChunk(v) ==
  /\ pc[v] = "run"
  /\ toSpaceSz < MaxToSpace
  /\ \E c \in Chunks :
       /\ AllocToSpaceChunk(v, c)
       /\ own' = [own EXCEPT ![v] = <<c>>]
  /\ unscannedTo' = [unscannedTo EXCEPT ![NodeOf[v]] = @ \union {Alloc(v)}]
  /\ UNCHANGED <<scannedTo, fromSpace, copied, scanned, detection, scan, pc, flags, nWaiting,
                 toSpaceLimit>>

(* The end of MajorGC and the head of StartGlobalGC, before GCLock is taken. *)
Enter(v) ==
  /\ pc[v] = "run"
  /\ globalGCPending[v] \/ toSpaceSz >= toSpaceLimit
  /\ globalGCPending' = [globalGCPending EXCEPT ![v] = FALSE]
  /\ Goto(v, "lock")
  /\ UNCHANGED <<heapVars, detection, scan, handshake, nWaiting, toSpaceLimit>>

----------------------------------------------------------------------------
(* Leader and followers.  The leader holds GCLock while it interrupts the   *)
(* others; no other holder makes more than one step.                       *)

GCLockFree == \A u \in VProcs : pc[u] # "interrupt"

Lead(v) ==
  /\ pc[v] = "lock"
  /\ GCLockFree
  /\ ~ inProgress
  /\ inProgress' = TRUE
  /\ allReady' = FALSE
  /\ nReady' = 1
  /\ leader' = v
  /\ toInterrupt' = VProcs \ {v}
  /\ Goto(v, "interrupt")
  /\ UNCHANGED <<heapVars, detection, scan, globalGCPending, blocked, nWaiting, toSpaceLimit>>

(* VProcGlobalGCInterrupt. *)
Interrupt(v, u) ==
  /\ pc[v] = "interrupt"
  /\ u \in toInterrupt
  /\ globalGCPending' = [globalGCPending EXCEPT ![u] = TRUE]
  /\ toInterrupt' = toInterrupt \ {u}
  /\ UNCHANGED <<heapVars, detection, scan, pc, inProgress, allReady, nReady, leader, blocked,
                 nWaiting, toSpaceLimit>>

(* Faulty variants: the leader does not wait for the others, the barriers   *)
(* are not initialised again, the last follower does not signal LeaderWait. *)
Anybody == TRUE
KeepBarriers == UNCHANGED nWaiting
WakeNobody(ready) == blocked

AllHere == nReady = NumVProcs
BarrierInit == nWaiting' = <<0, 0, 0>>
WakeLeader(ready) == IF ready = NumVProcs THEN blocked \ {leader} ELSE blocked

(* The leader looks whether all are here, first with the lock still held    *)
(* and then each time it has been woken.                                   *)
Await(v) ==
  /\ ~ AllHere
  /\ Goto(v, "leaderWait")
  /\ blocked' = blocked \union {v}
  /\ UNCHANGED <<toSpaceSz, allReady, nWaiting>>

Go(v) ==
  /\ AllHere
  /\ toSpaceSz' = 0
  /\ BarrierInit
  /\ allReady' = TRUE
  /\ blocked' = {}
  /\ Goto(v, "setup")

LeaderWait(v) ==
  /\ \/ pc[v] = "interrupt" /\ toInterrupt = {}
     \/ pc[v] = "leaderWait" /\ v \notin blocked /\ GCLockFree
  /\ Await(v) \/ Go(v)
  /\ UNCHANGED <<sts, own, lists, copied, scanned, detection, scan, globalGCPending, inProgress,
                 nReady, leader, toInterrupt, toSpaceLimit>>

(* A follower looks whether the leader has said "go". *)
FollowerAwaits(v, others) ==
  IF allReady
  THEN Goto(v, "setup") /\ blocked' = others
  ELSE Goto(v, "followerWait") /\ blocked' = others \union {v}

Follow(v) ==
  /\ pc[v] = "lock"
  /\ GCLockFree
  /\ inProgress
  /\ nReady' = nReady + 1
  /\ FollowerAwaits(v, WakeLeader(nReady + 1))
  /\ UNCHANGED <<heapVars, detection, scan, globalGCPending, inProgress, allReady, leader,
                 toInterrupt, nWaiting, toSpaceLimit>>

FollowerWait(v) ==
  /\ pc[v] = "followerWait"
  /\ v \notin blocked
  /\ GCLockFree
  /\ FollowerAwaits(v, blocked)
  /\ UNCHANGED <<heapVars, detection, scan, globalGCPending, inProgress, allReady, nReady,
                 leader, toInterrupt, nWaiting, toSpaceLimit>>

SpuriousReturn(v) ==
  /\ v \in blocked
  /\ blocked' = blocked \ {v}
  /\ UNCHANGED <<heapVars, detection, scan, pc, globalGCPending, inProgress, allReady, nReady,
                 leader, toInterrupt, nWaiting, toSpaceLimit>>

----------------------------------------------------------------------------
(* Setup, copying and reclaiming, with a BarrierWait after each: arriving   *)
(* belongs to the step before it, leaving is the guard of the step after it.*)

Arrive(b) == nWaiting' = [nWaiting EXCEPT ![b] = @ + 1]

(* Faulty variant: nobody waits. *)
AlwaysOpen(b) == b \in 1..3

Open(b) == nWaiting[b] >= NumVProcs

(* Faulty variant: the list is converted but not emptied. *)
LeaveUnscanned(n) == n \in Nodes /\ UNCHANGED unscannedTo

TakeUnscanned(n) == unscannedTo' = [unscannedTo EXCEPT ![n] = {}]

ConvertToSpaceChunks(n, old) ==
  /\ sts' = [c \in Chunks |-> IF c \in old THEN "from" ELSE sts[c]]
  /\ fromSpace' = [fromSpace EXCEPT ![n] = @ \union old]

(* The vproc's chunk and its node's to-space become from-space. *)
Setup(v) ==
  LET n == NodeOf[v]
      old == ToSet(own[v]) \union unscannedTo[n]
  IN  /\ pc[v] = "setup"
      /\ completed' = [completed EXCEPT ![n] = FALSE]
      /\ ConvertToSpaceChunks(n, old)
      /\ TakeUnscanned(n)
      /\ own' = [own EXCEPT ![v] = <<>>]
      /\ Arrive(1)
      /\ Goto(v, "barrier0")
      /\ UNCHANGED <<scannedTo, freeChunks, copied, scanned, toSpaceSz, numWaiting, scanBlocked,
                     scan, flags, toSpaceLimit>>

StartCopying(v) ==
  /\ pc[v] = "barrier0"
  /\ Open(1)
  /\ \E c \in Chunks :
       /\ AllocToSpaceChunk(v, c)
       /\ own' = [own EXCEPT ![v] = <<c>>]
  /\ Goto(v, "roots")
  /\ UNCHANGED <<unscannedTo, scannedTo, fromSpace, copied, scanned, detection, scan, flags,
                 nWaiting, toSpaceLimit>>

Copying(v) == Scan(v) /\ UNCHANGED <<flags, nWaiting, toSpaceLimit>>

DoneCopying(v) ==
  /\ pc[v] = "finished"
  /\ Arrive(2)
  /\ Goto(v, "barrier1")
  /\ UNCHANGED <<heapVars, detection, scan, flags, toSpaceLimit>>

Larger(a, b) == IF a > b THEN a ELSE b

NewLimit ==
  Larger((HeapScaleNum * toSpaceSz) \div HeapScaleDenom, toSpaceSz) + NumVProcs * PerVProcSz

(* The counts of objects are of no use after the collection. *)
Reclaim(v) ==
  /\ sts' = [c \in Chunks |-> IF \E n \in Nodes : c \in fromSpace[n] THEN "free" ELSE sts[c]]
  /\ freeChunks' = [n \in Nodes |-> freeChunks[n] \union fromSpace[n]]
  /\ unscannedTo' = scannedTo
  /\ scannedTo' = [n \in Nodes |-> {}]
  /\ fromSpace' = [n \in Nodes |-> {}]
  /\ copied' = [c \in Chunks |-> 0]
  /\ scanned' = [c \in Chunks |-> 0]
  /\ inProgress' = FALSE
  /\ toSpaceLimit' = NewLimit
  /\ UNCHANGED <<own, toSpaceSz, allReady, nReady, leader, toInterrupt, blocked>>

AfterCopying(v) ==
  /\ pc[v] = "barrier1"
  /\ Open(2)
  /\ \/ v = leader /\ Reclaim(v)
     \/ v # leader /\ UNCHANGED <<heapVars, handshake, toSpaceLimit>>
  /\ Arrive(3)
  /\ Goto(v, "barrier2")
  /\ UNCHANGED <<detection, scan, globalGCPending>>

Resume(v) ==
  /\ pc[v] = "barrier2"
  /\ Open(3)
  /\ Goto(v, "run")
  /\ UNCHANGED <<heapVars, detection, scan, flags, nWaiting, toSpaceLimit>>

----------------------------------------------------------------------------
(* What a vproc does by itself once it is in the collection. *)
Collect(v) ==
  \/ Lead(v)
  \/ \E u \in VProcs : Interrupt(v, u)
  \/ LeaderWait(v)
  \/ Follow(v)
  \/ FollowerWait(v)
  \/ Setup(v)
  \/ StartCopying(v)
  \/ Copying(v)
  \/ DoneCopying(v)
  \/ AfterCopying(v)
  \/ Resume(v)

Spurious(v) == SpuriousWakeup(v) /\ UNCHANGED <<flags, nWaiting, toSpaceLimit>>

Next ==
  \E v \in VProcs :
    NewChunk(v) \/ Enter(v) \/ Collect(v) \/ Spurious(v) \/ SpuriousReturn(v)

(* The OS runs every thread, a pending collection is seen at a heap check,  *)
(* and what a vproc copies is finite.                                      *)
Fairness ==
  \A v \in VProcs :
    /\ WF_vars(globalGCPending[v] /\ Enter(v))
    /\ WF_vars(Collect(v))

Spec == Init /\ [][Next]_vars
FairSpec == Spec /\ Fairness

----------------------------------------------------------------------------
(* Properties. *)

Entering == {"lock", "interrupt", "leaderWait", "followerWait", "setup", "barrier0"}
Copiers == {"roots", "signal", "next", "scan", "broadcast", "scanWait", "finished", "barrier1"}

(* Types of the variables that the steps of StartGlobalGC (global-gc.c:163) *)
(* and of the scan change.                                                 *)
TypeOK ==
  /\ sts \in [Chunks -> {"unmapped", "free", "to", "from"}]
  /\ own \in [VProcs -> Seq(Chunks)]
  /\ \A list \in {unscannedTo, scannedTo, fromSpace, freeChunks} :
       list \in [Nodes -> SUBSET Chunks]
  /\ numWaiting \in [Nodes -> 0..NumVProcs]
  /\ completed \in [Nodes -> BOOLEAN]
  /\ scanBlocked \subseteq VProcs
  /\ copied \in [Chunks -> 0..ChunkObjs]
  /\ scanned \in [Chunks -> 0..ChunkObjs]
  /\ scanChunk \in [VProcs -> Chunks \union {NoChunk}]
  /\ scanTop \in [VProcs -> 0..ChunkObjs]
  /\ toSpaceSz \in Nat
  /\ pc \in [VProcs -> {"run", "barrier2"} \union Entering \union Copiers]
  /\ globalGCPending \in [VProcs -> BOOLEAN]
  /\ inProgress \in BOOLEAN
  /\ allReady \in BOOLEAN
  /\ nReady \in 0..NumVProcs
  /\ leader \in VProcs
  /\ toInterrupt \subseteq VProcs
  /\ blocked \subseteq VProcs
  /\ nWaiting \in [1..3 -> 0..NumVProcs]
  /\ toSpaceLimit \in Nat

(* Where chunk c is, and the status a chunk has there. *)
Homes(c) ==
  {<<"from", n>> : n \in {k \in Nodes : c \in fromSpace[k]}}
  \union {<<"free", n>> : n \in {k \in Nodes : c \in freeChunks[k]}}
  \union {<<"to", <<n, "unscanned">>>> : n \in {k \in Nodes : c \in unscannedTo[k]}}
  \union {<<"to", <<n, "scanned">>>> : n \in {k \in Nodes : c \in scannedTo[k]}}
  \union {<<"to", v>> : v \in {u \in VProcs : c \in ToSet(own[u]) \union {scanChunk[u]}}}

(* While chunks go from list to list under different locks and from vproc   *)
(* to vproc (global-gc.c:235-260, 312-336, 463-599, major-gc.c:80), each   *)
(* is in one place and has the status isFromSpacePtr expects of it there.  *)
ChunkHome ==
  \A c \in Chunks :
    IF sts[c] = "unmapped" THEN Homes(c) = {}
    ELSE \E place \in Homes(c) : Homes(c) = {place} /\ place[1] = sts[c]

(* ToSpaceSz, which decides when to collect and how far the heap may grow,  *)
(* is the size of to-space.  From the leader's reset (global-gc.c:217) to  *)
(* the last setup it leaves out what is about to become from-space; when a *)
(* vproc begins to copy, all that is not new is marked as from-space.      *)
SizeIsCounted ==
  \/ allReady /\ \E v \in VProcs : pc[v] \in {"followerWait", "setup"}
  \/ toSpaceSz = Cardinality({c \in Chunks : sts[c] = "to"})

(* The leader gives from-space back (global-gc.c:312) only when every object *)
(* in to-space has been scanned, on all nodes: no pointer into it is left. *)
ReclaimedWhenScanned ==
  [][(\E c \in Chunks : sts[c] = "from" /\ sts'[c] = "free") =>
       \A c \in Chunks : sts[c] = "to" => scanned[c] = copied[c]]_vars

StatusAt(place) ==
  CASE place = "run" -> "running"
    [] place \in Entering -> "stopped"
    [] place \in Copiers -> "copying"
    [] OTHER -> "finished"

WorldStatus == [v \in VProcs |-> StatusAt(pc[v])]

World == INSTANCE StopTheWorld WITH status <- WorldStatus

(* The handshake and the barriers of StartGlobalGC (global-gc.c:179-360)    *)
(* stop the world while objects are copied.                                *)
ImplementsStopTheWorld == World!Spec

(* Each vproc that enters StartGlobalGC gets out of it: no wakeup of leader, *)
(* followers or scanners is lost, and the scan ends (global-gc.c:214-518). *)
CollectionEnds == \A v \in VProcs : (pc[v] # "run") ~> (pc[v] = "run")
=============================================================================
