------------------------------ MODULE ToSpace ------------------------------
(***************************************************************************)
(* The chunks of the global heap and the parallel scan of to-space.        *)
(*                                                                         *)
(* A vproc copies objects into its allocation chunk, the last of a list of *)
(* chunks of its own.  Full chunks go to the unscanned list of the node,   *)
(* from where any vproc of the node takes them, scans their objects, which *)
(* copies more objects, and puts them on the scanned list.  A vproc that   *)
(* finds nothing to scan waits; when all of a node wait the scan is over.  *)
(*                                                                         *)
(* Objects are counted: copied[c] of them have come to chunk c in this     *)
(* collection, and the fields of the first scanned[c] have been scanned.   *)
(* What an object holds is left open: scanning it copies any number.  The  *)
(* lists are sets, and which of several free chunks is taken is immaterial.*)
(***************************************************************************)
EXTENDS SequencesExt

CONSTANTS
  VProcs,     \* the virtual processors
  Nodes,      \* the nodes of the machine
  NodeOf,     \* the node of each vproc: LocationNode(vp->location)
  Chunks,     \* the chunks the operating system can provide (bound)
  ChunkObjs,  \* the objects that fit in a chunk
  MaxLive,    \* the objects that one collection copies at most (bound)
  NoChunk     \* stands for "no chunk"

ASSUME ToSpaceAssumption ==
  /\ IsFiniteSet(VProcs)
  /\ IsFiniteSet(Chunks)
  /\ NodeOf \in [VProcs -> Nodes]
  /\ ChunkObjs \in Nat \ {0}
  /\ MaxLive \in Nat
  /\ NoChunk \notin Chunks

VARIABLES
  sts,          \* the status of a chunk: unmapped, free, to (-space) or from (-space)
  own,          \* the chunks of a vproc; the last one is vp->globAllocChunk
  unscannedTo, scannedTo, fromSpace, freeChunks,  \* the lists of a node
  numWaiting, completed,                          \* its detection of the end
  scanBlocked,  \* the vprocs in the wait set of their node's scanWait
  copied, scanned,  \* the objects of a chunk
  scanChunk,    \* the chunk a vproc is scanning, or NoChunk
  scanTop,      \* its scanTop, as last computed
  toSpaceSz,    \* ToSpaceSz, in chunks
  pc            \* where a vproc is

lists == <<unscannedTo, scannedTo, fromSpace, freeChunks>>
detection == <<numWaiting, completed, scanBlocked>>
scan == <<scanChunk, scanTop>>
heapVars == <<sts, own, lists, copied, scanned, toSpaceSz>>

Goto(v, label) == pc' = [pc EXCEPT ![v] = label]

Peers(v) == {u \in VProcs : NodeOf[u] = NodeOf[v]}

Alloc(v) == Last(own[v])

(* A chunk from the node's free list or else from the operating system. *)
FreshChunk(n) ==
  LET unmapped == {c \in Chunks : sts[c] = "unmapped"}
      from == IF freeChunks[n] # {} THEN freeChunks[n] ELSE unmapped
  IN  IF from = {} THEN {} ELSE {CHOOSE c \in from : TRUE}

(* AllocToSpaceChunk, as far as lists and sizes go. *)
AllocToSpaceChunk(v, c) ==
  /\ c \in FreshChunk(NodeOf[v])
  /\ sts' = [sts EXCEPT ![c] = "to"]
  /\ freeChunks' = [freeChunks EXCEPT ![NodeOf[v]] = @ \ {c}]
  /\ toSpaceSz' = toSpaceSz + 1

(* PushToSpaceChunks: all chunks of the list but the last are for anyone.  *)
Pushed(v) == ToSet(Front(own[v]))

(* Faulty variant: the vproc keeps the chunks it has pushed. *)
PushAndKeep(v, chunks) ==
  /\ unscannedTo' = [unscannedTo EXCEPT ![NodeOf[v]] = @ \union chunks]
  /\ UNCHANGED own
  /\ Goto(v, IF chunks = {} THEN "next" ELSE "signal")

(* One waiting vproc is woken after that, by then without the lock.         *)
Push(v, chunks) ==
  /\ unscannedTo' = [unscannedTo EXCEPT ![NodeOf[v]] = @ \union chunks]
  /\ own' = [own EXCEPT ![v] = <<Alloc(v)>>]
  /\ Goto(v, IF chunks = {} THEN "next" ELSE "signal")

HeapInit(firstChunk) ==
  /\ sts = [c \in Chunks |-> IF c \in {firstChunk[v] : v \in VProcs} THEN "to" ELSE "unmapped"]
  /\ own = [v \in VProcs |-> <<firstChunk[v]>>]
  /\ unscannedTo = [n \in Nodes |-> {}]
  /\ scannedTo = [n \in Nodes |-> {}]
  /\ fromSpace = [n \in Nodes |-> {}]
  /\ freeChunks = [n \in Nodes |-> {}]
  /\ numWaiting = [n \in Nodes |-> 0]
  /\ completed \in [Nodes -> BOOLEAN]
  /\ scanBlocked = {}
  /\ copied = [c \in Chunks |-> 0]
  /\ scanned = [c \in Chunks |-> 0]
  /\ scanChunk = [v \in VProcs |-> NoChunk]
  /\ scanTop = [v \in VProcs |-> 0]
  /\ toSpaceSz = Cardinality(VProcs)

----------------------------------------------------------------------------
(* All that has been copied. *)
Live == FoldFunction(LAMBDA a, b : a + b, 0, copied)

(* ForwardObjGlobal: when the chunk is full a new one is begun, before the   *)
(* CAS on the object's header tells who copies it.                         *)
Forward(v) ==
  /\ \/ pc[v] = "roots"
     \/ pc[v] = "scan" /\ scanned[scanChunk[v]] < scanTop[v]
  /\ Live < MaxLive
  /\ \/ /\ copied[Alloc(v)] < ChunkObjs
        /\ copied' = [copied EXCEPT ![Alloc(v)] = @ + 1]
        /\ UNCHANGED <<sts, freeChunks, toSpaceSz, own>>
     \/ /\ copied[Alloc(v)] = ChunkObjs
        /\ \E c \in Chunks, won \in 0..1 :
             /\ AllocToSpaceChunk(v, c)
             /\ own' = [own EXCEPT ![v] = Append(@, c)]
             /\ copied' = [copied EXCEPT ![c] = won]
  /\ UNCHANGED <<unscannedTo, scannedTo, fromSpace, scanned, detection, scan, pc>>

(* GlobalGC: the roots and the local heap have been scanned. *)
RootsDone(v) ==
  /\ pc[v] = "roots"
  /\ Push(v, Pushed(v))
  /\ UNCHANGED <<sts, scannedTo, fromSpace, freeChunks, copied, scanned, toSpaceSz, detection, scan>>

SignalScanWait(v) ==
  /\ pc[v] = "signal"
  /\ \/ \E u \in Peers(v) \intersect scanBlocked : scanBlocked' = scanBlocked \ {u}
     \/ Peers(v) \intersect scanBlocked = {} /\ UNCHANGED scanBlocked
  /\ Goto(v, "next")
  /\ UNCHANGED <<heapVars, numWaiting, completed, scan>>

----------------------------------------------------------------------------
(* GetNextScanChunk, one round of its loop under the node's lock, when      *)
(* others of the node's vprocs are counted as waiting.                      *)
StartScan(v, c) ==
  /\ scanChunk' = [scanChunk EXCEPT ![v] = c]
  /\ scanTop' = [scanTop EXCEPT ![v] = copied[c]]
  /\ Goto(v, "scan")

(* Faulty variant: the vproc's own allocation chunk is forgotten. *)
NothingListed(v) == unscannedTo[NodeOf[v]] = {}

NothingToScan(v) ==
  unscannedTo[NodeOf[v]] = {} /\ scanned[Alloc(v)] = copied[Alloc(v)]

NextChunk(v, others) ==
  LET n == NodeOf[v]
  IN  \/ /\ \E c \in unscannedTo[n] :
              /\ unscannedTo' = [unscannedTo EXCEPT ![n] = @ \ {c}]
              /\ StartScan(v, c)
         /\ numWaiting' = [numWaiting EXCEPT ![n] = others]
         /\ UNCHANGED <<completed, scanBlocked>>
      \/ /\ unscannedTo[n] = {}
         /\ scanned[Alloc(v)] < copied[Alloc(v)]
         /\ StartScan(v, Alloc(v))
         /\ numWaiting' = [numWaiting EXCEPT ![n] = others]
         /\ UNCHANGED <<unscannedTo, completed, scanBlocked>>
      \/ /\ NothingToScan(v)
         /\ others + 1 = Cardinality(Peers(v))
         /\ completed' = [completed EXCEPT ![n] = TRUE]
         /\ numWaiting' = [numWaiting EXCEPT ![n] = others]
         /\ Goto(v, "broadcast")
         /\ UNCHANGED <<unscannedTo, scanBlocked, scan>>
      \/ /\ NothingToScan(v)
         /\ others + 1 # Cardinality(Peers(v))
         /\ IF completed[n]
            THEN /\ Goto(v, "finished")
                 /\ numWaiting' = [numWaiting EXCEPT ![n] = others]
                 /\ UNCHANGED scanBlocked
            ELSE /\ Goto(v, "scanWait")
                 /\ numWaiting' = [numWaiting EXCEPT ![n] = others + 1]
                 /\ scanBlocked' = scanBlocked \union {v}
         /\ UNCHANGED <<unscannedTo, completed, scan>>

GetNextScanChunk(v) ==
  /\ pc[v] = "next"
  /\ NextChunk(v, numWaiting[NodeOf[v]])
  /\ UNCHANGED <<sts, own, scannedTo, fromSpace, freeChunks, copied, scanned, toSpaceSz>>

BroadcastScanWait(v) ==
  /\ pc[v] = "broadcast"
  /\ scanBlocked' = scanBlocked \ Peers(v)
  /\ Goto(v, "finished")
  /\ UNCHANGED <<heapVars, numWaiting, completed, scan>>

(* The wait is over, for whatever reason. *)
WakeScanWait(v) ==
  /\ pc[v] = "scanWait"
  /\ v \notin scanBlocked
  /\ LET others == numWaiting[NodeOf[v]] - 1
     IN  \/ /\ completed[NodeOf[v]]
            /\ numWaiting' = [numWaiting EXCEPT ![NodeOf[v]] = others]
            /\ Goto(v, "finished")
            /\ UNCHANGED <<unscannedTo, completed, scanBlocked, scan>>
         \/ ~ completed[NodeOf[v]] /\ NextChunk(v, others)
  /\ UNCHANGED <<sts, own, scannedTo, fromSpace, freeChunks, copied, scanned, toSpaceSz>>

(* A condition variable may return without a signal. *)
SpuriousWakeup(v) ==
  /\ v \in scanBlocked
  /\ scanBlocked' = scanBlocked \ {v}
  /\ UNCHANGED <<heapVars, numWaiting, completed, scan, pc>>

----------------------------------------------------------------------------
(* ScanGlobalToSpace. *)

ScanObject(v) ==
  /\ pc[v] = "scan"
  /\ scanned[scanChunk[v]] < scanTop[v]
  /\ scanned' = [scanned EXCEPT ![scanChunk[v]] = @ + 1]
  /\ UNCHANGED <<sts, own, lists, copied, toSpaceSz, detection, scan, pc>>

AtTop(v) == pc[v] = "scan" /\ scanned[scanChunk[v]] = scanTop[v]

(* The scan began on the chunk that was then the allocation chunk. *)
handlingAlloc(v) == scanChunk[v] = Head(own[v])

(* Only that chunk can have got objects since scanTop was computed. *)
ScanMore(v) ==
  /\ AtTop(v)
  /\ handlingAlloc(v)
  /\ scanTop[v] < copied[scanChunk[v]]
  /\ scanTop' = [scanTop EXCEPT ![v] = copied[scanChunk[v]]]
  /\ UNCHANGED <<heapVars, detection, scanChunk, pc>>

(* Faulty variant: scanTop is not computed again when the chunk filled up. *)
FinalTopStale(v) ==
  IF handlingAlloc(v) /\ Alloc(v) # scanChunk[v] THEN scanTop[v] ELSE copied[scanChunk[v]]

FinalTop(v) == copied[scanChunk[v]]

(* The chunk is finished: unless it is the allocation chunk still, it goes  *)
(* to the scanned list, and the chunks begun meanwhile to the unscanned one.*)
ScanDone(v) ==
  LET c == scanChunk[v]
  IN  /\ AtTop(v)
      /\ scanTop[v] = FinalTop(v)
      /\ scannedTo' = [scannedTo EXCEPT ![NodeOf[v]] = @ \union ({c} \ {Alloc(v)})]
      /\ Push(v, Pushed(v) \ {c})
      /\ scanChunk' = [scanChunk EXCEPT ![v] = NoChunk]
      /\ scanTop' = [scanTop EXCEPT ![v] = 0]
      /\ UNCHANGED <<sts, fromSpace, freeChunks, copied, scanned, toSpaceSz, detection>>

Scan(v) ==
  \/ Forward(v) \/ RootsDone(v) \/ SignalScanWait(v)
  \/ GetNextScanChunk(v) \/ BroadcastScanWait(v) \/ WakeScanWait(v)
  \/ ScanObject(v) \/ ScanMore(v) \/ ScanDone(v)
=============================================================================
