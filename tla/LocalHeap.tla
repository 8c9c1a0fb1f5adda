----------------------------- MODULE LocalHeap -----------------------------
(***************************************************************************)
(* A vproc's local heap, its chunks of the global heap, and the collector. *)
(*                                                                         *)
(* The program allocates objects in the nursery and promotes objects to    *)
(* the global heap.  A minor collection copies what lives of the nursery   *)
(* to the words above the old data.  A major collection, which follows     *)
(* when little room is left, copies what lives of the old data to the      *)
(* global heap.  The vproc does all this alone, so that each loop of the   *)
(* collector is one step here.                                             *)
(*                                                                         *)
(* Memory is a function from the data addresses of objects to the objects. *)
(* An object keeps a name through all of its copies: the name is not in    *)
(* the code, it is what the collector must not confuse.  Only the          *)
(* collector changes objects.  What is dead stays in memory until its      *)
(* region is given up.                                                     *)
(***************************************************************************)
EXTENDS HeapSizes, SequencesExt

CONSTANTS
  Roots,     \* how many values the program keeps, the latest ones (bound)
  MaxAllocs, \* the objects a program allocates (bound); they are named 1 .. MaxAllocs
  NoName,    \* stands for "no pointer" in the graph of objects
  Shapes,    \* the numbers of fields objects have
  ChunkSz,   \* HEAP_CHUNK_SZB
  MaxChunks, \* the program stops when this many chunks are in use (bound)
  GlobalCalls \* the functions of alloc.c the program calls

VARIABLES
  obj,        \* the objects in memory
  root,       \* the values of the program, the latest first; 0 is no pointer
  oldTop, nurseryBase, allocPtr,  \* fields of the vproc
  glob,       \* its global heap: globNextW, its list of chunks, usedTop of each chunk
  globalGCPending,
  pc,         \* "mutator", or "scanned" once MinorGC has copied what lives
  nextW,      \* where MinorGC puts the next copy
  allocs      \* how many objects have been allocated (auxiliary)

local == <<oldTop, nurseryBase, allocPtr>>
vars == <<obj, root, local, glob, globalGCPending, pc, nextW, allocs>>

Nil == 0

-----------------------------------------------------------------------------
(* The global heap of the vproc *)

ChunkBase(c) == HeapSz + (c - 1) * ChunkSz
Alloc(g) == Last(g.chunks)
GlobLimit(g) == ChunkBase(Alloc(g)) + ChunkSz

(* The next header goes below the address of the next object. *)
Top(addr) == addr - 1

UsedTopOfChunk(g, c) == IF c = Alloc(g) THEN Top(g.nextW) ELSE g.used[c]

(* Faulty variant: usedTop is the limit of the chunk that is full. *)
UsedToTheEnd(g) ==
  LET c == Len(g.used) + 1
  IN  [nextW |-> FirstObject(ChunkBase(c)),
       chunks |-> Append(g.chunks, c),
       used |-> Append([g.used EXCEPT ![Alloc(g)] = GlobLimit(g)], ChunkBase(c))]

(* AllocToSpaceChunk: a chunk at the tail of the list. *)
AllocToSpaceChunk(g) ==
  LET c == Len(g.used) + 1
  IN  [nextW |-> FirstObject(ChunkBase(c)),
       chunks |-> Append(g.chunks, c),
       used |-> Append([g.used EXCEPT ![Alloc(g)] = Top(g.nextW)], ChunkBase(c))]

(* The chunk after c in the list. *)
NextOf(g, c) == g.chunks[1 + CHOOSE k \in DOMAIN g.chunks : g.chunks[k] = c]

(* PushToSpaceChunks: all chunks but the last go to the node, for the next *)
(* global collection to scan.                                              *)
PushToSpaceChunks(g) == [g EXCEPT !.chunks = <<Alloc(g)>>]

EnsureGlobalSpace(g, n) ==
  IF g.nextW + n + 1 >= GlobLimit(g) THEN PushToSpaceChunks(AllocToSpaceChunk(g)) ELSE g

InitVProcHeap ==
  [nextW |-> FirstObject(ChunkBase(1)), chunks |-> <<1>>, used |-> <<ChunkBase(1)>>]

-----------------------------------------------------------------------------
(* Copying.  A copier m is what a collection works on: the memory, where   *)
(* the next copy goes, and the value it has just forwarded.                *)

(* The object is copied and its header becomes a forward pointer. *)
CopyTo(mem, a, b) == (b :> [mem[a] EXCEPT !.fwd = Nil]) @@ [mem EXCEPT ![a].fwd = b]

SizeOf(o) == Len(o.fields) + 1

(* Faulty variant: an object that has been copied is copied again. *)
CopyAlways(m, v) ==
  [mem |-> CopyTo(m.mem, v, m.next), next |-> m.next + SizeOf(m.mem[v]), v |-> m.next]

ForwardObjMinor(m, v) ==
  IF m.mem[v].fwd # Nil
  THEN [m EXCEPT !.v = m.mem[v].fwd]
  ELSE [mem |-> CopyTo(m.mem, v, m.next), next |-> m.next + SizeOf(m.mem[v]), v |-> m.next]

NoRoom(g, n) == g.nextW + n >= GlobLimit(g)

ForwardObjMajor(m, v) ==
  IF m.mem[v].fwd # Nil
  THEN [m EXCEPT !.v = m.mem[v].fwd]
  ELSE LET g == IF NoRoom(m.glob, Len(m.mem[v].fields)) THEN AllocToSpaceChunk(m.glob)
                ELSE m.glob
       IN  [mem |-> CopyTo(m.mem, v, g.nextW),
            glob |-> [g EXCEPT !.nextW = @ + SizeOf(m.mem[v])],
            v |-> g.nextW]

InNursery(v) == v # Nil /\ InAddrRange(nurseryBase, Top(allocPtr) - nurseryBase, v)
IsOld(v) == v # Nil /\ InAddrRange(0, oldTop, v)

(* What MinorGC, MajorGC and ScanGlobalToSpace make of a value they find. *)
Minor(m, v) == IF InNursery(v) THEN ForwardObjMinor(m, v) ELSE [m EXCEPT !.v = v]

(* Faulty variant: a pointer to a young object keeps its value. *)
LeaveYoung(m, v) == IF IsOld(v) THEN ForwardObjMajor(m, v) ELSE [m EXCEPT !.v = v]

(* The young objects will slide down by the size of the old data. *)
Major(m, v) ==
  IF IsOld(v) THEN ForwardObjMajor(m, v)
  ELSE [m EXCEPT !.v = IF InVPHeap(v) THEN v - oldTop ELSE v]

Promoted(m, v) == IF InVPHeap(v) THEN ForwardObjMajor(m, v) ELSE [m EXCEPT !.v = v]

(* All values of the program. *)
ForwardRoots(Forward(_, _), m) ==
  LET Root(s, v) == LET t == Forward(s.m, v) IN [m |-> t, root |-> Append(s.root, t.v)]
  IN  FoldLeft(Root, [m |-> m, root |-> <<>>], root)

(* All fields of the object at a. *)
ScanFields(Forward(_, _), m, a) ==
  LET Field(s, j) == LET t == Forward(s, s.mem[a].fields[j])
                     IN  [t EXCEPT !.mem[a].fields[j] = t.v]
  IN  FoldLeft(Field, m, [j \in DOMAIN m.mem[a].fields |-> j])

HeaderAfter(m, a) == a + Len(m.mem[a].fields)

(* MinorGC scans to-space up to where it copies to. *)
RECURSIVE ScanToSpace(_, _)
ScanToSpace(m, nextScan) ==
  IF nextScan >= Top(m.next) THEN m
  ELSE LET a == FirstObject(nextScan)
       IN  ScanToSpace(ScanFields(Minor, m, a), HeaderAfter(m, a))

(* MajorGC scans what survived the minor collection, where it lies. *)
RECURSIVE ScanYoung(_, _)
ScanYoung(m, nextScan) ==
  IF nextScan >= Top(nextW) THEN m
  ELSE LET a == FirstObject(nextScan)
       IN  ScanYoung(ScanFields(Major, m, a), HeaderAfter(m, a))

(* Faulty variant: a chunk that filled up meanwhile is left at the scanTop *)
(* computed before.                                                        *)
StaleTop(g, s) == IF s.chunk = Alloc(g) THEN Top(g.nextW) ELSE s.top

(* scanTop once the objects below it are scanned: there may be new ones,   *)
(* also if the vproc allocates in another chunk by now.                    *)
NewTop(g, s) ==
  IF s.chunk = Alloc(g) \/ s.handlingAlloc THEN UsedTopOfChunk(g, s.chunk) ELSE s.top

(* The locals of ScanGlobalToSpace when it begins with a chunk. *)
BeginChunk(g, c, scanPtr) ==
  [chunk |-> c, ptr |-> scanPtr, top |-> UsedTopOfChunk(g, c), handlingAlloc |-> c = Alloc(g)]

RECURSIVE ScanGlobalToSpace(_, _)
ScanGlobalToSpace(m, s) ==
  IF s.ptr < s.top
  THEN LET a == FirstObject(s.ptr)
       IN  ScanGlobalToSpace(ScanFields(Promoted, m, a), [s EXCEPT !.ptr = HeaderAfter(m, a)])
  ELSE IF s.ptr < NewTop(m.glob, s)
  THEN ScanGlobalToSpace(m, [s EXCEPT !.top = NewTop(m.glob, s)])
  ELSE IF s.chunk = Alloc(m.glob) THEN m
  ELSE LET c == NextOf(m.glob, s.chunk)
           t == BeginChunk(m.glob, c, ChunkBase(c))
       IN  IF t.ptr < t.top THEN ScanGlobalToSpace(m, t) ELSE m

(* Everything in the global heap from globNextW of g on is scanned. *)
ScanNew(m, g) == ScanGlobalToSpace(m, BeginChunk(m.glob, Alloc(g), Top(g.nextW)))

GlobalCopier == [mem |-> obj, glob |-> glob, v |-> Nil]

-----------------------------------------------------------------------------
(* The program *)

Init ==
  /\ obj = <<>>
  /\ root = [r \in 1 .. Roots |-> Nil]
  /\ oldTop = 0
  /\ nurseryBase = NurseryBase(0)
  /\ allocPtr = FirstObject(NurseryBase(0))
  /\ glob = InitVProcHeap
  /\ globalGCPending = FALSE
  /\ pc = "mutator"
  /\ nextW = FirstObject(0)
  /\ allocs = 0

Values == ToSet(root) \union {Nil}
Fields == UNION {[1 .. n -> Values] : n \in Shapes}

(* A new value takes the place of the oldest. *)
Latest(v) == <<v>> \o Front(root)

NewObject(fields) == [name |-> allocs + 1, fields |-> fields, fwd |-> Nil]

Create(a, fields) ==
  /\ pc = "mutator"
  /\ allocs < MaxAllocs /\ allocs' = allocs + 1
  /\ obj' = (a :> NewObject(fields)) @@ obj
  /\ root' = Latest(a)

(* Compiled code, and AllocUniform, AllocNonUniform and AllocRaw: the      *)
(* limit has been checked.                                                 *)
AllocLocal(fields) ==
  /\ MayAllocate(allocPtr)
  /\ Create(allocPtr, fields)
  /\ allocPtr' = allocPtr + Len(fields) + 1
  /\ UNCHANGED <<oldTop, nurseryBase, glob, globalGCPending, pc, nextW>>

(* GlobalAllocUniform makes sure of the space and puts the object at       *)
(* globNextW, as the functions for vectors and arrays do;                  *)
(* GlobalAllocNonUniform reads globNextW first.  The values in the fields  *)
(* have been promoted before.                                              *)
AllocGlobal(fields, call) ==
  LET g == EnsureGlobalSpace(glob, Len(fields))
  IN  /\ Len(glob.used) < MaxChunks
      /\ \A j \in DOMAIN fields : ~ InVPHeap(fields[j])
      /\ Create(IF call = "GlobalAllocNonUniform" THEN glob.nextW ELSE g.nextW, fields)
      /\ glob' = [g EXCEPT !.nextW = @ + Len(fields) + 1]
      /\ UNCHANGED <<local, globalGCPending, pc, nextW>>

(* A field is read; that of a forwarded object's old copy is as good. *)
Load(r, j) ==
  /\ pc = "mutator"
  /\ root[r] # Nil
  /\ j \in DOMAIN obj[root[r]].fields
  /\ root' = Latest(obj[root[r]].fields[j])
  /\ UNCHANGED <<obj, local, glob, globalGCPending, pc, nextW, allocs>>

(* The program does something else.  (A collection that is stuck is so the *)
(* only deadlock.)                                                         *)
Compute == pc = "mutator" /\ UNCHANGED vars

(* PromoteObj: an object and all it leads to go to the global heap. *)
Promote(r) ==
  /\ pc = "mutator"
  /\ Len(glob.used) < MaxChunks
  /\ InVPHeap(root[r])
  /\ LET copied == ForwardObjMajor(GlobalCopier, root[r])
         m == ScanNew(copied, glob)
     IN  /\ obj' = m.mem
         /\ glob' = PushToSpaceChunks(m.glob)
         /\ root' = [root EXCEPT ![r] = copied.v]
  /\ UNCHANGED <<local, globalGCPending, pc, nextW, allocs>>

-----------------------------------------------------------------------------
(* The collections *)

(* MinorGC: the roots, then to-space.  The heap check of compiled code has *)
(* failed, for lack of room or because another vproc has set               *)
(* globalGCPending and taken away the limit (VProcGlobalGCInterrupt);      *)
(* RunManticore looks again.                                               *)
MinorGC(pending) ==
  /\ pc = "mutator"
  /\ Len(glob.used) < MaxChunks
  /\ ~ MayAllocate(allocPtr) \/ pending
  /\ LET roots == ForwardRoots(Minor, [mem |-> obj, next |-> nextW, v |-> Nil])
         m == ScanToSpace(roots.m, oldTop)
     IN  obj' = m.mem /\ nextW' = m.next /\ root' = roots.root
  /\ globalGCPending' = pending
  /\ pc' = "scanned"
  /\ UNCHANGED <<local, glob, allocs>>

(* SetAllocPtr ends every collection; the program goes on. *)
Resume(old) ==
  /\ oldTop' = old
  /\ nurseryBase' = NurseryBase(old)
  /\ allocPtr' = FirstObject(NurseryBase(old))
  /\ nextW' = FirstObject(old)
  /\ pc' = "mutator"

MinorEnd ==
  /\ pc = "scanned"
  /\ ~ TooFull(Top(nextW), globalGCPending)
  /\ obj' = [a \in {b \in DOMAIN obj : ~ InNursery(b)} |-> obj[a]]
  /\ Resume(Top(nextW))
  /\ UNCHANGED <<root, glob, globalGCPending, allocs>>

Young(a) == oldTop < a /\ a <= Top(nextW)

(* memmove: the young objects slide down over the old ones. *)
SlideYoung(mem) ==
  [a \in {b - oldTop : b \in {c \in DOMAIN mem : Young(c)}}
          \union {b \in DOMAIN mem : ~ InVPHeap(b)} |->
     IF InVPHeap(a) THEN mem[a + oldTop] ELSE mem[a]]

(* MajorGC.  A global collection that waits follows: the subject of        *)
(* GlobalGC.                                                               *)
MajorGC ==
  /\ pc = "scanned"
  /\ TooFull(Top(nextW), globalGCPending)
  /\ LET roots == ForwardRoots(Major, GlobalCopier)
         m == ScanNew(ScanYoung(roots.m, oldTop), glob)
     IN  /\ obj' = SlideYoung(m.mem)
         /\ glob' = PushToSpaceChunks(m.glob)
         /\ root' = roots.root
  /\ globalGCPending' = FALSE
  /\ Resume(Top(nextW) - oldTop)
  /\ UNCHANGED allocs

Mutator ==
  \/ \E f \in Fields : AllocLocal(f)
  \/ \E f \in Fields, call \in GlobalCalls : AllocGlobal(f, call)
  \/ \E r \in 1 .. Roots, j \in 1 .. Max(Shapes) : Load(r, j)
  \/ \E r \in 1 .. Roots : Promote(r)
  \/ Compute

Collector ==
  \/ \E pending \in BOOLEAN : MinorGC(pending)
  \/ MinorEnd \/ MajorGC

Next == Mutator \/ Collector

Spec == Init /\ [][Next]_vars

-----------------------------------------------------------------------------
(* Every variable has its type. *)
TypeOK ==
  /\ \A a \in DOMAIN obj :
       /\ obj[a].name \in 1 .. allocs /\ Len(obj[a].fields) \in Shapes
       /\ obj[a].fwd \in DOMAIN obj \union {Nil}
  /\ root \in [1 .. Roots -> Nat]
  /\ {oldTop, nurseryBase, allocPtr, nextW} \subseteq 0 .. HeapSz
  /\ glob.nextW \in Nat /\ ToSet(glob.chunks) \subseteq DOMAIN glob.used
  /\ globalGCPending \in BOOLEAN
  /\ pc \in {"mutator", "scanned"}

ChunkOf(a) == (a - HeapSz) \div ChunkSz + 1

(* The words of the object at a. *)
Words(a) == Top(a) .. (HeaderAfter([mem |-> obj], a) - 1)

(* The used part of a chunk, [baseAddr..usedTop), is made of whole objects, *)
(* one after the other: only so a collector can walk it.                    *)
ChunksParse ==
  \A c \in DOMAIN glob.used :
    LET there == {a \in DOMAIN obj : ~ InVPHeap(a) /\ ChunkOf(a) = c}
    IN  /\ UsedTopOfChunk(glob, c) <= ChunkBase(c) + ChunkSz
        /\ UNION {Words(a) : a \in there} = ChunkBase(c) .. (UsedTopOfChunk(glob, c) - 1)
        /\ \A a, b \in there : a # b => Words(a) \cap Words(b) = {}

(* Between collections no pointer leads out of memory, from the global     *)
(* heap to the local one, or from old data to the nursery, where the       *)
(* collections would not look for it.                                      *)
PointersKept ==
  pc = "mutator" =>
    /\ ToSet(root) \subseteq DOMAIN obj \union {Nil}
    /\ \A a \in DOMAIN obj : \A v \in ToSet(obj[a].fields) \ {Nil} :
         /\ v \in DOMAIN obj
         /\ ~ InVPHeap(a) => ~ InVPHeap(v)
         /\ IsOld(a) => ~ InNursery(v)

NameOf(v) == IF v \in DOMAIN obj THEN obj[v].name ELSE NoName
RootNames == [r \in 1 .. Roots |-> NameOf(root[r])]
Graph ==
  [x \in {obj[a].name : a \in DOMAIN obj} |->
     LET a == CHOOSE b \in DOMAIN obj : obj[b].name = x
     IN  [j \in DOMAIN obj[a].fields |-> NameOf(obj[a].fields[j])]]

(* MinorGC, MajorGC and PromoteObj are invisible to the program: it sees a *)
(* graph of objects, of which they forget what is dead.                    *)
Objects ==
  INSTANCE ObjectGraph WITH
    Ids <- 1 .. MaxAllocs, Nil <- NoName, MaxLen <- Max(Shapes),
    root <- RootNames, graph <- Graph
ImplementsObjectGraph == Objects!Spec

(* The regions move as HeapLayout has it, which the proofs are about. *)
Layout ==
  INSTANCE HeapLayout WITH
    phase <- pc, top <- Top(nextW)
ImplementsHeapLayout == Layout!Spec
CollectionMakesRoom == Layout!CollectionMakesRoom
=============================================================================
