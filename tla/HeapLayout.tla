----------------------------- MODULE HeapLayout -----------------------------
(***************************************************************************)
(* How the regions of a local heap move, whatever the objects hold.        *)
(*                                                                         *)
(*     0          oldTop         top        nurseryBase   allocPtr  HeapSz *)
(*     | old data   | survivors   | free      | new objects |  free   |    *)
(*                                                                         *)
(* A minor collection copies what survives of the nursery to the words     *)
(* above oldTop.  Either it becomes old data, or a major collection moves  *)
(* the old data to the global heap and the survivors to the heap base.     *)
(***************************************************************************)
EXTENDS HeapSizes

VARIABLES
  phase,       \* "mutator", or "scanned" while a collection runs
  oldTop, nurseryBase, allocPtr,  \* the fields of the vproc
  top          \* nextW - 1 of the collection, the top of the survivors

vars == <<phase, oldTop, nurseryBase, allocPtr, top>>

(* SetAllocPtr, at the end of InitVProcHeap and of each minor collection. *)
SetAllocPtr(old) ==
  /\ nurseryBase' = NurseryBase(old)
  /\ allocPtr' = FirstObject(NurseryBase(old))

Init ==
  /\ phase = "mutator"
  /\ oldTop = 0
  /\ nurseryBase = NurseryBase(0)
  /\ allocPtr = FirstObject(NurseryBase(0))
  /\ top = 0

(* Compiled code checks for room and allocates n words of objects. *)
Allocate(n) ==
  /\ phase = "mutator"
  /\ MayAllocate(allocPtr)
  /\ allocPtr' = allocPtr + n
  /\ UNCHANGED <<phase, oldTop, nurseryBase, top>>

(* MinorGC copies objects of n words.  None is copied twice, so the copies *)
(* take no more words than the nursery had in use.                         *)
MinorGC(n) ==
  /\ phase = "mutator"
  /\ n <= allocPtr - FirstObject(nurseryBase)
  /\ phase' = "scanned"
  /\ top' = oldTop + n
  /\ UNCHANGED <<oldTop, nurseryBase, allocPtr>>

(* The survivors stay where they are. *)
EndMinor ==
  /\ phase = "scanned"
  /\ ~ TooFull(top, FALSE)
  /\ phase' = "mutator"
  /\ oldTop' = top
  /\ SetAllocPtr(top)
  /\ top' = top

(* MajorGC's memmove: the survivors slide down to the base. *)
AfterMajor == top - oldTop

(* MajorGC, because there is too little room or a global collection waits. *)
EndMajor ==
  /\ phase = "scanned"
  /\ phase' = "mutator"
  /\ oldTop' = AfterMajor
  /\ SetAllocPtr(AfterMajor)
  /\ top' = AfterMajor

Next ==
  \/ \E n \in 1 .. BlockSz : Allocate(n)
  \/ \E n \in 0 .. HeapSz : MinorGC(n)
  \/ EndMinor
  \/ EndMajor

Spec == Init /\ [][Next]_vars

-----------------------------------------------------------------------------
(* Every field has its type. *)
TypeOK ==
  /\ phase \in {"mutator", "scanned"}
  /\ oldTop \in 0 .. HeapSz /\ nurseryBase \in 0 .. HeapSz
  /\ allocPtr \in 1 .. HeapSz /\ top \in 0 .. HeapSz

(* The survivors of a minor collection never reach the nursery they are    *)
(* copied from, and compiled code never allocates past the heap although   *)
(* it checks the limit once for several objects.  (MinorGC asserts the     *)
(* first part; SetAllocPtr, LimitPtr and the threshold together give it.)  *)
RegionsDisjoint ==
  /\ oldTop <= top /\ top <= nurseryBase
  /\ nurseryBase < allocPtr /\ allocPtr <= HeapSz

(* Whatever a collection leaves alive, the vproc can allocate after it:    *)
(* the heap check that asked for a collection does not ask again at once.  *)
CollectionMakesRoom ==
  [][phase = "scanned" /\ phase' = "mutator" => MayAllocate(allocPtr')]_vars
=============================================================================
