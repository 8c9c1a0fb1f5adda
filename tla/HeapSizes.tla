----------------------------- MODULE HeapSizes -----------------------------
(***************************************************************************)
(* The sizes of a vproc's local heap and the address arithmetic on it.     *)
(*                                                                         *)
(* Addresses and sizes are in words, and the heap base is address 0.  A    *)
(* pointer to an object is the address of its first data word; the header  *)
(* is the word before.                                                     *)
(***************************************************************************)
EXTENDS Integers

CONSTANTS
  HeapSz,     \* VP_HEAP_SZB
  Slop,       \* ALLOC_BUF_SZB, kept free above the limit pointer
  BlockSz,    \* what compiled code may allocate after one heap check
  MaxNursery, \* MaxNurserySzB
  Threshold   \* MajorGCThreshold

(* sizes.h and heap.h give 1M, 4K, 3.5K (the code generator keeps 512 bytes *)
(* of the slop back), and HeapInit makes the last two at least 16K.         *)
ASSUME HeapSizesAssumption ==
  /\ HeapSz \in Nat /\ Slop \in Nat /\ BlockSz \in Nat
  /\ MaxNursery \in Nat /\ Threshold \in Nat
  /\ BlockSz <= Slop
  /\ MaxNursery > Slop + 1
  /\ Threshold >= 2 * (Slop + 2)
  /\ HeapSz >= 4 * (Slop + 2)

(* Faulty variant: a quarter of it. *)
QuarterOfRest(oldTop) == (HeapSz - oldTop) \div 4

(* SetAllocPtr: the nursery is the upper half of what is free, or less. *)
NurserySz(oldTop) ==
  LET half == (HeapSz - oldTop) \div 2
  IN  IF half > MaxNursery THEN MaxNursery ELSE half

NurseryBase(oldTop) == HeapSz - NurserySz(oldTop)

(* The address of the next object is past the word of its header. *)
FirstObject(base) == base + 1

(* Faulty variant: no room is kept above the limit. *)
NoSlop == HeapSz

LimitPtr == HeapSz - Slop

(* The heap check of compiled code, and that of RunManticore. *)
MayAllocate(allocPtr) == allocPtr < LimitPtr

(* inAddrRange.  The upper end belongs to the range: the data address of an *)
(* empty object that comes last is there.                                   *)
InAddrRange(base, sz, p) == base <= p /\ p - base <= sz

(* inVPHeap masks the address, the heap being aligned to its size. *)
InVPHeap(p) == 0 < p /\ p < HeapSz

(* How many words there are after a minor collection, and whether it takes *)
(* a major one.                                                            *)
TooFull(top, pending) == HeapSz - top < Threshold \/ pending
=============================================================================
