-------------------------- MODULE HeapLayoutProofs --------------------------
(***************************************************************************)
(* The regions of a local heap never overlap and a collection always makes *)
(* room, for all sizes that HeapSizesAssumption allows.                    *)
(***************************************************************************)
EXTENDS HeapLayout, TLAPS

(* What SetAllocPtr chooses: a nursery that fits into half of what is free *)
(* and, when enough is free, is larger than the slop.                      *)
LEMMA NurseryFits ==
  ASSUME NEW old \in 0 .. HeapSz
  PROVE  /\ NurserySz(old) \in Nat
         /\ 2 * NurserySz(old) <= HeapSz - old
         /\ NurserySz(old) <= MaxNursery
         /\ HeapSz - old >= 2 * (Slop + 2) => NurserySz(old) > Slop + 1
<1> DEFINE half == (HeapSz - old) \div 2
<1>1. HeapSz \in Nat /\ MaxNursery \in Nat /\ Slop \in Nat /\ MaxNursery > Slop + 1
  BY HeapSizesAssumption
<1>2. half \in Nat /\ 2 * half <= HeapSz - old /\ HeapSz - old <= 2 * half + 1
  BY <1>1, SMT
<1>3. NurserySz(old) = IF half > MaxNursery THEN MaxNursery ELSE half
  BY DEF NurserySz
<1> HIDE DEF half
<1> QED
  BY <1>1, <1>2, <1>3, SMT

(* The inductive invariant: the types, the regions, and what is left of    *)
(* the room that the last collection has made.                             *)
UsedWords == allocPtr - FirstObject(nurseryBase)

Inv ==
  /\ TypeOK
  /\ RegionsDisjoint
  /\ nurseryBase = NurseryBase(oldTop)
  /\ UsedWords <= HeapSz - nurseryBase - 1
  /\ phase = "mutator" => top = oldTop
  /\ top - oldTop <= UsedWords

(* SetAllocPtr establishes what the mutator needs. *)
LEMMA SetAllocPtrMakesRoom ==
  ASSUME NEW old \in 0 .. HeapSz, HeapSz - old >= 2 * (Slop + 2)
  PROVE  /\ NurseryBase(old) \in 0 .. HeapSz
         /\ old < NurseryBase(old)
         /\ FirstObject(NurseryBase(old)) \in 1 .. HeapSz
         /\ MayAllocate(FirstObject(NurseryBase(old)))
<1>1. HeapSz \in Nat /\ Slop \in Nat
  BY HeapSizesAssumption
<1>2. /\ NurserySz(old) \in Nat
      /\ 2 * NurserySz(old) <= HeapSz - old
      /\ NurserySz(old) > Slop + 1
  BY NurseryFits
<1>3. NurseryBase(old) = HeapSz - NurserySz(old)
  BY DEF NurseryBase
<1> QED
  BY <1>1, <1>2, <1>3, SMT DEF FirstObject, MayAllocate, LimitPtr

LEMMA InitInv == Init => Inv
<1> SUFFICES ASSUME Init PROVE Inv
  OBVIOUS
<1>1. HeapSz \in Nat /\ Slop \in Nat /\ HeapSz >= 4 * (Slop + 2)
  BY HeapSizesAssumption
<1>2. 0 \in 0 .. HeapSz /\ HeapSz - 0 >= 2 * (Slop + 2)
  BY <1>1
<1>3. /\ NurseryBase(0) \in 0 .. HeapSz
      /\ 0 < NurseryBase(0)
      /\ FirstObject(NurseryBase(0)) \in 1 .. HeapSz
  BY <1>2, SetAllocPtrMakesRoom
<1> QED
  BY <1>1, <1>3, SMT DEF Init, Inv, TypeOK, RegionsDisjoint, UsedWords, FirstObject

(* Both collections end with SetAllocPtr for a new top of the old data, and *)
(* leave enough free for it.                                                *)
LEMMA EnoughFree ==
  ASSUME Inv, phase = "scanned"
  PROVE  /\ AfterMajor \in 0 .. HeapSz
         /\ HeapSz - AfterMajor >= 2 * (Slop + 2)
         /\ ~ TooFull(top, FALSE) => HeapSz - top >= 2 * (Slop + 2)
<1>1. /\ HeapSz \in Nat /\ Slop \in Nat /\ Threshold \in Nat
      /\ HeapSz >= 4 * (Slop + 2) /\ Threshold >= 2 * (Slop + 2)
  BY HeapSizesAssumption
<1>2. oldTop \in 0 .. HeapSz /\ top \in 0 .. HeapSz /\ oldTop <= top
  BY DEF Inv, TypeOK, RegionsDisjoint
<1>3. /\ NurserySz(oldTop) \in Nat
      /\ 2 * NurserySz(oldTop) <= HeapSz - oldTop
  BY <1>2, NurseryFits
<1>4. top - oldTop <= HeapSz - NurseryBase(oldTop)
  <2>1. nurseryBase \in 0 .. HeapSz /\ allocPtr \in 1 .. HeapSz
    BY DEF Inv, TypeOK
  <2> QED
    BY <1>1, <1>2, <2>1, SMT DEF Inv, UsedWords, FirstObject
<1>5. 2 * (top - oldTop) <= HeapSz
  BY <1>1, <1>2, <1>3, <1>4, SMT DEF NurseryBase
<1> QED
  BY <1>1, <1>2, <1>5, SMT DEF AfterMajor, TooFull

(* The end of a collection, for the top that it leaves. *)
LEMMA EndInv ==
  ASSUME NEW old \in 0 .. HeapSz, HeapSz - old >= 2 * (Slop + 2),
         phase' = "mutator", oldTop' = old, top' = old, SetAllocPtr(old)
  PROVE  Inv' /\ MayAllocate(allocPtr')
<1>1. HeapSz \in Nat
  BY HeapSizesAssumption
<1>2. /\ NurseryBase(old) \in 0 .. HeapSz
      /\ old < NurseryBase(old)
      /\ FirstObject(NurseryBase(old)) \in 1 .. HeapSz
      /\ MayAllocate(FirstObject(NurseryBase(old)))
  BY SetAllocPtrMakesRoom
<1>3. nurseryBase' = NurseryBase(old) /\ allocPtr' = FirstObject(NurseryBase(old))
  BY DEF SetAllocPtr
<1> QED
  BY <1>1, <1>2, <1>3, SMT DEF Inv, TypeOK, RegionsDisjoint, UsedWords, FirstObject

LEMMA NextInv == Inv /\ [Next]_vars => Inv'
<1> SUFFICES ASSUME Inv, [Next]_vars PROVE Inv'
  OBVIOUS
<1>1. /\ HeapSz \in Nat /\ Slop \in Nat /\ BlockSz \in Nat /\ BlockSz <= Slop
  BY HeapSizesAssumption
<1>2. /\ oldTop \in 0 .. HeapSz /\ nurseryBase \in 0 .. HeapSz
      /\ allocPtr \in 1 .. HeapSz /\ top \in 0 .. HeapSz
      /\ phase \in {"mutator", "scanned"}
  BY DEF Inv, TypeOK
<1>3. ASSUME NEW n \in 1 .. BlockSz, Allocate(n)
      PROVE  Inv'
  <2>1. n \in Nat /\ n <= Slop
    BY <1>1, <1>3
  <2>2. allocPtr' \in 1 .. HeapSz
    BY <1>1, <1>2, <1>3, <2>1, SMT DEF Allocate, MayAllocate, LimitPtr
  <2> QED
    BY <1>1, <1>2, <1>3, <2>1, <2>2, SMT
       DEF Allocate, Inv, TypeOK, RegionsDisjoint, UsedWords, FirstObject
<1>4. ASSUME NEW n \in 0 .. HeapSz, MinorGC(n)
      PROVE  Inv'
  <2>1. /\ n \in Nat /\ n <= UsedWords
        /\ phase = "mutator" /\ phase' = "scanned" /\ top' = oldTop + n
        /\ UNCHANGED <<oldTop, nurseryBase, allocPtr>>
    BY <1>1, <1>4 DEF MinorGC, UsedWords
  <2>2. UsedWords <= NurserySz(oldTop) /\ nurseryBase = HeapSz - NurserySz(oldTop)
    BY <1>1, <1>2, NurseryFits, SMT DEF Inv, NurseryBase, UsedWords, FirstObject
  <2>3. top' <= nurseryBase
    BY <1>1, <1>2, <2>1, <2>2, NurseryFits, SMT DEF UsedWords, FirstObject
  <2> QED
    BY <1>1, <1>2, <2>1, <2>3, SMT
       DEF Inv, TypeOK, RegionsDisjoint, UsedWords, FirstObject
<1>5. CASE EndMinor
  BY <1>2, <1>5, EnoughFree, EndInv DEF EndMinor
<1>6. CASE EndMajor
  BY <1>2, <1>6, EnoughFree, EndInv DEF EndMajor
<1>7. CASE UNCHANGED vars
  BY <1>7 DEF vars, Inv, TypeOK, RegionsDisjoint, UsedWords
<1> QED
  BY <1>3, <1>4, <1>5, <1>6, <1>7 DEF Next

LEMMA SpecInv == Spec => []Inv
BY InitInv, NextInv, PTL DEF Spec

(* The survivors of a minor collection never reach the nursery and compiled *)
(* code never allocates past the heap (SetAllocPtr, LimitPtr, MinorGC).     *)
THEOREM RegionsAreDisjoint == Spec => [](TypeOK /\ RegionsDisjoint)
<1>1. Inv => TypeOK /\ RegionsDisjoint
  BY DEF Inv
<1> QED
  BY <1>1, SpecInv, PTL

(* After every collection the heap check succeeds (MajorGCThreshold leaves  *)
(* SetAllocPtr more than twice the slop).                                   *)
THEOREM CollectionAlwaysMakesRoom == Spec => CollectionMakesRoom
<1>1. Inv /\ [Next]_vars
        => [phase = "scanned" /\ phase' = "mutator" => MayAllocate(allocPtr')]_vars
  <2> SUFFICES ASSUME Inv, Next, phase = "scanned", phase' = "mutator"
               PROVE  MayAllocate(allocPtr')
    BY DEF vars
  <2>1. CASE EndMinor
    BY <2>1, EnoughFree, EndInv DEF EndMinor, Inv, TypeOK
  <2>2. CASE EndMajor
    BY <2>2, EnoughFree, EndInv DEF EndMajor
  <2> QED
    BY <2>1, <2>2 DEF Next, Allocate, MinorGC
<1> QED
  BY <1>1, SpecInv, PTL DEF Spec, CollectionMakesRoom
=============================================================================
