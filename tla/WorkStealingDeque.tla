------------------------- MODULE WorkStealingDeque -------------------------
(***************************************************************************)
(* The deque of the work-stealing scheduler: the circular buffer of        *)
(* basis/scheduler/work-stealing-deque.pml and the part of it that         *)
(* gc/work-stealing-deque.c keeps in the C heap.                           *)
(*                                                                         *)
(* "old" is the slot of the oldest element and "new" the slot to the right *)
(* of the newest one.  One slot stays open, so that old = new means empty. *)
(* Every operation runs on the vproc that owns the deque with signals      *)
(* masked; the operators take a deque and return what becomes of it.       *)
(***************************************************************************)
EXTENDS Integers, Sequences

CONSTANT
  Nil          \* DEQUE_NIL_ELT, what an open slot holds

(* DequeAlloc: the process that allocates a deque claims it. *)
NewDeque(size) ==
  [old |-> 0, new |-> 0, maxSz |-> size, nClaimed |-> 1, elts |-> [i \in 0..(size - 1) |-> Nil]]

MoveLeft(i, sz) == IF i <= 0 THEN sz - 1 ELSE i - 1
MoveRight(i, sz) == IF i >= sz - 1 THEN 0 ELSE i + 1

Size(d) == IF d.old <= d.new THEN d.new - d.old ELSE d.maxSz - d.old + d.new

IsEmpty(d) == d.new = d.old
IsFull(d) == Size(d) >= d.maxSz - 1

(* Its precondition "the deque is not full" is not tested. *)
PushNewEnd(d, e) ==
  [d EXCEPT !.elts[d.new] = e, !.new = MoveRight(d.new, d.maxSz)]

PopNewEnd(d) ==
  LET newL == MoveLeft(d.new, d.maxSz)
  IN  IF IsEmpty(d)
      THEN [elt |-> Nil, deque |-> d]
      ELSE [elt |-> d.elts[newL], deque |-> [d EXCEPT !.elts[newL] = Nil, !.new = newL]]

(* Faulty variant: the old end moves the wrong way. *)
PopOldEndLeft(d) ==
  IF IsEmpty(d)
  THEN [elt |-> Nil, deque |-> d]
  ELSE [elt |-> d.elts[d.old],
        deque |-> [d EXCEPT !.elts[d.old] = Nil, !.old = MoveLeft(d.old, d.maxSz)]]

PopOldEnd(d) ==
  IF IsEmpty(d)
  THEN [elt |-> Nil, deque |-> d]
  ELSE [elt |-> d.elts[d.old],
        deque |-> [d EXCEPT !.elts[d.old] = Nil, !.old = MoveRight(d.old, d.maxSz)]]

Release(d) == [d EXCEPT !.nClaimed = @ - 1]

(* Bound: those who claim a resume deque do not release it, so its claims  *)
(* grow; they are counted up to MaxClaims, which tells claimed from not.   *)
MaxClaims == 1

Claim(d) == IF d.nClaimed < MaxClaims THEN [d EXCEPT !.nClaimed = @ + 1] ELSE d

(* The i-th element from the old end, in the order in which AddDequeElts   *)
(* walks through them backwards.                                           *)
Slot(d, i) == IF d.old + i <= d.maxSz THEN d.old + i - 1 ELSE d.old + i - 1 - d.maxSz

Contents(d) == [i \in 1..Size(d) |-> d.elts[Slot(d, i)]]

(* The deques of sz slots whose elements are from S; @check-deque asserts  *)
(* the bounds of the two indices.                                          *)
DequeOf(S, sz) ==
  [old : 0..(sz - 1), new : 0..(sz - 1), maxSz : {sz}, nClaimed : 0..MaxClaims,
   elts : [0..(sz - 1) -> S \union {Nil}]]
=============================================================================
