------------------------ MODULE WorkStealingProofs ------------------------
(***************************************************************************)
(* What holds of WorkStealing for any number of vprocs and futures.        *)
(*                                                                         *)
(* First the deque by itself: for every size, every content and every      *)
(* place where the buffer wraps around, the operations do to Contents(d)   *)
(* what their names say, provided nobody pushes on a full deque.           *)
(*                                                                         *)
(* Then the work group.  Each step of Next is one of a few effects on the  *)
(* contents of the deques (NextActs); every invariant is kept effect by    *)
(* effect:                                                                 *)
(*   TypeInv   types, where each worker keeps what, and what nIdle counts; *)
(*   HomeInv   no task is in two places, and if no deque ever fills, Fits, *)
(*             none is nowhere;                                            *)
(*   CallInv   who called whom: the threads on a primary deque are the     *)
(*             contexts of the calls that led to the task that runs on it, *)
(*             and who looks for work has none;                            *)
(*   OverInv   nothing is left when the group is over.                     *)
(* StealInv is the first three together, and inductive for any deque size. *)
(***************************************************************************)
EXTENDS WorkStealing, ListProofs, SequenceTheorems, FiniteSetTheorems,
        WellFoundedInduction, TLAPS

----------------------------------------------------------------------------
(* The circular buffer of the deque. *)

(* Moving an index stays inside the buffer. *)
LEMMA MoveInBounds ==
  ASSUME NEW sz \in Nat, sz >= 2, NEW i \in 0..(sz - 1)
  PROVE  /\ MoveLeft(i, sz) \in 0..(sz - 1)
         /\ MoveRight(i, sz) \in 0..(sz - 1)
BY DEF MoveLeft, MoveRight

LEMMA DequeFields ==
  ASSUME NEW S, NEW sz \in Nat, sz >= 2, NEW d \in DequeOf(S, sz)
  PROVE  /\ d.old \in 0..(sz - 1) /\ d.new \in 0..(sz - 1) /\ d.maxSz = sz
         /\ d.elts \in [0..(sz - 1) -> S \union {Nil}]
BY DEF DequeOf

LEMMA SizeInBounds ==
  ASSUME NEW S, NEW sz \in Nat, sz >= 2, NEW d \in DequeOf(S, sz)
  PROVE  /\ Size(d) \in 0..(sz - 1)
         /\ IsEmpty(d) <=> Size(d) = 0
         /\ \A i \in 1..Size(d) : Slot(d, i) \in 0..(sz - 1)
<1>1. d.old \in 0..(sz - 1) /\ d.new \in 0..(sz - 1) /\ d.maxSz = sz
  BY DequeFields
<1>2. /\ Size(d) \in 0..(sz - 1)
      /\ IsEmpty(d) <=> Size(d) = 0
  BY <1>1 DEF Size, IsEmpty
<1>3. ASSUME NEW i \in 1..Size(d) PROVE Slot(d, i) \in 0..(sz - 1)
  <2>1. i \in 1..(sz - 1)
    BY <1>2
  <2>. QED
    BY <1>1, <2>1 DEF Slot
<1>. QED
  BY <1>2, <1>3

(* The elements of a deque lie between its two ends: the slot of each is   *)
(* another than the open one and than those of the first and the last.     *)
LEMMA SlotsDiffer ==
  ASSUME NEW S, NEW sz \in Nat, sz >= 2, NEW d \in DequeOf(S, sz),
         NEW i \in 1..Size(d)
  PROVE  /\ Slot(d, i) # d.new
         /\ Slot(d, i) = d.old <=> i = 1
         /\ Slot(d, i) = MoveLeft(d.new, sz) <=> i = Size(d)
<1>1. d.old \in 0..(sz - 1) /\ d.new \in 0..(sz - 1) /\ d.maxSz = sz
  BY DequeFields
<1>2. CASE d.old <= d.new
  <2>1. i \in 1..(d.new - d.old) /\ Slot(d, i) = d.old + i - 1
    BY <1>1, <1>2 DEF Size, Slot
  <2>. QED
    BY <1>1, <1>2, <2>1 DEF MoveLeft, Size
<1>3. CASE d.old > d.new
  <2>1. i \in 1..(sz - d.old + d.new)
    BY <1>1, <1>3 DEF Size
  <2>2. CASE d.old + i <= sz
    BY <1>1, <1>3, <2>1, <2>2 DEF MoveLeft, Size, Slot
  <2>3. CASE d.old + i > sz
    BY <1>1, <1>3, <2>1, <2>3 DEF MoveLeft, Size, Slot
  <2>. QED
    BY <1>1, <2>1, <2>2, <2>3
<1>. QED
  BY <1>1, <1>2, <1>3

LEMMA ContentsProperties ==
  ASSUME NEW S, NEW sz \in Nat, sz >= 2, NEW d \in DequeOf(S, sz)
  PROVE  /\ Contents(d) \in Seq(S \union {Nil})
         /\ Len(Contents(d)) = Size(d)
         /\ \A i \in 1..Size(d) : Contents(d)[i] = d.elts[Slot(d, i)]
<1>1. Size(d) \in Nat /\ \A i \in 1..Size(d) : Slot(d, i) \in 0..(sz - 1)
  BY SizeInBounds
<1>2. \A i \in 1..Size(d) : d.elts[Slot(d, i)] \in S \union {Nil}
  BY <1>1, DequeFields
<1>. QED
  BY <1>1, <1>2, IsASeq DEF Contents

(* @push-new-end-in-atomic on a deque that is not full puts the element    *)
(* behind the newest one.                                                  *)
THEOREM PushAppends ==
  ASSUME NEW S, NEW sz \in Nat, sz >= 2, NEW d \in DequeOf(S, sz), NEW e \in S,
         ~ IsFull(d)
  PROVE  /\ PushNewEnd(d, e) \in DequeOf(S, sz)
         /\ Contents(PushNewEnd(d, e)) = Append(Contents(d), e)
<1>. DEFINE T == S \union {Nil}
            p == PushNewEnd(d, e)
            a == Append(Contents(d), e)
<1>1. MoveRight(d.new, sz) \in 0..(sz - 1)
  BY DequeFields, MoveInBounds
<1>2. p \in DequeOf(S, sz)
  BY <1>1, DequeFields DEF PushNewEnd, DequeOf
<1>3. /\ p.old = d.old /\ p.new = MoveRight(d.new, sz) /\ p.maxSz = sz
      /\ p.elts = [d.elts EXCEPT ![d.new] = e]
  BY DequeFields DEF PushNewEnd, DequeOf
<1>. HIDE DEF p
<1>4. Size(p) = Size(d) + 1
  <2>1. d.old \in 0..(sz - 1) /\ d.new \in 0..(sz - 1) /\ d.maxSz = sz
    BY DequeFields
  <2>2. Size(d) < sz - 1
    BY <2>1 DEF IsFull, Size
  <2>3. CASE d.new = sz - 1
    BY <1>3, <2>1, <2>2, <2>3 DEF Size, MoveRight
  <2>4. CASE d.new # sz - 1
    BY <1>3, <2>1, <2>2, <2>4 DEF Size, MoveRight
  <2>. QED
    BY <2>3, <2>4
<1>5. /\ \A i \in 1..Size(p) : Slot(p, i) = Slot(d, i)
      /\ Slot(d, Size(d) + 1) = d.new
  <2>1. d.old \in 0..(sz - 1) /\ d.new \in 0..(sz - 1) /\ d.maxSz = sz
    BY DequeFields
  <2>2. \A i \in 1..Size(p) : Slot(p, i) = Slot(d, i)
    BY <1>3, <2>1 DEF Slot
  <2>3. Slot(d, Size(d) + 1) = d.new
    BY <2>1 DEF Slot, Size
  <2>. QED
    BY <2>2, <2>3
<1>6. Size(d) \in Nat
  BY SizeInBounds
<1>7. a \in Seq(T) /\ Len(a) = Size(d) + 1 /\ a[Size(d) + 1] = e
      /\ \A i \in 1..Size(d) : a[i] = Contents(d)[i]
  <2>1. Contents(d) \in Seq(T) /\ Len(Contents(d)) = Size(d)
    BY ContentsProperties
  <2>. HIDE DEF T
  <2>2. e \in T
    BY DEF T
  <2>. QED
    BY <2>1, <2>2, AppendProperties
<1>8. ASSUME NEW i \in 1..(Size(d) + 1) PROVE Contents(p)[i] = a[i]
  <2>1. Contents(p)[i] = [d.elts EXCEPT ![d.new] = e][Slot(d, i)]
    <3>1. Contents(p)[i] = p.elts[Slot(p, i)]
      BY <1>2, <1>4, ContentsProperties
    <3>. QED
      BY <3>1, <1>3, <1>4, <1>5
  <2>2. CASE i = Size(d) + 1
    BY <2>1, <2>2, <1>5, <1>7, DequeFields
  <2>3. CASE i \in 1..Size(d)
    <3>1. Slot(d, i) # d.new /\ Slot(d, i) \in 0..(sz - 1)
      BY <2>3, SlotsDiffer, SizeInBounds
    <3>2. Contents(p)[i] = d.elts[Slot(d, i)]
      BY <2>1, <3>1, DequeFields
    <3>. QED
      BY <2>3, <3>2, <1>7, ContentsProperties
  <2>4. i = Size(d) + 1 \/ i \in 1..Size(d)
    BY <1>6
  <2>. QED
    BY <2>2, <2>3, <2>4
<1>9. Contents(p) \in Seq(T) /\ Len(Contents(p)) = Size(d) + 1
  BY <1>2, <1>4, ContentsProperties
<1>10. Contents(p) = a
  <2>. HIDE DEF a, T
  <2>. QED BY <1>7, <1>8, <1>9, SeqEqual
<1>. QED
  BY <1>2, <1>10 DEF p

(* What the PREEMPT handler of work-stealing.pml does when the deque is    *)
(* full: new comes to old, and all threads on the deque are gone.          *)
THEOREM PushOnFullLosesAll ==
  ASSUME NEW S, NEW sz \in Nat, sz >= 2, NEW d \in DequeOf(S, sz), NEW e \in S,
         IsFull(d)
  PROVE  IsEmpty(PushNewEnd(d, e)) /\ Size(d) = sz - 1
<1>1. /\ PushNewEnd(d, e).old = d.old
      /\ PushNewEnd(d, e).new = MoveRight(d.new, sz)
  BY DequeFields DEF PushNewEnd, DequeOf
<1>. QED
  BY <1>1, DequeFields DEF IsFull, IsEmpty, Size, MoveRight

(* Taking an element out and moving an end keeps the deque well formed. *)
LEMMA TakeInDequeOf ==
  ASSUME NEW S, NEW sz \in Nat, sz >= 2, NEW d \in DequeOf(S, sz),
         NEW i \in 0..(sz - 1), NEW j \in 0..(sz - 1)
  PROVE  /\ [d EXCEPT !.elts[i] = Nil, !.new = j] \in DequeOf(S, sz)
         /\ [d EXCEPT !.elts[i] = Nil, !.old = j] \in DequeOf(S, sz)
<1>1. [d.elts EXCEPT ![i] = Nil] \in [0..(sz - 1) -> S \union {Nil}]
  BY DequeFields
<1>. QED
  BY <1>1 DEF DequeOf

(* @pop-new-end-in-atomic on a deque that is not empty takes the newest    *)
(* element and leaves the others, in their order.                          *)
THEOREM PopNewTakesLast ==
  ASSUME NEW S, NEW sz \in Nat, sz >= 2, NEW d \in DequeOf(S, sz), ~ IsEmpty(d)
  PROVE  /\ PopNewEnd(d).deque \in DequeOf(S, sz)
         /\ PopNewEnd(d).elt = Contents(d)[Size(d)]
         /\ Contents(PopNewEnd(d).deque) = SubSeq(Contents(d), 1, Size(d) - 1)
<1>. DEFINE T == S \union {Nil}
            left == MoveLeft(d.new, sz)
            p == PopNewEnd(d).deque
            b == SubSeq(Contents(d), 1, Size(d) - 1)
<1>1. left \in 0..(sz - 1)
  BY DequeFields, MoveInBounds
<1>2. /\ d.old \in 0..(sz - 1) /\ d.new \in 0..(sz - 1) /\ d.maxSz = sz
      /\ d.elts \in [0..(sz - 1) -> T]
  BY DequeFields
<1>3. /\ PopNewEnd(d).elt = d.elts[left]
      /\ p = [d EXCEPT !.elts[left] = Nil, !.new = left]
  BY <1>2 DEF PopNewEnd
<1>. HIDE DEF left, p
<1>4. p \in DequeOf(S, sz)
  <2>1. [d EXCEPT !.elts[left] = Nil, !.new = left] \in DequeOf(S, sz)
    BY <1>1, <1>2, TakeInDequeOf
  <2>. QED
    BY <1>3, <2>1
<1>5. /\ p.old = d.old /\ p.new = left /\ p.maxSz = sz
      /\ p.elts = [d.elts EXCEPT ![left] = Nil]
  BY <1>2, <1>3 DEF DequeOf
<1>6. Size(d) \in Nat /\ Size(d) # 0
  BY SizeInBounds
<1>7. Size(p) = Size(d) - 1
  BY <1>2, <1>5 DEF Size, MoveLeft, left, IsEmpty
<1>8. \A i \in 1..Size(d) : Slot(p, i) = Slot(d, i)
  BY <1>2, <1>5 DEF Slot
<1>9. PopNewEnd(d).elt = Contents(d)[Size(d)]
  <2>1. Size(d) \in 1..Size(d)
    BY <1>6
  <2>2. Slot(d, Size(d)) = left
    BY <2>1, SlotsDiffer DEF left
  <2>3. Contents(d)[Size(d)] = d.elts[Slot(d, Size(d))]
    BY <2>1, ContentsProperties
  <2>. QED
    BY <1>3, <2>2, <2>3
<1>10. \A i \in 1..Size(d) : Contents(d)[i] \in T
  <2>1. Contents(d) \in Seq(T) /\ Len(Contents(d)) = Size(d)
    BY ContentsProperties
  <2>. HIDE DEF T
  <2>. QED
    BY <2>1, ElementOfSeq
<1>11. /\ b \in Seq(T) /\ Len(b) = Size(d) - 1
       /\ \A i \in 1..(Size(d) - 1) : b[i] = Contents(d)[i]
  <2>. HIDE DEF T
  <2>1. \A i \in 1..(Size(d) - 1) : Contents(d)[i] \in T
    BY <1>6, <1>10
  <2>. DEFINE n == Size(d) - 1
              c == Contents(d)
  <2>2. n \in Int /\ n >= 0
    BY <1>6
  <2>. HIDE DEF n, c
  <2>3. /\ SubSeq(c, 1, n) \in Seq(T)
        /\ Len(SubSeq(c, 1, n)) = IF 1 <= n THEN n - 1 + 1 ELSE 0
        /\ \A i \in 1..(n - 1 + 1) : SubSeq(c, 1, n)[i] = c[1 + i - 1]
    BY <2>1, <2>2, SubSeqProperties DEF n, c
  <2>4. Len(SubSeq(c, 1, n)) = n /\ \A i \in 1..n : SubSeq(c, 1, n)[i] = c[i]
    BY <2>2, <2>3
  <2>. QED
    BY <2>3, <2>4 DEF n, c
<1>12. ASSUME NEW i \in 1..(Size(d) - 1) PROVE Contents(p)[i] = b[i]
  <2>1. Contents(p)[i] = p.elts[Slot(p, i)]
    BY <1>4, <1>7, ContentsProperties
  <2>2. i \in 1..Size(d) /\ i # Size(d)
    BY <1>6
  <2>3. Slot(d, i) # left /\ Slot(d, i) \in 0..(sz - 1)
    BY <2>2, SlotsDiffer, SizeInBounds DEF left
  <2>4. Contents(p)[i] = d.elts[Slot(d, i)]
    BY <1>2, <1>5, <1>8, <2>1, <2>2, <2>3
  <2>. QED
    BY <1>11, <2>2, <2>4, ContentsProperties
<1>13. Contents(p) \in Seq(T) /\ Len(Contents(p)) = Size(d) - 1
  BY <1>4, <1>7, ContentsProperties
<1>14. Contents(p) = b
  <2>. HIDE DEF b, T
  <2>. QED BY <1>11, <1>12, <1>13, SeqEqual
<1>. QED
  BY <1>4, <1>9, <1>14 DEF p

(* @pop-old-end-in-atomic on a deque that is not empty takes the oldest    *)
(* element and leaves the others, in their order.                          *)
THEOREM PopOldTakesFirst ==
  ASSUME NEW S, NEW sz \in Nat, sz >= 2, NEW d \in DequeOf(S, sz), ~ IsEmpty(d)
  PROVE  /\ PopOldEnd(d).deque \in DequeOf(S, sz)
         /\ PopOldEnd(d).elt = Head(Contents(d))
         /\ Contents(PopOldEnd(d).deque) = Tail(Contents(d))
<1>. DEFINE T == S \union {Nil}
            right == MoveRight(d.old, sz)
            p == PopOldEnd(d).deque
            b == Tail(Contents(d))
<1>1. right \in 0..(sz - 1)
  BY DequeFields, MoveInBounds
<1>2. /\ d.old \in 0..(sz - 1) /\ d.new \in 0..(sz - 1) /\ d.maxSz = sz
      /\ d.elts \in [0..(sz - 1) -> T]
  BY DequeFields
<1>3. /\ PopOldEnd(d).elt = d.elts[d.old]
      /\ p = [d EXCEPT !.elts[d.old] = Nil, !.old = right]
  BY <1>2 DEF PopOldEnd
<1>. HIDE DEF right, p
<1>4. p \in DequeOf(S, sz)
  <2>1. [d EXCEPT !.elts[d.old] = Nil, !.old = right] \in DequeOf(S, sz)
    BY <1>1, <1>2, TakeInDequeOf
  <2>. QED
    BY <1>3, <2>1
<1>5. /\ p.old = right /\ p.new = d.new /\ p.maxSz = sz
      /\ p.elts = [d.elts EXCEPT ![d.old] = Nil]
  BY <1>2, <1>3 DEF DequeOf
<1>6. Size(d) \in Nat /\ Size(d) # 0
  BY SizeInBounds
<1>7. Size(p) = Size(d) - 1
  BY <1>2, <1>5 DEF Size, MoveRight, right, IsEmpty
<1>8. ASSUME NEW i \in 1..(Size(d) - 1) PROVE Slot(p, i) = Slot(d, i + 1)
  <2>1. i \in Nat /\ i + 1 <= Size(d) /\ i >= 1
    BY <1>6
  <2>2. CASE d.old = sz - 1
    <3>1. p.old = 0 /\ i <= sz - 1
      BY <1>2, <1>5, <2>1, <2>2, SizeInBounds DEF MoveRight, right
    <3>. QED
      BY <1>2, <1>5, <2>1, <2>2, <3>1 DEF Slot
  <2>3. CASE d.old < sz - 1
    BY <1>2, <1>5, <2>1, <2>3 DEF Slot, MoveRight, right
  <2>. QED
    BY <1>2, <2>2, <2>3
<1>9. Contents(d) \in Seq(T) /\ Contents(d) # <<>>
  BY <1>6, ContentsProperties, EmptySeq
<1>10. PopOldEnd(d).elt = Head(Contents(d))
  <2>1. Slot(d, 1) = d.old
    BY <1>6, SlotsDiffer
  <2>2. 1 \in 1..Size(d)
    BY <1>6
  <2>3. Contents(d)[1] = d.elts[Slot(d, 1)]
    BY <2>2, ContentsProperties
  <2>. QED
    BY <1>3, <1>9, <2>1, <2>3
<1>11. /\ b \in Seq(T) /\ Len(b) = Size(d) - 1
       /\ \A i \in 1..(Size(d) - 1) : b[i] = Contents(d)[i + 1]
  <2>1. Len(Contents(d)) = Size(d)
    BY ContentsProperties
  <2>. HIDE DEF T
  <2>. QED
    BY <1>9, <2>1, HeadTailProperties
<1>12. ASSUME NEW i \in 1..(Size(d) - 1) PROVE Contents(p)[i] = b[i]
  <2>1. Contents(p)[i] = p.elts[Slot(p, i)]
    BY <1>4, <1>7, ContentsProperties
  <2>2. i + 1 \in 1..Size(d) /\ i + 1 # 1
    BY <1>6
  <2>3. Slot(d, i + 1) # d.old /\ Slot(d, i + 1) \in 0..(sz - 1)
    BY <2>2, SlotsDiffer, SizeInBounds
  <2>4. Contents(p)[i] = d.elts[Slot(d, i + 1)]
    BY <1>2, <1>5, <1>8, <2>1, <2>3
  <2>. QED
    BY <1>11, <2>2, <2>4, ContentsProperties
<1>13. Contents(p) \in Seq(T) /\ Len(Contents(p)) = Size(d) - 1
  BY <1>4, <1>7, ContentsProperties
<1>14. Contents(p) = b
  <2>. HIDE DEF b, T
  <2>. QED BY <1>11, <1>12, <1>13, SeqEqual
<1>. QED
  BY <1>4, <1>10, <1>14 DEF p

----------------------------------------------------------------------------
(* Deques of threads. *)

Deques == {d \in DequeOf(Threads, DequeSz) : Contents(d) \in Seq(Threads)}

LEMMA SizeAssumption ==
  /\ DequeSz \in Nat /\ DequeSz >= 2
  /\ MaxFutures \in Nat
BY WorkStealingAssumption

LEMMA DequeIs ==
  ASSUME NEW d \in Deques
  PROVE  /\ d \in DequeOf(Threads, DequeSz)
         /\ Contents(d) \in Seq(Threads)
         /\ Len(Contents(d)) = Size(d) /\ Size(d) \in Nat /\ Size(d) <= DequeSz - 1
         /\ IsEmpty(d) <=> Contents(d) = <<>>
         /\ IsFull(d) <=> Len(Contents(d)) = DequeSz - 1
<1>1. d \in DequeOf(Threads, DequeSz) /\ Contents(d) \in Seq(Threads)
  BY DEF Deques
<1>2. Size(d) \in 0..(DequeSz - 1) /\ (IsEmpty(d) <=> Size(d) = 0)
  BY <1>1, SizeAssumption, SizeInBounds
<1>3. Len(Contents(d)) = Size(d)
  BY <1>1, SizeAssumption, ContentsProperties
<1>4. Contents(d) = <<>> <=> Len(Contents(d)) = 0
  BY <1>1, EmptySeq
<1>5. d.maxSz = DequeSz
  BY <1>1, SizeAssumption, DequeFields
<1>. QED
  BY <1>1, <1>2, <1>3, <1>4, <1>5, SizeAssumption DEF IsFull

LEMMA NewDequeIsEmpty ==
  /\ NewDeque(DequeSz) \in Deques
  /\ Contents(NewDeque(DequeSz)) = <<>>
  /\ ~ IsFull(NewDeque(DequeSz))
  /\ NewDeque(DequeSz).nClaimed = 1
<1>. DEFINE d == NewDeque(DequeSz)
<1>1. d \in DequeOf(Threads, DequeSz)
  BY SizeAssumption DEF NewDeque, DequeOf, MaxClaims
<1>2. Size(d) = 0 /\ d.maxSz = DequeSz /\ d.nClaimed = 1
  BY SizeAssumption DEF NewDeque, Size
<1>. HIDE DEF d
<1>3. Contents(d) = <<>>
  <2>1. Contents(d) \in Seq(Threads \union {Nil}) /\ Len(Contents(d)) = 0
    BY <1>1, <1>2, SizeAssumption, ContentsProperties
  <2>. QED
    BY <2>1, EmptySeq
<1>4. d \in Deques
  BY <1>1, <1>3, EmptySeq DEF Deques
<1>. QED
  BY <1>2, <1>3, <1>4, SizeAssumption DEF d, IsFull

(* What a push leaves on a deque: on a full one, nothing. *)
PushedOn(s, th) == IF Len(s) = DequeSz - 1 THEN <<>> ELSE Append(s, th)

LEMMA PushInDeques ==
  ASSUME NEW d \in Deques, NEW th \in Threads
  PROVE  /\ PushNewEnd(d, th) \in Deques
         /\ Contents(PushNewEnd(d, th)) = PushedOn(Contents(d), th)
         /\ PushNewEnd(d, th).nClaimed = d.nClaimed
<1>. DEFINE p == PushNewEnd(d, th)
<1>1. d \in DequeOf(Threads, DequeSz) /\ Contents(d) \in Seq(Threads)
      /\ (IsFull(d) <=> Len(Contents(d)) = DequeSz - 1)
  BY DequeIs
<1>2. MoveRight(d.new, DequeSz) \in 0..(DequeSz - 1)
  BY <1>1, SizeAssumption, DequeFields, MoveInBounds
<1>3. p \in DequeOf(Threads, DequeSz) /\ p.nClaimed = d.nClaimed
  BY <1>1, <1>2, SizeAssumption, DequeFields DEF PushNewEnd, DequeOf
<1>4. CASE ~ IsFull(d)
  <2>1. Contents(p) = Append(Contents(d), th)
    BY <1>1, <1>4, SizeAssumption, PushAppends
  <2>2. Contents(p) \in Seq(Threads)
    BY <1>1, <2>1, AppendProperties
  <2>. HIDE DEF p
  <2>. QED
    BY <1>1, <1>3, <1>4, <2>1, <2>2 DEF Deques, PushedOn, p
<1>5. CASE IsFull(d)
  <2>1. IsEmpty(p)
    BY <1>1, <1>5, SizeAssumption, PushOnFullLosesAll
  <2>2. Contents(p) \in Seq(Threads \union {Nil}) /\ Len(Contents(p)) = Size(p)
        /\ Size(p) = 0
    BY <1>3, <2>1, SizeAssumption, ContentsProperties, SizeInBounds
  <2>3. Contents(p) = <<>>
    BY <2>2, EmptySeq
  <2>. HIDE DEF p
  <2>. QED
    BY <1>1, <1>3, <1>5, <2>3, EmptySeq DEF Deques, PushedOn, p
<1>. QED
  BY <1>4, <1>5

(* A list without its last element. *)
LEMMA FrontOf ==
  ASSUME NEW T, NEW s \in Seq(T), s # <<>>
  PROVE  /\ Last(s) \in T /\ Front(s) \in Seq(T)
         /\ Len(s) \in Nat \ {0} /\ Len(Front(s)) = Len(s) - 1
         /\ Last(s) = s[Len(s)]
         /\ \A i \in 1..(Len(s) - 1) : Front(s)[i] = s[i]
         /\ s = Append(Front(s), Last(s))
<1>. DEFINE n == Len(s)
<1>1. n \in Nat \ {0} /\ \A i \in 1..n : s[i] \in T
  BY EmptySeq, ElementOfSeq
<1>2. Last(s) = s[n] /\ Front(s) = SubSeq(s, 1, n - 1)
  BY DEF Last, Front
<1>. HIDE DEF n
<1>3. /\ SubSeq(s, 1, n - 1) \in Seq(T)
      /\ Len(SubSeq(s, 1, n - 1)) = IF 1 <= n - 1 THEN (n - 1) - 1 + 1 ELSE 0
      /\ \A i \in 1..((n - 1) - 1 + 1) : SubSeq(s, 1, n - 1)[i] = s[1 + i - 1]
  <2>1. n - 1 \in Int /\ \A i \in 1..(n - 1) : s[i] \in T
    BY <1>1
  <2>. QED
    BY <2>1, SubSeqProperties
<1>4. Len(Front(s)) = n - 1 /\ \A i \in 1..(n - 1) : Front(s)[i] = s[i]
  BY <1>1, <1>2, <1>3
<1>5. Last(s) \in T /\ Front(s) \in Seq(T)
  BY <1>1, <1>2, <1>3
<1>6. s = Append(Front(s), Last(s))
  <2>. DEFINE f == Front(s)
              x == Last(s)
              a == Append(f, x)
  <2>1. f \in Seq(T) /\ x \in T /\ Len(f) = n - 1
    BY <1>4, <1>5
  <2>. HIDE DEF f, x
  <2>2. a \in Seq(T) /\ Len(a) = n - 1 + 1 /\ a[n - 1 + 1] = x
        /\ \A i \in 1..(n - 1) : a[i] = f[i]
    BY <2>1, AppendProperties
  <2>. HIDE DEF a
  <2>3. \A i \in 1..n : s[i] = a[i]
    <3>. TAKE i \in 1..n
    <3>1. i \in 1..(n - 1) \/ i = n
      BY <1>1
    <3>2. n - 1 + 1 = n
      BY <1>1
    <3>. QED
      BY <1>2, <1>4, <2>2, <3>1, <3>2 DEF f, x
  <2>4. Len(a) = n
    BY <1>1, <2>2
  <2>5. s = a
    BY <2>2, <2>3, <2>4, SeqEqual DEF n
  <2>. QED
    BY <2>5 DEF a, f, x
<1>. QED
  BY <1>1, <1>2, <1>4, <1>5, <1>6 DEF n

LEMMA PopNewInDeques ==
  ASSUME NEW d \in Deques, ~ IsEmpty(d)
  PROVE  /\ Contents(d) # <<>>
         /\ PopNewEnd(d).elt \in Threads
         /\ PopNewEnd(d).elt = Last(Contents(d))
         /\ PopNewEnd(d).deque \in Deques
         /\ Contents(PopNewEnd(d).deque) = Front(Contents(d))
<1>1. d \in DequeOf(Threads, DequeSz) /\ Contents(d) \in Seq(Threads)
      /\ Contents(d) # <<>> /\ Len(Contents(d)) = Size(d)
  BY DequeIs
<1>2. /\ PopNewEnd(d).deque \in DequeOf(Threads, DequeSz)
      /\ PopNewEnd(d).elt = Contents(d)[Size(d)]
      /\ Contents(PopNewEnd(d).deque) = SubSeq(Contents(d), 1, Size(d) - 1)
  BY <1>1, SizeAssumption, PopNewTakesLast
<1>3. PopNewEnd(d).elt = Last(Contents(d))
      /\ Contents(PopNewEnd(d).deque) = Front(Contents(d))
  BY <1>1, <1>2 DEF Last, Front
<1>4. Last(Contents(d)) \in Threads /\ Front(Contents(d)) \in Seq(Threads)
  BY <1>1, FrontOf
<1>. QED
  BY <1>1, <1>2, <1>3, <1>4 DEF Deques

LEMMA PopOldInDeques ==
  ASSUME NEW d \in Deques, ~ IsEmpty(d)
  PROVE  /\ Contents(d) # <<>>
         /\ PopOldEnd(d).elt \in Threads
         /\ PopOldEnd(d).elt = Head(Contents(d))
         /\ PopOldEnd(d).deque \in Deques
         /\ Contents(PopOldEnd(d).deque) = Tail(Contents(d))
<1>1. d \in DequeOf(Threads, DequeSz) /\ Contents(d) \in Seq(Threads)
      /\ Contents(d) # <<>>
  BY DequeIs
<1>2. /\ PopOldEnd(d).deque \in DequeOf(Threads, DequeSz)
      /\ PopOldEnd(d).elt = Head(Contents(d))
      /\ Contents(PopOldEnd(d).deque) = Tail(Contents(d))
  BY <1>1, SizeAssumption, PopOldTakesFirst
<1>3. Head(Contents(d)) \in Threads /\ Tail(Contents(d)) \in Seq(Threads)
  BY <1>1, HeadTailProperties
<1>. QED
  BY <1>1, <1>2, <1>3 DEF Deques

LEMMA PopEmpty ==
  ASSUME NEW d, IsEmpty(d)
  PROVE  /\ PopNewEnd(d).elt = Nil /\ PopNewEnd(d).deque = d
         /\ PopOldEnd(d).elt = Nil /\ PopOldEnd(d).deque = d
BY DEF PopNewEnd, PopOldEnd

LEMMA ClaimsOnly ==
  ASSUME NEW d \in Deques
  PROVE  /\ Claim(d) \in Deques /\ Contents(Claim(d)) = Contents(d)
         /\ IsEmpty(Claim(d)) <=> IsEmpty(d)
         /\ d.nClaimed = 1 => Release(d) \in Deques /\ Contents(Release(d)) = Contents(d)
<1>1. d \in DequeOf(Threads, DequeSz) /\ Contents(d) \in Seq(Threads)
  BY DequeIs
<1>2. ASSUME NEW n \in 0..MaxClaims
      PROVE  /\ [d EXCEPT !.nClaimed = n] \in Deques
             /\ Contents([d EXCEPT !.nClaimed = n]) = Contents(d)
             /\ IsEmpty([d EXCEPT !.nClaimed = n]) <=> IsEmpty(d)
  <2>. DEFINE e == [d EXCEPT !.nClaimed = n]
  <2>1. e \in DequeOf(Threads, DequeSz)
    BY <1>1 DEF DequeOf
  <2>2. e.old = d.old /\ e.new = d.new /\ e.maxSz = d.maxSz /\ e.elts = d.elts
    BY <1>1 DEF DequeOf
  <2>. HIDE DEF e
  <2>3. Size(e) = Size(d) /\ (IsEmpty(e) <=> IsEmpty(d)) /\ \A i : Slot(e, i) = Slot(d, i)
    BY <2>2 DEF Size, Slot, IsEmpty
  <2>4. Contents(e) = Contents(d)
    BY <2>2, <2>3 DEF Contents
  <2>. QED
    BY <1>1, <2>1, <2>3, <2>4 DEF Deques, e
<1>3. d.nClaimed \in 0..MaxClaims
  BY <1>1 DEF DequeOf
<1>4. Claim(d) = d \/ \E n \in 0..MaxClaims : Claim(d) = [d EXCEPT !.nClaimed = n]
  <2>1. CASE d.nClaimed < MaxClaims
    <3>1. d.nClaimed + 1 \in 0..MaxClaims
      BY <1>3, <2>1 DEF MaxClaims
    <3>. QED
      BY <2>1, <3>1 DEF Claim
  <2>. QED
    BY <2>1 DEF Claim
<1>5. d.nClaimed = 1 => Release(d) = [d EXCEPT !.nClaimed = 0] /\ 0 \in 0..MaxClaims
  BY DEF Release, MaxClaims
<1>. QED
  BY <1>2, <1>4, <1>5

----------------------------------------------------------------------------
(* The tasks of a list of threads. *)

TasksOf(s) == {s[i].task : i \in DOMAIN s}
Distinct(s) == \A i, j \in DOMAIN s : s[i].task = s[j].task => i = j

LEMMA ThreadFields ==
  /\ \A th \in Threads : th.task \in Tasks /\ th = Thread(th.task, th.future)
  /\ \A t, k : Thread(t, k).task = t /\ Thread(t, k).future = k
  /\ \A t \in Tasks, k \in Futures \union {NoTask} : Thread(t, k) \in Threads
BY DEF Threads, Thread

LEMMA EmptyTasks == TasksOf(<<>>) = {} /\ Distinct(<<>>)
BY DEF TasksOf, Distinct

LEMMA OneTask ==
  ASSUME NEW th
  PROVE  /\ TasksOf(<<th>>) = {th.task} /\ Distinct(<<th>>)
         /\ Len(<<th>>) = 1 /\ <<th>>[1] = th
<1>1. DOMAIN <<th>> = {1} /\ <<th>>[1] = th /\ Len(<<th>>) = 1
  OBVIOUS
<1>. QED
  BY <1>1 DEF TasksOf, Distinct

LEMMA TasksInTasks ==
  ASSUME NEW s \in Seq(Threads)
  PROVE  TasksOf(s) \subseteq Tasks /\ (TasksOf(s) = {} <=> s = <<>>)
<1>1. DOMAIN s = 1..Len(s) /\ Len(s) \in Nat /\ \A i \in 1..Len(s) : s[i] \in Threads
  BY LenProperties
<1>2. s # <<>> => Len(s) \in Nat \ {0}
  BY EmptySeq
<1>3. s # <<>> => 1 \in DOMAIN s
  BY <1>1, <1>2
<1>4. TasksOf(<<>>) = {}
  BY EmptyTasks
<1>5. \A i \in DOMAIN s : s[i].task \in Tasks /\ s[i].task \in TasksOf(s)
  BY <1>1, ThreadFields DEF TasksOf
<1>6. TasksOf(s) \subseteq Tasks
  BY <1>5 DEF TasksOf
<1>. QED
  BY <1>3, <1>4, <1>5, <1>6

LEMMA AppendTasks ==
  ASSUME NEW s \in Seq(Threads), NEW th \in Threads
  PROVE  /\ TasksOf(Append(s, th)) = TasksOf(s) \union {th.task}
         /\ Distinct(s) /\ th.task \notin TasksOf(s) => Distinct(Append(s, th))
         /\ Distinct(Append(s, th)) => Distinct(s) /\ th.task \notin TasksOf(s)
<1>. DEFINE n == Len(s)
            a == Append(s, th)
<1>1. n \in Nat /\ DOMAIN s = 1..n
  BY LenProperties
<1>2. DOMAIN a = 1..(n + 1) /\ a[n + 1] = th /\ \A i \in 1..n : a[i] = s[i]
  BY <1>1, AppendProperties, LenProperties
<1>. HIDE DEF n, a
<1>3. \A i \in 1..(n + 1) : i \in 1..n \/ i = n + 1
  BY <1>1
<1>4. /\ \A i \in 1..n : i \in 1..(n + 1) /\ i # n + 1
      /\ n + 1 \in 1..(n + 1)
  BY <1>1
<1>5. TasksOf(a) = TasksOf(s) \union {th.task}
  BY <1>1, <1>2, <1>3, <1>4 DEF TasksOf
<1>6. Distinct(s) /\ th.task \notin TasksOf(s) => Distinct(a)
  BY <1>1, <1>2, <1>3, <1>4 DEF TasksOf, Distinct
<1>7. Distinct(a) => Distinct(s) /\ th.task \notin TasksOf(s)
  BY <1>1, <1>2, <1>3, <1>4 DEF TasksOf, Distinct
<1>. QED
  BY <1>5, <1>6, <1>7 DEF a

LEMMA FrontTasks ==
  ASSUME NEW s \in Seq(Threads), s # <<>>, Distinct(s)
  PROVE  /\ TasksOf(Front(s)) = TasksOf(s) \ {Last(s).task}
         /\ Last(s).task \in TasksOf(s)
         /\ Distinct(Front(s))
<1>1. Front(s) \in Seq(Threads) /\ Last(s) \in Threads /\ s = Append(Front(s), Last(s))
  BY FrontOf
<1>. DEFINE f == Front(s)
            x == Last(s)
<1>. HIDE DEF f, x
<1>2. /\ TasksOf(s) = TasksOf(f) \union {x.task}
      /\ Distinct(f) /\ x.task \notin TasksOf(f)
  BY <1>1, AppendTasks DEF f, x
<1>. QED
  BY <1>2 DEF f, x

LEMMA TailTasks ==
  ASSUME NEW s \in Seq(Threads), s # <<>>, Distinct(s)
  PROVE  /\ TasksOf(Tail(s)) = TasksOf(s) \ {Head(s).task}
         /\ Head(s).task \in TasksOf(s)
         /\ Distinct(Tail(s))
<1>. DEFINE n == Len(s)
            t == Tail(s)
<1>1. n \in Nat \ {0} /\ DOMAIN s = 1..n /\ Head(s) = s[1]
  BY EmptySeq, LenProperties
<1>2. DOMAIN t = 1..(n - 1) /\ \A i \in 1..(n - 1) : t[i] = s[i + 1]
  BY <1>1, HeadTailProperties, LenProperties
<1>. HIDE DEF n, t
<1>3. /\ \A i \in 1..(n - 1) : i + 1 \in 1..n /\ i + 1 # 1
      /\ 1 \in 1..n
      /\ \A i, j \in 1..(n - 1) : i + 1 = j + 1 => i = j
  BY <1>1
<1>4. \A i \in 1..n : i = 1 \/ \E j \in 1..(n - 1) : i = j + 1
  <2>1. \A i \in 1..n : i # 1 => i - 1 \in 1..(n - 1) /\ i = (i - 1) + 1
    BY <1>1
  <2>. QED
    BY <2>1
<1>5. Distinct(t)
  <2>1. ASSUME NEW i \in 1..(n - 1), NEW j \in 1..(n - 1), t[i].task = t[j].task
        PROVE  i = j
    <3>1. s[i + 1].task = s[j + 1].task /\ i + 1 \in DOMAIN s /\ j + 1 \in DOMAIN s
      BY <1>1, <1>2, <1>3, <2>1
    <3>2. i + 1 = j + 1
      BY <3>1 DEF Distinct
    <3>. QED
      BY <1>3, <3>2
  <2>. QED
    BY <1>2, <2>1 DEF Distinct
<1>6. Head(s).task \in TasksOf(s)
  BY <1>1, <1>3 DEF TasksOf
<1>7. TasksOf(t) \subseteq TasksOf(s) /\ Head(s).task \notin TasksOf(t)
  <2>1. ASSUME NEW x \in TasksOf(t)
        PROVE  x \in TasksOf(s) /\ x # Head(s).task
    <3>1. PICK i \in 1..(n - 1) : x = t[i].task
      BY <1>2 DEF TasksOf
    <3>2. x = s[i + 1].task /\ i + 1 \in DOMAIN s /\ 1 \in DOMAIN s /\ i + 1 # 1
      BY <1>1, <1>2, <1>3, <3>1
    <3>3. x \in TasksOf(s)
      BY <3>2 DEF TasksOf
    <3>4. s[1].task # s[i + 1].task
      BY <3>2 DEF Distinct
    <3>. QED
      BY <1>1, <3>2, <3>3, <3>4
  <2>. QED
    BY <2>1
<1>8. ASSUME NEW x \in TasksOf(s), x # Head(s).task
      PROVE  x \in TasksOf(t)
  <2>1. PICK i \in 1..n : x = s[i].task
    BY <1>1 DEF TasksOf
  <2>2. PICK j \in 1..(n - 1) : i = j + 1
    BY <1>1, <1>4, <1>8, <2>1
  <2>3. x = t[j].task /\ j \in DOMAIN t
    BY <1>2, <2>1, <2>2
  <2>. QED
    BY <2>3 DEF TasksOf
<1>. QED
  BY <1>5, <1>6, <1>7, <1>8 DEF t

LEMMA PushedTasks ==
  ASSUME NEW s \in Seq(Threads), NEW th \in Threads, Distinct(s), th.task \notin TasksOf(s)
  PROVE  /\ PushedOn(s, th) \in Seq(Threads)
         /\ TasksOf(PushedOn(s, th)) \subseteq TasksOf(s) \union {th.task}
         /\ Distinct(PushedOn(s, th))
<1>1. PushedOn(s, th) = <<>> \/ PushedOn(s, th) = Append(s, th)
  BY DEF PushedOn
<1>2. CASE PushedOn(s, th) = <<>>
  BY <1>2, EmptyTasks, EmptySeq
<1>3. CASE PushedOn(s, th) = Append(s, th)
  BY <1>3, AppendTasks, AppendProperties
<1>. QED
  BY <1>1, <1>2, <1>3

----------------------------------------------------------------------------
(* Lists of resume deques, each with one thread or none: one that blocked. *)

Captured == {th \in Threads : th.future = NoTask}

DequeLists ==
  {ds \in Seq(Deques) :
     \A i \in DOMAIN ds : Len(Contents(ds[i])) <= 1 /\ Contents(ds[i]) \in Seq(Captured)}

OnDeques(ds) == UNION {TasksOf(Contents(ds[i])) : i \in DOMAIN ds}
Apart(ds) ==
  \A i, j \in DOMAIN ds :
    TasksOf(Contents(ds[i])) \intersect TasksOf(Contents(ds[j])) # {} => i = j

(* What a pop does to the list: one deque loses th, and is empty then. *)
Took(ds, ds2, th) ==
  /\ ds2 \in DequeLists /\ DOMAIN ds2 = DOMAIN ds
  /\ \E i \in DOMAIN ds :
       /\ Contents(ds[i]) = <<th>> /\ Contents(ds2[i]) = <<>>
       /\ \A j \in DOMAIN ds : j # i => Contents(ds2[j]) = Contents(ds[j])

LEMMA DequeListIs ==
  ASSUME NEW ds \in DequeLists
  PROVE  /\ ds \in Seq(Deques) /\ Len(ds) \in Nat /\ DOMAIN ds = 1..Len(ds)
         /\ \A i \in DOMAIN ds : /\ ds[i] \in Deques
                                 /\ Contents(ds[i]) \in Seq(Threads)
                                 /\ Contents(ds[i]) \in Seq(Captured)
                                 /\ Len(Contents(ds[i])) <= 1
<1>1. /\ ds \in Seq(Deques)
      /\ \A i \in DOMAIN ds : Len(Contents(ds[i])) <= 1 /\ Contents(ds[i]) \in Seq(Captured)
  BY DEF DequeLists
<1>2. Len(ds) \in Nat /\ DOMAIN ds = 1..Len(ds) /\ \A i \in 1..Len(ds) : ds[i] \in Deques
  BY <1>1, LenProperties, ElementOfSeq
<1>. QED
  BY <1>1, <1>2, DequeIs

LEMMA EmptyDequeList ==
  <<>> \in DequeLists /\ OnDeques(<<>>) = {} /\ Apart(<<>>)
<1>1. <<>> \in Seq(Deques) /\ DOMAIN <<>> = {}
  BY EmptySeq
<1>. QED
  BY <1>1 DEF DequeLists, OnDeques, Apart

LEMMA OnDequesTasks ==
  ASSUME NEW ds \in DequeLists
  PROVE  OnDeques(ds) \subseteq Tasks
BY DequeListIs, TasksInTasks DEF OnDeques

LEMMA SingleThread ==
  ASSUME NEW s \in Seq(Threads), Len(s) <= 1, s # <<>>
  PROVE  s = <<Last(s)>> /\ s = <<Head(s)>> /\ Front(s) = <<>> /\ Tail(s) = <<>>
<1>0. /\ Last(s) \in Threads /\ Last(s) = s[Len(s)] /\ Front(s) \in Seq(Threads)
      /\ Len(s) \in Nat \ {0} /\ Len(Front(s)) = Len(s) - 1
  BY FrontOf
<1>1. Len(s) = 1 /\ Last(s) = s[1] /\ Len(Front(s)) = 0
  BY <1>0
<1>2. Head(s) = s[1] /\ Tail(s) \in Seq(Threads) /\ Len(Tail(s)) = 0
  BY <1>1, HeadTailProperties
<1>3. Front(s) = <<>> /\ Tail(s) = <<>>
  BY <1>0, <1>1, <1>2, EmptySeq
<1>4. s = <<s[1]>>
  BY <1>1, OneTask, SeqEqual
<1>. QED
  BY <1>1, <1>2, <1>3, <1>4

LEMMA NoneNonempty ==
  ASSUME NEW ds \in DequeLists
  PROVE  Nonempty(ds) = {} <=> OnDeques(ds) = {}
<1>1. \A i \in DOMAIN ds : IsEmpty(ds[i]) <=> TasksOf(Contents(ds[i])) = {}
  BY DequeListIs, DequeIs, TasksInTasks
<1>. QED
  BY <1>1 DEF Nonempty, OnDeques

LEMMA HeadDequeIs ==
  ASSUME NEW ds \in DequeLists, Nonempty(ds) # {}
  PROVE  HeadDeque(ds) \in DOMAIN ds /\ ~ IsEmpty(ds[HeadDeque(ds)])
<1>. DEFINE n == Len(ds)
            I == Nonempty(ds)
            J == {n - i : i \in I}
<1>1. n \in Nat /\ DOMAIN ds = 1..n /\ I \subseteq 1..n
  BY DequeListIs DEF Nonempty
<1>2. \A i \in I : i \in Int /\ n - i \in Nat
  BY <1>1
<1>3. J \subseteq Nat /\ J # {}
  BY <1>2
<1>4. PICK k \in J : \A j \in J : ~ (<<j, k>> \in OpToRel(<, Nat))
  BY <1>3, NatLessThanWellFounded, WFMin
<1>5. \A j \in J : ~ (j < k)
  BY <1>3, <1>4 DEF OpToRel
<1>6. PICK m \in I : k = n - m
  BY <1>4
<1>7. \A i \in I : m >= i
  <2>. TAKE i \in I
  <2>1. ~ (n - i < n - m)
    BY <1>5, <1>6
  <2>2. i \in Int /\ m \in Int /\ n \in Int
    BY <1>1, <1>2
  <2>. QED
    BY <2>1, <2>2
<1>8. Max(I) \in I
  BY <1>7 DEF Max
<1>. QED
  BY <1>8 DEF HeadDeque, Nonempty

(* Claiming all and popping from one of them. *)
LEMMA TookFrom ==
  ASSUME NEW ds \in DequeLists, NEW i \in DOMAIN ds,
         NEW th, Contents(ds[i]) = <<th>>,
         NEW d \in Deques, Contents(d) = <<>>
  PROVE  Took(ds, [ClaimNonempty(ds) EXCEPT ![i] = d], th)
<1>. DEFINE c == ClaimNonempty(ds)
            r == [c EXCEPT ![i] = d]
<1>1. Len(ds) \in Nat /\ DOMAIN ds = 1..Len(ds) /\ \A j \in DOMAIN ds : ds[j] \in Deques
  BY DequeListIs
<1>2. DOMAIN c = DOMAIN ds /\ \A j \in DOMAIN ds : c[j] \in Deques /\ Contents(c[j]) = Contents(ds[j])
  BY <1>1, ClaimsOnly DEF ClaimNonempty
<1>. HIDE DEF c
<1>3. /\ DOMAIN r = DOMAIN ds /\ r[i] = d
      /\ \A j \in DOMAIN ds : j # i => r[j] = c[j]
  BY <1>2
<1>4. r = [j \in DOMAIN ds |-> r[j]]
  BY <1>2
<1>. HIDE DEF r
<1>5. \A j \in DOMAIN ds : r[j] \in Deques /\ (j # i => Contents(r[j]) = Contents(ds[j]))
  BY <1>2, <1>3
<1>6. r \in [1..Len(ds) -> Deques]
  BY <1>1, <1>4, <1>5
<1>7. r \in Seq(Deques)
  BY <1>1, <1>6, SeqDef
<1>8. \A j \in DOMAIN r : Len(Contents(r[j])) <= 1 /\ Contents(r[j]) \in Seq(Captured)
  <2>. TAKE j \in DOMAIN r
  <2>1. CASE j = i
    BY <1>3, <2>1, EmptySeq
  <2>2. CASE j # i
    BY <1>3, <1>5, <2>2, DequeListIs
  <2>. QED
    BY <2>1, <2>2
<1>9. r \in DequeLists
  BY <1>7, <1>8 DEF DequeLists
<1>. QED
  BY <1>3, <1>5, <1>9 DEF Took, r, c

LEMMA TookTasks ==
  ASSUME NEW ds \in DequeLists, NEW ds2, NEW th, Took(ds, ds2, th), Apart(ds)
  PROVE  /\ th.task \in OnDeques(ds)
         /\ OnDeques(ds2) = OnDeques(ds) \ {th.task}
         /\ Apart(ds2)
         /\ ds2 \in DequeLists
         /\ th \in Captured
<1>1. PICK i \in DOMAIN ds :
        /\ Contents(ds[i]) = <<th>> /\ Contents(ds2[i]) = <<>>
        /\ \A j \in DOMAIN ds : j # i => Contents(ds2[j]) = Contents(ds[j])
  BY DEF Took
<1>2. DOMAIN ds2 = DOMAIN ds /\ ds2 \in DequeLists
  BY DEF Took
<1>3. TasksOf(Contents(ds[i])) = {th.task} /\ TasksOf(Contents(ds2[i])) = {}
  BY <1>1, OneTask, EmptyTasks
<1>4. \A j \in DOMAIN ds : j # i => th.task \notin TasksOf(Contents(ds[j]))
  BY <1>3 DEF Apart
<1>5. OnDeques(ds2) = OnDeques(ds) \ {th.task}
  <2>1. ASSUME NEW x \in OnDeques(ds2)
        PROVE  x \in OnDeques(ds) /\ x # th.task
    <3>1. PICK j \in DOMAIN ds : x \in TasksOf(Contents(ds2[j]))
      BY <1>2 DEF OnDeques
    <3>2. j # i
      BY <1>3, <3>1
    <3>. QED
      BY <1>1, <1>4, <3>1, <3>2 DEF OnDeques
  <2>2. ASSUME NEW x \in OnDeques(ds), x # th.task
        PROVE  x \in OnDeques(ds2)
    <3>1. PICK j \in DOMAIN ds : x \in TasksOf(Contents(ds[j]))
      BY DEF OnDeques
    <3>2. j # i
      BY <1>3, <2>2, <3>1
    <3>. QED
      BY <1>1, <1>2, <3>1, <3>2 DEF OnDeques
  <2>. QED
    BY <2>1, <2>2
<1>6. Apart(ds2)
  BY <1>1, <1>2, <1>3 DEF Apart
<1>7. th \in Captured
  <2>1. <<th>> \in Seq(Captured) /\ Len(<<th>>) = 1 /\ <<th>>[1] = th
    BY <1>1, DequeListIs, OneTask
  <2>. QED
    BY <2>1, ElementOfSeq
<1>. QED
  BY <1>2, <1>3, <1>5, <1>6, <1>7 DEF OnDeques

(* A thread on a new deque is claimed once, and released. *)
LEMMA NewDequeOf ==
  ASSUME NEW th \in Threads
  PROVE  /\ Release(PushNewEnd(NewDeque(DequeSz), th)) \in Deques
         /\ Contents(Release(PushNewEnd(NewDeque(DequeSz), th))) = <<th>>
<1>. DEFINE n == NewDeque(DequeSz)
            p == PushNewEnd(n, th)
<1>1. n \in Deques /\ Contents(n) = <<>> /\ n.nClaimed = 1
  BY NewDequeIsEmpty
<1>. HIDE DEF n
<1>2. p \in Deques /\ Contents(p) = PushedOn(<<>>, th) /\ p.nClaimed = 1
  BY <1>1, PushInDeques
<1>3. PushedOn(<<>>, th) = <<th>>
  <2>1. Len(<<>>) = 0 /\ DequeSz - 1 # 0 /\ Append(<<>>, th) = <<th>>
    BY SizeAssumption
  <2>. QED
    BY <2>1 DEF PushedOn
<1>. HIDE DEF p
<1>4. Release(p) \in Deques /\ Contents(Release(p)) = <<th>>
  BY <1>2, <1>3, ClaimsOnly
<1>. QED
  BY <1>4 DEF p, n

(* Those resumed come in front of the others, each on a deque of its own. *)
NewDeques(ths) ==
  [i \in DOMAIN ths |-> Release(PushNewEnd(NewDeque(DequeSz), ths[Len(ths) + 1 - i]))]

LEMMA NewDequesAre ==
  ASSUME NEW ths \in Seq(Captured)
  PROVE  /\ NewDeques(ths) \in DequeLists
         /\ OnDeques(NewDeques(ths)) = TasksOf(ths)
         /\ Distinct(ths) => Apart(NewDeques(ths))
<1>. DEFINE n == Len(ths)
            ds == NewDeques(ths)
<1>1. n \in Nat /\ DOMAIN ths = 1..n
      /\ \A i \in 1..n : ths[i] \in Captured /\ ths[i] \in Threads
  <2>1. Captured \subseteq Threads
    BY DEF Captured
  <2>. QED
    BY <2>1, LenProperties, ElementOfSeq
<1>2. \A i \in 1..n : n + 1 - i \in 1..n /\ n + 1 - (n + 1 - i) = i
  BY <1>1
<1>3. DOMAIN ds = 1..n
      /\ \A i \in 1..n : ds[i] \in Deques /\ Contents(ds[i]) = <<ths[n + 1 - i]>>
  <2>1. DOMAIN ds = 1..n
    BY <1>1 DEF NewDeques
  <2>2. ASSUME NEW i \in 1..n
        PROVE  ds[i] \in Deques /\ Contents(ds[i]) = <<ths[n + 1 - i]>>
    <3>. DEFINE th == ths[n + 1 - i]
    <3>1. th \in Threads
      BY <1>1, <1>2
    <3>2. ds[i] = Release(PushNewEnd(NewDeque(DequeSz), th))
      BY <1>1 DEF NewDeques
    <3>. HIDE DEF th, ds
    <3>3. ds[i] \in Deques /\ Contents(ds[i]) = <<th>>
      BY <3>1, <3>2, NewDequeOf
    <3>. QED
      BY <3>3 DEF th
  <2>. QED
    BY <2>1, <2>2
<1>4. ds = [i \in 1..n |-> ds[i]]
  BY <1>1 DEF NewDeques
<1>. HIDE DEF n, ds
<1>5. ds \in DequeLists
  <2>1. ds \in [1..n -> Deques]
    BY <1>3, <1>4
  <2>2. ds \in Seq(Deques)
    BY <1>1, <2>1, SeqDef
  <2>3. \A i \in DOMAIN ds : Len(Contents(ds[i])) <= 1 /\ Contents(ds[i]) \in Seq(Captured)
    <3>1. ASSUME NEW i \in 1..n
          PROVE  Len(Contents(ds[i])) <= 1 /\ Contents(ds[i]) \in Seq(Captured)
      <4>. DEFINE th == ths[n + 1 - i]
      <4>1. th \in Captured /\ Contents(ds[i]) = <<th>>
        BY <1>1, <1>2, <1>3
      <4>. HIDE DEF th
      <4>2. <<th>> \in Seq(Captured) /\ Len(<<th>>) = 1
        BY <4>1, OneTask, OneThread
      <4>. QED
        BY <4>1, <4>2
    <3>. QED
      BY <1>3, <3>1
  <2>. QED
    BY <2>2, <2>3 DEF DequeLists
<1>6. \A i \in 1..n : TasksOf(Contents(ds[i])) = {ths[n + 1 - i].task}
  <2>. TAKE i \in 1..n
  <2>1. TasksOf(<<ths[n + 1 - i]>>) = {ths[n + 1 - i].task}
    BY OneTask
  <2>. QED
    BY <1>3, <2>1
<1>7. \A j \in 1..n : \E i \in 1..n : j = n + 1 - i
  BY <1>2
<1>8. OnDeques(ds) = TasksOf(ths)
  <2>1. ASSUME NEW x \in OnDeques(ds)
        PROVE  x \in TasksOf(ths)
    <3>1. PICK i \in 1..n : x \in TasksOf(Contents(ds[i]))
      BY <1>3 DEF OnDeques
    <3>2. x = ths[n + 1 - i].task /\ n + 1 - i \in DOMAIN ths
      BY <1>1, <1>2, <1>6, <3>1
    <3>. QED
      BY <3>2 DEF TasksOf
  <2>2. ASSUME NEW x \in TasksOf(ths)
        PROVE  x \in OnDeques(ds)
    <3>1. PICK j \in 1..n : x = ths[j].task
      BY <1>1 DEF TasksOf
    <3>2. PICK i \in 1..n : j = n + 1 - i
      BY <1>7
    <3>3. x \in TasksOf(Contents(ds[i]))
      BY <1>6, <3>1, <3>2
    <3>. QED
      BY <1>3, <3>3 DEF OnDeques
  <2>. QED
    BY <2>1, <2>2
<1>9. Distinct(ths) => Apart(ds)
  <2>. SUFFICES ASSUME Distinct(ths), NEW i \in 1..n, NEW j \in 1..n,
                       TasksOf(Contents(ds[i])) \intersect TasksOf(Contents(ds[j])) # {}
                PROVE  i = j
    BY <1>3 DEF Apart
  <2>1. ths[n + 1 - i].task = ths[n + 1 - j].task
    BY <1>6
  <2>2. n + 1 - i = n + 1 - j
    BY <1>1, <1>2, <2>1 DEF Distinct
  <2>. QED
    BY <1>1, <2>2
<1>. QED
  BY <1>5, <1>8, <1>9 DEF ds

LEMMA JoinDeques ==
  ASSUME NEW r \in DequeLists, NEW s \in DequeLists
  PROVE  /\ r \o s \in DequeLists
         /\ OnDeques(r \o s) = OnDeques(r) \union OnDeques(s)
         /\ Apart(r) /\ Apart(s) /\ OnDeques(r) \intersect OnDeques(s) = {} => Apart(r \o s)
<1>. DEFINE m == Len(r)
            n == Len(s)
            c == r \o s
<1>1. /\ m \in Nat /\ n \in Nat /\ DOMAIN r = 1..m /\ DOMAIN s = 1..n
      /\ r \in Seq(Deques) /\ s \in Seq(Deques)
  BY DequeListIs
<1>2. /\ c \in Seq(Deques) /\ DOMAIN c = 1..(m + n)
      /\ \A i \in 1..(m + n) : c[i] = IF i <= m THEN r[i] ELSE s[i - m]
  BY <1>1, ConcatProperties, LenProperties
<1>. HIDE DEF c, m, n
<1>3. /\ \A i \in 1..m : i \in 1..(m + n) /\ c[i] = r[i]
      /\ \A i \in 1..n : i + m \in 1..(m + n) /\ c[i + m] = s[i]
  <2>1. \A i \in 1..m : i \in 1..(m + n) /\ i <= m
    BY <1>1
  <2>2. \A i \in 1..n : i + m \in 1..(m + n) /\ ~ (i + m <= m) /\ (i + m) - m = i
    BY <1>1
  <2>. QED
    BY <1>2, <2>1, <2>2
<1>4. \A i \in 1..(m + n) : i \in 1..m \/ \E j \in 1..n : i = j + m
  <2>1. \A i \in 1..(m + n) : i \notin 1..m => i - m \in 1..n /\ i = (i - m) + m
    BY <1>1
  <2>. QED
    BY <2>1
<1>5. \A i \in 1..(m + n) : \/ i \in 1..m /\ c[i] = r[i]
                            \/ \E j \in 1..n : i = j + m /\ c[i] = s[j]
  BY <1>3, <1>4
<1>6. c \in DequeLists
  <2>1. \A i \in 1..(m + n) : Len(Contents(c[i])) <= 1 /\ Contents(c[i]) \in Seq(Captured)
    BY <1>1, <1>5, DequeListIs
  <2>. QED
    BY <1>2, <2>1 DEF DequeLists
<1>7. OnDeques(c) = OnDeques(r) \union OnDeques(s)
  <2>1. ASSUME NEW x \in OnDeques(c)
        PROVE  x \in OnDeques(r) \union OnDeques(s)
    <3>1. PICK i \in 1..(m + n) : x \in TasksOf(Contents(c[i]))
      BY <1>2 DEF OnDeques
    <3>2. CASE i \in 1..m /\ c[i] = r[i]
      BY <1>1, <3>1, <3>2 DEF OnDeques
    <3>3. CASE \E j \in 1..n : i = j + m /\ c[i] = s[j]
      BY <1>1, <3>1, <3>3 DEF OnDeques
    <3>. QED
      BY <1>5, <3>2, <3>3
  <2>2. ASSUME NEW x \in OnDeques(r)
        PROVE  x \in OnDeques(c)
    <3>1. PICK i \in 1..m : x \in TasksOf(Contents(r[i]))
      BY <1>1 DEF OnDeques
    <3>. QED
      BY <1>2, <1>3, <3>1 DEF OnDeques
  <2>3. ASSUME NEW x \in OnDeques(s)
        PROVE  x \in OnDeques(c)
    <3>1. PICK i \in 1..n : x \in TasksOf(Contents(s[i]))
      BY <1>1 DEF OnDeques
    <3>. QED
      BY <1>2, <1>3, <3>1 DEF OnDeques
  <2>. QED
    BY <2>1, <2>2, <2>3
<1>8. ASSUME Apart(r), Apart(s), OnDeques(r) \intersect OnDeques(s) = {}
      PROVE  Apart(c)
  <2>1. ASSUME NEW i \in 1..m, NEW j \in 1..n
        PROVE  TasksOf(Contents(r[i])) \intersect TasksOf(Contents(s[j])) = {}
    <3>1. TasksOf(Contents(r[i])) \subseteq OnDeques(r)
          /\ TasksOf(Contents(s[j])) \subseteq OnDeques(s)
      BY <1>1 DEF OnDeques
    <3>. QED
      BY <1>8, <3>1
  <2>. SUFFICES ASSUME NEW i \in 1..(m + n), NEW j \in 1..(m + n),
                       TasksOf(Contents(c[i])) \intersect TasksOf(Contents(c[j])) # {}
                PROVE  i = j
    BY <1>2 DEF Apart
  <2>2. CASE i \in 1..m /\ c[i] = r[i] /\ j \in 1..m /\ c[j] = r[j]
    BY <1>1, <1>8, <2>2 DEF Apart
  <2>3. CASE i \in 1..m /\ c[i] = r[i] /\ \E l \in 1..n : j = l + m /\ c[j] = s[l]
    BY <2>1, <2>3
  <2>4. CASE (\E k \in 1..n : i = k + m /\ c[i] = s[k]) /\ j \in 1..m /\ c[j] = r[j]
    BY <2>1, <2>4
  <2>5. CASE /\ \E k \in 1..n : i = k + m /\ c[i] = s[k]
             /\ \E l \in 1..n : j = l + m /\ c[j] = s[l]
    BY <1>1, <1>8, <2>5 DEF Apart
  <2>. QED
    BY <1>5, <2>2, <2>3, <2>4, <2>5
<1>. QED
  BY <1>6, <1>7, <1>8 DEF c

(* Pruning frees deques without a thread, and turns the list around. *)
LEMMA PrunedDeques ==
  ASSUME NEW ds \in DequeLists, NEW I \in SUBSET DOMAIN ds, Nonempty(ds) \subseteq I
  PROVE  /\ Reverse(SelectAt(ds, I)) \in DequeLists
         /\ OnDeques(Reverse(SelectAt(ds, I))) = OnDeques(ds)
         /\ Apart(ds) => Apart(Reverse(SelectAt(ds, I)))
<1>. DEFINE s == SelectAt(ds, I)
            r == Reverse(s)
            m == Cardinality(I)
<1>1. Len(ds) \in Nat /\ DOMAIN ds = 1..Len(ds) /\ ds \in Seq(Deques)
  BY DequeListIs
<1>2. /\ m \in Nat /\ s \in Seq(Deques) /\ DOMAIN s = 1..m
      /\ \A k \in 1..m : Position(I, k) \in I /\ s[k] = ds[Position(I, k)]
      /\ \A i \in I : \E k \in 1..m : s[k] = ds[i]
  BY <1>1, Selected
<1>3. \A k, l \in 1..m : Position(I, k) = Position(I, l) => k = l
  <2>1. I \in SUBSET (1..Len(ds))
    BY <1>1
  <2>. QED
    BY <1>1, <2>1, Positions
<1>4. Len(s) = m
  <2>1. DOMAIN s = 1..Len(s) /\ Len(s) \in Nat
    BY <1>2, LenProperties
  <2>. HIDE DEF s, m
  <2>. QED
    BY <1>2, <2>1
<1>. HIDE DEF s, m
<1>5. /\ r \in Seq(Deques) /\ DOMAIN r = 1..m
      /\ \A i \in 1..m : r[i] = s[m - i + 1]
  BY <1>2, <1>4, ReverseProperties, LenProperties
<1>. HIDE DEF r
<1>6. \A i \in 1..m : m - i + 1 \in 1..m /\ m - (m - i + 1) + 1 = i
  BY <1>2
<1>7. \A i \in 1..m : /\ Position(I, m - i + 1) \in DOMAIN ds
                      /\ r[i] = ds[Position(I, m - i + 1)]
  BY <1>2, <1>5, <1>6
<1>8. r \in DequeLists
  <2>1. \A i \in 1..m : Len(Contents(r[i])) <= 1 /\ Contents(r[i]) \in Seq(Captured)
    BY <1>7, DequeListIs
  <2>. QED
    BY <1>5, <2>1 DEF DequeLists
<1>9. ASSUME NEW x \in OnDeques(ds)
      PROVE  x \in OnDeques(r)
  <2>1. PICK i \in DOMAIN ds : x \in TasksOf(Contents(ds[i]))
    BY DEF OnDeques
  <2>2. i \in I
    <3>1. Contents(ds[i]) # <<>>
      BY <2>1, EmptyTasks
    <3>2. ~ IsEmpty(ds[i])
      BY <3>1, DequeListIs, DequeIs
    <3>. QED
      BY <3>2 DEF Nonempty
  <2>3. PICK k \in 1..m : s[k] = ds[i]
    BY <1>2, <2>2
  <2>4. r[m - k + 1] = s[k] /\ m - k + 1 \in DOMAIN r
    BY <1>5, <1>6
  <2>. QED
    BY <2>1, <2>3, <2>4 DEF OnDeques
<1>10. ASSUME NEW x \in OnDeques(r)
       PROVE  x \in OnDeques(ds)
  BY <1>5, <1>7 DEF OnDeques
<1>11. ASSUME Apart(ds)
       PROVE  Apart(r)
  <2>. SUFFICES ASSUME NEW i \in 1..m, NEW j \in 1..m,
                       TasksOf(Contents(r[i])) \intersect TasksOf(Contents(r[j])) # {}
                PROVE  i = j
    BY <1>5 DEF Apart
  <2>1. Position(I, m - i + 1) = Position(I, m - j + 1)
    BY <1>7, <1>11 DEF Apart
  <2>2. m - i + 1 = m - j + 1
    BY <1>3, <1>6, <2>1
  <2>. QED
    BY <1>2, <2>2
<1>. QED
  BY <1>8, <1>9, <1>10, <1>11 DEF r, s

----------------------------------------------------------------------------
(* What workers and thieves find. *)

FoundNothing(v, p) ==
  p.elt = Nil /\ p.primary = primary[v] /\ p.resumeDeques = resumeDeques[v]

FoundResumed(v, p) ==
  /\ p.elt \in Threads /\ p.primary = primary[v]
  /\ Took(resumeDeques[v], p.resumeDeques, p.elt)

FoundNewest(v, p) ==
  /\ p.elt \in Threads /\ p.primary \in Deques /\ p.resumeDeques = resumeDeques[v]
  /\ Contents(primary[v]) # <<>> /\ p.elt = Last(Contents(primary[v]))
  /\ Contents(p.primary) = Front(Contents(primary[v]))

FoundOldest(v, p) ==
  /\ p.elt \in Threads /\ p.primary \in Deques /\ p.resumeDeques = resumeDeques[v]
  /\ primary[v] # NoDeque /\ Len(Contents(primary[v])) > 1
  /\ p.elt = Head(Contents(primary[v]))
  /\ Contents(p.primary) = Tail(Contents(primary[v]))

LEMMA NilIsNoThread == Nil \notin Threads /\ NoDeque \notin Deques
BY NilAssumption DEF Threads, Deques

LEMMA PopClaimed ==
  ASSUME NEW ds \in DequeLists, Nonempty(ds) # {}
  PROVE  LET i == HeadDeque(ds)
             c == ClaimNonempty(ds)
         IN  /\ PopNewEnd(c[i]).elt \in Threads
             /\ Took(ds, [c EXCEPT ![i] = PopNewEnd(c[i]).deque], PopNewEnd(c[i]).elt)
             /\ PopOldEnd(c[i]).elt \in Threads
             /\ Took(ds, [c EXCEPT ![i] = PopOldEnd(c[i]).deque], PopOldEnd(c[i]).elt)
<1>. DEFINE i == HeadDeque(ds)
            c == ClaimNonempty(ds)
            d == c[i]
            e == PopNewEnd(d)
            f == PopOldEnd(d)
<1>1. i \in DOMAIN ds /\ ~ IsEmpty(ds[i])
  BY HeadDequeIs
<1>. HIDE DEF i
<1>2. ds[i] \in Deques /\ Contents(ds[i]) \in Seq(Threads) /\ Len(Contents(ds[i])) <= 1
  BY <1>1, DequeListIs
<1>3. d \in Deques /\ Contents(d) = Contents(ds[i]) /\ ~ IsEmpty(d)
  BY <1>1, <1>2, ClaimsOnly DEF ClaimNonempty
<1>. HIDE DEF d
<1>4. /\ Contents(d) # <<>>
      /\ e.elt \in Threads /\ e.elt = Last(Contents(d))
      /\ e.deque \in Deques /\ Contents(e.deque) = Front(Contents(d))
      /\ f.elt \in Threads /\ f.elt = Head(Contents(d))
      /\ f.deque \in Deques /\ Contents(f.deque) = Tail(Contents(d))
  BY <1>3, PopNewInDeques, PopOldInDeques
<1>. HIDE DEF e, f
<1>5. /\ Contents(ds[i]) = <<e.elt>> /\ Contents(e.deque) = <<>>
      /\ Contents(ds[i]) = <<f.elt>> /\ Contents(f.deque) = <<>>
  BY <1>2, <1>3, <1>4, SingleThread
<1>6. /\ Took(ds, [ClaimNonempty(ds) EXCEPT ![i] = e.deque], e.elt)
      /\ Took(ds, [ClaimNonempty(ds) EXCEPT ![i] = f.deque], f.elt)
  BY <1>1, <1>4, <1>5, TookFrom
<1>. QED
  BY <1>4, <1>6 DEF d, e, f, i

LEMMA TryPopLocalFinds ==
  ASSUME NEW v, primary[v] \in Deques, resumeDeques[v] \in DequeLists
  PROVE  \/ /\ FoundNothing(v, TryPopLocal(v))
            /\ OnDeques(resumeDeques[v]) = {} /\ Contents(primary[v]) = <<>>
         \/ FoundResumed(v, TryPopLocal(v))
         \/ FoundNewest(v, TryPopLocal(v)) /\ OnDeques(resumeDeques[v]) = {}
<1>1. CASE Nonempty(resumeDeques[v]) # {}
  <2>1. TryPopLocal(v) = FromResumeDeques(v, PopNewEnd)
    BY <1>1 DEF TryPopLocal
  <2>2. FoundResumed(v, FromResumeDeques(v, PopNewEnd))
    BY <1>1, PopClaimed DEF FoundResumed, FromResumeDeques
  <2>. QED
    BY <2>1, <2>2
<1>2. CASE Nonempty(resumeDeques[v]) = {}
  <2>1. TryPopLocal(v) = FromPrimary(v, PopNewEnd) /\ OnDeques(resumeDeques[v]) = {}
    BY <1>2, NoneNonempty DEF TryPopLocal
  <2>2. CASE IsEmpty(primary[v])
    <3>1. FoundNothing(v, FromPrimary(v, PopNewEnd))
      BY <2>2, PopEmpty DEF FoundNothing, FromPrimary
    <3>. QED
      BY <2>1, <2>2, <3>1, DequeIs
  <2>3. CASE ~ IsEmpty(primary[v])
    <3>1. FoundNewest(v, FromPrimary(v, PopNewEnd))
      BY <2>3, PopNewInDeques DEF FoundNewest, FromPrimary
    <3>. QED
      BY <2>1, <3>1
  <2>. QED
    BY <2>2, <2>3
<1>. QED
  BY <1>1, <1>2

LEMMA TryPopRemoteFinds ==
  ASSUME NEW v, primary[v] \in Deques \union {NoDeque}, resumeDeques[v] \in DequeLists
  PROVE  \/ FoundNothing(v, TryPopRemote(v))
         \/ FoundResumed(v, TryPopRemote(v))
         \/ FoundOldest(v, TryPopRemote(v))
<1>1. CASE Nonempty(resumeDeques[v]) # {}
  <2>1. TryPopRemote(v) = FromResumeDeques(v, PopOldEnd)
    BY <1>1 DEF TryPopRemote
  <2>2. FoundResumed(v, FromResumeDeques(v, PopOldEnd))
    BY <1>1, PopClaimed DEF FoundResumed, FromResumeDeques
  <2>. QED
    BY <2>1, <2>2
<1>2. CASE Nonempty(resumeDeques[v]) = {} /\ primary[v] # NoDeque /\ Size(primary[v]) > 1
  <2>1. TryPopRemote(v) = FromPrimary(v, PopOldEnd)
    BY <1>2 DEF TryPopRemote
  <2>2. primary[v] \in Deques /\ Len(Contents(primary[v])) > 1 /\ Size(primary[v]) # 0
    BY <1>2, DequeIs
  <2>3. ~ IsEmpty(primary[v])
    BY <2>2, DequeIs, SizeInBounds, SizeAssumption
  <2>4. FoundOldest(v, FromPrimary(v, PopOldEnd))
    BY <1>2, <2>2, <2>3, PopOldInDeques DEF FoundOldest, FromPrimary
  <2>. QED
    BY <2>1, <2>4
<1>3. CASE Nonempty(resumeDeques[v]) = {} /\ ~ (primary[v] # NoDeque /\ Size(primary[v]) > 1)
  BY <1>3 DEF TryPopRemote, Nothing, FoundNothing
<1>. QED
  BY <1>1, <1>2, <1>3

----------------------------------------------------------------------------
(* Types of the variables, and where each worker keeps what. *)

IdlePlaces == {"terminate", "setIdle", "asleep", "stopped", "clearIdle", "activate"}
LookingPlaces == {"yield", "wait", "lastTry", "deactivate"} \union IdlePlaces
Places == {"init", "next", "run", "preempted"} \union LookingPlaces

Typed ==
  /\ primary \in [VProcs -> Deques \union {NoDeque}]
  /\ resumeDeques \in [VProcs -> DequeLists]
  /\ pc \in [VProcs -> Places]
  /\ running \in [VProcs -> Tasks \union {NoTask}]
  /\ nTries \in [VProcs -> 0..(NVProcs + 1)]
  /\ victim \in [VProcs -> VProcs \union {NoVProc}]
  /\ ch \in [VProcs -> Seq(Threads)]
  /\ idleFlags \in [VProcs -> BOOLEAN]
  /\ terminated \in BOOLEAN
  /\ calledBy \in [Futures -> Tasks \union {NoTask}]
  /\ done \subseteq Futures
  /\ waiters \in [Futures -> Seq(Captured)]
  /\ mainState \in {"outside", "begun", "started", "left"}

AtWork(v) ==
  /\ pc[v] = "init" <=> primary[v] = NoDeque
  /\ running[v] # NoTask <=> pc[v] = "run"
  /\ pc[v] \in {"yield", "wait"} => nTries[v] <= NVProcs
  /\ victim[v] # v
  /\ victim[v] # NoVProc => pc[v] = "wait" /\ ch[v] = <<>>
  /\ ch[v] # <<>> => pc[v] = "wait"
  /\ Len(ch[v]) <= 1

(* nIdle counts the idle workers, from -1 until the main thread runs. *)
IdleWorkers == {v \in VProcs : pc[v] \in IdlePlaces}
NotStarted == IF mainState \in {"outside", "begun"} THEN 1 ELSE 0
Counted == nIdle = Cardinality(IdleWorkers) - NotStarted

TypeInv == Typed /\ (\A v \in VProcs : AtWork(v)) /\ Counted

LEMMA CountOfVProcs == NVProcs \in Nat \ {0} /\ IsFiniteSet(VProcs)
<1>1. IsFiniteSet(VProcs) /\ VProcs # {}
  BY WorkStealingAssumption
<1>. QED
  BY <1>1, FS_CardinalityType, FS_EmptySet DEF NVProcs

LEMMA CountOfIdle ==
  IsFiniteSet(IdleWorkers) /\ Cardinality(IdleWorkers) \in 0..NVProcs
<1>1. IdleWorkers \in SUBSET VProcs
  BY DEF IdleWorkers
<1>2. IsFiniteSet(IdleWorkers) /\ Cardinality(IdleWorkers) <= Cardinality(VProcs)
  BY <1>1, CountOfVProcs, FS_Subset
<1>. QED
  BY <1>2, CountOfVProcs, FS_CardinalityType DEF NVProcs

LEMMA TypeInvImplies == TypeInv => TypeOK
<1>. SUFFICES ASSUME Typed, \A v \in VProcs : AtWork(v), Counted PROVE TypeOK
  BY DEF TypeInv
<1>1. Deques \subseteq DequeOf(Threads, DequeSz)
  BY DEF Deques
<1>2. ASSUME NEW ds \in DequeLists
      PROVE  ds \in Seq(DequeOf(Threads, DequeSz))
  <2>1. ds \in Seq(Deques)
    BY DEF DequeLists
  <2>. QED
    BY <1>1, <2>1, SeqMonotonic
<1>3. primary \in [VProcs -> DequeOf(Threads, DequeSz) \union {NoDeque}]
  BY <1>1 DEF Typed
<1>4. resumeDeques \in [VProcs -> Seq(DequeOf(Threads, DequeSz))]
  BY <1>2 DEF Typed
<1>5. nIdle \in -1..NVProcs
  BY CountOfIdle, CountOfVProcs DEF Counted, NotStarted
<1>6. \A v \in VProcs : running[v] # NoTask <=> pc[v] = "run"
  BY DEF AtWork
<1>7. waiters \in [Futures -> Seq(Threads)]
  <2>1. Captured \subseteq Threads
    BY DEF Captured
  <2>2. Seq(Captured) \subseteq Seq(Threads)
    BY <2>1, SeqMonotonic
  <2>. QED
    BY <2>2 DEF Typed
<1>. QED
  BY <1>3, <1>4, <1>5, <1>6, <1>7 DEF Typed, TypeOK

LEMMA InitTypes == Init => TypeInv
<1>. SUFFICES ASSUME Init PROVE TypeInv
  OBVIOUS
<1>1. Typed
  <2>1. <<>> \in Seq(Threads) /\ <<>> \in Seq(Captured) /\ <<>> \in DequeLists /\ 0 \in 0..(NVProcs + 1)
    BY EmptySeq, EmptyDequeList, CountOfVProcs
  <2>. QED
    BY <2>1 DEF Init, Typed, Places
<1>2. ASSUME NEW v \in VProcs PROVE AtWork(v)
  <2>1. NoVProc # v /\ Len(<<>>) = 0
    BY WorkStealingAssumption, EmptySeq
  <2>. QED
    BY <2>1 DEF Init, AtWork
<1>3. Counted
  <2>1. IdleWorkers = {}
    BY DEF Init, IdleWorkers, IdlePlaces
  <2>2. Cardinality(IdleWorkers) = 0
    BY <2>1, FS_EmptySet
  <2>. QED
    BY <2>2 DEF Init, Counted, NotStarted
<1>. QED
  BY <1>1, <1>2, <1>3 DEF TypeInv

----------------------------------------------------------------------------
(* A worker that stays on one side keeps the count. *)
LEMMA SameCount ==
  ASSUME Counted, Typed, NEW v \in VProcs, NEW p, pc' = [pc EXCEPT ![v] = p],
         p \in IdlePlaces <=> pc[v] \in IdlePlaces,
         nIdle' = nIdle, NotStarted' = NotStarted
  PROVE  Counted'
<1>1. pc \in [VProcs -> Places]
  BY DEF Typed
<1>2. IdleWorkers' = IdleWorkers
  BY <1>1 DEF IdleWorkers
<1>. QED
  BY <1>2 DEF Counted

LEMMA SameIdle ==
  ASSUME Counted, pc' = pc, nIdle' = nIdle, NotStarted' = NotStarted
  PROVE  Counted'
BY DEF Counted, IdleWorkers

LEMMA CountSteps ==
  ASSUME Counted, Typed, NEW v \in VProcs
  PROVE  /\ Deactivate(v) => Counted'
         /\ Activate(v) => Counted'
         /\ WorkGroupStarted(v) => Counted'
<1>1. pc \in [VProcs -> Places]
  BY DEF Typed
<1>2. IsFiniteSet(IdleWorkers) /\ Cardinality(IdleWorkers) \in Nat
  BY CountOfIdle
<1>3. ASSUME Deactivate(v) PROVE Counted'
  <2>1. PICK p \in {"terminate", "setIdle"} : pc' = [pc EXCEPT ![v] = p]
    BY <1>3 DEF Deactivate, GoTo
  <2>2. v \notin IdleWorkers /\ IdleWorkers' = IdleWorkers \union {v}
    BY <1>1, <1>3, <2>1 DEF Deactivate, IdleWorkers, IdlePlaces
  <2>3. Cardinality(IdleWorkers') = Cardinality(IdleWorkers) + 1
    BY <1>2, <2>2, FS_AddElement
  <2>4. nIdle' = nIdle + 1 /\ mainState' = mainState
    BY <1>3 DEF Deactivate, program
  <2>. QED
    BY <1>2, <2>3, <2>4 DEF Counted, NotStarted
<1>4. ASSUME Activate(v) PROVE Counted'
  <2>2. v \in IdleWorkers /\ IdleWorkers' = IdleWorkers \ {v}
    BY <1>1, <1>4 DEF Activate, GoTo, IdleWorkers, IdlePlaces
  <2>3. Cardinality(IdleWorkers') = Cardinality(IdleWorkers) - 1
    BY <1>2, <2>2, FS_RemoveElement
  <2>4. nIdle' = nIdle - 1 /\ mainState' = mainState
    BY <1>4 DEF Activate, program
  <2>. QED
    BY <1>2, <2>3, <2>4 DEF Counted, NotStarted
<1>5. ASSUME WorkGroupStarted(v) PROVE Counted'
  <2>1. pc' = pc /\ nIdle' = nIdle + 1 /\ NotStarted = 1 /\ NotStarted' = 0
    BY <1>5 DEF WorkGroupStarted, worker, NotStarted
  <2>2. IdleWorkers' = IdleWorkers
    BY <2>1 DEF IdleWorkers
  <2>. QED
    BY <1>2, <2>1, <2>2 DEF Counted
<1>. QED
  BY <1>3, <1>4, <1>5

----------------------------------------------------------------------------
(* Steps of a worker that touch no thread. *)

QuietPlaces == Places \ {"init", "run", "wait"}

(* v goes from p to q with n tries. *)
QuietStep(v, q, n) ==
  /\ pc[v] \in QuietPlaces /\ q \in QuietPlaces
  /\ pc' = [pc EXCEPT ![v] = q]
  /\ nTries' = [nTries EXCEPT ![v] = n]
  /\ n \in 0..(NVProcs + 1) /\ (q = "yield" => n <= NVProcs)
  /\ idleFlags' \in [VProcs -> BOOLEAN] /\ terminated' \in BOOLEAN
  /\ UNCHANGED <<deques, running, victim, ch, program>>

LEMMA QuietStepTypes ==
  ASSUME Typed, \A u \in VProcs : AtWork(u), NEW v \in VProcs, NEW q, NEW n,
         QuietStep(v, q, n)
  PROVE  Typed' /\ \A u \in VProcs : AtWork(u)'
<1>1. QuietPlaces \subseteq Places /\ {"init", "run", "wait"} \intersect QuietPlaces = {}
  BY DEF QuietPlaces
<1>2. Typed'
  BY <1>1 DEF Typed, QuietStep, deques, program
<1>3. ASSUME NEW u \in VProcs PROVE AtWork(u)'
  <2>1. /\ primary' = primary /\ running' = running /\ victim' = victim /\ ch' = ch
        /\ AtWork(u)
    BY DEF QuietStep, deques
  <2>2. CASE u = v
    <3>1. /\ pc'[u] = q /\ nTries'[u] = n
          /\ pc[u] \notin {"init", "run", "wait"} /\ q \notin {"init", "run", "wait"}
      BY <1>1, <2>2 DEF Typed, QuietStep
    <3>2. q = "yield" => n <= NVProcs
      BY DEF QuietStep
    <3>. QED
      BY <2>1, <3>1, <3>2 DEF AtWork
  <2>3. CASE u # v
    <3>1. pc'[u] = pc[u] /\ nTries'[u] = nTries[u]
      BY <2>3 DEF Typed, QuietStep
    <3>. QED
      BY <2>1, <3>1 DEF AtWork
  <2>. QED
    BY <2>2, <2>3
<1>. QED
  BY <1>2, <1>3

LEMMA TriesLeft ==
  ASSUME Typed, \A u \in VProcs : AtWork(u), NEW v \in VProcs, pc[v] \in {"yield", "wait"}
  PROVE  /\ nTries[v] + 1 \in 0..(NVProcs + 1)
         /\ nTries[v] + 1 > NVProcs \/ nTries[v] + 1 <= NVProcs
<1>1. nTries[v] \in 0..(NVProcs + 1) /\ nTries[v] <= NVProcs
  BY DEF Typed, AtWork
<1>. QED
  BY <1>1, CountOfVProcs

LEMMA NotInQuiet ==
  \A x \in {"next", "preempted", "yield", "lastTry", "deactivate"} \union IdlePlaces :
    x \in QuietPlaces
BY DEF QuietPlaces, Places, LookingPlaces, IdlePlaces

(* Which steps are quiet. *)
LEMMA QuietActions ==
  ASSUME Typed, \A u \in VProcs : AtWork(u), NEW v \in VProcs
  PROVE  /\ RunDry(v) => QuietStep(v, "yield", 0)
         /\ YieldReturns(v) => QuietStep(v, "next", nTries[v])
         /\ \A w \in VProcs : SkipIdleVictim(v, w) =>
              QuietStep(v, IF nTries[v] + 1 > NVProcs THEN "lastTry" ELSE "yield", nTries[v] + 1)
         /\ LastTry(v) =>
              QuietStep(v, IF IsEmpty(primary[v]) THEN "deactivate" ELSE "next", nTries[v])
         /\ Deactivate(v) =>
              QuietStep(v, IF nIdle = NVProcs - 1 THEN "terminate" ELSE "setIdle", nTries[v])
         /\ Terminate(v) => QuietStep(v, "setIdle", nTries[v])
         /\ SetIdle(v) => QuietStep(v, "asleep", nTries[v])
         /\ WakeUp(v) => QuietStep(v, IF terminated THEN "stopped" ELSE "clearIdle", nTries[v])
         /\ ClearIdle(v) => QuietStep(v, "activate", nTries[v])
         /\ Activate(v) => QuietStep(v, "yield", 0)
<1>1. /\ nTries \in [VProcs -> 0..(NVProcs + 1)] /\ idleFlags \in [VProcs -> BOOLEAN]
      /\ terminated \in BOOLEAN
  BY DEF Typed
<1>2. nTries = [nTries EXCEPT ![v] = nTries[v]] /\ nTries[v] \in 0..(NVProcs + 1)
      /\ 0 \in 0..(NVProcs + 1) /\ 0 <= NVProcs
  BY <1>1, CountOfVProcs
<1>3. RunDry(v) => QuietStep(v, "yield", 0)
  BY <1>1, <1>2, NotInQuiet DEF RunDry, QuietStep, GoTo, group, deques
<1>4. YieldReturns(v) => QuietStep(v, "next", nTries[v])
  BY <1>1, <1>2, NotInQuiet DEF YieldReturns, QuietStep, GoTo, group
<1>5. ASSUME NEW w \in VProcs, SkipIdleVictim(v, w)
      PROVE  QuietStep(v, IF nTries[v] + 1 > NVProcs THEN "lastTry" ELSE "yield", nTries[v] + 1)
  <2>1. pc[v] = "yield" /\ FailedTry(v) /\ UNCHANGED <<deques, running, victim, ch, group, program>>
    BY <1>5 DEF SkipIdleVictim
  <2>2. nTries[v] + 1 \in 0..(NVProcs + 1)
        /\ (nTries[v] + 1 > NVProcs \/ nTries[v] + 1 <= NVProcs)
    BY <2>1, TriesLeft
  <2>3. "lastTry" \in QuietPlaces /\ "yield" \in QuietPlaces
    BY NotInQuiet
  <2>. DEFINE q == IF nTries[v] + 1 > NVProcs THEN "lastTry" ELSE "yield"
  <2>4. q \in QuietPlaces /\ (q = "yield" => nTries[v] + 1 <= NVProcs)
    BY <2>2, <2>3
  <2>5. pc' = [pc EXCEPT ![v] = q] /\ nTries' = [nTries EXCEPT ![v] = nTries[v] + 1]
    BY <2>1 DEF FailedTry, GoTo
  <2>. HIDE DEF q
  <2>6. QuietStep(v, q, nTries[v] + 1)
    BY <1>1, <2>1, <2>2, <2>3, <2>4, <2>5 DEF QuietStep, group
  <2>. QED
    BY <2>6 DEF q
<1>6. LastTry(v) => QuietStep(v, IF IsEmpty(primary[v]) THEN "deactivate" ELSE "next", nTries[v])
  BY <1>1, <1>2, NotInQuiet DEF LastTry, QuietStep, GoTo, group
<1>7. Deactivate(v) =>
        QuietStep(v, IF nIdle = NVProcs - 1 THEN "terminate" ELSE "setIdle", nTries[v])
  BY <1>1, <1>2, NotInQuiet DEF Deactivate, QuietStep, GoTo, IdlePlaces
<1>8. Terminate(v) => QuietStep(v, "setIdle", nTries[v])
  BY <1>1, <1>2, NotInQuiet DEF Terminate, QuietStep, GoTo, IdlePlaces
<1>9. SetIdle(v) => QuietStep(v, "asleep", nTries[v])
  BY <1>1, <1>2, NotInQuiet DEF SetIdle, QuietStep, GoTo, IdlePlaces
<1>10. WakeUp(v) => QuietStep(v, IF terminated THEN "stopped" ELSE "clearIdle", nTries[v])
  BY <1>1, <1>2, NotInQuiet DEF WakeUp, QuietStep, GoTo, IdlePlaces, group
<1>11. ClearIdle(v) => QuietStep(v, "activate", nTries[v])
  BY <1>1, <1>2, NotInQuiet DEF ClearIdle, QuietStep, GoTo, IdlePlaces
<1>12. Activate(v) => QuietStep(v, "yield", 0)
  BY <1>1, <1>2, NotInQuiet DEF Activate, QuietStep, GoTo, IdlePlaces
<1>. QED
  BY <1>3, <1>4, <1>5, <1>6, <1>7, <1>8, <1>9, <1>10, <1>11, <1>12

----------------------------------------------------------------------------
(* Steps that move threads, in terms of what the deques contain. *)

(* The primary deque of v contains s then, the others what they did. *)
NewPrimary(v, s) ==
  /\ primary' \in [VProcs -> Deques \union {NoDeque}]
  /\ \A u \in VProcs : primary'[u] = NoDeque <=> primary[u] = NoDeque
  /\ PrimaryContents(v)' = s
  /\ \A u \in VProcs : u # v => PrimaryContents(u)' = PrimaryContents(u)

NewResumed(v, ds) == ds \in DequeLists /\ resumeDeques' = [resumeDeques EXCEPT ![v] = ds]

LEMMA PrimaryIs ==
  ASSUME Typed, NEW v \in VProcs
  PROVE  /\ PrimaryContents(v) \in Seq(Threads)
         /\ primary[v] = NoDeque => PrimaryContents(v) = <<>>
         /\ primary[v] # NoDeque => primary[v] \in Deques /\ PrimaryContents(v) = Contents(primary[v])
         /\ primary[v] \in Deques => primary[v] # NoDeque
         /\ Len(PrimaryContents(v)) \in Nat /\ Len(PrimaryContents(v)) <= DequeSz - 1
<1>1. primary[v] \in Deques \union {NoDeque} /\ NoDeque \notin Deques
  BY NilIsNoThread DEF Typed
<1>2. CASE primary[v] = NoDeque
  <2>1. PrimaryContents(v) = <<>>
    BY <1>2 DEF PrimaryContents
  <2>2. <<>> \in Seq(Threads) /\ Len(<<>>) = 0
    BY EmptySeq
  <2>. QED
    BY <1>1, <1>2, <2>1, <2>2, SizeAssumption
<1>3. CASE primary[v] # NoDeque
  <2>1. primary[v] \in Deques /\ PrimaryContents(v) = Contents(primary[v])
    BY <1>1, <1>3 DEF PrimaryContents
  <2>2. /\ Contents(primary[v]) \in Seq(Threads)
        /\ Len(Contents(primary[v])) \in Nat /\ Len(Contents(primary[v])) <= DequeSz - 1
    BY <2>1, DequeIs
  <2>. QED
    BY <1>3, <2>1, <2>2
<1>. QED
  BY <1>2, <1>3

LEMMA PrimaryChanges ==
  ASSUME Typed, NEW v \in VProcs, primary[v] # NoDeque, NEW d \in Deques,
         primary' = [primary EXCEPT ![v] = d]
  PROVE  NewPrimary(v, Contents(d))
<1>1. primary \in [VProcs -> Deques \union {NoDeque}] /\ NoDeque \notin Deques
  BY NilIsNoThread DEF Typed
<1>2. primary' \in [VProcs -> Deques \union {NoDeque}] /\ primary'[v] = d
      /\ \A u \in VProcs : u # v => primary'[u] = primary[u]
  BY <1>1
<1>3. PrimaryContents(v)' = Contents(d)
  BY <1>1, <1>2 DEF PrimaryContents
<1>4. \A u \in VProcs : u # v => PrimaryContents(u)' = PrimaryContents(u)
  BY <1>2 DEF PrimaryContents
<1>5. \A u \in VProcs : primary'[u] = NoDeque <=> primary[u] = NoDeque
  BY <1>1, <1>2
<1>. QED
  BY <1>2, <1>3, <1>4, <1>5 DEF NewPrimary

LEMMA PrimaryStays ==
  ASSUME Typed, NEW v \in VProcs, primary' = primary
  PROVE  NewPrimary(v, PrimaryContents(v))
<1>1. \A u \in VProcs : PrimaryContents(u)' = PrimaryContents(u)
  BY DEF PrimaryContents
<1>. QED
  BY <1>1 DEF Typed, NewPrimary

LEMMA ResumedTyped ==
  ASSUME Typed, NEW v \in VProcs, NEW ds, NewResumed(v, ds)
  PROVE  /\ resumeDeques' \in [VProcs -> DequeLists]
         /\ resumeDeques'[v] = ds
         /\ \A u \in VProcs : u # v => resumeDeques'[u] = resumeDeques[u]
BY DEF Typed, NewResumed

LEMMA PushChanges ==
  ASSUME Typed, NEW v \in VProcs, primary[v] # NoDeque, NEW th \in Threads, Push(v, th)
  PROVE  NewPrimary(v, PushedOn(PrimaryContents(v), th))
<1>. DEFINE d == PushNewEnd(primary[v], th)
<1>1. primary[v] \in Deques /\ PrimaryContents(v) = Contents(primary[v])
  BY PrimaryIs
<1>2. d \in Deques /\ Contents(d) = PushedOn(PrimaryContents(v), th)
  BY <1>1, PushInDeques
<1>3. primary' = [primary EXCEPT ![v] = d]
  BY DEF Push
<1>. HIDE DEF d
<1>4. NewPrimary(v, Contents(d))
  BY <1>2, <1>3, PrimaryChanges
<1>. QED
  BY <1>2, <1>4

----------------------------------------------------------------------------
(* The same steps as moves of threads between lists. *)

Same(v) == NewPrimary(v, PrimaryContents(v))

TakesNewest(v, th) ==
  /\ pc[v] = "next"
  /\ PrimaryContents(v) # <<>> /\ th = Last(PrimaryContents(v)) /\ th \in Threads
  /\ NewPrimary(v, Front(PrimaryContents(v)))
  /\ running' = [running EXCEPT ![v] = th.task]
  /\ GoTo(v, "run")
  /\ UNCHANGED <<resumeDeques, nTries, victim, ch, group, program>>

LEMMA RunNextTakes ==
  ASSUME Typed, \A u \in VProcs : AtWork(u), NEW v \in VProcs, RunNext(v)
  PROVE  \E th \in Threads : TakesNewest(v, th)
<1>. DEFINE p == PopNewEnd(primary[v])
<1>1. pc[v] = "next" /\ primary[v] # NoDeque
  BY DEF RunNext, AtWork
<1>2. primary[v] \in Deques /\ PrimaryContents(v) = Contents(primary[v])
  BY <1>1, PrimaryIs
<1>3. ~ IsEmpty(primary[v])
  BY DEF RunNext
<1>4. /\ PrimaryContents(v) # <<>> /\ p.elt \in Threads /\ p.elt = Last(PrimaryContents(v))
      /\ p.deque \in Deques /\ Contents(p.deque) = Front(PrimaryContents(v))
  BY <1>2, <1>3, PopNewInDeques
<1>5. primary' = [primary EXCEPT ![v] = p.deque]
      /\ running' = [running EXCEPT ![v] = p.elt.task]
  BY DEF RunNext
<1>6. GoTo(v, "run") /\ UNCHANGED <<resumeDeques, nTries, victim, ch, group, program>>
  BY DEF RunNext
<1>. HIDE DEF p
<1>7. NewPrimary(v, Front(PrimaryContents(v)))
  BY <1>1, <1>4, <1>5, PrimaryChanges
<1>8. TakesNewest(v, p.elt)
  BY <1>1, <1>4, <1>5, <1>6, <1>7 DEF TakesNewest
<1>. QED
  BY <1>4, <1>8

TakesResumed(v, th, ds) ==
  /\ pc[v] \in {"next", "yield"}
  /\ pc[v] = "next" => PrimaryContents(v) = <<>>
  /\ th \in Threads /\ Took(resumeDeques[v], ds, th)
  /\ NewResumed(v, ds)
  /\ NewPrimary(v, PushedOn(PrimaryContents(v), th))
  /\ GoTo(v, "next")
  /\ UNCHANGED <<running, nTries, victim, ch, group, program>>

(* A worker that steals from itself may find what its own deque holds. *)
Reshuffles(v) ==
  /\ pc[v] = "yield"
  /\ PrimaryContents(v) # <<>>
  /\ Same(v)
  /\ GoTo(v, "next")
  /\ UNCHANGED <<resumeDeques, running, nTries, victim, ch, group, program>>

LEMMA PutOnOwn ==
  ASSUME Typed, NEW v \in VProcs, primary[v] # NoDeque,
         NEW p, FoundResumed(v, p) \/ FoundNewest(v, p),
         primary' = [primary EXCEPT ![v] = PushNewEnd(p.primary, p.elt)],
         resumeDeques' = [resumeDeques EXCEPT ![v] = p.resumeDeques]
  PROVE  \/ /\ p.elt \in Threads /\ Took(resumeDeques[v], p.resumeDeques, p.elt)
            /\ NewResumed(v, p.resumeDeques)
            /\ NewPrimary(v, PushedOn(PrimaryContents(v), p.elt))
         \/ /\ PrimaryContents(v) # <<>> /\ Same(v) /\ resumeDeques' = resumeDeques
<1>1. primary[v] \in Deques /\ PrimaryContents(v) = Contents(primary[v])
      /\ PrimaryContents(v) \in Seq(Threads) /\ Len(PrimaryContents(v)) <= DequeSz - 1
  BY PrimaryIs
<1>2. CASE FoundResumed(v, p)
  <2>1. p.elt \in Threads /\ p.primary = primary[v] /\ Took(resumeDeques[v], p.resumeDeques, p.elt)
    BY <1>2 DEF FoundResumed
  <2>2. Push(v, p.elt)
    BY <2>1 DEF Push
  <2>3. NewPrimary(v, PushedOn(PrimaryContents(v), p.elt))
    BY <2>1, <2>2, PushChanges
  <2>4. NewResumed(v, p.resumeDeques)
    BY <2>1 DEF NewResumed, Took
  <2>. QED
    BY <2>1, <2>3, <2>4
<1>3. CASE FoundNewest(v, p)
  <2>. DEFINE s == PrimaryContents(v)
              e == p.elt
              d == PushNewEnd(p.primary, e)
  <2>1. /\ e \in Threads /\ p.primary \in Deques /\ p.resumeDeques = resumeDeques[v]
        /\ s # <<>> /\ e = Last(s) /\ Contents(p.primary) = Front(s)
    BY <1>1, <1>3 DEF FoundNewest
  <2>2. d \in Deques /\ Contents(d) = PushedOn(Front(s), e)
    BY <2>1, PushInDeques
  <2>3. /\ Len(s) \in Nat \ {0} /\ Len(Front(s)) = Len(s) - 1 /\ s = Append(Front(s), Last(s))
    BY <1>1, <2>1, FrontOf
  <2>4. Len(Front(s)) # DequeSz - 1
    BY <1>1, <2>3, SizeAssumption
  <2>5. PushedOn(Front(s), e) = s
    BY <2>1, <2>3, <2>4 DEF PushedOn
  <2>6. primary' = [primary EXCEPT ![v] = d]
    OBVIOUS
  <2>. HIDE DEF d, s
  <2>7. NewPrimary(v, s)
    BY <2>2, <2>5, <2>6, PrimaryChanges
  <2>8. resumeDeques' = resumeDeques
    BY <2>1 DEF Typed
  <2>. QED
    BY <2>1, <2>7, <2>8 DEF Same, s
<1>. QED
  BY <1>2, <1>3

LEMMA RunResumedTakes ==
  ASSUME Typed, \A u \in VProcs : AtWork(u), NEW v \in VProcs, RunResumed(v)
  PROVE  \E th \in Threads, ds \in DequeLists : TakesResumed(v, th, ds)
<1>. DEFINE p == TryPopLocal(v)
<1>1. pc[v] = "next" /\ primary[v] # NoDeque /\ IsEmpty(primary[v])
  BY DEF RunResumed, AtWork
<1>2. primary[v] \in Deques /\ PrimaryContents(v) = Contents(primary[v]) /\ PrimaryContents(v) = <<>>
      /\ resumeDeques[v] \in DequeLists
  BY <1>1, PrimaryIs, DequeIs DEF Typed
<1>3. p.elt # Nil
      /\ primary' = [primary EXCEPT ![v] = PushNewEnd(p.primary, p.elt)]
      /\ resumeDeques' = [resumeDeques EXCEPT ![v] = p.resumeDeques]
      /\ UNCHANGED <<worker, victim, ch, group, program>>
  BY DEF RunResumed
<1>4. FoundNothing(v, p) \/ FoundResumed(v, p) \/ FoundNewest(v, p)
  BY <1>2, TryPopLocalFinds
<1>. HIDE DEF p
<1>5. FoundResumed(v, p)
  BY <1>2, <1>3, <1>4 DEF FoundNothing, FoundNewest
<1>6. /\ p.elt \in Threads /\ Took(resumeDeques[v], p.resumeDeques, p.elt)
      /\ NewResumed(v, p.resumeDeques)
      /\ NewPrimary(v, PushedOn(PrimaryContents(v), p.elt))
  BY <1>1, <1>2, <1>3, <1>5, PutOnOwn
<1>7. pc' = pc /\ GoTo(v, "next") /\ running' = running /\ nTries' = nTries
  BY <1>1, <1>3 DEF worker, GoTo, Typed
<1>8. TakesResumed(v, p.elt, p.resumeDeques)
  BY <1>1, <1>2, <1>3, <1>6, <1>7 DEF TakesResumed
<1>. QED
  BY <1>6, <1>8 DEF NewResumed

LEMMA StealFromSelfTakes ==
  ASSUME Typed, \A u \in VProcs : AtWork(u), NEW v \in VProcs, StealFromSelf(v)
  PROVE  \/ \E th \in Threads, ds \in DequeLists : TakesResumed(v, th, ds)
         \/ Reshuffles(v)
         \/ \E q : QuietStep(v, q, nTries[v] + 1) /\ q \in {"lastTry", "yield"}
                   /\ nIdle' = nIdle
<1>. DEFINE p == TryPopLocal(v)
<1>1. pc[v] = "yield" /\ primary[v] # NoDeque
  BY DEF StealFromSelf, AtWork
<1>2. primary[v] \in Deques /\ PrimaryContents(v) = Contents(primary[v])
      /\ resumeDeques[v] \in DequeLists
  BY <1>1, PrimaryIs DEF Typed
<1>3. /\ resumeDeques' = [resumeDeques EXCEPT ![v] = p.resumeDeques]
      /\ UNCHANGED <<running, victim, ch, group, program>>
      /\ IF p.elt = Nil
         THEN FailedTry(v) /\ UNCHANGED primary
         ELSE /\ primary' = [primary EXCEPT ![v] = PushNewEnd(p.primary, p.elt)]
              /\ GoTo(v, "next")
              /\ UNCHANGED nTries
  BY DEF StealFromSelf
<1>4. FoundNothing(v, p) \/ FoundResumed(v, p) \/ FoundNewest(v, p)
  BY <1>2, TryPopLocalFinds
<1>. HIDE DEF p
<1>5. CASE FoundNothing(v, p)
  <2>1. FailedTry(v) /\ primary' = primary /\ p.resumeDeques = resumeDeques[v]
    BY <1>3, <1>5 DEF FoundNothing
  <2>2. resumeDeques' = resumeDeques
    BY <1>3, <2>1 DEF Typed
  <2>3. nTries[v] + 1 \in 0..(NVProcs + 1)
        /\ (nTries[v] + 1 > NVProcs \/ nTries[v] + 1 <= NVProcs)
    BY <1>1, TriesLeft
  <2>4. "lastTry" \in QuietPlaces /\ "yield" \in QuietPlaces
    BY NotInQuiet
  <2>. DEFINE q == IF nTries[v] + 1 > NVProcs THEN "lastTry" ELSE "yield"
  <2>5. q \in QuietPlaces /\ (q = "yield" => nTries[v] + 1 <= NVProcs) /\ q \in {"lastTry", "yield"}
    BY <2>3, <2>4
  <2>6. pc' = [pc EXCEPT ![v] = q] /\ nTries' = [nTries EXCEPT ![v] = nTries[v] + 1]
    BY <2>1 DEF FailedTry, GoTo
  <2>. HIDE DEF q
  <2>7. QuietStep(v, q, nTries[v] + 1)
    BY <1>1, <1>3, <2>1, <2>2, <2>3, <2>4, <2>5, <2>6 DEF QuietStep, group, deques, Typed
  <2>. QED
    BY <1>3, <2>5, <2>7 DEF group
<1>6. CASE FoundResumed(v, p) \/ FoundNewest(v, p)
  <2>1. p.elt \in Threads
    BY <1>6 DEF FoundResumed, FoundNewest
  <2>2. /\ primary' = [primary EXCEPT ![v] = PushNewEnd(p.primary, p.elt)]
        /\ GoTo(v, "next") /\ UNCHANGED nTries
    BY <1>3, <2>1, NilIsNoThread
  <2>3. \/ /\ p.elt \in Threads /\ Took(resumeDeques[v], p.resumeDeques, p.elt)
           /\ NewResumed(v, p.resumeDeques)
           /\ NewPrimary(v, PushedOn(PrimaryContents(v), p.elt))
        \/ /\ PrimaryContents(v) # <<>> /\ Same(v) /\ resumeDeques' = resumeDeques
    BY <1>1, <1>3, <1>6, <2>2, PutOnOwn
  <2>4. CASE /\ p.elt \in Threads /\ Took(resumeDeques[v], p.resumeDeques, p.elt)
             /\ NewResumed(v, p.resumeDeques)
             /\ NewPrimary(v, PushedOn(PrimaryContents(v), p.elt))
    <3>1. TakesResumed(v, p.elt, p.resumeDeques)
      BY <1>1, <1>3, <2>2, <2>4 DEF TakesResumed
    <3>. QED
      BY <2>4, <3>1 DEF NewResumed
  <2>5. CASE PrimaryContents(v) # <<>> /\ Same(v) /\ resumeDeques' = resumeDeques
    BY <1>1, <1>3, <2>2, <2>5 DEF Reshuffles
  <2>. QED
    BY <2>3, <2>4, <2>5
<1>. QED
  BY <1>4, <1>5, <1>6

----------------------------------------------------------------------------
(* The steps of thieves and of those who wait for them. *)

ThiefLeaves(w, v) ==
  /\ victim[v] = w
  /\ victim' = [victim EXCEPT ![v] = NoVProc]
  /\ UNCHANGED <<deques, ch, worker, group, program>>

ThiefTakesResumed(w, v, th, ds) ==
  /\ victim[v] = w
  /\ th \in Threads /\ Took(resumeDeques[w], ds, th)
  /\ NewResumed(w, ds)
  /\ primary' = primary
  /\ ch' = [ch EXCEPT ![v] = <<th>>]
  /\ victim' = [victim EXCEPT ![v] = NoVProc]
  /\ UNCHANGED <<worker, group, program>>

ThiefTakesOldest(w, v, th) ==
  /\ victim[v] = w
  /\ th \in Threads
  /\ Len(PrimaryContents(w)) > 1 /\ th = Head(PrimaryContents(w))
  /\ NewPrimary(w, Tail(PrimaryContents(w)))
  /\ ch' = [ch EXCEPT ![v] = <<th>>]
  /\ victim' = [victim EXCEPT ![v] = NoVProc]
  /\ UNCHANGED <<resumeDeques, worker, group, program>>

LEMMA ThiefTakes ==
  ASSUME Typed, \A u \in VProcs : AtWork(u), NEW v \in VProcs, NEW w \in VProcs, Thief(w, v)
  PROVE  \/ ThiefLeaves(w, v)
         \/ \E th \in Threads, ds \in DequeLists : ThiefTakesResumed(w, v, th, ds)
         \/ \E th \in Threads : ThiefTakesOldest(w, v, th)
<1>. DEFINE p == TryPopRemote(w)
<1>1. victim[v] = w /\ ch[v] = <<>> /\ victim' = [victim EXCEPT ![v] = NoVProc]
      /\ UNCHANGED <<worker, group, program>>
  BY WorkStealingAssumption DEF Thief, AtWork
<1>2. primary[w] \in Deques \union {NoDeque} /\ resumeDeques[w] \in DequeLists
  BY DEF Typed
<1>3. /\ primary' = [primary EXCEPT ![w] = p.primary]
      /\ resumeDeques' = [resumeDeques EXCEPT ![w] = p.resumeDeques]
      /\ ch' = [ch EXCEPT ![v] = IF p.elt = Nil THEN <<>> ELSE <<p.elt>>]
  BY DEF Thief
<1>4. FoundNothing(w, p) \/ FoundResumed(w, p) \/ FoundOldest(w, p)
  BY <1>2, TryPopRemoteFinds
<1>. HIDE DEF p
<1>5. CASE FoundNothing(w, p)
  <2>1. primary' = primary /\ resumeDeques' = resumeDeques /\ ch' = ch
    BY <1>1, <1>3, <1>5 DEF FoundNothing, Typed
  <2>. QED
    BY <1>1, <2>1 DEF ThiefLeaves, deques
<1>6. CASE FoundResumed(w, p)
  <2>1. p.elt \in Threads /\ p.elt # Nil /\ Took(resumeDeques[w], p.resumeDeques, p.elt)
        /\ p.resumeDeques \in DequeLists
    BY <1>6, NilIsNoThread DEF FoundResumed, Took
  <2>2. primary' = primary
    BY <1>3, <1>6 DEF FoundResumed, Typed
  <2>3. ThiefTakesResumed(w, v, p.elt, p.resumeDeques)
    BY <1>1, <1>3, <2>1, <2>2 DEF ThiefTakesResumed, NewResumed
  <2>. QED
    BY <2>1, <2>3
<1>7. CASE FoundOldest(w, p)
  <2>1. p.elt \in Threads /\ p.elt # Nil /\ p.primary \in Deques /\ primary[w] # NoDeque
        /\ resumeDeques' = resumeDeques
    BY <1>3, <1>7, NilIsNoThread DEF FoundOldest, Typed
  <2>2. primary[w] \in Deques /\ PrimaryContents(w) = Contents(primary[w])
    BY <2>1, PrimaryIs
  <2>3. /\ Len(PrimaryContents(w)) > 1 /\ p.elt = Head(PrimaryContents(w))
        /\ Contents(p.primary) = Tail(PrimaryContents(w))
    BY <1>7, <2>2 DEF FoundOldest
  <2>4. NewPrimary(w, Tail(PrimaryContents(w)))
    BY <1>3, <2>1, <2>3, PrimaryChanges
  <2>5. ThiefTakesOldest(w, v, p.elt)
    BY <1>1, <1>3, <2>1, <2>3, <2>4 DEF ThiefTakesOldest
  <2>. QED
    BY <2>1, <2>5
<1>. QED
  BY <1>4, <1>5, <1>6, <1>7

FailsToSteal(v) ==
  /\ pc[v] = "wait" /\ victim[v] = NoVProc /\ ch[v] = <<>>
  /\ \E q \in {"lastTry", "yield"} : GoTo(v, q) /\ (q = "yield" => nTries[v] + 1 <= NVProcs)
  /\ nTries' = [nTries EXCEPT ![v] = nTries[v] + 1]
  /\ UNCHANGED <<deques, running, victim, ch, group, program>>

TakesAnswer(v, th) ==
  /\ pc[v] = "wait" /\ th \in Threads /\ ch[v] = <<th>>
  /\ NewPrimary(v, PushedOn(PrimaryContents(v), th))
  /\ ch' = [ch EXCEPT ![v] = <<>>]
  /\ GoTo(v, "next")
  /\ UNCHANGED <<resumeDeques, running, nTries, victim, group, program>>

LEMMA AnsweredTakes ==
  ASSUME Typed, \A u \in VProcs : AtWork(u), NEW v \in VProcs, Answered(v)
  PROVE  FailsToSteal(v) \/ \E th \in Threads : TakesAnswer(v, th)
<1>1. /\ pc[v] = "wait" /\ victim[v] = NoVProc /\ primary[v] # NoDeque
      /\ ch' = [ch EXCEPT ![v] = <<>>]
      /\ UNCHANGED <<resumeDeques, running, victim, group, program>>
  BY DEF Answered, AtWork
<1>2. ch[v] \in Seq(Threads) /\ Len(ch[v]) <= 1
  BY DEF Typed, AtWork
<1>3. CASE ch[v] = <<>>
  <2>1. FailedTry(v) /\ primary' = primary
    BY <1>3 DEF Answered
  <2>2. nTries[v] + 1 > NVProcs \/ nTries[v] + 1 <= NVProcs
    BY <1>1, TriesLeft
  <2>. DEFINE q == IF nTries[v] + 1 > NVProcs THEN "lastTry" ELSE "yield"
  <2>3. GoTo(v, q) /\ q \in {"lastTry", "yield"} /\ (q = "yield" => nTries[v] + 1 <= NVProcs)
        /\ nTries' = [nTries EXCEPT ![v] = nTries[v] + 1]
    BY <2>1, <2>2 DEF FailedTry
  <2>. HIDE DEF q
  <2>4. ch' = ch
    BY <1>1, <1>3 DEF Typed
  <2>. QED
    BY <1>1, <1>3, <2>1, <2>3, <2>4 DEF FailsToSteal, deques
<1>4. CASE ch[v] # <<>>
  <2>1. /\ ch[v] = <<Head(ch[v])>> /\ Head(ch[v]) = ch[v][1] /\ Head(ch[v]) \in Threads
    BY <1>2, <1>4, SingleThread, HeadTailProperties
  <2>2. Push(v, ch[v][1]) /\ GoTo(v, "next") /\ nTries' = nTries
    BY <1>4 DEF Answered
  <2>3. NewPrimary(v, PushedOn(PrimaryContents(v), Head(ch[v])))
    BY <1>1, <2>1, <2>2, PushChanges
  <2>4. TakesAnswer(v, Head(ch[v]))
    BY <1>1, <2>1, <2>2, <2>3 DEF TakesAnswer
  <2>. QED
    BY <2>1, <2>4
<1>. QED
  BY <1>3, <1>4

----------------------------------------------------------------------------
(* Steps of a vproc by itself. *)

Starts(v) ==
  /\ pc[v] = "init"
  /\ primary' \in [VProcs -> Deques \union {NoDeque}]
  /\ \A u \in VProcs : primary'[u] = NoDeque <=> (u # v /\ primary[u] = NoDeque)
  /\ \A u \in VProcs : PrimaryContents(u)' = PrimaryContents(u)
  /\ GoTo(v, "next")
  /\ UNCHANGED <<resumeDeques, running, nTries, victim, ch, group, program>>

LEMMA StartStarts ==
  ASSUME Typed, \A u \in VProcs : AtWork(u), NEW v \in VProcs, Start(v)
  PROVE  Starts(v)
<1>. DEFINE d == NewDeque(DequeSz)
<1>1. d \in Deques /\ Contents(d) = <<>> /\ d # NoDeque
  BY NewDequeIsEmpty, NilIsNoThread
<1>2. primary' = [primary EXCEPT ![v] = d] /\ pc[v] = "init" /\ GoTo(v, "next")
      /\ UNCHANGED <<resumeDeques, running, nTries, victim, ch, group, program>>
  BY DEF Start
<1>. HIDE DEF d
<1>3. primary \in [VProcs -> Deques \union {NoDeque}] /\ primary[v] = NoDeque
  BY <1>2 DEF Typed, AtWork
<1>4. \A u \in VProcs : primary'[u] = IF u = v THEN d ELSE primary[u]
  BY <1>2, <1>3
<1>5. \A u \in VProcs : PrimaryContents(u)' = PrimaryContents(u)
  BY <1>1, <1>3, <1>4 DEF PrimaryContents
<1>6. \A u \in VProcs : primary'[u] = NoDeque <=> (u # v /\ primary[u] = NoDeque)
  BY <1>1, <1>4
<1>. QED
  BY <1>1, <1>2, <1>3, <1>5, <1>6 DEF Starts

Preempts(v) ==
  /\ pc[v] = "run"
  /\ NewPrimary(v, PushedOn(PrimaryContents(v), Thread(running[v], NoTask)))
  /\ running' = [running EXCEPT ![v] = NoTask]
  /\ GoTo(v, "preempted")
  /\ UNCHANGED <<resumeDeques, nTries, victim, ch, group, program>>

Prunes(v, ds) ==
  /\ NewResumed(v, ds)
  /\ OnDeques(ds) = OnDeques(resumeDeques[v])
  /\ Apart(resumeDeques[v]) => Apart(ds)
  /\ UNCHANGED <<primary, worker, victim, ch, group, program>>

Begins(v) ==
  /\ mainState = "outside" /\ mainState' = "begun"
  /\ pc[v] # "run" /\ pc[v] # "init"
  /\ NewPrimary(v, PushedOn(PrimaryContents(v), Thread(Main, NoTask)))
  /\ UNCHANGED <<resumeDeques, worker, victim, ch, group, calledBy, done, waiters>>

Calls(v, k) ==
  /\ running[v] # NoTask /\ mainState # "begun"
  /\ calledBy[k] = NoTask /\ \A j \in 1..(k - 1) : calledBy[j] # NoTask
  /\ NewPrimary(v, PushedOn(PrimaryContents(v), Thread(running[v], k)))
  /\ calledBy' = [calledBy EXCEPT ![k] = running[v]]
  /\ running' = [running EXCEPT ![v] = k]
  /\ UNCHANGED <<resumeDeques, pc, nTries, victim, ch, group, done, waiters, mainState>>

LEMMA RunningTask ==
  ASSUME Typed, \A u \in VProcs : AtWork(u), NEW v \in VProcs, running[v] # NoTask
  PROVE  /\ pc[v] = "run" /\ primary[v] # NoDeque /\ running[v] \in Tasks
         /\ \A k \in Futures \union {NoTask} : Thread(running[v], k) \in Threads
         /\ Thread(running[v], NoTask) \in Captured
<1>1. running[v] \in Tasks /\ pc[v] = "run" /\ primary[v] # NoDeque
  BY DEF Typed, AtWork
<1>. QED
  BY <1>1, ThreadFields DEF Captured

LEMMA PreemptPreempts ==
  ASSUME Typed, \A u \in VProcs : AtWork(u), NEW v \in VProcs, Preempt(v)
  PROVE  Preempts(v)
<1>1. pc[v] = "run" /\ running[v] # NoTask /\ Push(v, Thread(running[v], NoTask))
  BY DEF Preempt, AtWork
<1>2. primary[v] # NoDeque /\ Thread(running[v], NoTask) \in Threads
  BY <1>1, RunningTask
<1>3. NewPrimary(v, PushedOn(PrimaryContents(v), Thread(running[v], NoTask)))
  BY <1>1, <1>2, PushChanges
<1>. QED
  BY <1>1, <1>3 DEF Preempt, Preempts

LEMMA PrunePrunes ==
  ASSUME Typed, NEW v \in VProcs, Prune(v)
  PROVE  \E ds \in DequeLists : Prunes(v, ds)
<1>. DEFINE ds == resumeDeques[v]
            InUse(d) == ~ IsEmpty(d) \/ d.nClaimed # 0
            I == {i \in DOMAIN ds : InUse(ds[i])}
            r == Reverse(SelectAt(ds, I))
<1>1. ds \in DequeLists /\ I \in SUBSET DOMAIN ds /\ Nonempty(ds) \subseteq I
  BY DEF Typed, Nonempty
<1>2. resumeDeques' = [resumeDeques EXCEPT ![v] = r]
      /\ UNCHANGED <<primary, worker, victim, ch, group, program>>
  BY DEF Prune
<1>3. r \in DequeLists /\ OnDeques(r) = OnDeques(ds) /\ (Apart(ds) => Apart(r))
  <2>. HIDE DEF I, ds
  <2>. QED
    BY <1>1, PrunedDeques
<1>. HIDE DEF r
<1>4. Prunes(v, r)
  BY <1>2, <1>3 DEF Prunes, NewResumed
<1>. QED
  BY <1>3, <1>4

LEMMA BeginBegins ==
  ASSUME Typed, \A u \in VProcs : AtWork(u), NEW v \in VProcs, Begin(v)
  PROVE  Begins(v)
<1>1. pc[v] # "init" /\ pc[v] # "run" /\ Push(v, Thread(Main, NoTask))
  BY DEF Begin, Released
<1>2. primary[v] # NoDeque
  BY <1>1 DEF AtWork
<1>3. Thread(Main, NoTask) \in Threads
  BY ThreadFields DEF Tasks
<1>4. NewPrimary(v, PushedOn(PrimaryContents(v), Thread(Main, NoTask)))
  BY <1>1, <1>2, <1>3, PushChanges
<1>. QED
  BY <1>1, <1>4 DEF Begin, Begins

LEMMA CallFutureCalls ==
  ASSUME Typed, \A u \in VProcs : AtWork(u), NEW v \in VProcs, NEW k \in Futures, CallFuture(v, k)
  PROVE  Calls(v, k)
<1>1. running[v] # NoTask /\ Push(v, Thread(running[v], k))
  BY DEF CallFuture
<1>2. primary[v] # NoDeque /\ Thread(running[v], k) \in Threads
  BY <1>1, RunningTask
<1>3. NewPrimary(v, PushedOn(PrimaryContents(v), Thread(running[v], k)))
  BY <1>1, <1>2, PushChanges
<1>. QED
  BY <1>3 DEF CallFuture, Calls

(* The end of a body, with its own context or without. *)
GoesOn(v, k) ==
  /\ running[v] = k
  /\ PrimaryContents(v) # <<>> /\ Last(PrimaryContents(v)) = Thread(calledBy[k], k)
  /\ calledBy[k] \in Tasks
  /\ NewPrimary(v, Front(PrimaryContents(v)))
  /\ done' = done \union {k}
  /\ running' = [running EXCEPT ![v] = calledBy[k]]
  /\ UNCHANGED <<resumeDeques, pc, nTries, victim, ch, group, calledBy, waiters, mainState>>

Puts(v, k) ==
  /\ running[v] = k
  /\ \/ Same(v)
     \/ /\ PrimaryContents(v) # <<>> /\ Last(PrimaryContents(v)) # Thread(calledBy[k], k)
        /\ NewPrimary(v, Front(PrimaryContents(v)))
  /\ done' = done \union {k}
  /\ waiters' = [waiters EXCEPT ![k] = <<>>]
  /\ NewResumed(v, NewDeques(waiters[k]) \o resumeDeques[v])
  /\ BackToWorker(v)
  /\ UNCHANGED <<nTries, victim, ch, group, calledBy, mainState>>

LEMMA PutResumes ==
  ASSUME Typed, NEW v \in VProcs, NEW k \in Futures, Put(v, k)
  PROVE  /\ done' = done \union {k}
         /\ waiters' = [waiters EXCEPT ![k] = <<>>]
         /\ NewResumed(v, NewDeques(waiters[k]) \o resumeDeques[v])
<1>1. waiters[k] \in Seq(Captured) /\ resumeDeques[v] \in DequeLists
  BY DEF Typed
<1>2. NewDeques(waiters[k]) \in DequeLists
  BY <1>1, NewDequesAre
<1>3. NewDeques(waiters[k]) \o resumeDeques[v] \in DequeLists
  BY <1>1, <1>2, JoinDeques
<1>4. resumeDeques' = [resumeDeques EXCEPT ![v] = NewDeques(waiters[k]) \o resumeDeques[v]]
  BY DEF Put, ResumeOnNewDeques, NewDeques
<1>. QED
  BY <1>3, <1>4 DEF Put, NewResumed

LEMMA EndBodyEnds ==
  ASSUME Typed, \A u \in VProcs : AtWork(u), NEW v \in VProcs, EndBody(v)
  PROVE  \E k \in Futures : GoesOn(v, k) \/ Puts(v, k)
<1>. DEFINE k == running[v]
            p == PopNewEnd(primary[v])
            c == Thread(calledBy[k], k)
<1>1. k \in Futures /\ k # NoTask
  BY SizeAssumption DEF EndBody, Futures, NoTask
<1>2. primary[v] \in Deques /\ primary[v] # NoDeque /\ PrimaryContents(v) = Contents(primary[v])
  BY <1>1, RunningTask, PrimaryIs
<1>3. /\ primary' = [primary EXCEPT ![v] = p.deque]
      /\ UNCHANGED <<nTries, victim, ch, group, calledBy, mainState>>
      /\ IF p.elt = c
         THEN /\ done' = done \union {k}
              /\ running' = [running EXCEPT ![v] = calledBy[k]]
              /\ UNCHANGED <<resumeDeques, pc, waiters>>
         ELSE Put(v, k) /\ BackToWorker(v)
  BY DEF EndBody
<1>4. c \in [task : Tasks \union {NoTask}, future : Futures \union {NoTask}] /\ c.task = calledBy[k]
  BY <1>1 DEF Typed, Thread
<1>. HIDE DEF p, c
<1>5. CASE IsEmpty(primary[v])
  <2>1. p.elt = Nil /\ p.deque = primary[v]
    BY <1>5, PopEmpty DEF p
  <2>2. p.elt # c
    BY <1>4, <2>1, NilAssumption
  <2>3. primary' = primary
    BY <1>3, <2>1 DEF Typed
  <2>4. Same(v)
    BY <2>3, PrimaryStays DEF Same
  <2>5. Puts(v, k)
    BY <1>1, <1>3, <2>2, <2>4, PutResumes DEF Puts
  <2>. QED
    BY <1>1, <2>5
<1>6. CASE ~ IsEmpty(primary[v])
  <2>1. /\ PrimaryContents(v) # <<>> /\ p.elt = Last(PrimaryContents(v)) /\ p.elt \in Threads
        /\ p.deque \in Deques /\ Contents(p.deque) = Front(PrimaryContents(v))
    BY <1>2, <1>6, PopNewInDeques DEF p
  <2>2. NewPrimary(v, Front(PrimaryContents(v)))
    BY <1>2, <1>3, <2>1, PrimaryChanges
  <2>3. CASE p.elt = c
    <3>1. calledBy[k] \in Tasks
      BY <1>4, <2>1, <2>3, ThreadFields
    <3>2. GoesOn(v, k)
      BY <1>1, <1>3, <2>1, <2>2, <2>3, <3>1 DEF GoesOn, c
    <3>. QED
      BY <1>1, <3>2
  <2>4. CASE p.elt # c
    <3>1. Puts(v, k)
      BY <1>1, <1>3, <2>1, <2>2, <2>4, PutResumes DEF Puts, c
    <3>. QED
      BY <1>1, <3>1
  <2>. QED
    BY <2>3, <2>4
<1>. QED
  BY <1>5, <1>6

LEMMA RaiseInBodyPuts ==
  ASSUME Typed, NEW v \in VProcs, RaiseInBody(v)
  PROVE  \E k \in Futures : Puts(v, k)
<1>1. running[v] \in Futures /\ Put(v, running[v]) /\ BackToWorker(v)
      /\ UNCHANGED <<primary, nTries, victim, ch, group, calledBy, mainState>>
  BY DEF RaiseInBody
<1>2. Same(v)
  BY <1>1, PrimaryStays DEF Same
<1>3. Puts(v, running[v])
  BY <1>1, <1>2, PutResumes DEF Puts
<1>. QED
  BY <1>1, <1>3

----------------------------------------------------------------------------
(* Every step has one of these effects. *)

(* Only a worker that found nothing to run looks for work. *)
Rests(v) ==
  /\ \E q, n :
       /\ QuietStep(v, q, n)
       /\ q \in LookingPlaces =>
            \/ pc[v] \in LookingPlaces
            \/ OnDeques(resumeDeques[v]) = {} /\ PrimaryContents(v) = <<>>
       /\ \/ Deactivate(v) \/ Activate(v)
          \/ nIdle' = nIdle /\ (q \in IdlePlaces <=> pc[v] \in IdlePlaces)
  /\ \/ Deactivate(v)
     \/ \A u \in VProcs :
          terminated' \/ pc'[u] = "terminate" => terminated \/ \E x \in VProcs : pc[x] = "terminate"

ThiefActs(w, v) ==
  \/ ThiefLeaves(w, v)
  \/ \E th \in Threads, ds \in DequeLists : ThiefTakesResumed(w, v, th, ds)
  \/ \E th \in Threads : ThiefTakesOldest(w, v, th)

WorkerActs(v) ==
  \/ Rests(v)
  \/ Starts(v)
  \/ Reshuffles(v)
  \/ FailsToSteal(v)
  \/ \E th \in Threads : TakesNewest(v, th) \/ TakesAnswer(v, th)
  \/ \E th \in Threads, ds \in DequeLists : TakesResumed(v, th, ds)
  \/ \E ds \in DequeLists : Prunes(v, ds)
  \/ \E w \in VProcs : SendThief(v, w) \/ ThiefActs(w, v)

TaskActs(v) ==
  \/ Preempts(v) \/ Begins(v) \/ WorkGroupStarted(v) \/ EndMain(v)
  \/ \E k \in Futures : Calls(v, k) \/ TouchEmpty(v, k) \/ GoesOn(v, k) \/ Puts(v, k)

LEMMA RestsSteps ==
  ASSUME Typed, \A u \in VProcs : AtWork(u), NEW v \in VProcs
  PROVE  /\ RunDry(v) => Rests(v)
         /\ YieldReturns(v) => Rests(v)
         /\ \A w \in VProcs : SkipIdleVictim(v, w) => Rests(v)
         /\ LastTry(v) => Rests(v)
         /\ Deactivate(v) => Rests(v)
         /\ Terminate(v) => Rests(v)
         /\ SetIdle(v) => Rests(v)
         /\ WakeUp(v) => Rests(v)
         /\ ClearIdle(v) => Rests(v)
         /\ Activate(v) => Rests(v)
<1>0. pc \in [VProcs -> Places]
  BY DEF Typed
<1>1. ASSUME NEW q \in Places, NEW n, QuietStep(v, q, n), pc[v] \in LookingPlaces \/ q \notin LookingPlaces,
             q # "terminate", terminated' = terminated \/ pc[v] = "terminate",
             Activate(v) \/ (nIdle' = nIdle /\ (q \in IdlePlaces <=> pc[v] \in IdlePlaces))
      PROVE  Rests(v)
  <2>1. \A u \in VProcs : pc'[u] = IF u = v THEN q ELSE pc[u]
    BY <1>0, <1>1 DEF QuietStep
  <2>2. \A u \in VProcs :
          terminated' \/ pc'[u] = "terminate" => terminated \/ \E x \in VProcs : pc[x] = "terminate"
    BY <1>1, <2>1
  <2>. QED
    BY <1>1, <2>2 DEF Rests
<1>2. /\ \A x \in {"next", "preempted"} : x \in Places /\ x \notin LookingPlaces
      /\ \A x \in {"yield", "lastTry", "deactivate"} \union IdlePlaces : x \in Places /\ x \in LookingPlaces
      /\ \A x \in {"terminate", "setIdle", "asleep", "stopped", "clearIdle", "activate"} : x \in IdlePlaces
      /\ \A x \in {"next", "preempted", "yield", "lastTry", "deactivate"} : x \notin IdlePlaces
  BY DEF Places, LookingPlaces, IdlePlaces
<1>3. ASSUME RunDry(v) PROVE Rests(v)
  <2>1. pc[v] = "next" /\ IsEmpty(primary[v]) /\ TryPopLocal(v).elt = Nil
        /\ terminated' = terminated /\ nIdle' = nIdle /\ primary[v] # NoDeque
    BY <1>3 DEF RunDry, group, AtWork
  <2>2. primary[v] \in Deques /\ resumeDeques[v] \in DequeLists
        /\ PrimaryContents(v) = Contents(primary[v])
    BY <2>1, PrimaryIs DEF Typed
  <2>3. OnDeques(resumeDeques[v]) = {} /\ PrimaryContents(v) = <<>>
    BY <2>1, <2>2, TryPopLocalFinds, NilIsNoThread DEF FoundNothing, FoundResumed, FoundNewest
  <2>4. QuietStep(v, "yield", 0)
    BY <1>3, QuietActions
  <2>5. \A u \in VProcs : pc'[u] = IF u = v THEN "yield" ELSE pc[u]
    BY <1>0, <2>4 DEF QuietStep
  <2>6. \A u \in VProcs :
          terminated' \/ pc'[u] = "terminate" => terminated \/ \E x \in VProcs : pc[x] = "terminate"
    BY <2>1, <2>5
  <2>. QED
    BY <1>2, <2>1, <2>3, <2>4, <2>6 DEF Rests
<1>4. ASSUME YieldReturns(v) PROVE Rests(v)
  <2>1. QuietStep(v, "next", nTries[v]) /\ pc[v] = "preempted"
        /\ terminated' = terminated /\ nIdle' = nIdle
    BY <1>4, QuietActions DEF YieldReturns, group
  <2>. QED
    BY <1>1, <1>2, <2>1
<1>5. ASSUME NEW w \in VProcs, SkipIdleVictim(v, w) PROVE Rests(v)
  <2>. DEFINE q == IF nTries[v] + 1 > NVProcs THEN "lastTry" ELSE "yield"
  <2>1. QuietStep(v, q, nTries[v] + 1)
    BY <1>5, QuietActions
  <2>2. q \in {"lastTry", "yield"} /\ terminated' = terminated /\ pc[v] = "yield" /\ nIdle' = nIdle
    BY <1>5 DEF SkipIdleVictim, group
  <2>. HIDE DEF q
  <2>. QED
    BY <1>1, <1>2, <2>1, <2>2
<1>6. ASSUME LastTry(v) PROVE Rests(v)
  <2>. DEFINE q == IF IsEmpty(primary[v]) THEN "deactivate" ELSE "next"
  <2>1. QuietStep(v, q, nTries[v])
    BY <1>6, QuietActions
  <2>2. q \in {"deactivate", "next"} /\ terminated' = terminated /\ pc[v] = "lastTry" /\ nIdle' = nIdle
    BY <1>6 DEF LastTry, group
  <2>. HIDE DEF q
  <2>. QED
    BY <1>1, <1>2, <2>1, <2>2
<1>7. ASSUME Deactivate(v) PROVE Rests(v)
  <2>. DEFINE q == IF nIdle = NVProcs - 1 THEN "terminate" ELSE "setIdle"
  <2>1. QuietStep(v, q, nTries[v])
    BY <1>7, QuietActions
  <2>2. pc[v] = "deactivate"
    BY <1>7 DEF Deactivate
  <2>. HIDE DEF q
  <2>. QED
    BY <1>2, <1>7, <2>1, <2>2 DEF Rests
<1>8. ASSUME Terminate(v) PROVE Rests(v)
  <2>1. QuietStep(v, "setIdle", nTries[v]) /\ pc[v] = "terminate" /\ nIdle' = nIdle
    BY <1>8, QuietActions DEF Terminate
  <2>. QED
    BY <1>1, <1>2, <2>1
<1>9. ASSUME SetIdle(v) PROVE Rests(v)
  <2>1. QuietStep(v, "asleep", nTries[v]) /\ pc[v] = "setIdle"
        /\ terminated' = terminated /\ nIdle' = nIdle
    BY <1>9, QuietActions DEF SetIdle
  <2>. QED
    BY <1>1, <1>2, <2>1
<1>10. ASSUME WakeUp(v) PROVE Rests(v)
  <2>. DEFINE q == IF terminated THEN "stopped" ELSE "clearIdle"
  <2>1. QuietStep(v, q, nTries[v])
    BY <1>10, QuietActions
  <2>2. q \in {"stopped", "clearIdle"} /\ pc[v] = "asleep"
        /\ terminated' = terminated /\ nIdle' = nIdle
    BY <1>10 DEF WakeUp, group
  <2>. HIDE DEF q
  <2>. QED
    BY <1>1, <1>2, <2>1, <2>2
<1>11. ASSUME ClearIdle(v) PROVE Rests(v)
  <2>1. QuietStep(v, "activate", nTries[v]) /\ pc[v] = "clearIdle"
        /\ terminated' = terminated /\ nIdle' = nIdle
    BY <1>11, QuietActions DEF ClearIdle
  <2>. QED
    BY <1>1, <1>2, <2>1
<1>12. ASSUME Activate(v) PROVE Rests(v)
  <2>1. QuietStep(v, "yield", 0) /\ pc[v] = "activate" /\ terminated' = terminated
    BY <1>12, QuietActions DEF Activate
  <2>. QED
    BY <1>1, <1>2, <1>12, <2>1
<1>. QED
  BY <1>3, <1>4, <1>5, <1>6, <1>7, <1>8, <1>9, <1>10, <1>11, <1>12

LEMMA NextActs ==
  ASSUME Typed, \A u \in VProcs : AtWork(u), Next
  PROVE  \E v \in VProcs : WorkerActs(v) \/ TaskActs(v)
<1>1. PICK v \in VProcs :
        \/ Schedule(v)
        \/ TrySteal(v)
        \/ \E w \in VProcs : Thief(w, v)
        \/ Preempt(v)
        \/ Prune(v)
        \/ Begin(v)
        \/ EndTask(v)
        \/ \E k \in Futures : CallFuture(v, k) \/ TouchEmpty(v, k)
  BY DEF Next
<1>2. CASE Schedule(v)
  <2>1. Start(v) => WorkerActs(v)
    BY StartStarts DEF WorkerActs
  <2>2. RunNext(v) => WorkerActs(v)
    BY RunNextTakes DEF WorkerActs
  <2>3. RunResumed(v) => WorkerActs(v)
    BY RunResumedTakes DEF WorkerActs
  <2>4. Answered(v) => WorkerActs(v)
    BY AnsweredTakes DEF WorkerActs
  <2>5. Rests(v) => WorkerActs(v)
    BY DEF WorkerActs
  <2>. QED
    BY <1>2, <2>1, <2>2, <2>3, <2>4, <2>5, RestsSteps DEF Schedule
<1>3. CASE TrySteal(v)
  <2>1. ASSUME StealFromSelf(v) PROVE WorkerActs(v)
    <3>1. ASSUME NEW q, QuietStep(v, q, nTries[v] + 1), q \in {"lastTry", "yield"}
          PROVE  Rests(v)
      <4>0. q \notin IdlePlaces /\ pc[v] \notin IdlePlaces /\ nIdle' = nIdle
        BY <2>1, <3>1 DEF StealFromSelf, IdlePlaces, group
      <4>1. pc[v] = "yield" /\ terminated' = terminated /\ pc \in [VProcs -> Places]
        BY <2>1 DEF StealFromSelf, group, Typed
      <4>2. pc[v] \in LookingPlaces /\ q # "terminate"
        BY <3>1, <4>1 DEF LookingPlaces
      <4>3. \A u \in VProcs : pc'[u] = IF u = v THEN q ELSE pc[u]
        BY <3>1, <4>1 DEF QuietStep
      <4>4. \A u \in VProcs :
              terminated' \/ pc'[u] = "terminate" => terminated \/ \E x \in VProcs : pc[x] = "terminate"
        BY <4>1, <4>2, <4>3
      <4>. QED
        BY <3>1, <4>0, <4>2, <4>4 DEF Rests
    <3>. QED
      BY <2>1, <3>1, StealFromSelfTakes DEF WorkerActs
  <2>2. ASSUME NEW w \in VProcs, SkipIdleVictim(v, w) \/ SendThief(v, w) PROVE WorkerActs(v)
    BY <2>2, RestsSteps DEF WorkerActs
  <2>. QED
    BY <1>3, <2>1, <2>2 DEF TrySteal
<1>4. CASE \E w \in VProcs : Thief(w, v)
  <2>1. PICK w \in VProcs : Thief(w, v)
    BY <1>4
  <2>2. ThiefActs(w, v)
    BY <2>1, ThiefTakes DEF ThiefActs
  <2>. QED
    BY <2>2 DEF WorkerActs
<1>5. CASE Preempt(v)
  BY <1>5, PreemptPreempts DEF TaskActs
<1>6. CASE Prune(v)
  BY <1>6, PrunePrunes DEF WorkerActs
<1>7. CASE Begin(v)
  BY <1>7, BeginBegins DEF TaskActs
<1>8. CASE EndTask(v)
  <2>1. EndBody(v) => TaskActs(v)
    BY EndBodyEnds DEF TaskActs
  <2>2. RaiseInBody(v) => TaskActs(v)
    BY RaiseInBodyPuts DEF TaskActs
  <2>. QED
    BY <1>8, <2>1, <2>2 DEF EndTask, TaskActs
<1>9. CASE \E k \in Futures : CallFuture(v, k) \/ TouchEmpty(v, k)
  BY <1>9, CallFutureCalls DEF TaskActs
<1>. QED
  BY <1>1, <1>2, <1>3, <1>4, <1>5, <1>6, <1>7, <1>8, <1>9

----------------------------------------------------------------------------
(* The effects keep the types. *)

Elsewhere(v) ==
  \A u \in VProcs : u # v =>
    /\ pc'[u] = pc[u] /\ running'[u] = running[u] /\ nTries'[u] = nTries[u]
    /\ victim'[u] = victim[u] /\ ch'[u] = ch[u]
    /\ primary'[u] = NoDeque <=> primary[u] = NoDeque

LEMMA AtWorkThere ==
  ASSUME \A u \in VProcs : AtWork(u), NEW v \in VProcs, Elsewhere(v), AtWork(v)'
  PROVE  \A u \in VProcs : AtWork(u)'
<1>. TAKE u \in VProcs
<1>1. CASE u = v
  BY <1>1
<1>2. CASE u # v
  <2>1. /\ pc'[u] = pc[u] /\ running'[u] = running[u] /\ nTries'[u] = nTries[u]
        /\ victim'[u] = victim[u] /\ ch'[u] = ch[u]
        /\ primary'[u] = NoDeque <=> primary[u] = NoDeque
    BY <1>2 DEF Elsewhere
  <2>2. AtWork(u)
    OBVIOUS
  <2>. QED
    BY <2>1, <2>2 DEF AtWork
<1>. QED
  BY <1>1, <1>2

LEMMA CountedOn ==
  ASSUME Typed, Counted, NEW v \in VProcs, NEW q, pc[v] \notin IdlePlaces, q \notin IdlePlaces,
         GoTo(v, q), nIdle' = nIdle, NotStarted' = NotStarted
  PROVE  Counted'
BY SameCount DEF GoTo

LEMMA RestsTypes ==
  ASSUME TypeInv, NEW v \in VProcs, Rests(v)
  PROVE  TypeInv'
<1>0. Typed /\ (\A u \in VProcs : AtWork(u)) /\ Counted
  BY DEF TypeInv
<1>1. PICK q, n :
        /\ QuietStep(v, q, n)
        /\ \/ Deactivate(v) \/ Activate(v)
           \/ nIdle' = nIdle /\ (q \in IdlePlaces <=> pc[v] \in IdlePlaces)
  BY DEF Rests
<1>2. Typed' /\ \A u \in VProcs : AtWork(u)'
  BY <1>0, <1>1, QuietStepTypes
<1>3. pc' = [pc EXCEPT ![v] = q] /\ NotStarted' = NotStarted
  BY <1>1 DEF QuietStep, program, NotStarted
<1>4. Counted'
  BY <1>0, <1>1, <1>3, CountSteps, SameCount
<1>. QED
  BY <1>2, <1>4 DEF TypeInv

LEMMA StartsTypes ==
  ASSUME TypeInv, NEW v \in VProcs, Starts(v)
  PROVE  TypeInv'
<1>0. Typed /\ (\A u \in VProcs : AtWork(u)) /\ Counted /\ AtWork(v)
  BY DEF TypeInv
<1>1. Typed'
  BY <1>0 DEF Starts, Typed, GoTo, Places, group, program
<1>2. Elsewhere(v)
  BY <1>0 DEF Starts, Typed, GoTo, Elsewhere
<1>3. AtWork(v)'
  BY <1>0 DEF Starts, Typed, GoTo, AtWork
<1>4. Counted'
  BY <1>0, CountedOn DEF Starts, IdlePlaces, group, program, NotStarted
<1>. QED
  BY <1>0, <1>1, <1>2, <1>3, <1>4, AtWorkThere DEF TypeInv

LEMMA ReshufflesTypes ==
  ASSUME TypeInv, NEW v \in VProcs, Reshuffles(v)
  PROVE  TypeInv'
<1>0. Typed /\ (\A u \in VProcs : AtWork(u)) /\ Counted /\ AtWork(v)
  BY DEF TypeInv
<1>1. Typed'
  BY <1>0 DEF Reshuffles, Same, NewPrimary, Typed, GoTo, Places, group, program
<1>2. Elsewhere(v)
  BY <1>0 DEF Reshuffles, Same, NewPrimary, Typed, GoTo, Elsewhere
<1>3. AtWork(v)'
  BY <1>0 DEF Reshuffles, Same, NewPrimary, Typed, GoTo, AtWork
<1>4. Counted'
  BY <1>0, CountedOn DEF Reshuffles, IdlePlaces, group, program, NotStarted
<1>. QED
  BY <1>0, <1>1, <1>2, <1>3, <1>4, AtWorkThere DEF TypeInv

LEMMA FailsTypes ==
  ASSUME TypeInv, NEW v \in VProcs, FailsToSteal(v)
  PROVE  TypeInv'
<1>0. Typed /\ (\A u \in VProcs : AtWork(u)) /\ Counted /\ AtWork(v)
  BY DEF TypeInv
<1>1. pc[v] = "wait" /\ nTries[v] + 1 \in 0..(NVProcs + 1)
  BY <1>0, TriesLeft DEF FailsToSteal
<1>2. PICK q \in {"lastTry", "yield"} : GoTo(v, q) /\ (q = "yield" => nTries[v] + 1 <= NVProcs)
  BY DEF FailsToSteal
<1>3. Typed'
  BY <1>0, <1>1, <1>2 DEF FailsToSteal, Typed, GoTo, Places, LookingPlaces, deques, group, program
<1>4. Elsewhere(v)
  BY <1>0, <1>2 DEF FailsToSteal, Typed, GoTo, Elsewhere, deques
<1>5. AtWork(v)'
  BY <1>0, <1>2 DEF FailsToSteal, Typed, GoTo, AtWork, deques
<1>6. Counted'
  BY <1>0, <1>1, <1>2, CountedOn DEF FailsToSteal, IdlePlaces, group, program, NotStarted
<1>. QED
  BY <1>0, <1>3, <1>4, <1>5, <1>6, AtWorkThere DEF TypeInv

LEMMA TakesNewestTypes ==
  ASSUME TypeInv, NEW v \in VProcs, NEW th \in Threads, TakesNewest(v, th)
  PROVE  TypeInv'
<1>0. Typed /\ (\A u \in VProcs : AtWork(u)) /\ Counted /\ AtWork(v)
  BY DEF TypeInv
<1>1. th.task \in Tasks /\ th.task # NoTask
  BY ThreadFields, SizeAssumption DEF Tasks, NoTask, Main, Futures
<1>2. Typed'
  BY <1>0, <1>1 DEF TakesNewest, NewPrimary, Typed, GoTo, Places, group, program
<1>3. Elsewhere(v)
  BY <1>0 DEF TakesNewest, NewPrimary, Typed, GoTo, Elsewhere
<1>4. AtWork(v)'
  BY <1>0, <1>1 DEF TakesNewest, NewPrimary, Typed, GoTo, AtWork
<1>5. Counted'
  BY <1>0, CountedOn DEF TakesNewest, IdlePlaces, group, program, NotStarted
<1>. QED
  BY <1>0, <1>2, <1>3, <1>4, <1>5, AtWorkThere DEF TypeInv

LEMMA TakesAnswerTypes ==
  ASSUME TypeInv, NEW v \in VProcs, NEW th \in Threads, TakesAnswer(v, th)
  PROVE  TypeInv'
<1>0. Typed /\ (\A u \in VProcs : AtWork(u)) /\ Counted /\ AtWork(v)
  BY DEF TypeInv
<1>1. <<>> \in Seq(Threads) /\ Len(<<>>) = 0 /\ <<th>> # <<>>
  BY EmptySeq
<1>2. Typed'
  BY <1>0, <1>1 DEF TakesAnswer, NewPrimary, Typed, GoTo, Places, group, program
<1>3. Elsewhere(v)
  BY <1>0 DEF TakesAnswer, NewPrimary, Typed, GoTo, Elsewhere
<1>4. AtWork(v)'
  BY <1>0, <1>1 DEF TakesAnswer, NewPrimary, Typed, GoTo, AtWork
<1>5. Counted'
  BY <1>0, CountedOn DEF TakesAnswer, IdlePlaces, group, program, NotStarted
<1>. QED
  BY <1>0, <1>2, <1>3, <1>4, <1>5, AtWorkThere DEF TypeInv

LEMMA TakesResumedTypes ==
  ASSUME TypeInv, NEW v \in VProcs, NEW th \in Threads, NEW ds \in DequeLists,
         TakesResumed(v, th, ds)
  PROVE  TypeInv'
<1>0. Typed /\ (\A u \in VProcs : AtWork(u)) /\ Counted /\ AtWork(v)
  BY DEF TypeInv
<1>1. resumeDeques' \in [VProcs -> DequeLists]
  BY <1>0, ResumedTyped DEF TakesResumed
<1>2. Typed'
  BY <1>0, <1>1 DEF TakesResumed, NewPrimary, Typed, GoTo, Places, group, program
<1>3. Elsewhere(v)
  BY <1>0 DEF TakesResumed, NewPrimary, Typed, GoTo, Elsewhere
<1>4. AtWork(v)'
  BY <1>0 DEF TakesResumed, NewPrimary, Typed, GoTo, AtWork
<1>5. pc[v] \notin IdlePlaces /\ "next" \notin IdlePlaces
  BY DEF TakesResumed, IdlePlaces
<1>6. Counted'
  BY <1>0, <1>5, CountedOn DEF TakesResumed, group, program, NotStarted
<1>. QED
  BY <1>0, <1>2, <1>3, <1>4, <1>6, AtWorkThere DEF TypeInv

LEMMA PrunesTypes ==
  ASSUME TypeInv, NEW v \in VProcs, NEW ds \in DequeLists, Prunes(v, ds)
  PROVE  TypeInv'
<1>0. Typed /\ (\A u \in VProcs : AtWork(u)) /\ Counted
  BY DEF TypeInv
<1>1. resumeDeques' \in [VProcs -> DequeLists]
  BY <1>0, ResumedTyped DEF Prunes
<1>2. Typed'
  BY <1>0, <1>1 DEF Prunes, Typed, worker, group, program
<1>3. \A u \in VProcs : AtWork(u)'
  BY <1>0 DEF Prunes, AtWork, worker
<1>4. Counted'
  BY <1>0, SameIdle DEF Prunes, worker, group, program, NotStarted
<1>. QED
  BY <1>2, <1>3, <1>4 DEF TypeInv

LEMMA SendsTypes ==
  ASSUME TypeInv, NEW v \in VProcs, NEW w \in VProcs, SendThief(v, w)
  PROVE  TypeInv'
<1>0. Typed /\ (\A u \in VProcs : AtWork(u)) /\ Counted /\ AtWork(v)
  BY DEF TypeInv
<1>1. <<>> \in Seq(Threads) /\ Len(<<>>) = 0
  BY EmptySeq
<1>2. Typed'
  BY <1>0, <1>1 DEF SendThief, Typed, GoTo, Places, LookingPlaces, deques, group, program
<1>3. Elsewhere(v)
  BY <1>0 DEF SendThief, Typed, GoTo, Elsewhere, deques
<1>4. AtWork(v)'
  BY <1>0, <1>1 DEF SendThief, Typed, GoTo, AtWork, deques
<1>5. Counted'
  BY <1>0, CountedOn DEF SendThief, IdlePlaces, group, program, NotStarted
<1>. QED
  BY <1>0, <1>2, <1>3, <1>4, <1>5, AtWorkThere DEF TypeInv

LEMMA ThiefTypes ==
  ASSUME TypeInv, NEW v \in VProcs, NEW w \in VProcs, ThiefActs(w, v)
  PROVE  TypeInv'
<1>0. Typed /\ (\A u \in VProcs : AtWork(u)) /\ Counted /\ AtWork(v)
  BY DEF TypeInv
<1>1. /\ victim[v] = w /\ victim' = [victim EXCEPT ![v] = NoVProc]
      /\ UNCHANGED <<worker, group, program>>
      /\ primary' \in [VProcs -> Deques \union {NoDeque}]
      /\ \A u \in VProcs : primary'[u] = NoDeque <=> primary[u] = NoDeque
  BY <1>0 DEF ThiefActs, ThiefLeaves, ThiefTakesResumed, ThiefTakesOldest, NewPrimary, deques, Typed
<1>2. w # NoVProc /\ pc[v] = "wait" /\ ch[v] = <<>>
  BY <1>0, <1>1, WorkStealingAssumption DEF AtWork
<1>3. PICK s \in Seq(Threads) : ch' = [ch EXCEPT ![v] = s] /\ Len(s) <= 1
  <2>1. ch = [ch EXCEPT ![v] = <<>>] /\ <<>> \in Seq(Threads) /\ Len(<<>>) = 0
    BY <1>0, <1>2, EmptySeq DEF Typed
  <2>2. \A th \in Threads : <<th>> \in Seq(Threads) /\ Len(<<th>>) = 1
    BY OneTask, OneThread
  <2>3. ch' = ch \/ \E th \in Threads : ch' = [ch EXCEPT ![v] = <<th>>]
    BY DEF ThiefActs, ThiefLeaves, ThiefTakesResumed, ThiefTakesOldest
  <2>4. CASE ch' = ch
    <3>. DEFINE s == <<>>
    <3>1. s \in Seq(Threads) /\ Len(s) <= 1 /\ ch' = [ch EXCEPT ![v] = s]
      BY <2>1, <2>4
    <3>. HIDE DEF s
    <3>. QED
      BY <3>1
  <2>5. CASE \E th \in Threads : ch' = [ch EXCEPT ![v] = <<th>>]
    <3>1. PICK th \in Threads : ch' = [ch EXCEPT ![v] = <<th>>]
      BY <2>5
    <3>. DEFINE s == <<th>>
    <3>2. s \in Seq(Threads) /\ Len(s) <= 1 /\ ch' = [ch EXCEPT ![v] = s]
      BY <2>2, <3>1
    <3>. HIDE DEF s
    <3>. QED
      BY <3>2
  <2>. QED
    BY <2>3, <2>4, <2>5
<1>4. resumeDeques' \in [VProcs -> DequeLists]
  <2>1. \A ds : NewResumed(w, ds) => resumeDeques' \in [VProcs -> DequeLists]
    BY <1>0, ResumedTyped
  <2>. QED
    BY <1>0, <2>1 DEF ThiefActs, ThiefLeaves, ThiefTakesResumed, ThiefTakesOldest, deques, Typed
<1>5. Typed'
  BY <1>0, <1>1, <1>3, <1>4 DEF Typed, worker, group, program
<1>6. Elsewhere(v)
  BY <1>0, <1>1, <1>3 DEF Typed, Elsewhere, worker
<1>7. AtWork(v)'
  <2>1. /\ pc' = pc /\ running' = running /\ nTries' = nTries /\ victim'[v] = NoVProc /\ ch'[v] = s
        /\ v # NoVProc
    BY <1>0, <1>1, <1>3, WorkStealingAssumption DEF worker, Typed
  <2>. QED
    BY <1>0, <1>1, <1>2, <1>3, <2>1 DEF AtWork
<1>8. Counted'
  BY <1>0, <1>1, SameIdle DEF worker, group, program, NotStarted
<1>. QED
  BY <1>0, <1>5, <1>6, <1>7, <1>8, AtWorkThere DEF TypeInv

LEMMA PreemptsTypes ==
  ASSUME TypeInv, NEW v \in VProcs, Preempts(v)
  PROVE  TypeInv'
<1>0. Typed /\ (\A u \in VProcs : AtWork(u)) /\ Counted /\ AtWork(v)
  BY DEF TypeInv
<1>1. Typed'
  BY <1>0 DEF Preempts, NewPrimary, Typed, GoTo, Places, group, program
<1>2. Elsewhere(v)
  BY <1>0 DEF Preempts, NewPrimary, Typed, GoTo, Elsewhere
<1>3. AtWork(v)'
  BY <1>0 DEF Preempts, NewPrimary, Typed, GoTo, AtWork
<1>4. Counted'
  BY <1>0, CountedOn DEF Preempts, IdlePlaces, group, program, NotStarted
<1>. QED
  BY <1>0, <1>1, <1>2, <1>3, <1>4, AtWorkThere DEF TypeInv

LEMMA BeginsTypes ==
  ASSUME TypeInv, NEW v \in VProcs, Begins(v)
  PROVE  TypeInv'
<1>0. Typed /\ (\A u \in VProcs : AtWork(u)) /\ Counted /\ AtWork(v)
  BY DEF TypeInv
<1>1. Typed'
  BY <1>0 DEF Begins, NewPrimary, Typed, worker, group
<1>2. Elsewhere(v) /\ AtWork(v)'
  BY <1>0 DEF Begins, NewPrimary, Typed, Elsewhere, AtWork, worker
<1>3. Counted'
  BY <1>0, SameIdle DEF Begins, worker, group, NotStarted
<1>. QED
  BY <1>0, <1>1, <1>2, <1>3, AtWorkThere DEF TypeInv

LEMMA StartedTypes ==
  ASSUME TypeInv, NEW v \in VProcs, WorkGroupStarted(v)
  PROVE  TypeInv'
<1>0. Typed /\ (\A u \in VProcs : AtWork(u)) /\ Counted /\ AtWork(v)
  BY DEF TypeInv
<1>1. Typed'
  BY <1>0 DEF WorkGroupStarted, Typed, deques, worker
<1>2. Elsewhere(v) /\ AtWork(v)'
  BY <1>0 DEF WorkGroupStarted, Elsewhere, AtWork, worker, deques
<1>3. Counted'
  BY <1>0, CountSteps
<1>. QED
  BY <1>0, <1>1, <1>2, <1>3, AtWorkThere DEF TypeInv

(* A vproc whose task stops. *)
LEMMA StopsTypes ==
  ASSUME TypeInv, NEW v \in VProcs, pc[v] = "run", BackToWorker(v), Typed',
         \A u \in VProcs : primary'[u] = NoDeque <=> primary[u] = NoDeque,
         UNCHANGED <<nTries, victim, ch, nIdle>>, NotStarted' = NotStarted
  PROVE  TypeInv'
<1>0. Typed /\ (\A u \in VProcs : AtWork(u)) /\ Counted /\ AtWork(v)
  BY DEF TypeInv
<1>2. Elsewhere(v)
  BY <1>0 DEF BackToWorker, Typed, GoTo, Elsewhere
<1>3. AtWork(v)'
  BY <1>0 DEF BackToWorker, Typed, GoTo, AtWork
<1>4. Counted'
  BY <1>0, CountedOn DEF BackToWorker, IdlePlaces
<1>. QED
  BY <1>0, <1>2, <1>3, <1>4, AtWorkThere DEF TypeInv

LEMMA EndMainTypes ==
  ASSUME TypeInv, NEW v \in VProcs, EndMain(v)
  PROVE  TypeInv'
<1>0. Typed /\ (\A u \in VProcs : AtWork(u))
  BY DEF TypeInv
<1>1. pc[v] = "run"
  BY <1>0, RunningTask DEF EndMain, Main, NoTask
<1>2. Typed'
  BY <1>0 DEF EndMain, BackToWorker, Typed, GoTo, Places, deques, group
<1>. QED
  BY <1>1, <1>2, StopsTypes DEF EndMain, deques, group, NotStarted

LEMMA TouchTypes ==
  ASSUME TypeInv, NEW v \in VProcs, NEW k \in Futures, TouchEmpty(v, k)
  PROVE  TypeInv'
<1>0. Typed /\ (\A u \in VProcs : AtWork(u))
  BY DEF TypeInv
<1>. DEFINE th == Thread(running[v], NoTask)
            s == <<th>> \o waiters[k]
<1>1. pc[v] = "run" /\ th \in Captured
  BY <1>0, RunningTask DEF TouchEmpty
<1>2. waiters' = [waiters EXCEPT ![k] = s] /\ waiters[k] \in Seq(Captured)
  BY <1>0 DEF TouchEmpty, Typed
<1>. HIDE DEF th
<1>3. s \in Seq(Captured)
  <2>1. <<th>> \in Seq(Captured)
    BY <1>1, OneThread
  <2>. QED
    BY <1>2, <2>1, ConcatProperties
<1>. HIDE DEF s
<1>4. Typed'
  BY <1>0, <1>2, <1>3 DEF TouchEmpty, BackToWorker, Typed, GoTo, Places, deques, group
<1>. QED
  BY <1>1, <1>4, StopsTypes DEF TouchEmpty, deques, group, NotStarted

LEMMA CallsTypes ==
  ASSUME TypeInv, NEW v \in VProcs, NEW k \in Futures, Calls(v, k)
  PROVE  TypeInv'
<1>0. Typed /\ (\A u \in VProcs : AtWork(u)) /\ Counted /\ AtWork(v)
  BY DEF TypeInv
<1>1. k \in Tasks /\ k # NoTask /\ running[v] \in Tasks
  BY <1>0, RunningTask DEF Tasks, NoTask, Futures, Calls
<1>2. Typed'
  BY <1>0, <1>1 DEF Calls, NewPrimary, Typed, group
<1>3. Elsewhere(v) /\ AtWork(v)'
  BY <1>0, <1>1 DEF Calls, NewPrimary, Typed, Elsewhere, AtWork
<1>4. Counted'
  BY <1>0, SameIdle DEF Calls, group, NotStarted
<1>. QED
  BY <1>0, <1>2, <1>3, <1>4, AtWorkThere DEF TypeInv

LEMMA GoesOnTypes ==
  ASSUME TypeInv, NEW v \in VProcs, NEW k \in Futures, GoesOn(v, k)
  PROVE  TypeInv'
<1>0. Typed /\ (\A u \in VProcs : AtWork(u)) /\ Counted /\ AtWork(v)
  BY DEF TypeInv
<1>1. k # NoTask /\ calledBy[k] \in Tasks /\ calledBy[k] # NoTask
  BY SizeAssumption DEF Tasks, NoTask, Futures, Main, GoesOn
<1>2. Typed'
  BY <1>0, <1>1 DEF GoesOn, NewPrimary, Typed, group
<1>3. Elsewhere(v) /\ AtWork(v)'
  BY <1>0, <1>1 DEF GoesOn, NewPrimary, Typed, Elsewhere, AtWork
<1>4. Counted'
  BY <1>0, SameIdle DEF GoesOn, group, NotStarted
<1>. QED
  BY <1>0, <1>2, <1>3, <1>4, AtWorkThere DEF TypeInv

LEMMA PutsTypes ==
  ASSUME TypeInv, NEW v \in VProcs, NEW k \in Futures, Puts(v, k)
  PROVE  TypeInv'
<1>0. Typed /\ (\A u \in VProcs : AtWork(u))
  BY DEF TypeInv
<1>1. k # NoTask /\ pc[v] = "run"
  BY <1>0, RunningTask DEF NoTask, Futures, Puts
<1>2. /\ primary' \in [VProcs -> Deques \union {NoDeque}]
      /\ \A u \in VProcs : primary'[u] = NoDeque <=> primary[u] = NoDeque
  BY DEF Puts, Same, NewPrimary
<1>3. resumeDeques' \in [VProcs -> DequeLists]
  BY <1>0, ResumedTyped DEF Puts
<1>4. <<>> \in Seq(Captured)
  BY EmptySeq
<1>5. Typed'
  BY <1>0, <1>2, <1>3, <1>4 DEF Puts, BackToWorker, Typed, GoTo, Places, group
<1>. QED
  BY <1>1, <1>2, <1>5, StopsTypes DEF Puts, group, NotStarted

LEMMA ActsKeepTypes ==
  ASSUME TypeInv, NEW v \in VProcs, WorkerActs(v) \/ TaskActs(v)
  PROVE  TypeInv'
<1>1. CASE WorkerActs(v)
  BY <1>1, RestsTypes, StartsTypes, ReshufflesTypes, FailsTypes, TakesNewestTypes,
     TakesAnswerTypes, TakesResumedTypes, PrunesTypes, SendsTypes, ThiefTypes
     DEF WorkerActs
<1>2. CASE TaskActs(v)
  BY <1>2, PreemptsTypes, BeginsTypes, StartedTypes, EndMainTypes, TouchTypes, CallsTypes,
     GoesOnTypes, PutsTypes
     DEF TaskActs
<1>. QED
  BY <1>1, <1>2

LEMMA NextTypes == TypeInv /\ [Next]_vars => TypeInv'
<1>. SUFFICES ASSUME TypeInv, [Next]_vars PROVE TypeInv'
  OBVIOUS
<1>1. CASE Next
  BY <1>1, NextActs, ActsKeepTypes DEF TypeInv
<1>2. CASE UNCHANGED vars
  BY <1>2 DEF TypeInv, Typed, AtWork, Counted, IdleWorkers, NotStarted, vars, deques, worker,
     group, program
<1>. QED
  BY <1>1, <1>2

(* Every deque of a vproc keeps its indices in bounds, also when a thread  *)
(* is pushed on a full one; a vproc runs a task exactly while its worker   *)
(* has dispatched one; nIdle stays between -1 and the number of vprocs.    *)
THEOREM TypesCorrect == Spec => []TypeOK
<1>1. Spec => []TypeInv
  BY InitTypes, NextTypes, PTL DEF Spec
<1>2. TypeInv => TypeOK
  BY TypeInvImplies
<1>. QED
  BY <1>1, <1>2, PTL

----------------------------------------------------------------------------
(* The homes of tasks. *)

Labels == ({"runs", "primary", "answer", "resumed"} \X VProcs) \union ({"blocked"} \X Futures)

TasksAt(l) ==
  CASE l[1] = "runs" -> {running[l[2]]} \ {NoTask}
    [] l[1] = "primary" -> TasksOf(PrimaryContents(l[2]))
    [] l[1] = "answer" -> TasksOf(ch[l[2]])
    [] l[1] = "resumed" -> OnDeques(resumeDeques[l[2]])
    [] l[1] = "blocked" -> TasksOf(waiters[l[2]])

LEMMA LabelIs ==
  /\ \A v \in VProcs : /\ <<"runs", v>> \in Labels /\ <<"primary", v>> \in Labels
                       /\ <<"answer", v>> \in Labels /\ <<"resumed", v>> \in Labels
  /\ \A k \in Futures : <<"blocked", k>> \in Labels
  /\ \A l \in Labels :
       \/ \E v \in VProcs : l = <<"runs", v>> \/ l = <<"primary", v>>
                            \/ l = <<"answer", v>> \/ l = <<"resumed", v>>
       \/ \E k \in Futures : l = <<"blocked", k>>
BY DEF Labels

LEMMA RunsAt ==
  ASSUME NEW v \in VProcs
  PROVE  /\ TasksAt(<<"runs", v>>) = {running[v]} \ {NoTask}
         /\ TasksAt(<<"runs", v>>)' = {running'[v]} \ {NoTask}
BY DEF TasksAt

LEMMA PrimaryAt ==
  ASSUME NEW v \in VProcs
  PROVE  /\ TasksAt(<<"primary", v>>) = TasksOf(PrimaryContents(v))
         /\ TasksAt(<<"primary", v>>)' = TasksOf(PrimaryContents(v)')
BY DEF TasksAt, TasksOf

LEMMA AnswerAt ==
  ASSUME NEW v \in VProcs
  PROVE  /\ TasksAt(<<"answer", v>>) = TasksOf(ch[v])
         /\ TasksAt(<<"answer", v>>)' = TasksOf(ch'[v])
BY DEF TasksAt, TasksOf

LEMMA ResumedAt ==
  ASSUME NEW v \in VProcs
  PROVE  /\ TasksAt(<<"resumed", v>>) = OnDeques(resumeDeques[v])
         /\ TasksAt(<<"resumed", v>>)' = OnDeques(resumeDeques'[v])
BY DEF TasksAt, TasksOf, OnDeques

LEMMA BlockedAt ==
  ASSUME NEW k \in Futures
  PROVE  /\ TasksAt(<<"blocked", k>>) = TasksOf(waiters[k])
         /\ TasksAt(<<"blocked", k>>)' = TasksOf(waiters'[k])
BY DEF TasksAt, TasksOf

(* No task is in two places or twice in one, and those somewhere are alive. *)
Homed ==
  /\ \A l, m \in Labels : TasksAt(l) \intersect TasksAt(m) # {} => l = m
  /\ \A l \in Labels : \A t \in TasksAt(l) : t \in Tasks /\ Alive(t)

Listed ==
  /\ \A v \in VProcs : Distinct(PrimaryContents(v)) /\ Apart(resumeDeques[v])
  /\ \A k \in Futures : Distinct(waiters[k])

(* No deque ever fills, and then every live task is somewhere. *)
Fits == MaxFutures + 2 <= DequeSz
AllHome == Fits => \A t \in Tasks : Alive(t) => \E l \in Labels : t \in TasksAt(l)

HomeInv == Homed /\ Listed /\ AllHome

(* Outside X everything stays. *)
LEMMA SameElsewhere ==
  ASSUME NEW X,
         \A u \in VProcs : <<"runs", u>> \in X \/ running'[u] = running[u],
         \A u \in VProcs : <<"primary", u>> \in X \/ PrimaryContents(u)' = PrimaryContents(u),
         \A u \in VProcs : <<"answer", u>> \in X \/ ch'[u] = ch[u],
         \A u \in VProcs : <<"resumed", u>> \in X \/ OnDeques(resumeDeques'[u]) = OnDeques(resumeDeques[u]),
         \A k \in Futures : <<"blocked", k>> \in X \/ waiters'[k] = waiters[k]
  PROVE  \A l \in Labels \ X : TasksAt(l)' = TasksAt(l)
<1>. TAKE l \in Labels \ X
<1>1. ASSUME NEW v \in VProcs, l = <<"runs", v>> PROVE TasksAt(l)' = TasksAt(l)
  <2>1. <<"runs", v>> \notin X
    BY <1>1
  <2>2. running'[v] = running[v]
    BY <2>1
  <2>3. TasksAt(<<"runs", v>>)' = TasksAt(<<"runs", v>>)
    BY <2>2, RunsAt
  <2>. QED
    BY <1>1, <2>3
<1>2. ASSUME NEW v \in VProcs, l = <<"primary", v>> PROVE TasksAt(l)' = TasksAt(l)
  <2>1. <<"primary", v>> \notin X
    BY <1>2
  <2>2. PrimaryContents(v)' = PrimaryContents(v)
    BY <2>1
  <2>3. TasksAt(<<"primary", v>>)' = TasksAt(<<"primary", v>>)
    BY <2>2, PrimaryAt
  <2>. QED
    BY <1>2, <2>3
<1>3. ASSUME NEW v \in VProcs, l = <<"answer", v>> PROVE TasksAt(l)' = TasksAt(l)
  <2>1. <<"answer", v>> \notin X
    BY <1>3
  <2>2. ch'[v] = ch[v]
    BY <2>1
  <2>3. TasksAt(<<"answer", v>>)' = TasksAt(<<"answer", v>>)
    BY <2>2, AnswerAt
  <2>. QED
    BY <1>3, <2>3
<1>4. ASSUME NEW v \in VProcs, l = <<"resumed", v>> PROVE TasksAt(l)' = TasksAt(l)
  <2>1. <<"resumed", v>> \notin X
    BY <1>4
  <2>2. OnDeques(resumeDeques'[v]) = OnDeques(resumeDeques[v])
    BY <2>1
  <2>3. TasksAt(<<"resumed", v>>)' = TasksAt(<<"resumed", v>>)
    BY <2>2, ResumedAt
  <2>. QED
    BY <1>4, <2>3
<1>5. ASSUME NEW k \in Futures, l = <<"blocked", k>> PROVE TasksAt(l)' = TasksAt(l)
  <2>1. <<"blocked", k>> \notin X
    BY <1>5
  <2>2. waiters'[k] = waiters[k]
    BY <2>1
  <2>3. TasksAt(<<"blocked", k>>)' = TasksAt(<<"blocked", k>>)
    BY <2>2, BlockedAt
  <2>. QED
    BY <1>5, <2>3
<1>. QED
  BY <1>1, <1>2, <1>3, <1>4, <1>5, LabelIs

(* The tasks in M go from a to b. *)
Transfer(a, b, M) ==
  /\ a \in Labels /\ b \in Labels /\ a # b
  /\ M \subseteq TasksAt(a)
  /\ TasksAt(a)' = TasksAt(a) \ M
  /\ TasksAt(b)' \subseteq TasksAt(b) \union M
  /\ Fits => TasksAt(b)' = TasksAt(b) \union M
  /\ \A l \in Labels \ {a, b} : TasksAt(l)' = TasksAt(l)

Still == \A l \in Labels : TasksAt(l)' = TasksAt(l)

SameAlive == \A t : Alive(t)' <=> Alive(t)

LEMMA AliveSame ==
  ASSUME UNCHANGED program
  PROVE  SameAlive
BY DEF SameAlive, Alive, program

LEMMA StillHomed ==
  ASSUME Homed, AllHome, Still, SameAlive
  PROVE  Homed' /\ AllHome'
<1>1. Homed'
  BY DEF Homed, Still, SameAlive
<1>2. AllHome'
  BY DEF AllHome, Still, SameAlive
<1>. QED
  BY <1>1, <1>2

LEMMA TransferHomed ==
  ASSUME Homed, AllHome, NEW a, NEW b, NEW M, Transfer(a, b, M), SameAlive
  PROVE  Homed' /\ AllHome'
<1>1. /\ a \in Labels /\ b \in Labels /\ a # b
      /\ M \subseteq TasksAt(a)
      /\ TasksAt(a)' = TasksAt(a) \ M
      /\ TasksAt(b)' \subseteq TasksAt(b) \union M
      /\ Fits => TasksAt(b)' = TasksAt(b) \union M
      /\ \A l \in Labels \ {a, b} : TasksAt(l)' = TasksAt(l)
  BY DEF Transfer
<1>2. \A l \in Labels : l # b => TasksAt(l)' = TasksAt(l) \ M
  BY <1>1 DEF Homed
<1>3. \A l, m \in Labels : TasksAt(l)' \intersect TasksAt(m)' # {} => l = m
  <2>. SUFFICES ASSUME NEW l \in Labels, NEW m \in Labels, NEW t,
                       t \in TasksAt(l)', t \in TasksAt(m)'
                PROVE  l = m
    OBVIOUS
  <2>1. CASE t \in M
    BY <1>2, <2>1
  <2>2. CASE t \notin M
    <3>1. t \in TasksAt(l) /\ t \in TasksAt(m)
      BY <1>1, <1>2, <2>2
    <3>. QED
      BY <3>1 DEF Homed
  <2>. QED
    BY <2>1, <2>2
<1>4. \A l \in Labels : \A t \in TasksAt(l)' : t \in Tasks /\ Alive(t)'
  <2>. TAKE l \in Labels
  <2>1. ASSUME NEW t \in TasksAt(l)' PROVE \E m \in Labels : t \in TasksAt(m)
    BY <1>1, <1>2
  <2>. QED
    BY <2>1 DEF Homed, SameAlive
<1>5. ASSUME Fits, NEW t \in Tasks, Alive(t)' PROVE \E l \in Labels : t \in TasksAt(l)'
  <2>1. PICK l \in Labels : t \in TasksAt(l)
    BY <1>5 DEF AllHome, SameAlive
  <2>2. CASE t \in M
    BY <1>1, <1>5, <2>2
  <2>3. CASE t \notin M
    BY <1>1, <1>2, <1>5, <2>1, <2>3
  <2>. QED
    BY <2>2, <2>3
<1>6. Homed'
  BY <1>3, <1>4 DEF Homed
<1>7. AllHome'
  BY <1>5 DEF AllHome
<1>. QED
  BY <1>6, <1>7

(* Where t is not, there is room for it. *)
LEMMA RoomOn ==
  ASSUME NEW s \in Seq(Threads), Distinct(s), NEW t \in Tasks \ TasksOf(s)
  PROVE  Len(s) <= MaxFutures
<1>. DEFINE T == Tasks \ {t}
            f == [i \in DOMAIN s |-> s[i].task]
<1>1. Len(s) \in Nat /\ DOMAIN s = 1..Len(s) /\ \A i \in DOMAIN s : s[i] \in Threads
  BY LenProperties
<1>2. IsFiniteSet(T) /\ Cardinality(T) = MaxFutures
  <2>1. Tasks = 0..MaxFutures
    BY SizeAssumption DEF Tasks, Main, Futures
  <2>2. IsFiniteSet(0..MaxFutures) /\ Cardinality(0..MaxFutures) = MaxFutures + 1
    BY SizeAssumption, FS_Interval
  <2>3. IsFiniteSet(Tasks) /\ Cardinality(Tasks) = MaxFutures + 1
    BY <2>1, <2>2
  <2>4. /\ IsFiniteSet(Tasks \ {t})
        /\ Cardinality(Tasks \ {t}) = IF t \in Tasks THEN Cardinality(Tasks) - 1 ELSE Cardinality(Tasks)
    BY <2>3, FS_RemoveElement
  <2>5. MaxFutures + 1 - 1 = MaxFutures
    BY SizeAssumption
  <2>6. Cardinality(Tasks \ {t}) = MaxFutures
    <3>1. t \in Tasks
      OBVIOUS
    <3>2. Cardinality(Tasks \ {t}) = Cardinality(Tasks) - 1
      BY <2>4, <3>1
    <3>. QED
      BY <2>3, <3>2, SizeAssumption
  <2>. QED
    BY <2>4, <2>6
<1>3. f \in [DOMAIN s -> T]
  BY <1>1, ThreadFields DEF TasksOf
<1>4. \A i, j \in DOMAIN s : f[i] = f[j] => i = j
  BY DEF Distinct
<1>. HIDE DEF T, f
<1>5. f \in Injection(1..Len(s), T)
  BY <1>1, <1>3, <1>4 DEF Injection, IsInjective
<1>6. Cardinality(1..Len(s)) <= Cardinality(T)
  BY <1>2, <1>5, FS_Injection
<1>7. Cardinality(1..Len(s)) = Len(s)
  <2>1. Len(s) \in Int /\ 1 \in Int
    BY <1>1
  <2>2. Cardinality(1..Len(s)) = IF 1 > Len(s) THEN 0 ELSE Len(s) - 1 + 1
    BY <2>1, FS_Interval
  <2>. QED
    BY <1>1, <2>2
<1>. QED
  BY <1>2, <1>6, <1>7

LEMMA PushedHome ==
  ASSUME NEW s \in Seq(Threads), NEW th \in Threads, Distinct(s), th.task \notin TasksOf(s)
  PROVE  /\ PushedOn(s, th) \in Seq(Threads)
         /\ TasksOf(PushedOn(s, th)) \subseteq TasksOf(s) \union {th.task}
         /\ Fits => /\ PushedOn(s, th) = Append(s, th)
                    /\ TasksOf(PushedOn(s, th)) = TasksOf(s) \union {th.task}
         /\ Distinct(PushedOn(s, th))
<1>1. Fits => PushedOn(s, th) = Append(s, th)
  <2>1. Len(s) \in Nat /\ Len(s) <= MaxFutures
    BY RoomOn, ThreadFields, LenProperties
  <2>. QED
    BY <2>1, SizeAssumption DEF Fits, PushedOn
<1>. QED
  BY <1>1, PushedTasks, AppendTasks

----------------------------------------------------------------------------
(* Each effect moves tasks from one home to another. *)

LEMMA InitHomes == Init => HomeInv
<1>. SUFFICES ASSUME Init PROVE HomeInv
  OBVIOUS
<1>1. /\ \A v \in VProcs : running[v] = NoTask /\ PrimaryContents(v) = <<>> /\ ch[v] = <<>>
                           /\ resumeDeques[v] = <<>>
      /\ \A k \in Futures : waiters[k] = <<>> /\ calledBy[k] = NoTask
      /\ mainState = "outside"
  BY DEF Init, PrimaryContents
<1>2. \A l \in Labels : TasksAt(l) = {}
  <2>. TAKE l \in Labels
  <2>1. ASSUME NEW v \in VProcs
        PROVE  /\ TasksAt(<<"runs", v>>) = {} /\ TasksAt(<<"primary", v>>) = {}
               /\ TasksAt(<<"answer", v>>) = {} /\ TasksAt(<<"resumed", v>>) = {}
    BY <1>1, RunsAt, PrimaryAt, AnswerAt, ResumedAt, EmptyTasks, EmptyDequeList
  <2>2. ASSUME NEW k \in Futures PROVE TasksAt(<<"blocked", k>>) = {}
    BY <1>1, BlockedAt, EmptyTasks
  <2>. QED
    BY <2>1, <2>2, LabelIs
<1>3. \A t \in Tasks : ~ Alive(t)
  BY <1>1 DEF Alive, Tasks
<1>4. Listed
  BY <1>1, EmptyTasks, EmptyDequeList DEF Listed
<1>. QED
  BY <1>2, <1>3, <1>4 DEF HomeInv, Homed, AllHome

LEMMA OneLabel ==
  ASSUME Homed, NEW l \in Labels, NEW m \in Labels, l # m, NEW t \in TasksAt(l)
  PROVE  t \notin TasksAt(m)
BY DEF Homed

LEMMA ListedAfter ==
  ASSUME Listed, NEW v \in VProcs, NEW s, NewPrimary(v, s), Distinct(s),
         \A u \in VProcs : Apart(resumeDeques'[u]),
         \A k \in Futures : Distinct(waiters'[k])
  PROVE  Listed'
<1>1. \A u \in VProcs : PrimaryContents(u)' = IF u = v THEN s ELSE PrimaryContents(u)
  BY DEF NewPrimary
<1>2. \A u \in VProcs : Distinct(PrimaryContents(u)')
  BY <1>1 DEF Listed
<1>3. \A u \in VProcs : Distinct(PrimaryContents(u))'
  BY <1>2 DEF Distinct
<1>4. \A u \in VProcs : Apart(resumeDeques[u])'
  BY DEF Apart, TasksOf
<1>5. \A k \in Futures : Distinct(waiters[k])'
  BY DEF Distinct
<1>. QED
  BY <1>3, <1>4, <1>5 DEF Listed

LEMMA ListedStays ==
  ASSUME Listed, resumeDeques' = resumeDeques, waiters' = waiters
  PROVE  /\ \A u \in VProcs : Apart(resumeDeques'[u])
         /\ \A k \in Futures : Distinct(waiters'[k])
BY DEF Listed

(* Nothing moves. *)
LEMMA StaysHome ==
  ASSUME Typed, HomeInv, NEW v \in VProcs, Same(v),
         \A u \in VProcs : running'[u] = running[u],
         \A u \in VProcs : ch'[u] = ch[u],
         \A u \in VProcs : OnDeques(resumeDeques'[u]) = OnDeques(resumeDeques[u]),
         \A u \in VProcs : Apart(resumeDeques[u]) => Apart(resumeDeques'[u]),
         waiters' = waiters, SameAlive
  PROVE  HomeInv'
<1>1. \A u \in VProcs : PrimaryContents(u)' = PrimaryContents(u)
  BY DEF Same, NewPrimary
<1>2. Still
  <2>1. \A l \in Labels \ {} : TasksAt(l)' = TasksAt(l)
    BY <1>1, SameElsewhere
  <2>. QED
    BY <2>1 DEF Still
<1>3. Listed'
  BY ListedAfter DEF HomeInv, Listed, Same
<1>. QED
  BY <1>2, <1>3, StillHomed DEF HomeInv

LEMMA TakesNewestHome ==
  ASSUME Typed, HomeInv, NEW v \in VProcs, AtWork(v), NEW th \in Threads, TakesNewest(v, th)
  PROVE  HomeInv'
<1>. DEFINE s == PrimaryContents(v)
            a == <<"primary", v>>
            b == <<"runs", v>>
            M == {th.task}
<1>1. /\ s \in Seq(Threads) /\ s # <<>> /\ th = Last(s) /\ NewPrimary(v, Front(s)) /\ Distinct(s)
      /\ th.task # NoTask
      /\ running' = [running EXCEPT ![v] = th.task] /\ running[v] = NoTask
      /\ resumeDeques' = resumeDeques /\ ch' = ch /\ waiters' = waiters /\ UNCHANGED program
  BY PrimaryIs, ThreadFields, SizeAssumption
     DEF TakesNewest, HomeInv, Listed, program, AtWork, Tasks, Main, Futures, NoTask
<1>. HIDE DEF s
<1>2. TasksOf(Front(s)) = TasksOf(s) \ M /\ th.task \in TasksOf(s) /\ Distinct(Front(s))
  BY <1>1, FrontTasks
<1>3. Transfer(a, b, M)
  <2>1. TasksAt(a) = TasksOf(s) /\ TasksAt(a)' = TasksOf(Front(s))
    BY <1>1, PrimaryAt DEF NewPrimary, s
  <2>2. TasksAt(b) = {} /\ TasksAt(b)' = M
    BY <1>1, RunsAt DEF Typed
  <2>3. \A l \in Labels \ {a, b} : TasksAt(l)' = TasksAt(l)
    BY <1>1, SameElsewhere DEF NewPrimary, Typed
  <2>. QED
    BY <1>2, <2>1, <2>2, <2>3, LabelIs DEF Transfer
<1>4. Listed'
  BY <1>1, <1>2, ListedStays, ListedAfter DEF HomeInv
<1>. QED
  BY <1>1, <1>3, <1>4, AliveSame, TransferHomed DEF HomeInv

LEMMA TakesAnswerHome ==
  ASSUME Typed, HomeInv, NEW v \in VProcs, NEW th \in Threads, TakesAnswer(v, th)
  PROVE  HomeInv'
<1>. DEFINE s == PrimaryContents(v)
            a == <<"answer", v>>
            b == <<"primary", v>>
            M == {th.task}
<1>1. /\ s \in Seq(Threads) /\ NewPrimary(v, PushedOn(s, th)) /\ Distinct(s)
      /\ ch[v] = <<th>> /\ ch' = [ch EXCEPT ![v] = <<>>]
      /\ resumeDeques' = resumeDeques /\ running' = running /\ waiters' = waiters
      /\ UNCHANGED program
  BY PrimaryIs DEF TakesAnswer, HomeInv, Listed, program
<1>2. TasksAt(a) = M /\ TasksAt(a)' = {}
  BY <1>1, AnswerAt, OneTask, EmptyTasks DEF Typed
<1>3. th.task \notin TasksOf(s)
  <2>1. th.task \in TasksAt(a) /\ a \in Labels /\ b \in Labels /\ a # b
    BY <1>2, LabelIs
  <2>2. th.task \notin TasksAt(b)
    BY <2>1, OneLabel DEF HomeInv
  <2>. QED
    BY <2>2, PrimaryAt
<1>. HIDE DEF s
<1>4. /\ TasksOf(PushedOn(s, th)) \subseteq TasksOf(s) \union M
      /\ Fits => TasksOf(PushedOn(s, th)) = TasksOf(s) \union M
      /\ Distinct(PushedOn(s, th))
  BY <1>1, <1>3, PushedHome
<1>5. Transfer(a, b, M)
  <2>1. TasksAt(b) = TasksOf(s) /\ TasksAt(b)' = TasksOf(PushedOn(s, th))
    BY <1>1, PrimaryAt DEF NewPrimary, s
  <2>3. \A l \in Labels \ {a, b} : TasksAt(l)' = TasksAt(l)
    BY <1>1, SameElsewhere DEF NewPrimary, Typed
  <2>. QED
    BY <1>2, <1>4, <2>1, <2>3, LabelIs DEF Transfer
<1>6. Listed'
  BY <1>1, <1>4, ListedStays, ListedAfter DEF HomeInv
<1>. QED
  BY <1>1, <1>5, <1>6, AliveSame, TransferHomed DEF HomeInv

LEMMA TakesResumedHome ==
  ASSUME Typed, HomeInv, NEW v \in VProcs, NEW th \in Threads, NEW ds \in DequeLists,
         TakesResumed(v, th, ds)
  PROVE  HomeInv'
<1>. DEFINE s == PrimaryContents(v)
            a == <<"resumed", v>>
            b == <<"primary", v>>
            M == {th.task}
<1>1. /\ s \in Seq(Threads) /\ NewPrimary(v, PushedOn(s, th)) /\ Distinct(s)
      /\ Took(resumeDeques[v], ds, th) /\ NewResumed(v, ds)
      /\ resumeDeques[v] \in DequeLists /\ Apart(resumeDeques[v])
      /\ running' = running /\ ch' = ch /\ waiters' = waiters /\ UNCHANGED program
  BY PrimaryIs DEF TakesResumed, HomeInv, Listed, Typed, program
<1>2. /\ th.task \in OnDeques(resumeDeques[v])
      /\ OnDeques(ds) = OnDeques(resumeDeques[v]) \ M /\ Apart(ds)
  BY <1>1, TookTasks
<1>3. resumeDeques'[v] = ds /\ \A u \in VProcs : u # v => resumeDeques'[u] = resumeDeques[u]
  BY <1>1, ResumedTyped
<1>4. TasksAt(a) = OnDeques(resumeDeques[v]) /\ TasksAt(a)' = OnDeques(ds)
  BY <1>3, ResumedAt
<1>5. th.task \notin TasksOf(s)
  <2>1. a \in Labels /\ b \in Labels /\ a # b /\ th.task \in TasksAt(a) /\ Homed
    BY <1>2, <1>4, LabelIs DEF HomeInv
  <2>2. th.task \notin TasksAt(b)
    BY <2>1, OneLabel
  <2>. QED
    BY <2>2, PrimaryAt
<1>. HIDE DEF s
<1>6. /\ TasksOf(PushedOn(s, th)) \subseteq TasksOf(s) \union M
      /\ Fits => TasksOf(PushedOn(s, th)) = TasksOf(s) \union M
      /\ Distinct(PushedOn(s, th))
  BY <1>1, <1>5, PushedHome
<1>7. Transfer(a, b, M)
  <2>1. TasksAt(b) = TasksOf(s) /\ TasksAt(b)' = TasksOf(PushedOn(s, th))
    BY <1>1, PrimaryAt DEF NewPrimary, s
  <2>3. \A l \in Labels \ {a, b} : TasksAt(l)' = TasksAt(l)
    BY <1>1, <1>3, SameElsewhere DEF NewPrimary
  <2>. QED
    BY <1>2, <1>4, <1>6, <2>1, <2>3, LabelIs DEF Transfer
<1>8. Listed'
  <2>1. \A u \in VProcs : Apart(resumeDeques'[u])
    BY <1>2, <1>3 DEF HomeInv, Listed
  <2>2. \A k \in Futures : Distinct(waiters'[k])
    BY <1>1 DEF HomeInv, Listed
  <2>. QED
    BY <1>1, <1>6, <2>1, <2>2, ListedAfter DEF HomeInv
<1>. QED
  BY <1>1, <1>7, <1>8, AliveSame, TransferHomed DEF HomeInv

LEMMA ThiefTakesResumedHome ==
  ASSUME Typed, HomeInv, NEW v \in VProcs, NEW w \in VProcs, NEW th \in Threads,
         NEW ds \in DequeLists, ch[v] = <<>>, ThiefTakesResumed(w, v, th, ds)
  PROVE  HomeInv'
<1>. DEFINE a == <<"resumed", w>>
            b == <<"answer", v>>
            M == {th.task}
<1>1. /\ primary' = primary
      /\ Took(resumeDeques[w], ds, th) /\ NewResumed(w, ds)
      /\ resumeDeques[w] \in DequeLists /\ Apart(resumeDeques[w])
      /\ ch' = [ch EXCEPT ![v] = <<th>>]
      /\ running' = running /\ waiters' = waiters /\ UNCHANGED program
  BY DEF ThiefTakesResumed, HomeInv, Listed, Typed, program, worker
<1>2. /\ th.task \in OnDeques(resumeDeques[w])
      /\ OnDeques(ds) = OnDeques(resumeDeques[w]) \ M /\ Apart(ds)
  BY <1>1, TookTasks
<1>3. resumeDeques'[w] = ds /\ \A u \in VProcs : u # w => resumeDeques'[u] = resumeDeques[u]
  BY <1>1, ResumedTyped
<1>4. NewPrimary(v, PrimaryContents(v)) /\ \A u \in VProcs : PrimaryContents(u)' = PrimaryContents(u)
  BY <1>1, PrimaryStays DEF PrimaryContents
<1>7. Transfer(a, b, M)
  <2>1. TasksAt(b) = {} /\ TasksAt(b)' = M
    BY <1>1, AnswerAt, OneTask, EmptyTasks DEF Typed
  <2>2. TasksAt(a) = OnDeques(resumeDeques[w]) /\ TasksAt(a)' = OnDeques(ds)
    BY <1>3, ResumedAt
  <2>3. \A l \in Labels \ {a, b} : TasksAt(l)' = TasksAt(l)
    BY <1>1, <1>3, <1>4, SameElsewhere DEF Typed
  <2>. QED
    BY <1>2, <2>1, <2>2, <2>3, LabelIs DEF Transfer
<1>8. Listed'
  <2>1. \A u \in VProcs : Apart(resumeDeques'[u])
    BY <1>2, <1>3 DEF HomeInv, Listed
  <2>2. \A k \in Futures : Distinct(waiters'[k])
    BY <1>1 DEF HomeInv, Listed
  <2>3. Distinct(PrimaryContents(v)) /\ Listed
    BY DEF HomeInv, Listed
  <2>. QED
    BY <1>4, <2>1, <2>2, <2>3, ListedAfter
<1>. QED
  BY <1>1, <1>7, <1>8, AliveSame, TransferHomed DEF HomeInv

LEMMA ThiefTakesOldestHome ==
  ASSUME Typed, HomeInv, NEW v \in VProcs, NEW w \in VProcs, NEW th \in Threads,
         ch[v] = <<>>, ThiefTakesOldest(w, v, th)
  PROVE  HomeInv'
<1>. DEFINE s == PrimaryContents(w)
            a == <<"primary", w>>
            b == <<"answer", v>>
            M == {th.task}
<1>1. /\ s \in Seq(Threads) /\ Len(s) > 1 /\ th = Head(s) /\ NewPrimary(w, Tail(s)) /\ Distinct(s)
      /\ ch' = [ch EXCEPT ![v] = <<th>>]
      /\ resumeDeques' = resumeDeques /\ running' = running /\ waiters' = waiters
      /\ UNCHANGED program
  BY PrimaryIs DEF ThiefTakesOldest, HomeInv, Listed, program, worker
<1>. HIDE DEF s
<1>2. TasksOf(Tail(s)) = TasksOf(s) \ M /\ th.task \in TasksOf(s) /\ Distinct(Tail(s))
  <2>1. s # <<>>
    BY <1>1, EmptySeq
  <2>. QED
    BY <1>1, <2>1, TailTasks
<1>3. Transfer(a, b, M)
  <2>1. TasksAt(a) = TasksOf(s) /\ TasksAt(a)' = TasksOf(Tail(s))
    BY <1>1, PrimaryAt DEF NewPrimary, s
  <2>2. TasksAt(b) = {} /\ TasksAt(b)' = M
    BY <1>1, AnswerAt, OneTask, EmptyTasks DEF Typed
  <2>3. \A l \in Labels \ {a, b} : TasksAt(l)' = TasksAt(l)
    BY <1>1, SameElsewhere DEF NewPrimary, Typed
  <2>. QED
    BY <1>2, <2>1, <2>2, <2>3, LabelIs DEF Transfer
<1>4. Listed'
  BY <1>1, <1>2, ListedStays, ListedAfter DEF HomeInv
<1>. QED
  BY <1>1, <1>3, <1>4, AliveSame, TransferHomed DEF HomeInv

LEMMA PreemptsHome ==
  ASSUME Typed, HomeInv, NEW v \in VProcs, \A u \in VProcs : AtWork(u), Preempts(v)
  PROVE  HomeInv'
<1>. DEFINE s == PrimaryContents(v)
            t == running[v]
            th == Thread(t, NoTask)
            a == <<"runs", v>>
            b == <<"primary", v>>
            M == {t}
<1>0. t # NoTask /\ th \in Threads /\ th.task = t
  <2>1. t # NoTask
    BY DEF Preempts, AtWork
  <2>. QED
    BY <2>1, RunningTask, ThreadFields
<1>1. /\ s \in Seq(Threads) /\ NewPrimary(v, PushedOn(s, th)) /\ Distinct(s)
      /\ running' = [running EXCEPT ![v] = NoTask]
      /\ resumeDeques' = resumeDeques /\ ch' = ch /\ waiters' = waiters
      /\ UNCHANGED program
  BY PrimaryIs DEF Preempts, HomeInv, Listed, program
<1>2. TasksAt(a) = M /\ TasksAt(a)' = {}
  BY <1>0, <1>1, RunsAt DEF Typed
<1>3. t \notin TasksOf(s)
  <2>1. t \in TasksAt(a) /\ a \in Labels /\ b \in Labels /\ a # b
    BY <1>2, LabelIs
  <2>2. t \notin TasksAt(b)
    BY <2>1, OneLabel DEF HomeInv
  <2>. QED
    BY <2>2, PrimaryAt
<1>. HIDE DEF s, t, th
<1>4. /\ TasksOf(PushedOn(s, th)) \subseteq TasksOf(s) \union M
      /\ Fits => TasksOf(PushedOn(s, th)) = TasksOf(s) \union M
      /\ Distinct(PushedOn(s, th))
  BY <1>0, <1>1, <1>3, PushedHome
<1>5. Transfer(a, b, M)
  <2>1. TasksAt(b) = TasksOf(s) /\ TasksAt(b)' = TasksOf(PushedOn(s, th))
    BY <1>1, PrimaryAt DEF NewPrimary, s
  <2>3. \A l \in Labels \ {a, b} : TasksAt(l)' = TasksAt(l)
    BY <1>1, SameElsewhere DEF NewPrimary, Typed
  <2>. QED
    BY <1>2, <1>4, <2>1, <2>3, LabelIs DEF Transfer
<1>6. Listed'
  BY <1>1, <1>4, ListedStays, ListedAfter DEF HomeInv
<1>. QED
  BY <1>1, <1>5, <1>6, AliveSame, TransferHomed DEF HomeInv

(* Who blocks heads the list. *)
LEMMA HeadTasks ==
  ASSUME NEW s \in Seq(Threads), NEW th \in Threads
  PROVE  /\ TasksOf(<<th>> \o s) = TasksOf(s) \union {th.task}
         /\ Distinct(s) /\ th.task \notin TasksOf(s) => Distinct(<<th>> \o s)
<1>. DEFINE n == Len(s)
            a == <<th>> \o s
<1>1. n \in Nat /\ DOMAIN s = 1..n /\ <<th>> \in Seq(Threads) /\ Len(<<th>>) = 1 /\ <<th>>[1] = th
  BY LenProperties, OneTask, OneThread
<1>2. /\ a \in Seq(Threads) /\ DOMAIN a = 1..(1 + n)
      /\ \A i \in 1..(1 + n) : a[i] = IF i <= 1 THEN <<th>>[i] ELSE s[i - 1]
  BY <1>1, ConcatProperties, LenProperties
<1>. HIDE DEF n, a
<1>3. a[1] = th /\ \A i \in 1..n : i + 1 \in 1..(1 + n) /\ i + 1 # 1 /\ a[i + 1] = s[i]
  <2>1. 1 \in 1..(1 + n) /\ \A i \in 1..n : i + 1 \in 1..(1 + n) /\ ~ (i + 1 <= 1) /\ i + 1 - 1 = i
    BY <1>1
  <2>. QED
    BY <1>1, <1>2, <2>1
<1>4. \A i \in 1..(1 + n) : i = 1 \/ \E j \in 1..n : i = j + 1
  <2>1. \A i \in 1..(1 + n) : i # 1 => i - 1 \in 1..n /\ i = (i - 1) + 1
    BY <1>1
  <2>. QED
    BY <2>1
<1>5. 1 \in 1..(1 + n)
  BY <1>1
<1>6. \A i \in 1..(1 + n) : \/ i = 1 /\ a[i] = th
                            \/ \E j \in 1..n : i = j + 1 /\ a[i] = s[j]
  BY <1>3, <1>4
<1>7. TasksOf(a) = TasksOf(s) \union {th.task}
  <2>1. ASSUME NEW x \in TasksOf(a) PROVE x \in TasksOf(s) \union {th.task}
    <3>1. PICK i \in 1..(1 + n) : x = a[i].task
      BY <1>2 DEF TasksOf
    <3>2. CASE i = 1 /\ a[i] = th
      BY <3>1, <3>2
    <3>3. CASE \E j \in 1..n : i = j + 1 /\ a[i] = s[j]
      BY <1>1, <3>1, <3>3 DEF TasksOf
    <3>. QED
      BY <1>6, <3>2, <3>3
  <2>2. ASSUME NEW x \in TasksOf(s) PROVE x \in TasksOf(a)
    <3>1. PICK i \in 1..n : x = s[i].task
      BY <1>1 DEF TasksOf
    <3>2. i + 1 \in DOMAIN a /\ a[i + 1] = s[i]
      BY <1>2, <1>3
    <3>. QED
      BY <3>1, <3>2 DEF TasksOf
  <2>3. th.task \in TasksOf(a)
    BY <1>2, <1>3, <1>5 DEF TasksOf
  <2>. QED
    BY <2>1, <2>2, <2>3
<1>8. ASSUME Distinct(s), th.task \notin TasksOf(s)
      PROVE  Distinct(a)
  <2>1. \A j \in 1..n : s[j].task # th.task
    BY <1>1, <1>8 DEF TasksOf
  <2>. SUFFICES ASSUME NEW i \in 1..(1 + n), NEW j \in 1..(1 + n), a[i].task = a[j].task
                PROVE  i = j
    BY <1>2 DEF Distinct
  <2>2. CASE i = 1 /\ a[i] = th /\ j = 1
    BY <2>2
  <2>3. CASE i = 1 /\ a[i] = th /\ \E l \in 1..n : j = l + 1 /\ a[j] = s[l]
    BY <2>1, <2>3
  <2>4. CASE (\E l \in 1..n : i = l + 1 /\ a[i] = s[l]) /\ j = 1 /\ a[j] = th
    BY <2>1, <2>4
  <2>5. CASE /\ \E l \in 1..n : i = l + 1 /\ a[i] = s[l]
             /\ \E l \in 1..n : j = l + 1 /\ a[j] = s[l]
    <3>1. PICK x \in 1..n : i = x + 1 /\ a[i] = s[x]
      BY <2>5
    <3>2. PICK y \in 1..n : j = y + 1 /\ a[j] = s[y]
      BY <2>5
    <3>3. x = y
      BY <1>1, <1>8, <3>1, <3>2 DEF Distinct
    <3>. QED
      BY <3>1, <3>2, <3>3
  <2>. QED
    BY <1>6, <2>2, <2>3, <2>4, <2>5
<1>. QED
  BY <1>7, <1>8 DEF a

LEMMA TouchHome ==
  ASSUME Typed, HomeInv, NEW v \in VProcs, \A u \in VProcs : AtWork(u),
         NEW k \in Futures, TouchEmpty(v, k)
  PROVE  HomeInv'
<1>. DEFINE s == waiters[k]
            t == running[v]
            th == Thread(t, NoTask)
            a == <<"runs", v>>
            b == <<"blocked", k>>
            M == {t}
<1>0. t # NoTask /\ th \in Threads /\ th.task = t
  <2>1. t # NoTask
    BY DEF TouchEmpty
  <2>. QED
    BY <2>1, RunningTask, ThreadFields
<1>1. /\ s \in Seq(Threads) /\ Distinct(s) /\ waiters' = [waiters EXCEPT ![k] = <<th>> \o s]
      /\ running' = [running EXCEPT ![v] = NoTask]
      /\ primary' = primary /\ resumeDeques' = resumeDeques /\ ch' = ch
      /\ calledBy' = calledBy /\ done' = done /\ mainState' = mainState
  <2>1. Captured \subseteq Threads
    BY DEF Captured
  <2>2. Seq(Captured) \subseteq Seq(Threads)
    BY <2>1, SeqMonotonic
  <2>. QED
    BY <2>2 DEF TouchEmpty, BackToWorker, HomeInv, Listed, Typed, deques
<1>2. TasksAt(a) = M /\ TasksAt(a)' = {}
  BY <1>0, <1>1, RunsAt DEF Typed
<1>3. t \notin TasksOf(s)
  <2>1. t \in TasksAt(a) /\ a \in Labels /\ b \in Labels /\ a # b
    BY <1>2, LabelIs
  <2>2. t \notin TasksAt(b)
    BY <2>1, OneLabel DEF HomeInv
  <2>. QED
    BY <2>2, BlockedAt
<1>4. NewPrimary(v, PrimaryContents(v)) /\ \A u \in VProcs : PrimaryContents(u)' = PrimaryContents(u)
  BY <1>1, PrimaryStays DEF PrimaryContents
<1>5. waiters'[k] = <<th>> \o s /\ \A j \in Futures : j # k => waiters'[j] = waiters[j]
  BY <1>1 DEF Typed
<1>. HIDE DEF s, t, th
<1>6. TasksOf(<<th>> \o s) = TasksOf(s) \union M /\ Distinct(<<th>> \o s)
  BY <1>0, <1>1, <1>3, HeadTasks
<1>7. Transfer(a, b, M)
  <2>1. TasksAt(b) = TasksOf(s) /\ TasksAt(b)' = TasksOf(<<th>> \o s)
    BY <1>5, BlockedAt DEF s
  <2>2. /\ \A u \in VProcs : <<"runs", u>> \in {a, b} \/ running'[u] = running[u]
        /\ \A j \in Futures : <<"blocked", j>> \in {a, b} \/ waiters'[j] = waiters[j]
    BY <1>1, <1>5 DEF Typed
  <2>3. \A l \in Labels \ {a, b} : TasksAt(l)' = TasksAt(l)
    BY <1>1, <1>4, <2>2, SameElsewhere
  <2>. QED
    BY <1>2, <1>6, <2>1, <2>3, LabelIs DEF Transfer
<1>8. Listed'
  <2>1. Listed /\ Distinct(PrimaryContents(v)) /\ \A u \in VProcs : Apart(resumeDeques'[u])
    BY <1>1 DEF HomeInv, Listed
  <2>2. \A j \in Futures : Distinct(waiters'[j])
    BY <1>5, <1>6 DEF HomeInv, Listed
  <2>. QED
    BY <1>4, <2>1, <2>2, ListedAfter
<1>9. SameAlive
  BY <1>1 DEF SameAlive, Alive
<1>. QED
  BY <1>7, <1>8, <1>9, TransferHomed DEF HomeInv

(* Every task has stayed, come to one place, or gone. *)
LEMMA MovesHomed ==
  ASSUME Homed,
         \A t : \/ \A l \in Labels : t \in TasksAt(l)' => t \in TasksAt(l)
                \/ \E b : \A l \in Labels : t \in TasksAt(l)' => l = b,
         \A l \in Labels : \A t \in TasksAt(l)' : t \in Tasks /\ Alive(t)'
  PROVE  Homed'
<1>1. \A l, m \in Labels : TasksAt(l)' \intersect TasksAt(m)' # {} => l = m
  <2>. SUFFICES ASSUME NEW l \in Labels, NEW m \in Labels, NEW t,
                       t \in TasksAt(l)', t \in TasksAt(m)'
                PROVE  l = m
    OBVIOUS
  <2>1. CASE \A x \in Labels : t \in TasksAt(x)' => t \in TasksAt(x)
    <3>1. t \in TasksAt(l) /\ t \in TasksAt(m)
      BY <2>1
    <3>. QED
      BY <3>1 DEF Homed
  <2>2. CASE \E b : \A x \in Labels : t \in TasksAt(x)' => x = b
    BY <2>2
  <2>. QED
    BY <2>1, <2>2
<1>. QED
  BY <1>1 DEF Homed

LEMMA TaskKinds ==
  /\ Main \in Tasks /\ Main # NoTask /\ Main \notin Futures
  /\ \A k \in Futures : k \in Tasks /\ k # Main /\ k # NoTask /\ k \in Nat
  /\ \A t \in Tasks : t = Main \/ t \in Futures
  /\ NoTask \notin Tasks
BY SizeAssumption DEF Tasks, Main, NoTask, Futures

LEMMA BeginsHome ==
  ASSUME Typed, HomeInv, NEW v \in VProcs, Begins(v)
  PROVE  HomeInv'
<1>. DEFINE s == PrimaryContents(v)
            th == Thread(Main, NoTask)
            b == <<"primary", v>>
<1>1. /\ s \in Seq(Threads) /\ NewPrimary(v, PushedOn(s, th)) /\ Distinct(s)
      /\ running' = running /\ resumeDeques' = resumeDeques /\ ch' = ch /\ waiters' = waiters
      /\ calledBy' = calledBy /\ done' = done /\ mainState = "outside" /\ mainState' = "begun"
  BY PrimaryIs DEF Begins, HomeInv, Listed, worker
<1>2. th \in Threads /\ th.task = Main
  BY ThreadFields, TaskKinds
<1>3. \A l \in Labels : Main \notin TasksAt(l)
  <2>1. ~ Alive(Main)
    BY <1>1 DEF Alive
  <2>. QED
    BY <2>1 DEF HomeInv, Homed
<1>4. b \in Labels /\ TasksAt(b) = TasksOf(s) /\ TasksAt(b)' = TasksOf(PushedOn(s, th))
  BY <1>1, PrimaryAt, LabelIs DEF NewPrimary
<1>. HIDE DEF s, th
<1>5. /\ TasksOf(PushedOn(s, th)) \subseteq TasksOf(s) \union {Main}
      /\ Fits => TasksOf(PushedOn(s, th)) = TasksOf(s) \union {Main}
      /\ Distinct(PushedOn(s, th))
  BY <1>1, <1>2, <1>3, <1>4, PushedHome
<1>6. \A l \in Labels \ {b} : TasksAt(l)' = TasksAt(l)
  BY <1>1, SameElsewhere DEF NewPrimary
<1>. HIDE DEF b
<1>7. /\ \A t : t # Main => (Alive(t)' <=> Alive(t))
      /\ Alive(Main)'
  BY <1>1 DEF Alive
<1>8. Homed'
  <2>1. ASSUME NEW t
        PROVE  \/ \A l \in Labels : t \in TasksAt(l)' => t \in TasksAt(l)
               \/ \E x : \A l \in Labels : t \in TasksAt(l)' => l = x
    BY <1>3, <1>4, <1>5, <1>6
  <2>2. \A l \in Labels : \A t \in TasksAt(l)' : t \in Tasks /\ Alive(t)'
    BY <1>3, <1>4, <1>5, <1>6, <1>7, TaskKinds DEF HomeInv, Homed
  <2>. QED
    BY <2>1, <2>2, MovesHomed DEF HomeInv
<1>9. ASSUME Fits, NEW t \in Tasks, Alive(t)'
      PROVE  \E l \in Labels : t \in TasksAt(l)'
  <2>1. CASE t = Main
    BY <1>4, <1>5, <1>9, <2>1
  <2>2. CASE t # Main
    <3>1. PICK l \in Labels : t \in TasksAt(l)
      BY <1>7, <1>9, <2>2 DEF HomeInv, AllHome
    <3>2. t \in TasksAt(l)'
      BY <1>4, <1>5, <1>6, <1>9, <3>1
    <3>. QED
      BY <3>2
  <2>. QED
    BY <2>1, <2>2
<1>10. Listed'
  BY <1>1, <1>5, ListedStays, ListedAfter DEF HomeInv
<1>. QED
  BY <1>8, <1>9, <1>10 DEF HomeInv, AllHome

LEMMA CallsHome ==
  ASSUME Typed, HomeInv, NEW v \in VProcs, \A u \in VProcs : AtWork(u),
         NEW k \in Futures, k \notin done, Calls(v, k)
  PROVE  HomeInv'
<1>. DEFINE s == PrimaryContents(v)
            t == running[v]
            th == Thread(t, k)
            a == <<"runs", v>>
            b == <<"primary", v>>
<1>0. t \in Tasks /\ t # NoTask /\ th \in Threads /\ th.task = t
  <2>1. t # NoTask
    BY DEF Calls
  <2>. QED
    BY <2>1, RunningTask, ThreadFields
<1>1. /\ s \in Seq(Threads) /\ NewPrimary(v, PushedOn(s, th)) /\ Distinct(s)
      /\ running' = [running EXCEPT ![v] = k]
      /\ resumeDeques' = resumeDeques /\ ch' = ch /\ waiters' = waiters
      /\ calledBy[k] = NoTask /\ calledBy' = [calledBy EXCEPT ![k] = t]
      /\ done' = done /\ mainState' = mainState
  BY PrimaryIs DEF Calls, HomeInv, Listed
<1>2. /\ a \in Labels /\ b \in Labels /\ a # b
      /\ TasksAt(a) = {t} /\ TasksAt(a)' = {k}
  BY <1>0, <1>1, RunsAt, LabelIs, TaskKinds DEF Typed
<1>3. \A l \in Labels : k \notin TasksAt(l)
  <2>1. ~ Alive(k)
    BY <1>1, TaskKinds DEF Alive
  <2>. QED
    BY <2>1 DEF HomeInv, Homed
<1>4. TasksAt(b) = TasksOf(s) /\ TasksAt(b)' = TasksOf(PushedOn(s, th))
  BY <1>1, PrimaryAt, LabelIs DEF NewPrimary
<1>5. \A l \in Labels \ {a, b} : TasksAt(l)' = TasksAt(l)
  BY <1>1, SameElsewhere DEF NewPrimary, Typed
<1>6. /\ \A x : x # k => (Alive(x)' <=> Alive(x))
      /\ Alive(k)'
  BY <1>0, <1>1, TaskKinds DEF Alive, Typed
<1>. HIDE DEF s, t, th, a, b
<1>7. t \notin TasksOf(s)
  BY <1>2, <1>4, OneLabel DEF HomeInv
<1>8. /\ TasksOf(PushedOn(s, th)) \subseteq TasksOf(s) \union {t}
      /\ Fits => TasksOf(PushedOn(s, th)) = TasksOf(s) \union {t}
      /\ Distinct(PushedOn(s, th))
  BY <1>0, <1>1, <1>7, PushedHome
<1>9. t # k /\ Alive(t)
  BY <1>2, <1>3 DEF HomeInv, Homed
<1>10. \A l \in Labels : l # a => t \notin TasksAt(l)
  BY <1>2, OneLabel DEF HomeInv
<1>11. Homed'
  <2>1. ASSUME NEW x
        PROVE  \/ \A l \in Labels : x \in TasksAt(l)' => x \in TasksAt(l)
               \/ \E y : \A l \in Labels : x \in TasksAt(l)' => l = y
    <3>1. CASE x = k
      BY <1>2, <1>3, <1>4, <1>5, <1>8, <1>9, <3>1
    <3>2. CASE x = t
      BY <1>2, <1>4, <1>5, <1>9, <1>10, <3>2
    <3>3. CASE x # k /\ x # t
      BY <1>2, <1>4, <1>5, <1>8, <3>3
    <3>. QED
      BY <3>1, <3>2, <3>3
  <2>2. \A l \in Labels : \A x \in TasksAt(l)' : x \in Tasks /\ Alive(x)'
    <3>. SUFFICES ASSUME NEW l \in Labels, NEW x \in TasksAt(l)' PROVE x \in Tasks /\ Alive(x)'
      OBVIOUS
    <3>1. x = k \/ \E m \in Labels : x \in TasksAt(m)
      BY <1>2, <1>4, <1>5, <1>8
    <3>. QED
      BY <1>6, <3>1, TaskKinds DEF HomeInv, Homed
  <2>. QED
    BY <2>1, <2>2, MovesHomed DEF HomeInv
<1>12. ASSUME Fits, NEW x \in Tasks, Alive(x)'
       PROVE  \E l \in Labels : x \in TasksAt(l)'
  <2>1. CASE x = k
    BY <1>2, <2>1
  <2>2. CASE x # k
    <3>1. PICK l \in Labels : x \in TasksAt(l)
      BY <1>6, <1>12, <2>2 DEF HomeInv, AllHome
    <3>2. CASE l = a
      BY <1>2, <1>4, <1>8, <1>12, <3>1, <3>2
    <3>3. CASE l # a
      <4>1. x \in TasksAt(l)'
        BY <1>4, <1>5, <1>8, <1>12, <3>1, <3>3
      <4>. QED
        BY <4>1
    <3>. QED
      BY <3>2, <3>3
  <2>. QED
    BY <2>1, <2>2
<1>13. Listed'
  BY <1>1, <1>8, ListedStays, ListedAfter DEF HomeInv
<1>. QED
  BY <1>11, <1>12, <1>13 DEF HomeInv, AllHome

LEMMA EndMainHome ==
  ASSUME Typed, HomeInv, NEW v \in VProcs, EndMain(v)
  PROVE  HomeInv'
<1>. DEFINE a == <<"runs", v>>
<1>1. /\ running[v] = Main /\ running' = [running EXCEPT ![v] = NoTask]
      /\ primary' = primary /\ resumeDeques' = resumeDeques /\ ch' = ch /\ waiters' = waiters
      /\ calledBy' = calledBy /\ done' = done /\ mainState' = "left"
  BY DEF EndMain, BackToWorker, deques
<1>2. a \in Labels /\ TasksAt(a) = {Main} /\ TasksAt(a)' = {}
  BY <1>1, RunsAt, LabelIs, TaskKinds DEF Typed
<1>3. \A u \in VProcs : PrimaryContents(u)' = PrimaryContents(u)
  BY <1>1 DEF PrimaryContents
<1>4. NewPrimary(v, PrimaryContents(v))
  BY <1>1, PrimaryStays
<1>5. \A l \in Labels \ {a} : TasksAt(l)' = TasksAt(l)
  BY <1>1, <1>3, SameElsewhere DEF Typed
<1>6. /\ \A t : t # Main => (Alive(t)' <=> Alive(t))
      /\ ~ Alive(Main)'
  BY <1>1 DEF Alive
<1>. HIDE DEF a
<1>7. \A l \in Labels : TasksAt(l)' = TasksAt(l) \ {Main}
  <2>1. \A l \in Labels : l # a => Main \notin TasksAt(l)
    BY <1>2, OneLabel DEF HomeInv
  <2>. QED
    BY <1>2, <1>5, <2>1
<1>8. Homed'
  <2>1. \A t : \A l \in Labels : t \in TasksAt(l)' => t \in TasksAt(l)
    BY <1>7
  <2>2. \A l \in Labels : \A t \in TasksAt(l)' : t \in Tasks /\ Alive(t)'
    BY <1>6, <1>7 DEF HomeInv, Homed
  <2>. QED
    BY <2>1, <2>2, MovesHomed DEF HomeInv
<1>9. AllHome'
  BY <1>6, <1>7 DEF HomeInv, AllHome
<1>10. Listed'
  <2>1. Listed /\ Distinct(PrimaryContents(v))
    BY DEF HomeInv, Listed
  <2>. QED
    BY <1>1, <1>4, <2>1, ListedStays, ListedAfter
<1>. QED
  BY <1>8, <1>9, <1>10 DEF HomeInv

(* What the end of the body of k makes of who is alive. *)
LEMMA AliveAfter ==
  ASSUME NEW k \in Futures, done' = done \union {k}, calledBy' = calledBy, mainState' = mainState
  PROVE  /\ \A t : t # k => (Alive(t)' <=> Alive(t))
         /\ ~ Alive(k)'
BY TaskKinds DEF Alive

LEMMA GoesOnHome ==
  ASSUME Typed, HomeInv, NEW v \in VProcs, NEW k \in Futures, GoesOn(v, k)
  PROVE  HomeInv'
<1>. DEFINE s == PrimaryContents(v)
            c == calledBy[k]
            a == <<"primary", v>>
            b == <<"runs", v>>
<1>1. /\ s \in Seq(Threads) /\ s # <<>> /\ Distinct(s)
      /\ Last(s) = Thread(c, k) /\ c \in Tasks /\ NewPrimary(v, Front(s))
      /\ running[v] = k /\ running' = [running EXCEPT ![v] = c]
      /\ resumeDeques' = resumeDeques /\ ch' = ch /\ waiters' = waiters
      /\ done' = done \union {k} /\ calledBy' = calledBy /\ mainState' = mainState
  BY PrimaryIs DEF GoesOn, HomeInv, Listed
<1>2. /\ a \in Labels /\ b \in Labels /\ a # b
      /\ TasksAt(b) = {k} /\ TasksAt(b)' = {c}
  BY <1>1, RunsAt, LabelIs, TaskKinds DEF Typed
<1>3. TasksAt(a) = TasksOf(s) /\ TasksAt(a)' = TasksOf(Front(s))
  BY <1>1, PrimaryAt DEF NewPrimary
<1>4. \A l \in Labels \ {a, b} : TasksAt(l)' = TasksAt(l)
  BY <1>1, SameElsewhere DEF NewPrimary, Typed
<1>5. TasksOf(Front(s)) = TasksOf(s) \ {c} /\ c \in TasksOf(s) /\ Distinct(Front(s))
  <2>1. Last(s).task = c
    BY <1>1, ThreadFields
  <2>. HIDE DEF s, c
  <2>. QED
    BY <1>1, <2>1, FrontTasks
<1>6. /\ \A x : x # k => (Alive(x)' <=> Alive(x))
      /\ ~ Alive(k)'
  BY <1>1, AliveAfter
<1>. HIDE DEF s, c, a, b
<1>7. /\ \A l \in Labels : l # b => k \notin TasksAt(l)
      /\ \A l \in Labels : l # a => c \notin TasksAt(l)
  <2>1. k \in TasksAt(b) /\ c \in TasksAt(a)
    BY <1>2, <1>3, <1>5
  <2>. QED
    BY <1>2, <2>1, OneLabel DEF HomeInv
<1>8. c # k
  BY <1>2, <1>7
<1>9. Homed'
  <2>1. ASSUME NEW x
        PROVE  \/ \A l \in Labels : x \in TasksAt(l)' => x \in TasksAt(l)
               \/ \E y : \A l \in Labels : x \in TasksAt(l)' => l = y
    <3>1. CASE x = c
      BY <1>2, <1>3, <1>4, <1>5, <1>7, <3>1
    <3>2. CASE x # c
      BY <1>2, <1>3, <1>4, <1>5, <3>2
    <3>. QED
      BY <3>1, <3>2
  <2>2. \A l \in Labels : \A x \in TasksAt(l)' : x \in Tasks /\ Alive(x)'
    <3>. SUFFICES ASSUME NEW l \in Labels, NEW x \in TasksAt(l)' PROVE x \in Tasks /\ Alive(x)'
      OBVIOUS
    <3>1. x # k
      BY <1>2, <1>3, <1>4, <1>5, <1>7, <1>8
    <3>2. \E m \in Labels : x \in TasksAt(m)
      BY <1>2, <1>3, <1>4, <1>5
    <3>. QED
      BY <1>6, <3>1, <3>2 DEF HomeInv, Homed
  <2>. QED
    BY <2>1, <2>2, MovesHomed DEF HomeInv
<1>10. ASSUME Fits, NEW x \in Tasks, Alive(x)'
       PROVE  \E l \in Labels : x \in TasksAt(l)'
  <2>1. x # k
    BY <1>6, <1>10
  <2>2. PICK l \in Labels : x \in TasksAt(l)
    BY <1>6, <1>10, <2>1 DEF HomeInv, AllHome
  <2>3. CASE x = c
    BY <1>2, <2>3
  <2>4. CASE x # c
    <3>1. x \in TasksAt(l)'
      BY <1>2, <1>3, <1>4, <1>5, <2>1, <2>2, <2>4
    <3>. QED
      BY <3>1
  <2>. QED
    BY <2>3, <2>4
<1>11. Listed'
  BY <1>1, <1>5, ListedStays, ListedAfter DEF HomeInv
<1>. QED
  BY <1>9, <1>10, <1>11 DEF HomeInv, AllHome

LEMMA PutsHome ==
  ASSUME Typed, HomeInv, NEW v \in VProcs, NEW k \in Futures, Puts(v, k), Same(v)
  PROVE  HomeInv'
<1>. DEFINE r == resumeDeques[v]
            s == waiters[k]
            n == NewDeques(s)
            a == <<"blocked", k>>
            b == <<"resumed", v>>
            c == <<"runs", v>>
<1>1. /\ r \in DequeLists /\ Apart(r) /\ s \in Seq(Captured) /\ Distinct(s)
      /\ NewResumed(v, n \o r)
      /\ running[v] = k /\ running' = [running EXCEPT ![v] = NoTask]
      /\ ch' = ch /\ waiters' = [waiters EXCEPT ![k] = <<>>]
      /\ done' = done \union {k} /\ calledBy' = calledBy /\ mainState' = mainState
  BY DEF Puts, BackToWorker, HomeInv, Listed, Typed
<1>2. /\ a \in Labels /\ b \in Labels /\ c \in Labels /\ a # b /\ a # c /\ b # c
      /\ TasksAt(c) = {k} /\ TasksAt(c)' = {}
  BY <1>1, RunsAt, LabelIs, TaskKinds DEF Typed
<1>3. /\ resumeDeques'[v] = n \o r
      /\ \A u \in VProcs : u # v => resumeDeques'[u] = resumeDeques[u]
  BY <1>1, ResumedTyped
<1>4. waiters'[k] = <<>> /\ \A j \in Futures : j # k => waiters'[j] = waiters[j]
  BY <1>1 DEF Typed
<1>5. TasksAt(a) = TasksOf(s) /\ TasksAt(a)' = {}
  BY <1>4, BlockedAt, EmptyTasks
<1>6. TasksAt(b) = OnDeques(r) /\ TasksAt(b)' = OnDeques(n \o r)
  BY <1>3, ResumedAt
<1>7. \A u \in VProcs : PrimaryContents(u)' = PrimaryContents(u)
  BY DEF Same, NewPrimary
<1>8. \A l \in Labels \ {a, b, c} : TasksAt(l)' = TasksAt(l)
  <2>1. /\ \A u \in VProcs : <<"runs", u>> \in {a, b, c} \/ running'[u] = running[u]
        /\ \A j \in Futures : <<"blocked", j>> \in {a, b, c} \/ waiters'[j] = waiters[j]
        /\ \A u \in VProcs : <<"resumed", u>> \in {a, b, c}
                             \/ OnDeques(resumeDeques'[u]) = OnDeques(resumeDeques[u])
    BY <1>1, <1>3, <1>4 DEF Typed
  <2>. QED
    BY <1>1, <1>7, <2>1, SameElsewhere
<1>9. /\ \A x : x # k => (Alive(x)' <=> Alive(x))
      /\ ~ Alive(k)'
  BY <1>1, AliveAfter
<1>. HIDE DEF r, s, n, a, b, c
<1>10. TasksOf(s) \intersect OnDeques(r) = {}
  BY <1>2, <1>5, <1>6, OneLabel DEF HomeInv
<1>11. n \in DequeLists /\ OnDeques(n) = TasksOf(s) /\ Apart(n)
  BY <1>1, NewDequesAre DEF n
<1>12. OnDeques(n \o r) = TasksOf(s) \union OnDeques(r) /\ Apart(n \o r)
  BY <1>1, <1>10, <1>11, JoinDeques
<1>13. \A l \in Labels : l # c => k \notin TasksAt(l)
  <2>1. k \in TasksAt(c)
    BY <1>2
  <2>. QED
    BY <1>2, <2>1, OneLabel DEF HomeInv
<1>14. \A l \in Labels : l # a => \A x \in TasksOf(s) : x \notin TasksAt(l)
  BY <1>2, <1>5, OneLabel DEF HomeInv
<1>15. Homed'
  <2>1. ASSUME NEW x
        PROVE  \/ \A l \in Labels : x \in TasksAt(l)' => x \in TasksAt(l)
               \/ \E y : \A l \in Labels : x \in TasksAt(l)' => l = y
    <3>1. CASE x \in TasksOf(s)
      BY <1>2, <1>5, <1>8, <1>14, <3>1
    <3>2. CASE x \notin TasksOf(s)
      BY <1>2, <1>5, <1>6, <1>8, <1>12, <3>2
    <3>. QED
      BY <3>1, <3>2
  <2>2. \A l \in Labels : \A x \in TasksAt(l)' : x \in Tasks /\ Alive(x)'
    <3>. SUFFICES ASSUME NEW l \in Labels, NEW x \in TasksAt(l)' PROVE x \in Tasks /\ Alive(x)'
      OBVIOUS
    <3>1. \E m \in Labels : x \in TasksAt(m) /\ m # c
      BY <1>2, <1>5, <1>6, <1>8, <1>12
    <3>. QED
      BY <1>9, <1>13, <3>1 DEF HomeInv, Homed
  <2>. QED
    BY <2>1, <2>2, MovesHomed DEF HomeInv
<1>16. ASSUME Fits, NEW x \in Tasks, Alive(x)'
       PROVE  \E l \in Labels : x \in TasksAt(l)'
  <2>1. x # k
    BY <1>9, <1>16
  <2>2. PICK l \in Labels : x \in TasksAt(l)
    BY <1>9, <1>16, <2>1 DEF HomeInv, AllHome
  <2>3. CASE x \in TasksOf(s)
    BY <1>2, <1>6, <1>12, <2>3
  <2>4. CASE x \notin TasksOf(s)
    <3>1. x \in TasksAt(l)'
      BY <1>2, <1>5, <1>6, <1>8, <1>12, <2>1, <2>2, <2>4
    <3>. QED
      BY <3>1
  <2>. QED
    BY <2>3, <2>4
<1>17. Listed'
  <2>1. Listed /\ Distinct(PrimaryContents(v)) /\ NewPrimary(v, PrimaryContents(v))
    BY DEF HomeInv, Listed, Same
  <2>2. \A u \in VProcs : Apart(resumeDeques'[u])
    BY <1>3, <1>12 DEF HomeInv, Listed, n, r
  <2>3. \A j \in Futures : Distinct(waiters'[j])
    BY <1>4, EmptyTasks DEF HomeInv, Listed
  <2>. QED
    BY <2>1, <2>2, <2>3, ListedAfter
<1>. QED
  BY <1>15, <1>16, <1>17 DEF HomeInv, AllHome

----------------------------------------------------------------------------
(* Futures and their contexts.  c stands for calledBy. *)

(* th is the context that t returns to. *)
Under(th, t, c) == t \in Futures /\ th = Thread(c[t], t)

(* A context is that of the last call of its task. *)
LastCall(th, c) ==
  th.future # NoTask =>
    c[th.future] = th.task /\ \A j \in Futures : j > th.future => c[j] # th.task

(* Above a thread are the body of the future it called and what follows.   *)
Stacked(s, c) == \A i \in DOMAIN s : i # 1 => Under(s[i - 1], s[i].task, c)

FutureInv ==
  /\ \A k \in done : calledBy[k] # NoTask
  /\ \A k \in Futures : calledBy[k] # NoTask =>
       /\ calledBy[k] < k
       /\ \A j \in 1..(k - 1) : calledBy[j] # NoTask
       /\ mainState \in {"started", "left"}
  /\ \A k \in Futures : \A t \in TasksOf(waiters[k]) : k \notin done /\ Knows(t, k)

(* The threads that thieves may take, or have taken. *)
Movable(v) == ToSet(PrimaryContents(v)) \union ToSet(ch[v])

ContextInv == \A v \in VProcs : \A th \in Movable(v) : LastCall(th, calledBy)

Chained(v) ==
  /\ Stacked(PrimaryContents(v), calledBy)
  /\ running[v] # NoTask /\ PrimaryContents(v) # <<>> =>
       Under(Last(PrimaryContents(v)), running[v], calledBy)

ChainInv == \A v \in VProcs : Chained(v)

(* Who looks for work has none, but for the main thread that just came. *)
WorkSeen(v) ==
  pc[v] \in LookingPlaces =>
    /\ OnDeques(resumeDeques[v]) = {}
    /\ PrimaryContents(v) # <<>> => mainState = "begun"

IdleInv == \A v \in VProcs : WorkSeen(v)

CallInv == FutureInv /\ ContextInv /\ ChainInv /\ IdleInv

StealInv == TypeInv /\ HomeInv /\ CallInv

LEMMA CapturedLast ==
  ASSUME NEW th \in Captured, NEW c
  PROVE  LastCall(th, c)
BY DEF Captured, LastCall

LEMMA ElementsOf ==
  ASSUME NEW s \in Seq(Threads)
  PROVE  /\ ToSet(s) \subseteq Threads
         /\ \A th \in ToSet(s) : th.task \in TasksOf(s)
         /\ \A th : ToSet(<<th>>) = {th}
         /\ ToSet(<<>>) = {}
         /\ s # <<>> => /\ Last(s) \in ToSet(s) /\ Head(s) \in ToSet(s)
                        /\ ToSet(Front(s)) \subseteq ToSet(s)
                        /\ ToSet(Tail(s)) \subseteq ToSet(s)
         /\ \A th \in Threads : ToSet(PushedOn(s, th)) \subseteq ToSet(s) \union {th}
<1>1. DOMAIN s = 1..Len(s) /\ Len(s) \in Nat /\ \A i \in 1..Len(s) : s[i] \in Threads
  BY LenProperties
<1>2. /\ ToSet(s) \subseteq Threads
      /\ \A th \in ToSet(s) : th.task \in TasksOf(s)
  BY <1>1 DEF ToSet, TasksOf
<1>3. /\ \A th : ToSet(<<th>>) = {th}
      /\ ToSet(<<>>) = {}
  BY DEF ToSet
<1>4. ASSUME s # <<>>
      PROVE  /\ Last(s) \in ToSet(s) /\ Head(s) \in ToSet(s)
             /\ ToSet(Front(s)) \subseteq ToSet(s)
             /\ ToSet(Tail(s)) \subseteq ToSet(s)
  <2>1. ToSet(s) = {Head(s)} \union ToSet(Tail(s))
    BY <1>4, TailList
  <2>2. /\ Front(s) \in Seq(Threads) /\ Len(Front(s)) = Len(s) - 1 /\ Last(s) = s[Len(s)]
        /\ Len(s) \in Nat \ {0} /\ \A i \in 1..(Len(s) - 1) : Front(s)[i] = s[i]
    BY <1>4, FrontOf
  <2>3. DOMAIN Front(s) = 1..(Len(s) - 1) /\ Len(s) \in 1..Len(s)
        /\ \A i \in 1..(Len(s) - 1) : i \in 1..Len(s)
    BY <2>2, LenProperties
  <2>4. Last(s) \in ToSet(s) /\ ToSet(Front(s)) \subseteq ToSet(s)
    BY <1>1, <2>2, <2>3 DEF ToSet
  <2>. QED
    BY <2>1, <2>4
<1>5. ASSUME NEW th \in Threads
      PROVE  ToSet(PushedOn(s, th)) \subseteq ToSet(s) \union {th}
  <2>1. CASE Len(s) = DequeSz - 1
    BY <1>3, <2>1 DEF PushedOn
  <2>2. CASE Len(s) # DequeSz - 1
    <3>. DEFINE r == <<th>>
    <3>1. PushedOn(s, th) = s \o r /\ r \in Seq(Threads)
      BY <2>2, AppendIsConcat, OneThread DEF PushedOn
    <3>. HIDE DEF r
    <3>2. ToSet(s \o r) = ToSet(s) \union ToSet(r)
      BY <3>1, ConcatList
    <3>. USE DEF r
    <3>. QED
      BY <1>3, <3>1, <3>2
  <2>. QED
    BY <2>1, <2>2
<1>. QED
  BY <1>2, <1>3, <1>4, <1>5

LEMMA StackedParts ==
  ASSUME NEW s \in Seq(Threads), NEW c, Stacked(s, c), s # <<>>
  PROVE  /\ Stacked(Front(s), c)
         /\ Front(s) # <<>> => Under(Last(Front(s)), Last(s).task, c)
         /\ Stacked(Tail(s), c)
         /\ Tail(s) # <<>> => Last(Tail(s)) = Last(s)
<1>. DEFINE n == Len(s)
            f == Front(s)
            t == Tail(s)
<1>1. /\ f \in Seq(Threads) /\ n \in Nat \ {0} /\ Len(f) = n - 1 /\ Last(s) = s[n]
      /\ \A i \in 1..(n - 1) : f[i] = s[i]
  BY FrontOf
<1>2. DOMAIN s = 1..n /\ DOMAIN f = 1..(n - 1)
  BY <1>1, LenProperties
<1>3. /\ t \in Seq(Threads) /\ Len(t) = n - 1 /\ DOMAIN t = 1..(n - 1)
      /\ \A i \in 1..(n - 1) : t[i] = s[i + 1]
  BY <1>1, HeadTailProperties, LenProperties
<1>. HIDE DEF n, f, t
<1>4. \A i \in 1..(n - 1) : /\ i \in 1..n /\ i + 1 \in 1..n /\ i + 1 # 1 /\ i + 1 - 1 = i
                            /\ i # 1 => i - 1 \in 1..(n - 1) /\ (i - 1) + 1 = i
  BY <1>1
<1>5. Stacked(f, c)
  <2>. SUFFICES ASSUME NEW i \in 1..(n - 1), i # 1 PROVE Under(f[i - 1], f[i].task, c)
    BY <1>2 DEF Stacked
  <2>1. f[i] = s[i] /\ f[i - 1] = s[i - 1] /\ i \in DOMAIN s
    BY <1>1, <1>2, <1>4
  <2>2. Under(s[i - 1], s[i].task, c)
    BY <2>1 DEF Stacked
  <2>. QED
    BY <2>1, <2>2
<1>6. ASSUME f # <<>> PROVE Under(Last(f), Last(s).task, c)
  <2>1. Last(f) = f[n - 1] /\ n - 1 \in Nat \ {0}
    <3>1. Len(f) \in Nat \ {0} /\ Last(f) = f[Len(f)]
      BY <1>1, <1>6, FrontOf
    <3>. QED
      BY <1>1, <3>1
  <2>2. n - 1 \in 1..(n - 1) /\ n \in 1..n /\ n # 1
    BY <1>1, <2>1
  <2>3. Last(f) = s[n - 1]
    BY <1>1, <2>1, <2>2
  <2>4. Under(s[n - 1], s[n].task, c)
    BY <1>2, <2>2 DEF Stacked
  <2>. QED
    BY <1>1, <2>3, <2>4
<1>7. Stacked(t, c)
  <2>. SUFFICES ASSUME NEW i \in 1..(n - 1), i # 1 PROVE Under(t[i - 1], t[i].task, c)
    BY <1>3 DEF Stacked
  <2>1. i + 1 \in DOMAIN s /\ i + 1 # 1 /\ t[i] = s[i + 1] /\ t[i - 1] = s[(i - 1) + 1]
        /\ (i - 1) + 1 = i /\ (i + 1) - 1 = i
    BY <1>2, <1>3, <1>4
  <2>2. Under(s[(i + 1) - 1], s[i + 1].task, c)
    BY <2>1 DEF Stacked
  <2>. QED
    BY <2>1, <2>2
<1>8. ASSUME t # <<>> PROVE Last(t) = Last(s)
  <2>1. Last(t) = t[n - 1] /\ n - 1 \in Nat \ {0}
    <3>1. Len(t) \in Nat \ {0} /\ Last(t) = t[Len(t)]
      BY <1>3, <1>8, FrontOf
    <3>. QED
      BY <1>3, <3>1
  <2>2. n - 1 \in 1..(n - 1) /\ (n - 1) + 1 = n
    BY <1>1, <2>1
  <2>. QED
    BY <1>1, <1>3, <2>1, <2>2
<1>. QED
  BY <1>5, <1>6, <1>7, <1>8 DEF f, t

LEMMA StackedPush ==
  ASSUME NEW s \in Seq(Threads), NEW th \in Threads, NEW c, Stacked(s, c),
         s # <<>> => Under(Last(s), th.task, c)
  PROVE  /\ Stacked(PushedOn(s, th), c)
         /\ PushedOn(s, th) # <<>> => Last(PushedOn(s, th)) = th
<1>1. CASE Len(s) = DequeSz - 1
  <2>1. PushedOn(s, th) = <<>>
    BY <1>1 DEF PushedOn
  <2>. QED
    BY <2>1 DEF Stacked
<1>2. CASE Len(s) # DequeSz - 1
  <2>. DEFINE n == Len(s)
              a == Append(s, th)
  <2>1. n \in Nat /\ DOMAIN s = 1..n /\ a \in Seq(Threads) /\ Len(a) = n + 1 /\ DOMAIN a = 1..(n + 1)
        /\ a[n + 1] = th /\ \A i \in 1..n : a[i] = s[i]
    BY AppendProperties, LenProperties
  <2>2. PushedOn(s, th) = a
    BY <1>2 DEF PushedOn
  <2>3. s # <<>> => Last(s) = s[n] /\ n \in Nat \ {0}
    BY FrontOf
  <2>4. Last(a) = th
    BY <2>1 DEF Last
  <2>5. s = <<>> => n = 0
    BY EmptySeq
  <2>. HIDE DEF a, n
  <2>6. ASSUME NEW i \in 1..(n + 1), i # 1 PROVE Under(a[i - 1], a[i].task, c)
    <3>1. CASE i \in 1..n
      <4>1. i - 1 \in 1..n /\ a[i] = s[i] /\ a[i - 1] = s[i - 1] /\ i \in DOMAIN s
        BY <2>1, <2>6, <3>1
      <4>2. Under(s[i - 1], s[i].task, c)
        BY <2>6, <4>1 DEF Stacked
      <4>. QED
        BY <4>1, <4>2
    <3>2. CASE i \notin 1..n
      <4>1. i = n + 1 /\ n # 0 /\ i - 1 = n /\ n \in 1..n
        BY <2>1, <2>6, <3>2
      <4>2. a[i] = th /\ a[i - 1] = s[n] /\ Last(s) = s[n] /\ s # <<>>
        BY <2>1, <2>3, <2>5, <4>1
      <4>. QED
        BY <4>2
    <3>. QED
      BY <3>1, <3>2
  <2>7. Stacked(a, c)
    BY <2>1, <2>6 DEF Stacked
  <2>. QED
    BY <2>2, <2>4, <2>7
<1>. QED
  BY <1>1, <1>2

----------------------------------------------------------------------------
(* What does not change keeps its part of the invariant. *)

LEMMA FutureStays ==
  ASSUME FutureInv, UNCHANGED program
  PROVE  FutureInv'
<1>1. calledBy' = calledBy /\ done' = done /\ waiters' = waiters /\ mainState' = mainState
  BY DEF program
<1>. QED
  BY <1>1 DEF FutureInv, Knows

LEMMA ContextStays ==
  ASSUME ContextInv, calledBy' = calledBy,
         \A u \in VProcs : \A th \in Movable(u)' :
           LastCall(th, calledBy) \/ \E w \in VProcs : th \in Movable(w)
  PROVE  ContextInv'
<1>. SUFFICES ASSUME NEW u \in VProcs, NEW th \in Movable(u)' PROVE LastCall(th, calledBy')
  BY DEF ContextInv
<1>1. LastCall(th, calledBy)
  BY DEF ContextInv
<1>. QED
  BY <1>1

LEMMA ChainThere ==
  ASSUME ChainInv, calledBy' = calledBy, NEW v \in VProcs, Chained(v)',
         \A u \in VProcs : u # v =>
           PrimaryContents(u)' = PrimaryContents(u) /\ running'[u] = running[u]
  PROVE  ChainInv'
<1>. SUFFICES ASSUME NEW u \in VProcs, u # v PROVE Chained(u)'
  BY DEF ChainInv
<1>1. Chained(u) /\ PrimaryContents(u)' = PrimaryContents(u) /\ running'[u] = running[u]
  BY DEF ChainInv
<1>. QED
  BY <1>1 DEF Chained

LEMMA WorkThere ==
  ASSUME IdleInv, NEW v \in VProcs, WorkSeen(v)', mainState' = mainState,
         \A u \in VProcs : u # v =>
           /\ PrimaryContents(u)' = PrimaryContents(u) /\ pc'[u] = pc[u]
           /\ OnDeques(resumeDeques'[u]) = OnDeques(resumeDeques[u])
  PROVE  IdleInv'
<1>. SUFFICES ASSUME NEW u \in VProcs, u # v PROVE WorkSeen(u)'
  BY DEF IdleInv
<1>1. /\ WorkSeen(u) /\ PrimaryContents(u)' = PrimaryContents(u) /\ pc'[u] = pc[u]
      /\ OnDeques(resumeDeques'[u]) = OnDeques(resumeDeques[u])
  BY DEF IdleInv
<1>. QED
  BY <1>1 DEF WorkSeen

(* Steps that move no thread and change no call. *)
LEMMA CallsKept ==
  ASSUME CallInv, NEW v \in VProcs, UNCHANGED program,
         \A u \in VProcs : PrimaryContents(u)' = PrimaryContents(u),
         running' = running,
         \A u \in VProcs : ch'[u] = ch[u] \/ ch'[u] = <<>>,
         \A u \in VProcs : OnDeques(resumeDeques'[u]) = OnDeques(resumeDeques[u]),
         \A u \in VProcs : u # v => pc'[u] = pc[u],
         pc'[v] \in LookingPlaces =>
           \/ pc[v] \in LookingPlaces
           \/ OnDeques(resumeDeques[v]) = {} /\ PrimaryContents(v) = <<>>
  PROVE  CallInv'
<1>1. calledBy' = calledBy /\ mainState' = mainState
  BY DEF program
<1>2. ToSet(<<>>) = {}
  BY DEF ToSet
<1>3. FutureInv'
  BY FutureStays DEF CallInv
<1>4. ASSUME NEW u \in VProcs, NEW th \in Movable(u)'
      PROVE  \E w \in VProcs : th \in Movable(w)
  BY <1>2, <1>4 DEF Movable
<1>5. ContextInv'
  BY <1>1, <1>4, ContextStays DEF CallInv
<1>6. ChainInv'
  BY <1>1 DEF CallInv, ChainInv, Chained
<1>7. WorkSeen(v)'
  BY <1>1 DEF CallInv, IdleInv, WorkSeen
<1>8. IdleInv'
  BY <1>1, <1>7, WorkThere DEF CallInv
<1>. QED
  BY <1>3, <1>5, <1>6, <1>8 DEF CallInv

----------------------------------------------------------------------------
(* What workers do keeps the invariant. *)

(* Before the main thread runs it is the only task. *)
LEMMA OnlyMain ==
  ASSUME Typed, Homed, FutureInv, mainState \in {"outside", "begun"},
         NEW l \in Labels, NEW t \in TasksAt(l)
  PROVE  t = Main /\ mainState = "begun"
<1>1. t \in Tasks /\ Alive(t)
  BY DEF Homed
<1>2. t \notin Futures
  BY <1>1, TaskKinds DEF Alive, FutureInv
<1>. QED
  BY <1>1, <1>2, TaskKinds DEF Alive

(* So a worker that waits for an answer gets it when it has nothing else. *)
LEMMA AnswerAlone ==
  ASSUME StealInv, NEW v \in VProcs, NEW th \in Threads, pc[v] = "wait", ch[v] = <<th>>
  PROVE  PrimaryContents(v) = <<>>
<1>. SUFFICES ASSUME PrimaryContents(v) # <<>> PROVE FALSE
  OBVIOUS
<1>1. mainState = "begun" /\ Typed /\ Homed /\ FutureInv
  BY DEF StealInv, TypeInv, HomeInv, CallInv, IdleInv, WorkSeen, LookingPlaces
<1>2. PrimaryContents(v) \in Seq(Threads)
  BY <1>1, PrimaryIs
<1>3. TasksOf(PrimaryContents(v)) # {}
  BY <1>2, TasksInTasks
<1>4. /\ TasksAt(<<"primary", v>>) = TasksOf(PrimaryContents(v))
      /\ TasksAt(<<"answer", v>>) = {th.task}
      /\ <<"primary", v>> \in Labels /\ <<"answer", v>> \in Labels
  BY PrimaryAt, AnswerAt, OneTask, LabelIs
<1>5. PICK t : t \in TasksAt(<<"primary", v>>)
  BY <1>3, <1>4
<1>6. t = Main
  BY <1>1, <1>4, <1>5, OnlyMain
<1>7. th.task \in TasksAt(<<"answer", v>>)
  BY <1>4
<1>8. th.task = Main
  BY <1>1, <1>4, <1>7, OnlyMain
<1>9. <<"primary", v>> # <<"answer", v>>
  OBVIOUS
<1>10. Main \in TasksAt(<<"primary", v>>)
  BY <1>5, <1>6
<1>. QED
  BY <1>1, <1>4, <1>7, <1>8, <1>9, <1>10, OneLabel

LEMMA QuietKeeps ==
  ASSUME StealInv, NEW v \in VProcs,
         Rests(v) \/ Starts(v) \/ Reshuffles(v) \/ FailsToSteal(v)
  PROVE  HomeInv' /\ CallInv'
<1>1. Typed /\ HomeInv /\ CallInv
  BY DEF StealInv, TypeInv
<1>2. /\ UNCHANGED program /\ resumeDeques' = resumeDeques /\ running' = running /\ ch' = ch
      /\ pc' = [pc EXCEPT ![v] = pc'[v]]
  <2>1. CASE Rests(v)
    BY <1>1, <2>1 DEF Rests, QuietStep, deques, Typed
  <2>2. CASE Starts(v)
    BY <1>1, <2>2 DEF Starts, GoTo, Typed
  <2>3. CASE Reshuffles(v)
    BY <1>1, <2>3 DEF Reshuffles, GoTo, Typed
  <2>4. CASE FailsToSteal(v)
    BY <1>1, <2>4 DEF FailsToSteal, GoTo, Typed, deques
  <2>. QED
    BY <2>1, <2>2, <2>3, <2>4
<1>3. \A u \in VProcs : PrimaryContents(u)' = PrimaryContents(u)
  <2>1. CASE Rests(v) \/ FailsToSteal(v)
    BY <2>1 DEF Rests, QuietStep, FailsToSteal, deques, PrimaryContents
  <2>2. CASE Starts(v)
    BY <2>2 DEF Starts
  <2>3. CASE Reshuffles(v)
    BY <2>3 DEF Reshuffles, Same, NewPrimary
  <2>. QED
    BY <2>1, <2>2, <2>3
<1>4. pc'[v] \in LookingPlaces =>
        \/ pc[v] \in LookingPlaces
        \/ OnDeques(resumeDeques[v]) = {} /\ PrimaryContents(v) = <<>>
  <2>1. CASE Rests(v)
    <3>1. PICK q, n : /\ QuietStep(v, q, n)
                      /\ q \in LookingPlaces =>
                          \/ pc[v] \in LookingPlaces
                          \/ OnDeques(resumeDeques[v]) = {} /\ PrimaryContents(v) = <<>>
      BY <2>1 DEF Rests
    <3>2. pc'[v] = q
      BY <1>1, <3>1 DEF QuietStep, Typed
    <3>. QED
      BY <3>1, <3>2
  <2>2. CASE Starts(v) \/ Reshuffles(v)
    <3>1. pc'[v] = "next"
      BY <1>1, <2>2 DEF Starts, Reshuffles, GoTo, Typed
    <3>. QED
      BY <3>1 DEF LookingPlaces, IdlePlaces
  <2>3. CASE FailsToSteal(v)
    BY <2>3 DEF FailsToSteal, LookingPlaces
  <2>. QED
    BY <2>1, <2>2, <2>3
<1>5. \A u \in VProcs : u # v => pc'[u] = pc[u]
  BY <1>1, <1>2 DEF Typed
<1>6. CallInv'
  BY <1>1, <1>2, <1>3, <1>4, <1>5, CallsKept
<1>7. Homed' /\ AllHome' /\ Listed'
  <2>1. SameAlive /\ waiters' = waiters
    BY <1>2, AliveSame DEF program
  <2>2. \A l \in Labels \ {} : TasksAt(l)' = TasksAt(l)
    BY <1>2, <1>3, <2>1, SameElsewhere
  <2>3. Still
    BY <2>2 DEF Still
  <2>4. Listed'
    BY <1>1, <1>2, <1>3, <2>1 DEF HomeInv, Listed
  <2>. QED
    BY <1>1, <2>1, <2>3, <2>4, StillHomed DEF HomeInv
<1>. QED
  BY <1>6, <1>7 DEF HomeInv

LEMMA SmallKeeps ==
  ASSUME StealInv, NEW v \in VProcs,
         \/ \E ds \in DequeLists : Prunes(v, ds)
         \/ \E w \in VProcs : SendThief(v, w) \/ ThiefLeaves(w, v)
  PROVE  HomeInv' /\ CallInv'
<1>1. Typed /\ HomeInv /\ CallInv
  BY DEF StealInv, TypeInv
<1>2. UNCHANGED program /\ primary' = primary /\ running' = running
  BY DEF Prunes, SendThief, ThiefLeaves, deques, worker
<1>3. /\ \A u \in VProcs : PrimaryContents(u)' = PrimaryContents(u)
      /\ SameAlive /\ waiters' = waiters
  BY <1>2, AliveSame DEF PrimaryContents, program
<1>4. /\ \A u \in VProcs : OnDeques(resumeDeques'[u]) = OnDeques(resumeDeques[u])
      /\ \A u \in VProcs : Apart(resumeDeques[u]) => Apart(resumeDeques'[u])
  <2>1. ASSUME NEW ds \in DequeLists, Prunes(v, ds)
        PROVE  \A u \in VProcs : /\ OnDeques(resumeDeques'[u]) = OnDeques(resumeDeques[u])
                                 /\ Apart(resumeDeques[u]) => Apart(resumeDeques'[u])
    <3>1. NewResumed(v, ds) /\ OnDeques(ds) = OnDeques(resumeDeques[v])
          /\ (Apart(resumeDeques[v]) => Apart(ds))
      BY <2>1 DEF Prunes
    <3>2. resumeDeques'[v] = ds /\ \A u \in VProcs : u # v => resumeDeques'[u] = resumeDeques[u]
      BY <1>1, <3>1, ResumedTyped
    <3>. QED
      BY <3>1, <3>2
  <2>2. ASSUME NEW w \in VProcs, SendThief(v, w) \/ ThiefLeaves(w, v)
        PROVE  resumeDeques' = resumeDeques
    BY <2>2 DEF SendThief, ThiefLeaves, deques
  <2>. QED
    BY <2>1, <2>2
<1>5. /\ \A u \in VProcs : ch'[u] = ch[u]
      /\ \A u \in VProcs : u # v => pc'[u] = pc[u]
      /\ pc'[v] \in LookingPlaces => pc[v] \in LookingPlaces
  <2>1. ASSUME NEW ds \in DequeLists, Prunes(v, ds)
        PROVE  ch' = ch /\ pc' = pc
    BY <2>1 DEF Prunes, worker
  <2>2. ASSUME NEW w \in VProcs, ThiefLeaves(w, v)
        PROVE  ch' = ch /\ pc' = pc
    BY <2>2 DEF ThiefLeaves, worker
  <2>3. ASSUME NEW w \in VProcs, SendThief(v, w)
        PROVE  /\ \A u \in VProcs : ch'[u] = ch[u]
               /\ \A u \in VProcs : u # v => pc'[u] = pc[u]
               /\ pc[v] \in LookingPlaces
    <3>1. ch[v] = <<>>
      BY <2>3 DEF StealInv, TypeInv, AtWork, SendThief
    <3>. QED
      BY <1>1, <2>3, <3>1 DEF SendThief, GoTo, Typed, LookingPlaces
  <2>. QED
    BY <2>1, <2>2, <2>3
<1>6. Same(v)
  BY <1>1, <1>2, PrimaryStays DEF Same
<1>7. HomeInv'
  BY <1>1, <1>2, <1>3, <1>4, <1>5, <1>6, StaysHome
<1>8. CallInv'
  BY <1>1, <1>2, <1>3, <1>4, <1>5, CallsKept
<1>. QED
  BY <1>7, <1>8

(* A worker has no task but in "run". *)
LEMMA NoTaskOutside ==
  ASSUME StealInv, NEW v \in VProcs, pc[v] # "run"
  PROVE  running[v] = NoTask
BY DEF StealInv, TypeInv, AtWork

(* A thread comes to an empty deque of a worker that looked for it. *)
LEMMA ArrivesKeeps ==
  ASSUME StealInv, NEW v \in VProcs, NEW th \in Threads, LastCall(th, calledBy),
         PrimaryContents(v) = <<>>, NewPrimary(v, PushedOn(PrimaryContents(v), th)),
         pc[v] # "run", running' = running, GoTo(v, "next"),
         \A u \in VProcs : ch'[u] = ch[u] \/ ch'[u] = <<>>,
         \A u \in VProcs : u # v => OnDeques(resumeDeques'[u]) = OnDeques(resumeDeques[u]),
         UNCHANGED program
  PROVE  CallInv'
<1>1. Typed /\ CallInv /\ running[v] = NoTask
  BY NoTaskOutside DEF StealInv, TypeInv
<1>2. calledBy' = calledBy /\ mainState' = mainState
  BY DEF program
<1>3. FutureInv'
  BY <1>1, FutureStays DEF CallInv
<1>4. /\ PrimaryContents(v)' = PushedOn(<<>>, th)
      /\ \A u \in VProcs : u # v => PrimaryContents(u)' = PrimaryContents(u)
  BY DEF NewPrimary
<1>5. <<>> \in Seq(Threads) /\ ToSet(<<>>) = {}
  BY EmptySeq DEF ToSet
<1>6. ToSet(PushedOn(<<>>, th)) \subseteq {th}
  BY <1>5, ElementsOf
<1>7. ContextInv'
  <2>1. ASSUME NEW u \in VProcs, NEW x \in Movable(u)'
        PROVE  LastCall(x, calledBy) \/ \E w \in VProcs : x \in Movable(w)
    <3>1. x \in ToSet(PrimaryContents(u)') \/ x \in ToSet(ch'[u])
      BY <2>1 DEF Movable
    <3>2. CASE x \in ToSet(ch'[u])
      BY <1>5, <3>2 DEF Movable
    <3>3. CASE x \in ToSet(PrimaryContents(u)')
      BY <1>4, <1>6, <3>3 DEF Movable
    <3>. QED
      BY <3>1, <3>2, <3>3
  <2>. QED
    BY <1>1, <1>2, <2>1, ContextStays DEF CallInv
<1>8. Chained(v)'
  <2>1. Stacked(<<>>, calledBy)
    BY DEF Stacked
  <2>2. Stacked(PushedOn(<<>>, th), calledBy)
    BY <1>5, <2>1, StackedPush
  <2>. QED
    BY <1>1, <1>2, <1>4, <2>2 DEF Chained
<1>9. ChainInv'
  BY <1>1, <1>2, <1>4, <1>8, ChainThere DEF CallInv
<1>10. pc'[v] = "next" /\ \A u \in VProcs : u # v => pc'[u] = pc[u]
  BY <1>1 DEF GoTo, Typed
<1>11. WorkSeen(v)'
  BY <1>10 DEF WorkSeen, LookingPlaces, IdlePlaces
<1>12. IdleInv'
  BY <1>1, <1>2, <1>4, <1>10, <1>11, WorkThere DEF CallInv
<1>. QED
  BY <1>3, <1>7, <1>9, <1>12 DEF CallInv

LEMMA TakesAnswerKeeps ==
  ASSUME StealInv, NEW v \in VProcs, NEW th \in Threads, TakesAnswer(v, th)
  PROVE  HomeInv' /\ CallInv'
<1>1. Typed /\ HomeInv /\ CallInv /\ pc[v] = "wait" /\ ch[v] = <<th>>
  BY DEF StealInv, TypeInv, TakesAnswer
<1>2. PrimaryContents(v) = <<>>
  BY <1>1, AnswerAlone
<1>3. HomeInv'
  BY <1>1, TakesAnswerHome
<1>4. th \in Movable(v)
  <2>1. ToSet(<<th>>) = {th}
    BY DEF ToSet
  <2>. QED
    BY <1>1, <2>1 DEF Movable
<1>5. LastCall(th, calledBy)
  BY <1>1, <1>4 DEF CallInv, ContextInv
<1>6. \A u \in VProcs : ch'[u] = ch[u] \/ ch'[u] = <<>>
  BY <1>1 DEF TakesAnswer, Typed
<1>7. CallInv'
  BY <1>1, <1>2, <1>5, <1>6, ArrivesKeeps DEF TakesAnswer
<1>. QED
  BY <1>3, <1>7

LEMMA TakesResumedKeeps ==
  ASSUME StealInv, NEW v \in VProcs, NEW th \in Threads, NEW ds \in DequeLists,
         TakesResumed(v, th, ds)
  PROVE  HomeInv' /\ CallInv'
<1>1. Typed /\ HomeInv /\ CallInv /\ Took(resumeDeques[v], ds, th) /\ NewResumed(v, ds)
      /\ resumeDeques[v] \in DequeLists /\ Apart(resumeDeques[v])
  BY DEF StealInv, TypeInv, TakesResumed, Typed, HomeInv, Listed
<1>2. th.task \in OnDeques(resumeDeques[v]) /\ th \in Captured
  BY <1>1, TookTasks
<1>3. pc[v] = "next"
  BY <1>1, <1>2 DEF TakesResumed, CallInv, IdleInv, WorkSeen, LookingPlaces
<1>4. PrimaryContents(v) = <<>>
  BY <1>3 DEF TakesResumed
<1>5. HomeInv'
  BY <1>1, TakesResumedHome
<1>6. LastCall(th, calledBy)
  BY <1>2, CapturedLast
<1>7. \A u \in VProcs : u # v => resumeDeques'[u] = resumeDeques[u]
  BY <1>1, ResumedTyped
<1>8. CallInv'
  BY <1>3, <1>4, <1>6, <1>7, ArrivesKeeps DEF TakesResumed
<1>. QED
  BY <1>5, <1>8

LEMMA TakesNewestKeeps ==
  ASSUME StealInv, NEW v \in VProcs, NEW th \in Threads, TakesNewest(v, th)
  PROVE  HomeInv' /\ CallInv'
<1>. DEFINE s == PrimaryContents(v)
<1>1. /\ Typed /\ HomeInv /\ CallInv /\ AtWork(v) /\ UNCHANGED program
      /\ resumeDeques' = resumeDeques /\ ch' = ch
      /\ s \in Seq(Threads) /\ s # <<>> /\ th = Last(s) /\ NewPrimary(v, Front(s))
  BY PrimaryIs DEF StealInv, TypeInv, TakesNewest
<1>2. calledBy' = calledBy /\ mainState' = mainState
  BY <1>1 DEF program
<1>3. HomeInv'
  BY <1>1, TakesNewestHome
<1>4. FutureInv'
  BY <1>1, FutureStays DEF CallInv
<1>5. /\ PrimaryContents(v)' = Front(s)
      /\ \A u \in VProcs : u # v => PrimaryContents(u)' = PrimaryContents(u)
  BY <1>1 DEF NewPrimary
<1>6. /\ pc'[v] = "next" \/ pc'[v] = "run"
      /\ running'[v] = th.task
      /\ \A u \in VProcs : u # v => pc'[u] = pc[u] /\ running'[u] = running[u]
  BY <1>1 DEF TakesNewest, GoTo, Typed
<1>7. ToSet(Front(s)) \subseteq ToSet(s)
  BY <1>1, ElementsOf
<1>8. Stacked(s, calledBy)
  BY <1>1 DEF CallInv, ChainInv, Chained
<1>9. Stacked(Front(s), calledBy) /\ (Front(s) # <<>> => Under(Last(Front(s)), th.task, calledBy))
  BY <1>1, <1>8, StackedParts
<1>. HIDE DEF s
<1>10. ContextInv'
  <2>1. ASSUME NEW u \in VProcs, NEW x \in Movable(u)'
        PROVE  \E w \in VProcs : x \in Movable(w)
    <3>1. x \in ToSet(PrimaryContents(u)') \/ x \in ToSet(ch[u])
      BY <1>1, <2>1 DEF Movable
    <3>2. CASE u = v
      BY <1>5, <1>7, <3>1, <3>2 DEF Movable, s
    <3>3. CASE u # v
      BY <1>5, <3>1, <3>3 DEF Movable
    <3>. QED
      BY <3>2, <3>3
  <2>. QED
    BY <1>1, <1>2, <2>1, ContextStays DEF CallInv
<1>11. Chained(v)'
  BY <1>2, <1>5, <1>6, <1>9 DEF Chained
<1>12. ChainInv'
  BY <1>1, <1>2, <1>5, <1>6, <1>11, ChainThere DEF CallInv
<1>13. WorkSeen(v)'
  BY <1>6 DEF WorkSeen, LookingPlaces, IdlePlaces
<1>14. IdleInv'
  BY <1>1, <1>2, <1>5, <1>6, <1>13, WorkThere DEF CallInv
<1>. QED
  BY <1>3, <1>4, <1>10, <1>12, <1>14 DEF CallInv

LEMMA ThiefKeeps ==
  ASSUME StealInv, NEW v \in VProcs, NEW w \in VProcs, NEW th \in Threads,
         \/ \E ds \in DequeLists : ThiefTakesResumed(w, v, th, ds)
         \/ ThiefTakesOldest(w, v, th)
  PROVE  HomeInv' /\ CallInv'
<1>. DEFINE s == PrimaryContents(w)
<1>1. /\ Typed /\ HomeInv /\ CallInv /\ victim[v] = w /\ UNCHANGED program
      /\ pc' = pc /\ running' = running /\ ch' = [ch EXCEPT ![v] = <<th>>]
      /\ s \in Seq(Threads)
  BY PrimaryIs DEF StealInv, TypeInv, ThiefTakesResumed, ThiefTakesOldest, worker
<1>2. calledBy' = calledBy /\ mainState' = mainState
  BY <1>1 DEF program
<1>3. ch[v] = <<>>
  BY <1>1, WorkStealingAssumption DEF StealInv, TypeInv, AtWork
<1>4. HomeInv'
  BY <1>1, <1>3, ThiefTakesResumedHome, ThiefTakesOldestHome
<1>5. FutureInv'
  BY <1>1, FutureStays DEF CallInv
<1>6. /\ LastCall(th, calledBy)
      /\ \A u \in VProcs : u # w => PrimaryContents(u)' = PrimaryContents(u)
      /\ ToSet(PrimaryContents(w)') \subseteq ToSet(s)
      /\ Stacked(PrimaryContents(w)', calledBy)
      /\ PrimaryContents(w)' # <<>> => s # <<>> /\ Last(PrimaryContents(w)') = Last(s)
      /\ \A u \in VProcs : OnDeques(resumeDeques'[u]) \subseteq OnDeques(resumeDeques[u])
  <2>1. Stacked(s, calledBy)
    BY <1>1 DEF CallInv, ChainInv, Chained
  <2>2. ASSUME NEW ds \in DequeLists, ThiefTakesResumed(w, v, th, ds)
        PROVE  /\ th \in Captured
               /\ primary' = primary
               /\ \A u \in VProcs : OnDeques(resumeDeques'[u]) \subseteq OnDeques(resumeDeques[u])
    <3>1. Took(resumeDeques[w], ds, th) /\ NewResumed(w, ds) /\ primary' = primary
      BY <2>2 DEF ThiefTakesResumed
    <3>2. resumeDeques[w] \in DequeLists /\ Apart(resumeDeques[w])
      BY <1>1 DEF Typed, HomeInv, Listed
    <3>3. OnDeques(ds) = OnDeques(resumeDeques[w]) \ {th.task} /\ th \in Captured
      BY <3>1, <3>2, TookTasks
    <3>4. resumeDeques'[w] = ds /\ \A u \in VProcs : u # w => resumeDeques'[u] = resumeDeques[u]
      BY <1>1, <3>1, ResumedTyped
    <3>. QED
      BY <3>1, <3>3, <3>4
  <2>3. CASE \E ds \in DequeLists : ThiefTakesResumed(w, v, th, ds)
    <3>1. LastCall(th, calledBy)
      BY <2>2, <2>3, CapturedLast
    <3>2. \A u \in VProcs : PrimaryContents(u)' = PrimaryContents(u)
      BY <2>2, <2>3 DEF PrimaryContents
    <3>. QED
      BY <2>1, <2>2, <2>3, <3>1, <3>2
  <2>4. CASE ThiefTakesOldest(w, v, th)
    <3>1. /\ Len(s) > 1 /\ th = Head(s) /\ resumeDeques' = resumeDeques
          /\ PrimaryContents(w)' = Tail(s)
          /\ \A u \in VProcs : u # w => PrimaryContents(u)' = PrimaryContents(u)
      BY <2>4 DEF ThiefTakesOldest, NewPrimary
    <3>2. s # <<>>
      BY <3>1, EmptySeq
    <3>3. th \in ToSet(s) /\ ToSet(Tail(s)) \subseteq ToSet(s)
      BY <1>1, <3>1, <3>2, ElementsOf
    <3>4. th \in Movable(w)
      BY <3>3 DEF Movable
    <3>5. LastCall(th, calledBy)
      BY <1>1, <3>4 DEF CallInv, ContextInv
    <3>6. Stacked(Tail(s), calledBy) /\ (Tail(s) # <<>> => Last(Tail(s)) = Last(s))
      BY <1>1, <2>1, <3>2, StackedParts
    <3>. QED
      BY <3>1, <3>2, <3>3, <3>5, <3>6
  <2>. QED
    BY <2>3, <2>4
<1>. HIDE DEF s
<1>7. ToSet(<<th>>) = {th}
  BY DEF ToSet
<1>8. ch'[v] = <<th>> /\ \A u \in VProcs : u # v => ch'[u] = ch[u]
  BY <1>1 DEF Typed
<1>9. ContextInv'
  <2>1. ASSUME NEW u \in VProcs, NEW x \in Movable(u)'
        PROVE  LastCall(x, calledBy) \/ \E y \in VProcs : x \in Movable(y)
    <3>1. x \in ToSet(PrimaryContents(u)') \/ x \in ToSet(ch'[u])
      BY <2>1 DEF Movable
    <3>2. CASE x \in ToSet(PrimaryContents(u)')
      <4>1. x \in ToSet(PrimaryContents(u))
        BY <1>6, <3>2 DEF s
      <4>. QED
        BY <4>1 DEF Movable
    <3>3. CASE x \in ToSet(ch'[u])
      <4>1. x = th \/ x \in ToSet(ch[u])
        BY <1>7, <1>8, <3>3
      <4>. QED
        BY <1>6, <4>1 DEF Movable
    <3>. QED
      BY <3>1, <3>2, <3>3
  <2>. QED
    BY <1>1, <1>2, <2>1, ContextStays DEF CallInv
<1>10. Chained(w)'
  <2>1. running[w] # NoTask /\ s # <<>> => Under(Last(s), running[w], calledBy)
    BY <1>1 DEF CallInv, ChainInv, Chained, s
  <2>. QED
    BY <1>1, <1>2, <1>6, <2>1 DEF Chained
<1>11. ChainInv'
  BY <1>1, <1>2, <1>6, <1>10, ChainThere DEF CallInv
<1>12. IdleInv'
  <2>1. ASSUME NEW u \in VProcs PROVE WorkSeen(u)'
    <3>1. WorkSeen(u)
      BY <1>1 DEF CallInv, IdleInv
    <3>2. PrimaryContents(u)' # <<>> => PrimaryContents(u) # <<>>
      BY <1>6 DEF s
    <3>3. OnDeques(resumeDeques[u])' \subseteq OnDeques(resumeDeques[u])
      BY <1>6
    <3>. QED
      BY <1>1, <1>2, <3>1, <3>2, <3>3 DEF WorkSeen
  <2>. QED
    BY <2>1 DEF IdleInv
<1>. QED
  BY <1>4, <1>5, <1>9, <1>11, <1>12 DEF CallInv

----------------------------------------------------------------------------
(* What tasks do keeps the invariant. *)

(* A task that runs is alive, and called unless it is the main thread. *)
LEMMA RunsAlive ==
  ASSUME StealInv, NEW v \in VProcs, running[v] # NoTask
  PROVE  /\ running[v] \in TasksAt(<<"runs", v>>) /\ <<"runs", v>> \in Labels
         /\ running[v] \in Tasks /\ Alive(running[v]) /\ pc[v] = "run"
         /\ running[v] \in Futures => calledBy[running[v]] # NoTask /\ running[v] \notin done
<1>1. Homed /\ AtWork(v)
  BY DEF StealInv, HomeInv, TypeInv
<1>2. running[v] \in TasksAt(<<"runs", v>>) /\ <<"runs", v>> \in Labels
  BY RunsAt, LabelIs
<1>3. running[v] \in Tasks /\ Alive(running[v])
  BY <1>1, <1>2 DEF Homed
<1>. QED
  BY <1>1, <1>2, <1>3, TaskKinds DEF AtWork, Alive

(* What is on a deque or in an answer is of other tasks. *)
LEMMA OthersMovable ==
  ASSUME StealInv, NEW v \in VProcs, running[v] # NoTask, NEW u \in VProcs, NEW th \in Movable(u)
  PROVE  th \in Threads /\ th.task # running[v]
<1>1. Typed /\ Homed
  BY DEF StealInv, HomeInv, TypeInv
<1>2. PrimaryContents(u) \in Seq(Threads) /\ ch[u] \in Seq(Threads)
  BY <1>1, PrimaryIs DEF Typed
<1>3. th \in ToSet(PrimaryContents(u)) \/ th \in ToSet(ch[u])
  BY DEF Movable
<1>4. th \in Threads /\ (th.task \in TasksOf(PrimaryContents(u)) \/ th.task \in TasksOf(ch[u]))
  BY <1>2, <1>3, ElementsOf
<1>5. /\ th.task \in TasksAt(<<"primary", u>>) \/ th.task \in TasksAt(<<"answer", u>>)
      /\ <<"primary", u>> \in Labels /\ <<"answer", u>> \in Labels
  BY <1>4, PrimaryAt, AnswerAt, LabelIs
<1>6. running[v] \in TasksAt(<<"runs", v>>) /\ <<"runs", v>> \in Labels
  BY RunsAlive
<1>7. running[v] \notin TasksAt(<<"primary", u>>) /\ running[v] \notin TasksAt(<<"answer", u>>)
  <2>1. <<"runs", v>> # <<"primary", u>> /\ <<"runs", v>> # <<"answer", u>>
    OBVIOUS
  <2>. QED
    BY <1>1, <1>5, <1>6, <2>1, OneLabel
<1>. QED
  BY <1>4, <1>5, <1>7

(* When a task leaves its vproc, or another takes its place, its worker    *)
(* looks for no work.                                                      *)
LEMMA RunnerKeepsIdle ==
  ASSUME StealInv, NEW v \in VProcs, running[v] # NoTask, mainState' = mainState,
         \/ pc' = pc
         \/ GoTo(v, "next") \/ GoTo(v, "preempted"),
         \A u \in VProcs : u # v =>
           /\ PrimaryContents(u)' = PrimaryContents(u)
           /\ OnDeques(resumeDeques'[u]) = OnDeques(resumeDeques[u])
  PROVE  IdleInv'
<1>1. Typed /\ IdleInv /\ pc[v] = "run"
  BY RunsAlive DEF StealInv, TypeInv, CallInv
<1>2. /\ pc'[v] \in {"run", "next", "preempted"}
      /\ \A u \in VProcs : u # v => pc'[u] = pc[u]
  BY <1>1 DEF GoTo, Typed
<1>3. WorkSeen(v)'
  BY <1>2 DEF WorkSeen, LookingPlaces, IdlePlaces
<1>. QED
  BY <1>1, <1>2, <1>3, WorkThere

LEMMA PreemptsKeeps ==
  ASSUME StealInv, NEW v \in VProcs, Preempts(v)
  PROVE  HomeInv' /\ CallInv'
<1>. DEFINE s == PrimaryContents(v)
            th == Thread(running[v], NoTask)
<1>1. /\ Typed /\ HomeInv /\ CallInv /\ pc[v] = "run" /\ \A u \in VProcs : AtWork(u)
      /\ s \in Seq(Threads) /\ UNCHANGED program /\ ch' = ch /\ resumeDeques' = resumeDeques
      /\ NewPrimary(v, PushedOn(s, th))
  BY PrimaryIs DEF StealInv, TypeInv, Preempts
<1>2. running[v] # NoTask
  BY <1>1 DEF AtWork
<1>3. th \in Threads /\ th \in Captured /\ th.task = running[v]
  BY <1>1, <1>2, RunningTask, ThreadFields
<1>4. calledBy' = calledBy /\ mainState' = mainState
  BY <1>1 DEF program
<1>5. HomeInv'
  BY <1>1, PreemptsHome
<1>6. FutureInv'
  BY <1>1, FutureStays DEF CallInv
<1>7. /\ PrimaryContents(v)' = PushedOn(s, th)
      /\ \A u \in VProcs : u # v => PrimaryContents(u)' = PrimaryContents(u)
  BY <1>1 DEF NewPrimary
<1>8. Stacked(s, calledBy) /\ (s # <<>> => Under(Last(s), th.task, calledBy))
  BY <1>1, <1>2, <1>3 DEF CallInv, ChainInv, Chained
<1>. HIDE DEF s, th
<1>9. ToSet(PushedOn(s, th)) \subseteq ToSet(s) \union {th} /\ LastCall(th, calledBy)
  BY <1>1, <1>3, ElementsOf, CapturedLast
<1>10. ContextInv'
  <2>1. ASSUME NEW u \in VProcs, NEW x \in Movable(u)'
        PROVE  LastCall(x, calledBy) \/ \E w \in VProcs : x \in Movable(w)
    <3>1. x \in ToSet(PrimaryContents(u)') \/ x \in ToSet(ch[u])
      BY <1>1, <2>1 DEF Movable
    <3>2. CASE u = v
      BY <1>7, <1>9, <3>1, <3>2 DEF Movable, s
    <3>3. CASE u # v
      BY <1>7, <3>1, <3>3 DEF Movable
    <3>. QED
      BY <3>2, <3>3
  <2>. QED
    BY <1>1, <1>4, <2>1, ContextStays DEF CallInv
<1>11. running'[v] = NoTask /\ \A u \in VProcs : u # v => running'[u] = running[u]
  BY <1>1 DEF Preempts, Typed
<1>12. Stacked(PushedOn(s, th), calledBy)
  BY <1>1, <1>3, <1>8, StackedPush
<1>13. Chained(v)'
  BY <1>4, <1>7, <1>11, <1>12 DEF Chained
<1>14. ChainInv'
  BY <1>1, <1>4, <1>7, <1>11, <1>13, ChainThere DEF CallInv
<1>15. IdleInv'
  BY <1>1, <1>2, <1>4, <1>7, RunnerKeepsIdle DEF Preempts
<1>. QED
  BY <1>5, <1>6, <1>10, <1>14, <1>15 DEF CallInv

LEMMA BeginsKeeps ==
  ASSUME StealInv, NEW v \in VProcs, Begins(v)
  PROVE  HomeInv' /\ CallInv'
<1>. DEFINE th == Thread(Main, NoTask)
<1>1. /\ Typed /\ HomeInv /\ CallInv /\ mainState = "outside" /\ mainState' = "begun"
      /\ calledBy' = calledBy /\ done' = done /\ waiters' = waiters
      /\ pc' = pc /\ running' = running /\ ch' = ch /\ resumeDeques' = resumeDeques
      /\ pc[v] # "run" /\ NewPrimary(v, PushedOn(PrimaryContents(v), th))
  BY DEF StealInv, TypeInv, Begins, worker
<1>2. running[v] = NoTask
  BY <1>1, NoTaskOutside
<1>3. PrimaryContents(v) = <<>>
  <2>1. TasksAt(<<"primary", v>>) = {}
    BY <1>1, OnlyMain, LabelIs DEF HomeInv, CallInv
  <2>. QED
    BY <1>1, <2>1, PrimaryIs, PrimaryAt, TasksInTasks
<1>4. HomeInv'
  BY <1>1, BeginsHome
<1>5. FutureInv'
  BY <1>1 DEF CallInv, FutureInv, Knows
<1>6. th \in Threads /\ th \in Captured
  BY ThreadFields, TaskKinds DEF Captured
<1>7. <<>> \in Seq(Threads) /\ ToSet(<<>>) = {} /\ Stacked(<<>>, calledBy)
  BY EmptySeq DEF ToSet, Stacked
<1>. HIDE DEF th
<1>8. /\ PrimaryContents(v)' = PushedOn(<<>>, th)
      /\ \A u \in VProcs : u # v => PrimaryContents(u)' = PrimaryContents(u)
  BY <1>1, <1>3 DEF NewPrimary
<1>9. /\ ToSet(PushedOn(<<>>, th)) \subseteq {th} /\ LastCall(th, calledBy)
      /\ Stacked(PushedOn(<<>>, th), calledBy)
  BY <1>6, <1>7, ElementsOf, CapturedLast, StackedPush
<1>10. ContextInv'
  <2>1. ASSUME NEW u \in VProcs, NEW x \in Movable(u)'
        PROVE  LastCall(x, calledBy) \/ \E w \in VProcs : x \in Movable(w)
    <3>1. x \in ToSet(PrimaryContents(u)') \/ x \in ToSet(ch[u])
      BY <1>1, <2>1 DEF Movable
    <3>2. CASE u = v
      BY <1>8, <1>9, <3>1, <3>2 DEF Movable
    <3>3. CASE u # v
      BY <1>8, <3>1, <3>3 DEF Movable
    <3>. QED
      BY <3>2, <3>3
  <2>. QED
    BY <1>1, <2>1, ContextStays DEF CallInv
<1>11. Chained(v)'
  BY <1>1, <1>2, <1>8, <1>9 DEF Chained
<1>12. ChainInv'
  BY <1>1, <1>8, <1>11, ChainThere DEF CallInv
<1>13. IdleInv'
  BY <1>1 DEF CallInv, IdleInv, WorkSeen
<1>. QED
  BY <1>4, <1>5, <1>10, <1>12, <1>13 DEF CallInv

LEMMA StartedKeeps ==
  ASSUME StealInv, NEW v \in VProcs, WorkGroupStarted(v)
  PROVE  HomeInv' /\ CallInv'
<1>1. /\ Typed /\ HomeInv /\ CallInv /\ running[v] = Main
      /\ mainState = "begun" /\ mainState' = "started"
      /\ calledBy' = calledBy /\ done' = done /\ waiters' = waiters
      /\ pc' = pc /\ running' = running /\ ch' = ch /\ resumeDeques' = resumeDeques
      /\ primary' = primary
  BY DEF StealInv, TypeInv, WorkGroupStarted, worker, deques
<1>2. Same(v)
  BY <1>1, PrimaryStays DEF Same
<1>3. SameAlive
  BY <1>1 DEF SameAlive, Alive
<1>4. HomeInv'
  BY <1>1, <1>2, <1>3, StaysHome
<1>5. FutureInv'
  BY <1>1 DEF CallInv, FutureInv, Knows
<1>6. \A u \in VProcs : PrimaryContents(u)' = PrimaryContents(u)
  BY <1>1 DEF PrimaryContents
<1>7. ContextInv' /\ ChainInv'
  BY <1>1, <1>6 DEF CallInv, ContextInv, Movable, ChainInv, Chained
<1>8. ASSUME NEW u \in VProcs PROVE PrimaryContents(u) = <<>>
  <2>1. Main \in TasksAt(<<"runs", v>>) /\ <<"runs", v>> \in Labels /\ <<"primary", u>> \in Labels
    BY <1>1, RunsAt, LabelIs, TaskKinds
  <2>2. <<"runs", v>> # <<"primary", u>>
    OBVIOUS
  <2>3. Main \notin TasksAt(<<"primary", u>>)
    BY <1>1, <2>1, <2>2, OneLabel DEF HomeInv
  <2>4. TasksAt(<<"primary", u>>) = {}
    BY <1>1, <2>1, <2>3, OnlyMain DEF HomeInv, CallInv
  <2>. QED
    BY <1>1, <2>4, PrimaryIs, PrimaryAt, TasksInTasks
<1>9. IdleInv'
  BY <1>1, <1>6, <1>8 DEF CallInv, IdleInv, WorkSeen
<1>. QED
  BY <1>4, <1>5, <1>7, <1>9 DEF CallInv

LEMMA EndMainKeeps ==
  ASSUME StealInv, NEW v \in VProcs, EndMain(v)
  PROVE  HomeInv' /\ CallInv'
<1>1. /\ Typed /\ HomeInv /\ CallInv /\ running[v] = Main
      /\ mainState = "started" /\ mainState' = "left"
      /\ calledBy' = calledBy /\ done' = done /\ waiters' = waiters
      /\ ch' = ch /\ resumeDeques' = resumeDeques
      /\ primary' = primary /\ BackToWorker(v)
  BY DEF StealInv, TypeInv, EndMain, deques
<1>2. HomeInv'
  BY <1>1, EndMainHome
<1>3. FutureInv'
  BY <1>1 DEF CallInv, FutureInv, Knows
<1>4. \A u \in VProcs : PrimaryContents(u)' = PrimaryContents(u)
  BY <1>1 DEF PrimaryContents
<1>5. ContextInv'
  BY <1>1, <1>4 DEF CallInv, ContextInv, Movable
<1>6. /\ running'[v] = NoTask /\ pc'[v] = "next"
      /\ \A u \in VProcs : u # v => running'[u] = running[u] /\ pc'[u] = pc[u]
  BY <1>1 DEF BackToWorker, GoTo, Typed
<1>7. Chained(v)'
  BY <1>1, <1>4, <1>6 DEF CallInv, ChainInv, Chained
<1>8. ChainInv'
  BY <1>1, <1>4, <1>6, <1>7, ChainThere DEF CallInv
<1>9. ASSUME NEW u \in VProcs PROVE WorkSeen(u)'
  <2>1. CASE u = v
    BY <1>6, <2>1 DEF WorkSeen, LookingPlaces, IdlePlaces
  <2>2. CASE u # v
    BY <1>1, <1>4, <1>6, <2>2 DEF CallInv, IdleInv, WorkSeen
  <2>. QED
    BY <2>1, <2>2
<1>. QED
  BY <1>2, <1>3, <1>5, <1>8, <1>9 DEF CallInv, IdleInv

LEMMA TouchKeeps ==
  ASSUME StealInv, NEW v \in VProcs, NEW k \in Futures, TouchEmpty(v, k)
  PROVE  HomeInv' /\ CallInv'
<1>. DEFINE th == Thread(running[v], NoTask)
<1>1. /\ Typed /\ HomeInv /\ CallInv /\ \A u \in VProcs : AtWork(u)
      /\ running[v] # NoTask /\ Knows(running[v], k) /\ k \notin done
      /\ mainState' = mainState /\ calledBy' = calledBy /\ done' = done
      /\ waiters' = [waiters EXCEPT ![k] = <<th>> \o waiters[k]]
      /\ ch' = ch /\ resumeDeques' = resumeDeques
      /\ primary' = primary /\ BackToWorker(v)
  BY DEF StealInv, TypeInv, TouchEmpty, deques
<1>2. HomeInv'
  BY <1>1, TouchHome
<1>3. th \in Threads /\ th.task = running[v]
  BY <1>1, RunningTask, ThreadFields
<1>4. waiters[k] \in Seq(Threads)
  <2>1. waiters[k] \in Seq(Captured)
    BY <1>1 DEF Typed
  <2>. QED
    BY <2>1, ElementOfSeq, SeqDef DEF Captured
<1>. HIDE DEF th
<1>5. /\ TasksOf(waiters'[k]) = TasksOf(waiters[k]) \union {running[v]}
      /\ \A j \in Futures : j # k => waiters'[j] = waiters[j]
  <2>1. TasksOf(<<th>> \o waiters[k]) = TasksOf(waiters[k]) \union {th.task}
    BY <1>3, <1>4, HeadTasks
  <2>. QED
    BY <1>1, <1>3, <2>1 DEF Typed
<1>6. FutureInv'
  <2>1. ASSUME NEW j \in Futures, NEW t \in TasksOf(waiters'[j])
        PROVE  j \notin done /\ Knows(t, j)
    <3>1. t \in TasksOf(waiters[j]) \/ (j = k /\ t = running[v])
      BY <1>5, <2>1
    <3>. QED
      BY <1>1, <3>1 DEF CallInv, FutureInv
  <2>2. \A t, j : Knows(t, j)' <=> Knows(t, j)
    BY <1>1 DEF Knows
  <2>. QED
    BY <1>1, <2>1, <2>2 DEF CallInv, FutureInv
<1>7. \A u \in VProcs : PrimaryContents(u)' = PrimaryContents(u)
  BY <1>1 DEF PrimaryContents
<1>8. ContextInv'
  BY <1>1, <1>7 DEF CallInv, ContextInv, Movable
<1>9. running'[v] = NoTask /\ \A u \in VProcs : u # v => running'[u] = running[u]
  BY <1>1 DEF BackToWorker, Typed
<1>10. Chained(v)'
  BY <1>1, <1>7, <1>9 DEF CallInv, ChainInv, Chained
<1>11. ChainInv'
  BY <1>1, <1>7, <1>9, <1>10, ChainThere DEF CallInv
<1>12. IdleInv'
  BY <1>1, <1>7, RunnerKeepsIdle DEF BackToWorker
<1>. QED
  BY <1>2, <1>6, <1>8, <1>11, <1>12 DEF CallInv

LEMMA PutsKeeps ==
  ASSUME StealInv, NEW v \in VProcs, NEW k \in Futures, Puts(v, k)
  PROVE  Same(v) /\ HomeInv' /\ CallInv'
<1>1. /\ Typed /\ HomeInv /\ CallInv /\ running[v] = k /\ k # NoTask
      /\ mainState' = mainState /\ calledBy' = calledBy /\ done' = done \union {k}
      /\ waiters' = [waiters EXCEPT ![k] = <<>>]
      /\ ch' = ch /\ BackToWorker(v)
      /\ NewResumed(v, NewDeques(waiters[k]) \o resumeDeques[v])
  BY TaskKinds DEF StealInv, TypeInv, Puts
<1>2. Same(v)
  <2>1. PrimaryContents(v) # <<>> => Under(Last(PrimaryContents(v)), k, calledBy)
    BY <1>1 DEF CallInv, ChainInv, Chained
  <2>. QED
    BY <2>1 DEF Puts, Under
<1>3. HomeInv'
  BY <1>1, <1>2, PutsHome
<1>4. calledBy[k] # NoTask
  BY <1>1, RunsAlive
<1>5. FutureInv'
  <2>1. TasksOf(waiters'[k]) = {} /\ \A j \in Futures : j # k => waiters'[j] = waiters[j]
    BY <1>1, EmptyTasks DEF Typed
  <2>2. ASSUME NEW j \in Futures, NEW t \in TasksOf(waiters'[j])
        PROVE  j \notin done' /\ Knows(t, j)
    <3>1. j # k /\ t \in TasksOf(waiters[j])
      BY <2>1, <2>2
    <3>. QED
      BY <1>1, <3>1 DEF CallInv, FutureInv
  <2>3. \A t, j : Knows(t, j)' <=> Knows(t, j)
    BY <1>1 DEF Knows
  <2>. QED
    BY <1>1, <1>4, <2>2, <2>3 DEF CallInv, FutureInv
<1>6. \A u \in VProcs : PrimaryContents(u)' = PrimaryContents(u)
  BY <1>2 DEF Same, NewPrimary
<1>7. ContextInv'
  BY <1>1, <1>6 DEF CallInv, ContextInv, Movable
<1>8. running'[v] = NoTask /\ \A u \in VProcs : u # v => running'[u] = running[u]
  BY <1>1 DEF BackToWorker, Typed
<1>9. Chained(v)'
  BY <1>1, <1>6, <1>8 DEF CallInv, ChainInv, Chained
<1>10. ChainInv'
  BY <1>1, <1>6, <1>8, <1>9, ChainThere DEF CallInv
<1>11. \A u \in VProcs : u # v => resumeDeques'[u] = resumeDeques[u]
  BY <1>1, ResumedTyped
<1>12. IdleInv'
  BY <1>1, <1>6, <1>11, RunnerKeepsIdle DEF BackToWorker
<1>. QED
  BY <1>2, <1>3, <1>5, <1>7, <1>10, <1>12 DEF CallInv

(* Nobody waits for a future whose context is still there: the others that *)
(* know it are its caller and what its caller called later.                *)
LEMMA NoneWaits ==
  ASSUME StealInv, NEW v \in VProcs, NEW k \in Futures, PrimaryContents(v) # <<>>,
         Last(PrimaryContents(v)) = Thread(calledBy[k], k)
  PROVE  TasksOf(waiters[k]) = {}
<1>. DEFINE s == PrimaryContents(v)
            th == Thread(calledBy[k], k)
<1>1. Typed /\ Homed /\ CallInv /\ s \in Seq(Threads) /\ s # <<>> /\ Last(s) = th
  BY PrimaryIs DEF StealInv, TypeInv, HomeInv
<1>2. th.task = calledBy[k] /\ th.future = k /\ k # NoTask /\ k \in Nat
  BY ThreadFields, TaskKinds
<1>. HIDE DEF s, th
<1>3. th \in ToSet(s) /\ th.task \in TasksOf(s)
  BY <1>1, ElementsOf
<1>4. LastCall(th, calledBy)
  BY <1>1, <1>3 DEF CallInv, ContextInv, Movable, s
<1>5. \A j \in Futures : j > k => calledBy[j] # calledBy[k]
  BY <1>2, <1>4 DEF LastCall
<1>. SUFFICES ASSUME NEW t \in TasksOf(waiters[k]) PROVE FALSE
  OBVIOUS
<1>6. Knows(t, k)
  BY <1>1 DEF CallInv, FutureInv
<1>7. CASE calledBy[k] = t
  <2>1. /\ t \in TasksAt(<<"primary", v>>) /\ t \in TasksAt(<<"blocked", k>>)
        /\ <<"primary", v>> \in Labels /\ <<"blocked", k>> \in Labels
    BY <1>2, <1>3, <1>7, PrimaryAt, BlockedAt, LabelIs DEF s
  <2>2. <<"primary", v>> # <<"blocked", k>>
    OBVIOUS
  <2>. QED
    BY <1>1, <2>1, <2>2, OneLabel
<1>8. CASE t \in Futures /\ k < t /\ calledBy[k] = calledBy[t]
  BY <1>5, <1>8, TaskKinds
<1>. QED
  BY <1>6, <1>7, <1>8 DEF Knows

LEMMA GoesOnKeeps ==
  ASSUME StealInv, NEW v \in VProcs, NEW k \in Futures, GoesOn(v, k)
  PROVE  HomeInv' /\ CallInv'
<1>. DEFINE s == PrimaryContents(v)
<1>1. /\ Typed /\ HomeInv /\ CallInv /\ running[v] = k /\ k # NoTask
      /\ mainState' = mainState /\ calledBy' = calledBy /\ done' = done \union {k}
      /\ waiters' = waiters /\ resumeDeques' = resumeDeques
      /\ ch' = ch /\ pc' = pc
      /\ running' = [running EXCEPT ![v] = calledBy[k]]
      /\ NewPrimary(v, Front(s)) /\ s \in Seq(Threads) /\ s # <<>>
      /\ Last(s) = Thread(calledBy[k], k)
  BY TaskKinds, PrimaryIs DEF StealInv, TypeInv, GoesOn
<1>2. HomeInv'
  BY <1>1, GoesOnHome
<1>3. TasksOf(waiters[k]) = {}
  BY <1>1, NoneWaits
<1>4. calledBy[k] # NoTask
  BY <1>1, RunsAlive
<1>5. FutureInv'
  <2>1. ASSUME NEW j \in Futures, NEW t \in TasksOf(waiters[j])
        PROVE  j \notin done' /\ Knows(t, j)
    BY <1>1, <1>3, <2>1 DEF CallInv, FutureInv
  <2>2. \A t, j : Knows(t, j)' <=> Knows(t, j)
    BY <1>1 DEF Knows
  <2>. QED
    BY <1>1, <1>4, <2>1, <2>2 DEF CallInv, FutureInv
<1>6. /\ PrimaryContents(v)' = Front(s)
      /\ \A u \in VProcs : u # v => PrimaryContents(u)' = PrimaryContents(u)
  BY <1>1 DEF NewPrimary
<1>7. ToSet(Front(s)) \subseteq ToSet(s)
  BY <1>1, ElementsOf
<1>8. Stacked(s, calledBy) /\ Last(s).task = calledBy[k]
  BY <1>1, ThreadFields DEF CallInv, ChainInv, Chained
<1>9. Stacked(Front(s), calledBy) /\ (Front(s) # <<>> => Under(Last(Front(s)), calledBy[k], calledBy))
  BY <1>1, <1>8, StackedParts
<1>. HIDE DEF s
<1>10. ContextInv'
  <2>1. ASSUME NEW u \in VProcs, NEW x \in Movable(u)'
        PROVE  \E w \in VProcs : x \in Movable(w)
    <3>1. x \in ToSet(PrimaryContents(u)') \/ x \in ToSet(ch[u])
      BY <1>1, <2>1 DEF Movable
    <3>2. CASE u = v
      BY <1>6, <1>7, <3>1, <3>2 DEF Movable, s
    <3>3. CASE u # v
      BY <1>6, <3>1, <3>3 DEF Movable
    <3>. QED
      BY <3>2, <3>3
  <2>. QED
    BY <1>1, <2>1, ContextStays DEF CallInv
<1>11. running'[v] = calledBy[k] /\ \A u \in VProcs : u # v => running'[u] = running[u]
  BY <1>1 DEF Typed
<1>12. Chained(v)'
  BY <1>1, <1>6, <1>9, <1>11 DEF Chained
<1>13. ChainInv'
  BY <1>1, <1>6, <1>11, <1>12, ChainThere DEF CallInv
<1>14. IdleInv'
  BY <1>1, <1>6, RunnerKeepsIdle
<1>. QED
  BY <1>2, <1>5, <1>10, <1>13, <1>14 DEF CallInv

LEMMA CallsKeeps ==
  ASSUME StealInv, NEW v \in VProcs, NEW k \in Futures, Calls(v, k)
  PROVE  HomeInv' /\ CallInv'
<1>. DEFINE s == PrimaryContents(v)
            r == running[v]
            th == Thread(r, k)
<1>1. /\ Typed /\ HomeInv /\ CallInv /\ \A u \in VProcs : AtWork(u)
      /\ r # NoTask /\ mainState # "begun" /\ mainState' = mainState
      /\ calledBy[k] = NoTask /\ \A j \in 1..(k - 1) : calledBy[j] # NoTask
      /\ calledBy' = [calledBy EXCEPT ![k] = r] /\ done' = done
      /\ waiters' = waiters /\ resumeDeques' = resumeDeques /\ ch' = ch /\ pc' = pc
      /\ running' = [running EXCEPT ![v] = k]
      /\ NewPrimary(v, PushedOn(s, th)) /\ s \in Seq(Threads)
  BY PrimaryIs DEF StealInv, TypeInv, Calls
<1>2. k \in Nat /\ k # NoTask /\ r \in Tasks /\ Alive(r)
      /\ (r \in Futures => calledBy[r] # NoTask) /\ th \in Threads /\ th.task = r /\ th.future = k
  BY <1>1, TaskKinds, RunsAlive, RunningTask, ThreadFields
<1>3. calledBy'[k] = r /\ \A j \in Futures : j # k => calledBy'[j] = calledBy[j]
  BY <1>1 DEF Typed
<1>4. HomeInv'
  <2>1. k \notin done
    BY <1>1 DEF CallInv, FutureInv
  <2>. QED
    BY <1>1, <2>1, CallsHome
<1>5. mainState \in {"started", "left"}
  <2>1. CASE r = Main
    BY <1>1, <1>2, <2>1 DEF Alive
  <2>2. CASE r \in Futures
    BY <1>1, <1>2, <2>2 DEF CallInv, FutureInv
  <2>. QED
    BY <1>2, <2>1, <2>2, TaskKinds
(* Futures are called in their order. *)
<1>6. \A j \in Futures : calledBy[j] # NoTask => j < k
  <2>. SUFFICES ASSUME NEW j \in Futures, calledBy[j] # NoTask, ~ (j < k) PROVE FALSE
    OBVIOUS
  <2>1. j \in Nat /\ j # k /\ k \in 1..(j - 1)
    BY <1>1, <1>2, TaskKinds, SizeAssumption DEF Futures
  <2>. QED
    BY <1>1, <2>1 DEF CallInv, FutureInv
<1>7. r < k
  <2>1. CASE r = Main
    BY <1>2, <2>1, SizeAssumption DEF Main, Futures
  <2>2. CASE r \in Futures
    BY <1>2, <1>6, <2>2
  <2>. QED
    BY <1>2, <2>1, <2>2, TaskKinds
<1>. HIDE DEF s, r, th
<1>8. \A j \in Futures : calledBy[j] # NoTask => calledBy'[j] = calledBy[j]
  BY <1>1, <1>3
<1>9. FutureInv'
  <2>1. \A j \in done' : calledBy'[j] # NoTask
    BY <1>1, <1>8 DEF CallInv, FutureInv, Typed
  <2>2. ASSUME NEW j \in Futures, calledBy'[j] # NoTask
        PROVE  /\ calledBy'[j] < j
               /\ \A i \in 1..(j - 1) : calledBy'[i] # NoTask
               /\ mainState' \in {"started", "left"}
    <3>1. \A i \in 1..(j - 1) : i \in Futures
      BY SizeAssumption DEF Futures
    <3>2. CASE j = k
      BY <1>1, <1>3, <1>5, <1>7, <1>8, <3>1, <3>2
    <3>3. CASE j # k
      BY <1>1, <1>3, <1>5, <1>8, <2>2, <3>1, <3>3 DEF CallInv, FutureInv
    <3>. QED
      BY <3>2, <3>3
  <2>3. ASSUME NEW j \in Futures, NEW t \in TasksOf(waiters[j])
        PROVE  j \notin done /\ Knows(t, j)'
    <3>1. j \notin done /\ Knows(t, j)
      BY <1>1 DEF CallInv, FutureInv
    <3>2. t # NoTask
      <4>1. t \in TasksAt(<<"blocked", j>>) /\ <<"blocked", j>> \in Labels
        BY BlockedAt, LabelIs
      <4>2. t \in Tasks
        BY <1>1, <4>1 DEF HomeInv, Homed
      <4>. QED
        BY <4>2, TaskKinds
    <3>. QED
      BY <1>8, <3>1, <3>2 DEF Knows
  <2>. QED
    BY <1>1, <2>1, <2>2, <2>3 DEF FutureInv
<1>10. /\ PrimaryContents(v)' = PushedOn(s, th)
       /\ \A u \in VProcs : u # v => PrimaryContents(u)' = PrimaryContents(u)
  BY <1>1 DEF NewPrimary
<1>11. LastCall(th, calledBy')
  <2>1. \A j \in Futures : j > k => calledBy'[j] # r
    <3>. SUFFICES ASSUME NEW j \in Futures, j > k PROVE calledBy'[j] # r
      OBVIOUS
    <3>1. j # k /\ ~ (j < k)
      BY <1>2, TaskKinds
    <3>. QED
      BY <1>1, <1>3, <1>6, <3>1
  <2>. QED
    BY <1>2, <1>3, <2>1 DEF LastCall
<1>12. ASSUME NEW u \in VProcs, NEW x \in Movable(u)
       PROVE  LastCall(x, calledBy')
  <2>1. x \in Threads /\ x.task # r
    BY <1>1, OthersMovable DEF r
  <2>2. LastCall(x, calledBy)
    BY <1>1 DEF CallInv, ContextInv
  <2>3. x.future # NoTask => x.future \in Futures /\ x.task # NoTask
    BY <2>1, TaskKinds DEF Threads
  <2>4. ASSUME x.future # NoTask
        PROVE  /\ calledBy'[x.future] = x.task
               /\ \A j \in Futures : j > x.future => calledBy'[j] # x.task
    <3>1. calledBy[x.future] = x.task /\ \A j \in Futures : j > x.future => calledBy[j] # x.task
      BY <2>2, <2>4 DEF LastCall
    <3>. QED
      BY <1>3, <1>8, <2>1, <2>3, <2>4, <3>1
  <2>. QED
    BY <2>4 DEF LastCall
<1>13. ContextInv'
  <2>1. ToSet(PushedOn(s, th)) \subseteq ToSet(s) \union {th}
    BY <1>1, <1>2, ElementsOf
  <2>2. ASSUME NEW u \in VProcs, NEW x \in Movable(u)'
        PROVE  x = th \/ x \in Movable(u)
    <3>1. x \in ToSet(PrimaryContents(u)') \/ x \in ToSet(ch[u])
      BY <1>1, <2>2 DEF Movable
    <3>2. CASE u = v
      BY <1>10, <2>1, <3>1, <3>2 DEF Movable, s
    <3>3. CASE u # v
      BY <1>10, <3>1, <3>3 DEF Movable
    <3>. QED
      BY <3>2, <3>3
  <2>. QED
    BY <1>11, <1>12, <2>2 DEF ContextInv
<1>14. ASSUME NEW x \in Threads, NEW t, Under(x, t, calledBy)
       PROVE  Under(x, t, calledBy')
  <2>1. t \in Futures /\ x = Thread(calledBy[t], t)
    BY <1>14 DEF Under
  <2>2. x.task \in Tasks /\ x.task = calledBy[t]
    BY <2>1, ThreadFields
  <2>. QED
    BY <1>8, <2>1, <2>2, TaskKinds DEF Under
<1>15. ASSUME NEW u \in VProcs
       PROVE  Stacked(PrimaryContents(u), calledBy')
  <2>1. Stacked(PrimaryContents(u), calledBy) /\ PrimaryContents(u) \in Seq(Threads)
    BY <1>1, PrimaryIs DEF CallInv, ChainInv, Chained
  <2>2. ASSUME NEW i \in DOMAIN PrimaryContents(u), i # 1
        PROVE  PrimaryContents(u)[i - 1] \in Threads
    BY <2>1, <2>2, LenProperties, ElementOfSeq
  <2>. QED
    BY <1>14, <2>1, <2>2 DEF Stacked
<1>16. ASSUME NEW u \in VProcs, running[u] # NoTask, PrimaryContents(u) # <<>>
       PROVE  Under(Last(PrimaryContents(u)), running[u], calledBy')
  <2>1. Last(PrimaryContents(u)) \in Threads
    BY <1>1, <1>16, PrimaryIs, FrontOf
  <2>2. Under(Last(PrimaryContents(u)), running[u], calledBy)
    BY <1>1, <1>16 DEF CallInv, ChainInv, Chained
  <2>. QED
    BY <1>14, <2>1, <2>2
<1>17. Chained(v)'
  <2>1. s # <<>> => Under(Last(s), th.task, calledBy')
    BY <1>1, <1>2, <1>16 DEF s, r
  <2>2. Stacked(s, calledBy')
    BY <1>15 DEF s
  <2>3. /\ Stacked(PushedOn(s, th), calledBy')
        /\ PushedOn(s, th) # <<>> => Last(PushedOn(s, th)) = th
    BY <1>1, <1>2, <2>1, <2>2, StackedPush
  <2>4. Under(th, k, calledBy')
    BY <1>3 DEF Under, th
  <2>5. running'[v] = k
    BY <1>1 DEF Typed
  <2>. QED
    BY <1>10, <2>3, <2>4, <2>5 DEF Chained
<1>18. ASSUME NEW u \in VProcs, u # v PROVE Chained(u)'
  <2>1. PrimaryContents(u)' = PrimaryContents(u) /\ running'[u] = running[u]
    BY <1>1, <1>10, <1>18 DEF Typed
  <2>. QED
    BY <1>15, <1>16, <2>1 DEF Chained
<1>19. ChainInv'
  BY <1>17, <1>18 DEF ChainInv
<1>20. IdleInv'
  BY <1>1, <1>10, RunnerKeepsIdle DEF r
<1>. QED
  BY <1>4, <1>9, <1>13, <1>19, <1>20 DEF CallInv

LEMMA InitSteal == Init => StealInv
<1>. SUFFICES ASSUME Init PROVE StealInv
  OBVIOUS
<1>1. TypeInv /\ HomeInv
  BY InitTypes, InitHomes
<1>2. /\ \A v \in VProcs : PrimaryContents(v) = <<>> /\ ch[v] = <<>> /\ running[v] = NoTask
      /\ \A v \in VProcs : pc[v] = "init"
      /\ \A k \in Futures : calledBy[k] = NoTask /\ waiters[k] = <<>>
      /\ done = {}
  BY DEF Init, PrimaryContents
<1>3. FutureInv
  BY <1>2, EmptyTasks DEF FutureInv
<1>4. ContextInv
  BY <1>2 DEF ContextInv, Movable, ToSet
<1>5. ChainInv
  BY <1>2 DEF ChainInv, Chained, Stacked
<1>6. IdleInv
  BY <1>2 DEF IdleInv, WorkSeen, LookingPlaces, IdlePlaces
<1>. QED
  BY <1>1, <1>3, <1>4, <1>5, <1>6 DEF StealInv, CallInv

LEMMA ActsKeepSteal ==
  ASSUME StealInv, NEW v \in VProcs, WorkerActs(v) \/ TaskActs(v)
  PROVE  StealInv'
<1>1. TypeInv'
  BY ActsKeepTypes DEF StealInv
<1>2. HomeInv' /\ CallInv'
  <2>1. CASE Rests(v) \/ Starts(v) \/ Reshuffles(v) \/ FailsToSteal(v)
    BY <2>1, QuietKeeps
  <2>2. ASSUME NEW th \in Threads, TakesNewest(v, th) \/ TakesAnswer(v, th)
        PROVE  HomeInv' /\ CallInv'
    BY <2>2, TakesNewestKeeps, TakesAnswerKeeps
  <2>3. ASSUME NEW th \in Threads, NEW ds \in DequeLists, TakesResumed(v, th, ds)
        PROVE  HomeInv' /\ CallInv'
    BY <2>3, TakesResumedKeeps
  <2>4. CASE \E ds \in DequeLists : Prunes(v, ds)
    BY <2>4, SmallKeeps
  <2>5. ASSUME NEW w \in VProcs, SendThief(v, w) \/ ThiefActs(w, v)
        PROVE  HomeInv' /\ CallInv'
    <3>1. CASE SendThief(v, w) \/ ThiefLeaves(w, v)
      BY <3>1, SmallKeeps
    <3>2. CASE \E th \in Threads, ds \in DequeLists : ThiefTakesResumed(w, v, th, ds)
      BY <3>2, ThiefKeeps
    <3>3. CASE \E th \in Threads : ThiefTakesOldest(w, v, th)
      BY <3>3, ThiefKeeps
    <3>. QED
      BY <2>5, <3>1, <3>2, <3>3 DEF ThiefActs
  <2>6. CASE Preempts(v) \/ Begins(v) \/ WorkGroupStarted(v) \/ EndMain(v)
    BY <2>6, PreemptsKeeps, BeginsKeeps, StartedKeeps, EndMainKeeps
  <2>7. ASSUME NEW k \in Futures, Calls(v, k) \/ TouchEmpty(v, k) \/ GoesOn(v, k) \/ Puts(v, k)
        PROVE  HomeInv' /\ CallInv'
    BY <2>7, CallsKeeps, TouchKeeps, GoesOnKeeps, PutsKeeps
  <2>. QED
    BY <2>1, <2>2, <2>3, <2>4, <2>5, <2>6, <2>7 DEF WorkerActs, TaskActs
<1>. QED
  BY <1>1, <1>2 DEF StealInv

LEMMA NextSteal == StealInv /\ [Next]_vars => StealInv'
<1>. SUFFICES ASSUME StealInv, [Next]_vars PROVE StealInv'
  OBVIOUS
<1>1. CASE Next
  <2>1. PICK v \in VProcs : WorkerActs(v) \/ TaskActs(v)
    BY <1>1, NextActs DEF StealInv, TypeInv
  <2>. QED
    BY <2>1, ActsKeepSteal
<1>2. CASE UNCHANGED vars
  <2>1. /\ primary' = primary /\ resumeDeques' = resumeDeques /\ pc' = pc /\ running' = running
        /\ ch' = ch /\ UNCHANGED program /\ UNCHANGED group /\ nTries' = nTries /\ victim' = victim
    BY <1>2 DEF vars, deques, worker
  <2>2. PICK v : v \in VProcs
    BY WorkStealingAssumption
  <2>3. TypeInv'
    BY <1>2, NextTypes DEF StealInv
  <2>4. Typed /\ HomeInv /\ CallInv
    BY DEF StealInv, TypeInv
  <2>5. Same(v) /\ SameAlive /\ waiters' = waiters
    BY <2>1, <2>2, <2>4, PrimaryStays, AliveSame DEF Same, program
  <2>6. HomeInv'
    BY <2>1, <2>2, <2>4, <2>5, StaysHome
  <2>7. \A u \in VProcs : PrimaryContents(u)' = PrimaryContents(u)
    BY <2>1 DEF PrimaryContents
  <2>8. CallInv'
    BY <2>1, <2>2, <2>4, <2>7, CallsKept
  <2>. QED
    BY <2>3, <2>6, <2>8 DEF StealInv
<1>. QED
  BY <1>1, <1>2

LEMMA StealInvHolds == Spec => []StealInv
BY InitSteal, NextSteal, PTL DEF Spec

LEMMA StealInvContexts == StealInv => ContextOnTop
<1>. SUFFICES ASSUME StealInv, NEW v \in VProcs,
                     running[v] \in Futures, ~ IsEmpty(primary[v])
              PROVE  PopNewEnd(primary[v]).elt = Thread(calledBy[running[v]], running[v])
  BY DEF ContextOnTop
<1>1. Typed /\ CallInv /\ running[v] # NoTask /\ \A u \in VProcs : AtWork(u)
  BY TaskKinds DEF StealInv, TypeInv
<1>2. primary[v] # NoDeque
  BY <1>1, RunningTask
<1>3. primary[v] \in Deques /\ PrimaryContents(v) = Contents(primary[v])
  BY <1>1, <1>2, PrimaryIs
<1>4. PrimaryContents(v) # <<>> /\ PopNewEnd(primary[v]).elt = Last(PrimaryContents(v))
  BY <1>3, PopNewInDeques
<1>. QED
  BY <1>1, <1>4 DEF CallInv, ChainInv, Chained, Under

(* Whoever ends the body of a future on a deque that is not empty finds    *)
(* its own context on top, also where deques overflow: @remove-task never  *)
(* takes the thread of somebody else.                                      *)
THEOREM OwnContextOnTop == Spec => []ContextOnTop
BY StealInvHolds, StealInvContexts, PTL

----------------------------------------------------------------------------
(* One home each. *)

AtPlace(place, ths, t) == {<<place, i>> : i \in {j \in DOMAIN ths : ths[j].task = t}}

LEMMA AtPlaceIs ==
  ASSUME NEW place, NEW ths, NEW t, NEW h
  PROVE  h \in AtPlace(place, ths, t) <=>
           \E i \in DOMAIN ths : ths[i].task = t /\ h = <<place, i>>
BY DEF AtPlace

(* h is a place of t under the label l. *)
HomeAt(l, t, h) ==
  \/ \E v \in VProcs :
       \/ l = <<"runs", v>> /\ h = <<<<"runs", v>>, 1>> /\ running[v] = t
       \/ l = <<"primary", v>> /\ h \in AtPlace(<<"primary", v>>, PrimaryContents(v), t)
       \/ l = <<"answer", v>> /\ h \in AtPlace(<<"answer", v>>, ch[v], t)
       \/ /\ l = <<"resumed", v>>
          /\ \E i \in DOMAIN resumeDeques[v] :
               h \in AtPlace(<<"resumed", v, i>>, Contents(resumeDeques[v][i]), t)
  \/ \E k \in Futures : l = <<"blocked", k>> /\ h \in AtPlace(<<"blocked", k>>, waiters[k], t)

LEMMA HomesAre ==
  ASSUME NEW t, NEW h
  PROVE  h \in Homes(t) <=> \E l \in Labels : HomeAt(l, t, h)
<1>. DEFINE On(v) ==
              AtPlace(<<"runs", v>>, <<Thread(running[v], NoTask)>>, t)
                \union AtPlace(<<"primary", v>>, PrimaryContents(v), t)
                \union AtPlace(<<"answer", v>>, ch[v], t)
                \union UNION {AtPlace(<<"resumed", v, i>>, Contents(resumeDeques[v][i]), t) :
                                i \in DOMAIN resumeDeques[v]}
            Blocked(k) == AtPlace(<<"blocked", k>>, waiters[k], t)
            A == UNION {On(v) : v \in VProcs}
            B == UNION {Blocked(k) : k \in Futures}
<1>1. Homes(t) = A \union B
  BY DEF Homes, AtPlace
<1>2. ASSUME NEW v \in VProcs
      PROVE  h \in AtPlace(<<"runs", v>>, <<Thread(running[v], NoTask)>>, t)
               <=> h = <<<<"runs", v>>, 1>> /\ running[v] = t
  <2>1. /\ DOMAIN <<Thread(running[v], NoTask)>> = {1}
        /\ <<Thread(running[v], NoTask)>>[1].task = running[v]
    BY DEF Thread
  <2>. QED
    BY <2>1, AtPlaceIs
<1>3. h \in Homes(t) <=>
        \/ \E v \in VProcs :
             \/ h \in AtPlace(<<"runs", v>>, <<Thread(running[v], NoTask)>>, t)
             \/ h \in AtPlace(<<"primary", v>>, PrimaryContents(v), t)
             \/ h \in AtPlace(<<"answer", v>>, ch[v], t)
             \/ \E i \in DOMAIN resumeDeques[v] :
                  h \in AtPlace(<<"resumed", v, i>>, Contents(resumeDeques[v][i]), t)
        \/ \E k \in Futures : h \in AtPlace(<<"blocked", k>>, waiters[k], t)
  <2>1. ASSUME NEW v \in VProcs
        PROVE  h \in On(v) <=>
                 \/ h \in AtPlace(<<"runs", v>>, <<Thread(running[v], NoTask)>>, t)
                 \/ h \in AtPlace(<<"primary", v>>, PrimaryContents(v), t)
                 \/ h \in AtPlace(<<"answer", v>>, ch[v], t)
                 \/ \E i \in DOMAIN resumeDeques[v] :
                      h \in AtPlace(<<"resumed", v, i>>, Contents(resumeDeques[v][i]), t)
    OBVIOUS
  <2>. HIDE DEF On
  <2>2. h \in Homes(t) <=>
          \/ \E v \in VProcs : h \in On(v)
          \/ \E k \in Futures : h \in AtPlace(<<"blocked", k>>, waiters[k], t)
    <3>. HIDE DEF Blocked
    <3>2. h \in A <=> \E v \in VProcs : h \in On(v)
      BY Zenon
    <3>3. h \in B <=> \E k \in Futures : h \in Blocked(k)
      BY Zenon
    <3>. HIDE DEF A, B
    <3>4. h \in Homes(t) <=>
            \/ \E v \in VProcs : h \in On(v)
            \/ \E k \in Futures : h \in Blocked(k)
      BY <1>1, <3>2, <3>3
    <3>. QED
      BY <3>4 DEF Blocked
  <2>. QED
    BY <2>1, <2>2
<1>. HIDE DEF On, Blocked, A, B
<1>4. ASSUME h \in Homes(t) PROVE \E l \in Labels : HomeAt(l, t, h)
  <2>1. CASE \E k \in Futures : h \in AtPlace(<<"blocked", k>>, waiters[k], t)
    BY <2>1, LabelIs DEF HomeAt
  <2>2. ASSUME NEW v \in VProcs,
               \/ h \in AtPlace(<<"runs", v>>, <<Thread(running[v], NoTask)>>, t)
               \/ h \in AtPlace(<<"primary", v>>, PrimaryContents(v), t)
               \/ h \in AtPlace(<<"answer", v>>, ch[v], t)
               \/ \E i \in DOMAIN resumeDeques[v] :
                    h \in AtPlace(<<"resumed", v, i>>, Contents(resumeDeques[v][i]), t)
        PROVE  \E l \in Labels : HomeAt(l, t, h)
    <3>1. /\ <<"runs", v>> \in Labels /\ <<"primary", v>> \in Labels
          /\ <<"answer", v>> \in Labels /\ <<"resumed", v>> \in Labels
      BY LabelIs
    <3>2. CASE h \in AtPlace(<<"runs", v>>, <<Thread(running[v], NoTask)>>, t)
      <4>1. HomeAt(<<"runs", v>>, t, h)
        BY <1>2, <3>2 DEF HomeAt
      <4>. QED
        BY <3>1, <4>1
    <3>3. CASE h \in AtPlace(<<"primary", v>>, PrimaryContents(v), t)
      <4>1. HomeAt(<<"primary", v>>, t, h)
        BY <3>3 DEF HomeAt
      <4>. QED
        BY <3>1, <4>1
    <3>4. CASE h \in AtPlace(<<"answer", v>>, ch[v], t)
      <4>1. HomeAt(<<"answer", v>>, t, h)
        BY <3>4 DEF HomeAt
      <4>. QED
        BY <3>1, <4>1
    <3>5. CASE \E i \in DOMAIN resumeDeques[v] :
                 h \in AtPlace(<<"resumed", v, i>>, Contents(resumeDeques[v][i]), t)
      <4>1. HomeAt(<<"resumed", v>>, t, h)
        BY <3>5 DEF HomeAt
      <4>. QED
        BY <3>1, <4>1
    <3>. QED
      BY <2>2, <3>2, <3>3, <3>4, <3>5
  <2>. QED
    BY <1>3, <1>4, <2>1, <2>2
<1>5. ASSUME NEW l \in Labels, HomeAt(l, t, h) PROVE h \in Homes(t)
  BY <1>2, <1>3, <1>5 DEF HomeAt
<1>. QED
  BY <1>4, <1>5

LEMMA ShortDistinct ==
  ASSUME NEW s \in Seq(Threads), Len(s) <= 1
  PROVE  Distinct(s)
<1>1. Len(s) \in Nat /\ DOMAIN s = 1..Len(s)
  BY LenProperties
<1>2. \A i, j \in 1..Len(s) : i = j
  BY <1>1
<1>. QED
  BY <1>1, <1>2 DEF Distinct

(* Who is under a label has a home there, and only one. *)
LEMMA HomeOfLabel ==
  ASSUME Typed, \A v \in VProcs : AtWork(v), Listed, NEW l \in Labels, NEW t \in Tasks
  PROVE  /\ t \in TasksAt(l) <=> \E h : HomeAt(l, t, h)
         /\ \A g, h : HomeAt(l, t, g) /\ HomeAt(l, t, h) => g = h
<1>1. t # NoTask
  BY TaskKinds
<1>2. ASSUME NEW place, NEW ths
      PROVE  /\ t \in TasksOf(ths) <=> \E h : h \in AtPlace(place, ths, t)
             /\ Distinct(ths) => \A g, h \in AtPlace(place, ths, t) : g = h
  <2>1. \A h : h \in AtPlace(place, ths, t) <=>
                 \E i \in DOMAIN ths : ths[i].task = t /\ h = <<place, i>>
    BY AtPlaceIs
  <2>2. ASSUME t \in TasksOf(ths) PROVE \E h : h \in AtPlace(place, ths, t)
    <3>1. PICK i \in DOMAIN ths : ths[i].task = t
      BY <2>2 DEF TasksOf
    <3>2. <<place, i>> \in AtPlace(place, ths, t)
      BY <2>1, <3>1
    <3>. QED
      BY <3>2
  <2>3. ASSUME NEW h \in AtPlace(place, ths, t) PROVE t \in TasksOf(ths)
    BY <2>1, <2>3 DEF TasksOf
  <2>4. ASSUME Distinct(ths), NEW g \in AtPlace(place, ths, t), NEW h \in AtPlace(place, ths, t)
        PROVE  g = h
    <3>1. PICK i \in DOMAIN ths : ths[i].task = t /\ g = <<place, i>>
      BY <2>1, <2>4
    <3>2. PICK j \in DOMAIN ths : ths[j].task = t /\ h = <<place, j>>
      BY <2>1, <2>4
    <3>3. i = j
      BY <2>4, <3>1, <3>2 DEF Distinct
    <3>. QED
      BY <3>1, <3>2, <3>3
  <2>. QED
    BY <2>2, <2>3, <2>4
<1>3. ASSUME NEW v \in VProcs, l = <<"runs", v>>
      PROVE  /\ t \in TasksAt(l) <=> \E h : HomeAt(l, t, h)
             /\ \A g, h : HomeAt(l, t, g) /\ HomeAt(l, t, h) => g = h
  <2>1. \A h : HomeAt(l, t, h) <=> h = <<<<"runs", v>>, 1>> /\ running[v] = t
    BY <1>3 DEF HomeAt
  <2>2. t \in TasksAt(l) <=> running[v] = t
    BY <1>1, <1>3, RunsAt
  <2>3. running[v] = t => HomeAt(l, t, <<<<"runs", v>>, 1>>)
    BY <2>1
  <2>. QED
    BY <2>1, <2>2, <2>3
<1>4. ASSUME NEW v \in VProcs, l = <<"primary", v>>
      PROVE  /\ t \in TasksAt(l) <=> \E h : HomeAt(l, t, h)
             /\ \A g, h : HomeAt(l, t, g) /\ HomeAt(l, t, h) => g = h
  <2>1. \A h : HomeAt(l, t, h) <=> h \in AtPlace(<<"primary", v>>, PrimaryContents(v), t)
    BY <1>4 DEF HomeAt
  <2>2. TasksAt(l) = TasksOf(PrimaryContents(v)) /\ Distinct(PrimaryContents(v))
    BY <1>4, PrimaryAt DEF Listed
  <2>. QED
    BY <1>2, <2>1, <2>2
<1>5. ASSUME NEW v \in VProcs, l = <<"answer", v>>
      PROVE  /\ t \in TasksAt(l) <=> \E h : HomeAt(l, t, h)
             /\ \A g, h : HomeAt(l, t, g) /\ HomeAt(l, t, h) => g = h
  <2>1. \A h : HomeAt(l, t, h) <=> h \in AtPlace(<<"answer", v>>, ch[v], t)
    BY <1>5 DEF HomeAt
  <2>2. TasksAt(l) = TasksOf(ch[v])
    BY <1>5, AnswerAt
  <2>3. Distinct(ch[v])
    <3>1. ch[v] \in Seq(Threads) /\ Len(ch[v]) <= 1
      BY DEF Typed, AtWork
    <3>. QED
      BY <3>1, ShortDistinct
  <2>. QED
    BY <1>2, <2>1, <2>2, <2>3
<1>6. ASSUME NEW k \in Futures, l = <<"blocked", k>>
      PROVE  /\ t \in TasksAt(l) <=> \E h : HomeAt(l, t, h)
             /\ \A g, h : HomeAt(l, t, g) /\ HomeAt(l, t, h) => g = h
  <2>1. \A h : HomeAt(l, t, h) <=> h \in AtPlace(<<"blocked", k>>, waiters[k], t)
    BY <1>6 DEF HomeAt
  <2>2. TasksAt(l) = TasksOf(waiters[k]) /\ Distinct(waiters[k])
    BY <1>6, BlockedAt DEF Listed
  <2>. QED
    BY <1>2, <2>1, <2>2
<1>7. ASSUME NEW v \in VProcs, l = <<"resumed", v>>
      PROVE  /\ t \in TasksAt(l) <=> \E h : HomeAt(l, t, h)
             /\ \A g, h : HomeAt(l, t, g) /\ HomeAt(l, t, h) => g = h
  <2>. DEFINE ds == resumeDeques[v]
              In(i) == Contents(ds[i])
  <2>1. ds \in DequeLists /\ Apart(ds) /\ TasksAt(l) = OnDeques(ds)
    BY <1>7, ResumedAt DEF Typed, Listed
  <2>2. \A i \in DOMAIN ds : Distinct(In(i))
    BY <2>1, DequeListIs, ShortDistinct
  <2>3. \A h : HomeAt(l, t, h) <=>
                 \E i \in DOMAIN ds : h \in AtPlace(<<"resumed", v, i>>, In(i), t)
    BY <1>7 DEF HomeAt
  <2>4. t \in TasksAt(l) <=> \E i \in DOMAIN ds : t \in TasksOf(In(i))
    BY <2>1 DEF OnDeques
  <2>5. \A i, j \in DOMAIN ds : t \in TasksOf(In(i)) /\ t \in TasksOf(In(j)) => i = j
    BY <2>1 DEF Apart
  <2>. HIDE DEF ds, In
  <2>6. t \in TasksAt(l) <=> \E h : HomeAt(l, t, h)
    BY <1>2, <2>3, <2>4
  <2>7. ASSUME NEW g, NEW h, HomeAt(l, t, g), HomeAt(l, t, h) PROVE g = h
    <3>1. PICK i \in DOMAIN ds : g \in AtPlace(<<"resumed", v, i>>, In(i), t)
      BY <2>3, <2>7
    <3>2. PICK j \in DOMAIN ds : h \in AtPlace(<<"resumed", v, j>>, In(j), t)
      BY <2>3, <2>7
    <3>3. t \in TasksOf(In(i)) /\ t \in TasksOf(In(j))
      BY <1>2, <3>1, <3>2
    <3>4. i = j
      BY <2>5, <3>3
    <3>. QED
      BY <1>2, <2>2, <3>1, <3>2, <3>4
  <2>. QED
    BY <2>6, <2>7
<1>. QED
  BY <1>3, <1>4, <1>5, <1>6, <1>7, LabelIs

LEMMA AtMostOneHome ==
  ASSUME StealInv, NEW t \in Tasks, NEW g \in Homes(t), NEW h \in Homes(t)
  PROVE  g = h /\ Alive(t)
<1>1. Typed /\ Homed /\ Listed /\ \A v \in VProcs : AtWork(v)
  BY DEF StealInv, TypeInv, HomeInv
<1>2. PICK l \in Labels : HomeAt(l, t, g)
  BY HomesAre
<1>3. PICK m \in Labels : HomeAt(m, t, h)
  BY HomesAre
<1>4. t \in TasksAt(l) /\ t \in TasksAt(m)
  BY <1>1, <1>2, <1>3, HomeOfLabel
<1>5. l = m /\ Alive(t)
  BY <1>1, <1>4 DEF Homed
<1>. QED
  BY <1>1, <1>2, <1>3, <1>5, HomeOfLabel

(* No task is in two places and none that is over is anywhere, whatever    *)
(* the size of the deques: no context is both stolen and taken back by the *)
(* end of the body, also after threads were lost on a full deque.          *)
NeverTwice == \A t \in Tasks : \A g, h \in Homes(t) : g = h /\ Alive(t)

THEOREM NoTaskTwice == Spec => []NeverTwice
<1>1. StealInv => NeverTwice
  BY AtMostOneHome DEF NeverTwice
<1>. QED
  BY <1>1, StealInvHolds, PTL

LEMMA StealInvOneHome ==
  ASSUME Fits, StealInv
  PROVE  OneHome
<1>. SUFFICES ASSUME NEW t \in Tasks
              PROVE  Cardinality(Homes(t)) = IF Alive(t) THEN 1 ELSE 0
  BY DEF OneHome
<1>1. Typed /\ AllHome /\ Listed /\ \A v \in VProcs : AtWork(v)
  BY DEF StealInv, TypeInv, HomeInv
<1>2. ASSUME Alive(t) PROVE Cardinality(Homes(t)) = 1
  <2>1. PICK l \in Labels : t \in TasksAt(l)
    BY <1>1, <1>2 DEF AllHome
  <2>2. PICK h : HomeAt(l, t, h)
    BY <1>1, <2>1, HomeOfLabel
  <2>3. h \in Homes(t)
    BY <2>2, HomesAre
  <2>4. Homes(t) = {h}
    BY <2>3, AtMostOneHome
  <2>. QED
    BY <2>4, FS_Singleton
<1>3. ASSUME ~ Alive(t) PROVE Cardinality(Homes(t)) = 0
  <2>1. Homes(t) = {}
    BY <1>3, AtMostOneHome
  <2>. QED
    BY <2>1, FS_EmptySet
<1>. QED
  BY <1>2, <1>3

(* When every thread fits in a deque, a task that is not over is in one    *)
(* place: none is lost between a victim's deque, the answer of the thief   *)
(* and the deque of the worker that waits for it, and none runs twice.     *)
THEOREM TasksHaveOneHome ==
  ASSUME Fits
  PROVE  Spec => []OneHome
<1>1. StealInv => OneHome
  BY StealInvOneHome
<1>. QED
  BY <1>1, StealInvHolds, PTL

----------------------------------------------------------------------------
(* The group ends when no task is left. *)

Over == terminated \/ \E v \in VProcs : pc[v] = "terminate"

OverInv == Over => mainState = "left" /\ \A t \in Tasks : ~ Alive(t)

(* The tasks cannot all wait for each other: a task waits for a future it  *)
(* called, or for an earlier one of its caller.                            *)
LEMMA NotAllBlocked ==
  ASSUME StealInv,
         \A t \in Tasks : Alive(t) => \E k \in Futures : t \in TasksAt(<<"blocked", k>>)
  PROVE  \A t \in Tasks : ~ Alive(t)
<1>. DEFINE A == {k \in Futures : Alive(k)}
<1>1. Typed /\ Homed /\ FutureInv
  BY DEF StealInv, TypeInv, HomeInv, CallInv
(* What a blocked task waits for. *)
<1>2. ASSUME NEW t \in Tasks, Alive(t)
      PROVE  \E k \in A : Knows(t, k)
  <2>1. PICK k \in Futures : t \in TasksAt(<<"blocked", k>>)
    BY <1>2
  <2>2. k \notin done /\ Knows(t, k)
    BY <1>1, <2>1, BlockedAt DEF FutureInv
  <2>3. calledBy[k] # NoTask
    BY <2>2, TaskKinds DEF Knows
  <2>4. Alive(k)
    BY <2>2, <2>3, TaskKinds DEF Alive
  <2>. QED
    BY <2>2, <2>4
<1>3. \A k \in A : /\ k \in Nat /\ k \in Futures /\ k \in Tasks /\ Alive(k)
                   /\ calledBy[k] \in Nat /\ calledBy[k] < k /\ k <= MaxFutures
  <2>. SUFFICES ASSUME NEW k \in A
                PROVE  /\ k \in Nat /\ k \in Futures /\ k \in Tasks /\ Alive(k)
                       /\ calledBy[k] \in Nat /\ calledBy[k] < k /\ k <= MaxFutures
    OBVIOUS
  <2>1. k \in Futures /\ Alive(k) /\ k \in Tasks /\ k \in Nat /\ k # Main /\ k <= MaxFutures
    BY TaskKinds, SizeAssumption DEF Futures
  <2>2. calledBy[k] # NoTask
    BY <2>1 DEF Alive
  <2>3. calledBy[k] \in Tasks /\ calledBy[k] < k
    BY <1>1, <2>1, <2>2 DEF FutureInv, Typed
  <2>4. calledBy[k] \in Nat
    BY <2>3, TaskKinds, SizeAssumption DEF Main, Futures, Tasks
  <2>. QED
    BY <2>1, <2>3, <2>4
<1>. HIDE DEF A
<1>4. A = {}
  <2>. SUFFICES ASSUME A # {} PROVE FALSE
    OBVIOUS
  <2>. DEFINE J == {MaxFutures - calledBy[k] : k \in A}
  <2>1. J \subseteq Nat /\ J # {}
    <3>1. \A k \in A : MaxFutures - calledBy[k] \in Nat
      BY <1>3, SizeAssumption
    <3>. QED
      BY <3>1
  <2>2. PICK m \in J : \A j \in J : ~ (<<j, m>> \in OpToRel(<, Nat))
    BY <2>1, NatLessThanWellFounded, WFMin
  <2>3. \A j \in J : ~ (j < m)
    BY <2>1, <2>2 DEF OpToRel
  <2>4. PICK k0 \in A : m = MaxFutures - calledBy[k0]
    BY <2>2
  <2>. DEFINE c == calledBy[k0]
  <2>5. \A k \in A : calledBy[k] <= c
    <3>. TAKE k \in A
    <3>1. ~ (MaxFutures - calledBy[k] < MaxFutures - c)
      BY <2>3, <2>4
    <3>2. calledBy[k] \in Nat /\ c \in Nat
      BY <1>3
    <3>. QED
      BY <3>1, <3>2, SizeAssumption
  <2>. DEFINE K == {k \in A : calledBy[k] = c}
  <2>6. K \subseteq Nat /\ K # {}
    BY <1>3
  <2>7. PICK k \in K : \A j \in K : ~ (<<j, k>> \in OpToRel(<, Nat))
    BY <2>6, NatLessThanWellFounded, WFMin
  <2>8. \A j \in K : ~ (j < k)
    BY <2>6, <2>7 DEF OpToRel
  <2>9. k \in A /\ calledBy[k] = c
    BY <2>7
  <2>10. PICK j \in A : Knows(k, j)
    BY <1>2, <1>3, <2>9
  <2>. HIDE DEF c, J
  <2>11. CASE calledBy[j] = k
    <3>1. k <= c /\ c < k /\ k \in Nat /\ c \in Nat
      BY <1>3, <2>5, <2>9, <2>11
    <3>. QED
      BY <3>1
  <2>12. CASE j < k /\ calledBy[j] = calledBy[k]
    BY <2>8, <2>9, <2>12
  <2>. QED
    BY <2>10, <2>11, <2>12 DEF Knows
<1>. QED
  BY <1>2, <1>4

(* The last worker to become idle finds all tasks over. *)
LEMMA LastIdle ==
  ASSUME Fits, StealInv, NEW v \in VProcs, pc[v] = "deactivate", nIdle = NVProcs - 1
  PROVE  mainState = "left" /\ \A t \in Tasks : ~ Alive(t)
<1>1. Typed /\ HomeInv /\ CallInv /\ Counted /\ \A u \in VProcs : AtWork(u)
  BY DEF StealInv, TypeInv
<1>2. /\ IsFiniteSet(VProcs \ {v}) /\ Cardinality(VProcs \ {v}) = NVProcs - 1
      /\ IdleWorkers \subseteq VProcs \ {v}
      /\ NVProcs \in Nat /\ Cardinality(IdleWorkers) \in Nat
  BY CountOfVProcs, CountOfIdle, FS_RemoveElement DEF NVProcs, IdleWorkers, IdlePlaces
<1>3. /\ Cardinality(IdleWorkers) <= NVProcs - 1
      /\ Cardinality(IdleWorkers) = NVProcs - 1 => IdleWorkers = VProcs \ {v}
  BY <1>2, FS_Subset
<1>4. Cardinality(IdleWorkers) = NVProcs - 1 /\ NotStarted = 0
  BY <1>1, <1>2, <1>3 DEF Counted, NotStarted
<1>5. mainState \in {"started", "left"}
  BY <1>1, <1>4 DEF NotStarted, Typed
<1>6. ASSUME NEW u \in VProcs PROVE pc[u] \in LookingPlaces /\ pc[u] # "wait" /\ pc[u] # "run"
  BY <1>3, <1>4, <1>6 DEF IdleWorkers, IdlePlaces, LookingPlaces
<1>7. ASSUME NEW u \in VProcs
      PROVE  /\ TasksAt(<<"runs", u>>) = {} /\ TasksAt(<<"primary", u>>) = {}
             /\ TasksAt(<<"answer", u>>) = {} /\ TasksAt(<<"resumed", u>>) = {}
  <2>1. running[u] = NoTask /\ ch[u] = <<>>
    BY <1>1, <1>6 DEF AtWork
  <2>2. OnDeques(resumeDeques[u]) = {} /\ PrimaryContents(u) = <<>>
    BY <1>1, <1>5, <1>6 DEF CallInv, IdleInv, WorkSeen
  <2>. QED
    BY <2>1, <2>2, RunsAt, PrimaryAt, AnswerAt, ResumedAt, EmptyTasks
<1>8. ASSUME NEW t \in Tasks, Alive(t)
      PROVE  \E k \in Futures : t \in TasksAt(<<"blocked", k>>)
  <2>1. PICK l \in Labels : t \in TasksAt(l)
    BY <1>1, <1>8 DEF HomeInv, AllHome
  <2>. QED
    BY <1>7, <2>1, LabelIs
<1>9. \A t \in Tasks : ~ Alive(t)
  BY <1>8, NotAllBlocked
<1>10. mainState # "started"
  BY <1>9, TaskKinds DEF Alive
<1>. QED
  BY <1>5, <1>9, <1>10

(* Nothing else brings the end, *)
LEMMA EndsOnlyThere ==
  ASSUME Typed, NEW v \in VProcs, WorkerActs(v) \/ TaskActs(v), Over'
  PROVE  Over \/ Deactivate(v)
<1>1. CASE Rests(v)
  BY <1>1 DEF Rests, Over
<1>2. ASSUME terminated' = terminated,
             pc' = pc \/ \E q \in Places \ {"terminate"} : GoTo(v, q)
      PROVE  Over
  BY <1>2 DEF Over, GoTo, Typed
<1>3. \A q \in {"next", "run", "preempted", "wait", "lastTry", "yield"} : q \in Places \ {"terminate"}
  BY DEF Places, LookingPlaces, IdlePlaces
<1>4. CASE Starts(v) \/ Reshuffles(v) \/ FailsToSteal(v) \/ Preempts(v)
  BY <1>2, <1>3, <1>4 DEF Starts, Reshuffles, FailsToSteal, Preempts, group
<1>5. ASSUME NEW th \in Threads, TakesNewest(v, th) \/ TakesAnswer(v, th)
      PROVE  Over
  BY <1>2, <1>3, <1>5 DEF TakesNewest, TakesAnswer, group
<1>6. ASSUME NEW th \in Threads, NEW ds \in DequeLists, TakesResumed(v, th, ds)
      PROVE  Over
  BY <1>2, <1>3, <1>6 DEF TakesResumed, group
<1>7. CASE \E ds \in DequeLists : Prunes(v, ds)
  BY <1>2, <1>7 DEF Prunes, group, worker
<1>8. ASSUME NEW w \in VProcs, SendThief(v, w)
      PROVE  Over
  BY <1>2, <1>3, <1>8 DEF SendThief, group
<1>9. ASSUME NEW w \in VProcs, ThiefActs(w, v)
      PROVE  Over
  BY <1>2, <1>9 DEF ThiefActs, ThiefLeaves, ThiefTakesResumed, ThiefTakesOldest, group, worker
<1>10. CASE Begins(v) \/ WorkGroupStarted(v)
  BY <1>2, <1>10 DEF Begins, WorkGroupStarted, group, worker
<1>11. CASE EndMain(v)
  BY <1>2, <1>3, <1>11 DEF EndMain, BackToWorker, group
<1>12. ASSUME NEW k \in Futures, Calls(v, k) \/ GoesOn(v, k)
       PROVE  Over
  BY <1>2, <1>12 DEF Calls, GoesOn, group
<1>13. ASSUME NEW k \in Futures, TouchEmpty(v, k) \/ Puts(v, k)
       PROVE  Over
  BY <1>2, <1>3, <1>13 DEF TouchEmpty, Puts, BackToWorker, group
<1>. QED
  BY <1>1, <1>4, <1>5, <1>6, <1>7, <1>8, <1>9, <1>10, <1>11, <1>12, <1>13 DEF WorkerActs, TaskActs

(* and after it nothing begins again. *)
LEMMA NoTaskActs ==
  ASSUME StealInv, mainState = "left", \A t \in Tasks : ~ Alive(t), NEW v \in VProcs
  PROVE  ~ TaskActs(v)
<1>1. running[v] = NoTask
  BY RunsAlive
<1>2. pc[v] # "run"
  BY <1>1 DEF StealInv, TypeInv, AtWork
<1>3. ~ Preempts(v) /\ ~ Begins(v) /\ ~ WorkGroupStarted(v) /\ ~ EndMain(v)
  BY <1>1, <1>2, TaskKinds DEF Preempts, Begins, WorkGroupStarted, EndMain
<1>4. ASSUME NEW k \in Futures
      PROVE  ~ Calls(v, k) /\ ~ TouchEmpty(v, k) /\ ~ GoesOn(v, k) /\ ~ Puts(v, k)
  BY <1>1, TaskKinds DEF Calls, TouchEmpty, GoesOn, Puts
<1>. QED
  BY <1>3, <1>4 DEF TaskActs

LEMMA WorkersKeepProgram ==
  ASSUME NEW v \in VProcs, WorkerActs(v)
  PROVE  UNCHANGED program
<1>1. CASE Rests(v) \/ Starts(v) \/ Reshuffles(v) \/ FailsToSteal(v)
  BY <1>1 DEF Rests, QuietStep, Starts, Reshuffles, FailsToSteal
<1>2. ASSUME NEW th \in Threads, TakesNewest(v, th) \/ TakesAnswer(v, th)
      PROVE  UNCHANGED program
  BY <1>2 DEF TakesNewest, TakesAnswer
<1>3. ASSUME NEW th \in Threads, NEW ds \in DequeLists, TakesResumed(v, th, ds)
      PROVE  UNCHANGED program
  BY <1>3 DEF TakesResumed
<1>4. CASE \E ds \in DequeLists : Prunes(v, ds)
  BY <1>4 DEF Prunes
<1>5. ASSUME NEW w \in VProcs, SendThief(v, w) \/ ThiefActs(w, v)
      PROVE  UNCHANGED program
  BY <1>5 DEF SendThief, ThiefActs, ThiefLeaves, ThiefTakesResumed, ThiefTakesOldest
<1>. QED
  BY <1>1, <1>2, <1>3, <1>4, <1>5 DEF WorkerActs

LEMMA NextOver ==
  ASSUME Fits, StealInv, OverInv, [Next]_vars
  PROVE  OverInv'
<1>1. CASE UNCHANGED vars
  <2>1. pc' = pc /\ terminated' = terminated /\ mainState' = mainState /\ UNCHANGED program
    BY <1>1 DEF vars, worker, group, program
  <2>. QED
    BY <2>1, AliveSame DEF OverInv, Over, SameAlive
<1>2. CASE Next
  <2>1. PICK v \in VProcs : WorkerActs(v) \/ TaskActs(v)
    BY <1>2, NextActs DEF StealInv, TypeInv
  <2>. SUFFICES ASSUME Over' PROVE (mainState = "left")' /\ \A t \in Tasks : ~ Alive(t)'
    BY DEF OverInv
  <2>2. Over \/ Deactivate(v)
    BY <2>1, EndsOnlyThere DEF StealInv, TypeInv
  <2>3. CASE mainState = "left" /\ \A t \in Tasks : ~ Alive(t)
    <3>1. UNCHANGED program
      BY <2>1, <2>3, NoTaskActs, WorkersKeepProgram
    <3>. QED
      BY <2>3, <3>1, AliveSame DEF SameAlive, program
  <2>4. CASE Deactivate(v) /\ ~ Over
    <3>1. pc[v] = "deactivate" /\ terminated' = terminated /\ Typed
      BY <2>4 DEF Deactivate, StealInv, TypeInv
    <3>2. nIdle = NVProcs - 1
      <4>. SUFFICES ASSUME nIdle # NVProcs - 1 PROVE FALSE
        OBVIOUS
      <4>1. pc' = [pc EXCEPT ![v] = "setIdle"]
        BY <2>4 DEF Deactivate, GoTo
      <4>. QED
        BY <2>4, <3>1, <4>1 DEF Over, Typed
    <3>. QED
      BY <2>3, <3>1, <3>2, LastIdle
  <2>. QED
    BY <2>2, <2>3, <2>4 DEF OverInv
<1>. QED
  BY <1>1, <1>2

(* "when #0(nIdle) = nVProcs the work, the work group is finished": when   *)
(* every thread fits in a deque, no task is left once the last worker to   *)
(* become idle has set the flag that stops them all.                       *)
THEOREM FinishedAtTheEnd ==
  ASSUME Fits
  PROVE  Spec => []FinishedWhenTerminated
<1>1. Init => StealInv /\ OverInv
  <2>1. Init => ~ Over
    BY DEF Init, Over
  <2>. QED
    BY <2>1, InitSteal DEF OverInv
<1>2. (StealInv /\ OverInv) /\ [Next]_vars => (StealInv /\ OverInv)'
  BY NextSteal, NextOver
<1>3. StealInv /\ OverInv => FinishedWhenTerminated
  BY DEF OverInv, Over, FinishedWhenTerminated
<1>. QED
  BY <1>1, <1>2, <1>3, PTL DEF Spec

----------------------------------------------------------------------------
(* The order of a deque. *)

Shifts(before, after) ==
  \/ after = before
  \/ after # <<>> /\ before = SubSeq(after, 1, Len(after) - 1)
  \/ before # <<>> /\ after = SubSeq(before, 1, Len(before) - 1)
  \/ before # <<>> /\ after = Tail(before) /\ victim' # victim

LEMMA PushShifts ==
  ASSUME NEW s \in Seq(Threads), NEW th \in Threads, PushedOn(s, th) = Append(s, th)
  PROVE  Shifts(s, PushedOn(s, th))
<1>. DEFINE a == Append(s, th)
<1>1. Len(s) \in Nat /\ Len(a) = Len(s) + 1 /\ a # <<>> /\ SubSeq(a, 1, Len(s)) = s
  BY AppendProperties, LenProperties
<1>. HIDE DEF a
<1>2. Len(a) - 1 = Len(s)
  BY <1>1
<1>. QED
  BY <1>1, <1>2 DEF Shifts, a

(* Where a vproc runs a task there is room for it. *)
LEMMA RunnerPushes ==
  ASSUME Fits, StealInv, NEW v \in VProcs, running[v] # NoTask,
         NEW th \in Threads, th.task = running[v]
  PROVE  PushedOn(PrimaryContents(v), th) = Append(PrimaryContents(v), th)
<1>1. Typed /\ Homed /\ Distinct(PrimaryContents(v))
  BY DEF StealInv, TypeInv, HomeInv, Listed
<1>2. PrimaryContents(v) \in Seq(Threads)
  BY <1>1, PrimaryIs
<1>3. running[v] \in TasksAt(<<"runs", v>>) /\ <<"runs", v>> \in Labels /\ <<"primary", v>> \in Labels
  BY RunsAlive, LabelIs
<1>4. <<"runs", v>> # <<"primary", v>>
  OBVIOUS
<1>5. th.task \notin TasksOf(PrimaryContents(v))
  BY <1>1, <1>3, <1>4, OneLabel, PrimaryAt
<1>. QED
  BY <1>1, <1>2, <1>5, PushedHome

LEMMA EmptyPush ==
  ASSUME NEW th \in Threads
  PROVE  PushedOn(<<>>, th) = Append(<<>>, th)
<1>1. Len(<<>>) = 0 /\ DequeSz - 1 # 0
  BY SizeAssumption
<1>. QED
  BY <1>1 DEF PushedOn

LEMMA ActsShift ==
  ASSUME Fits, StealInv, NEW v \in VProcs, WorkerActs(v) \/ TaskActs(v)
  PROVE  \A u \in VProcs : Shifts(PrimaryContents(u), PrimaryContents(u)')
<1>1. Typed /\ HomeInv /\ CallInv /\ \A u \in VProcs : AtWork(u)
  BY DEF StealInv, TypeInv
<1>2. \A u \in VProcs : PrimaryContents(u) \in Seq(Threads)
  BY <1>1, PrimaryIs
<1>3. ASSUME NEW w \in VProcs, NEW s, NewPrimary(w, s), Shifts(PrimaryContents(w), s)
      PROVE  \A u \in VProcs : Shifts(PrimaryContents(u), PrimaryContents(u)')
  <2>1. PrimaryContents(w)' = s
        /\ \A u \in VProcs : u # w => PrimaryContents(u)' = PrimaryContents(u)
    BY <1>3 DEF NewPrimary
  <2>2. ASSUME NEW u \in VProcs, u # w PROVE Shifts(PrimaryContents(u), PrimaryContents(u)')
    BY <2>1, <2>2 DEF Shifts
  <2>. QED
    BY <1>3, <2>1, <2>2
<1>4. ASSUME NEW w \in VProcs, Same(w)
      PROVE  \A u \in VProcs : Shifts(PrimaryContents(u), PrimaryContents(u)')
  BY <1>3, <1>4 DEF Same, Shifts
<1>5. ASSUME primary' = primary
      PROVE  \A u \in VProcs : Shifts(PrimaryContents(u), PrimaryContents(u)')
  BY <1>5 DEF PrimaryContents, Shifts
<1>6. ASSUME NEW th \in Threads, PrimaryContents(v) = <<>>,
             NewPrimary(v, PushedOn(PrimaryContents(v), th))
      PROVE  \A u \in VProcs : Shifts(PrimaryContents(u), PrimaryContents(u)')
  <2>1. Shifts(PrimaryContents(v), PushedOn(PrimaryContents(v), th))
    BY <1>2, <1>6, EmptyPush, PushShifts
  <2>. QED
    BY <1>3, <1>6, <2>1
<1>7. ASSUME NEW th \in Threads, running[v] # NoTask, th.task = running[v],
             NewPrimary(v, PushedOn(PrimaryContents(v), th))
      PROVE  \A u \in VProcs : Shifts(PrimaryContents(u), PrimaryContents(u)')
  <2>1. Shifts(PrimaryContents(v), PushedOn(PrimaryContents(v), th))
    BY <1>2, <1>7, RunnerPushes, PushShifts
  <2>. QED
    BY <1>3, <1>7, <2>1
<1>8. ASSUME PrimaryContents(v) # <<>>, NewPrimary(v, Front(PrimaryContents(v)))
      PROVE  \A u \in VProcs : Shifts(PrimaryContents(u), PrimaryContents(u)')
  <2>1. Shifts(PrimaryContents(v), Front(PrimaryContents(v)))
    BY <1>8 DEF Shifts, Front
  <2>. QED
    BY <1>3, <1>8, <2>1
<1>9. CASE WorkerActs(v)
  <2>1. CASE Rests(v) \/ FailsToSteal(v)
    BY <1>5, <2>1 DEF Rests, QuietStep, FailsToSteal, deques
  <2>2. CASE Starts(v)
    BY <2>2 DEF Starts, Shifts
  <2>3. CASE Reshuffles(v)
    BY <1>4, <2>3 DEF Reshuffles
  <2>4. ASSUME NEW th \in Threads, TakesNewest(v, th)
        PROVE  \A u \in VProcs : Shifts(PrimaryContents(u), PrimaryContents(u)')
    BY <1>8, <2>4 DEF TakesNewest
  <2>5. ASSUME NEW th \in Threads, TakesAnswer(v, th)
        PROVE  \A u \in VProcs : Shifts(PrimaryContents(u), PrimaryContents(u)')
    BY <1>6, <2>5, AnswerAlone DEF TakesAnswer
  <2>6. ASSUME NEW th \in Threads, NEW ds \in DequeLists, TakesResumed(v, th, ds)
        PROVE  \A u \in VProcs : Shifts(PrimaryContents(u), PrimaryContents(u)')
    <3>1. Took(resumeDeques[v], ds, th) /\ resumeDeques[v] \in DequeLists /\ Apart(resumeDeques[v])
      BY <1>1, <2>6 DEF TakesResumed, Typed, HomeInv, Listed
    <3>2. th.task \in OnDeques(resumeDeques[v])
      BY <3>1, TookTasks
    <3>3. pc[v] = "next"
      BY <1>1, <2>6, <3>2 DEF TakesResumed, CallInv, IdleInv, WorkSeen, LookingPlaces
    <3>. QED
      BY <1>6, <2>6, <3>3 DEF TakesResumed
  <2>7. CASE \E ds \in DequeLists : Prunes(v, ds)
    BY <1>5, <2>7 DEF Prunes
  <2>8. ASSUME NEW w \in VProcs, SendThief(v, w) \/ ThiefLeaves(w, v)
        PROVE  \A u \in VProcs : Shifts(PrimaryContents(u), PrimaryContents(u)')
    BY <1>5, <2>8 DEF SendThief, ThiefLeaves, deques
  <2>9. ASSUME NEW w \in VProcs, NEW th \in Threads, NEW ds \in DequeLists,
               ThiefTakesResumed(w, v, th, ds)
        PROVE  \A u \in VProcs : Shifts(PrimaryContents(u), PrimaryContents(u)')
    BY <1>5, <2>9 DEF ThiefTakesResumed
  <2>10. ASSUME NEW w \in VProcs, NEW th \in Threads, ThiefTakesOldest(w, v, th)
         PROVE  \A u \in VProcs : Shifts(PrimaryContents(u), PrimaryContents(u)')
    <3>1. victim' # victim
      <4>1. victim[v] = w /\ victim' = [victim EXCEPT ![v] = NoVProc]
        BY <2>10 DEF ThiefTakesOldest
      <4>2. victim'[v] = NoVProc /\ NoVProc # w
        BY <1>1, <4>1, WorkStealingAssumption DEF Typed
      <4>. QED
        BY <4>1, <4>2
    <3>2. PrimaryContents(w) # <<>> /\ NewPrimary(w, Tail(PrimaryContents(w)))
      BY <2>10, EmptySeq DEF ThiefTakesOldest
    <3>3. Shifts(PrimaryContents(w), Tail(PrimaryContents(w)))
      BY <3>1, <3>2 DEF Shifts
    <3>. QED
      BY <1>3, <3>2, <3>3
  <2>. QED
    BY <1>9, <2>1, <2>2, <2>3, <2>4, <2>5, <2>6, <2>7, <2>8, <2>9, <2>10 DEF WorkerActs, ThiefActs
<1>10. CASE TaskActs(v)
  <2>1. CASE Preempts(v)
    <3>1. running[v] # NoTask
      BY <1>1, <2>1 DEF Preempts, AtWork
    <3>2. Thread(running[v], NoTask) \in Threads /\ Thread(running[v], NoTask).task = running[v]
      BY <1>1, <3>1, RunningTask, ThreadFields
    <3>. QED
      BY <1>7, <2>1, <3>1, <3>2 DEF Preempts
  <2>2. CASE Begins(v)
    <3>1. mainState = "outside"
      BY <2>2 DEF Begins
    <3>2. TasksAt(<<"primary", v>>) = {}
      BY <1>1, <3>1, OnlyMain, LabelIs DEF HomeInv, CallInv
    <3>3. PrimaryContents(v) = <<>>
      BY <1>2, <3>2, PrimaryAt, TasksInTasks
    <3>4. Thread(Main, NoTask) \in Threads
      BY ThreadFields, TaskKinds
    <3>. QED
      BY <1>6, <2>2, <3>3, <3>4 DEF Begins
  <2>3. CASE WorkGroupStarted(v) \/ EndMain(v)
    BY <1>5, <2>3 DEF WorkGroupStarted, EndMain, deques
  <2>4. ASSUME NEW k \in Futures, Calls(v, k)
        PROVE  \A u \in VProcs : Shifts(PrimaryContents(u), PrimaryContents(u)')
    <3>1. running[v] # NoTask
      BY <2>4 DEF Calls
    <3>2. Thread(running[v], k) \in Threads /\ Thread(running[v], k).task = running[v]
      BY <1>1, <3>1, RunningTask, ThreadFields
    <3>. QED
      BY <1>7, <2>4, <3>1, <3>2 DEF Calls
  <2>5. ASSUME NEW k \in Futures, TouchEmpty(v, k)
        PROVE  \A u \in VProcs : Shifts(PrimaryContents(u), PrimaryContents(u)')
    BY <1>5, <2>5 DEF TouchEmpty, deques
  <2>6. ASSUME NEW k \in Futures, GoesOn(v, k)
        PROVE  \A u \in VProcs : Shifts(PrimaryContents(u), PrimaryContents(u)')
    BY <1>8, <2>6 DEF GoesOn
  <2>7. ASSUME NEW k \in Futures, Puts(v, k)
        PROVE  \A u \in VProcs : Shifts(PrimaryContents(u), PrimaryContents(u)')
    BY <1>4, <2>7, PutsKeeps
  <2>. QED
    BY <1>10, <2>1, <2>2, <2>3, <2>4, <2>5, <2>6, <2>7 DEF TaskActs
<1>. QED
  BY <1>9, <1>10

(* When every thread fits in a deque, its oldest thread goes to thieves    *)
(* only, the rest is a stack, and the buffer keeps the others in order     *)
(* wherever it wraps around.                                               *)
THEOREM DequesKeepOrder ==
  ASSUME Fits
  PROVE  Spec => DequeOrder
<1>1. StealInv /\ [Next]_vars =>
        [\A v \in VProcs : primary[v]' # primary[v] =>
           LET before == PrimaryContents(v)
               after == PrimaryContents(v)'
           IN  \/ after = before
               \/ after # <<>> /\ before = SubSeq(after, 1, Len(after) - 1)
               \/ before # <<>> /\ after = SubSeq(before, 1, Len(before) - 1)
               \/ before # <<>> /\ after = Tail(before) /\ victim' # victim]_vars
  <2>. SUFFICES ASSUME StealInv, Next
                PROVE  \A v \in VProcs : Shifts(PrimaryContents(v), PrimaryContents(v)')
    BY DEF Shifts
  <2>1. PICK v \in VProcs : WorkerActs(v) \/ TaskActs(v)
    BY NextActs DEF StealInv, TypeInv
  <2>. QED
    BY <2>1, ActsShift
<1>. QED
  BY <1>1, StealInvHolds, PTL DEF Spec, DequeOrder
=============================================================================
