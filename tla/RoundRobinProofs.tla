-------------------------- MODULE RoundRobinProofs --------------------------
(***************************************************************************)
(* What holds of RoundRobin for any vprocs and threads and any clock.      *)
(*                                                                         *)
(* First the operations of VProcQueue, as functions on queues.  That each  *)
(* thread has one home is proved of the sets of threads that the lists     *)
(* hold: the lemmas on queues say what each operation does to them, and    *)
(* Rehomed what a step of one vproc may.                                   *)
(***************************************************************************)
EXTENDS RoundRobin, ListProofs

----------------------------------------------------------------------------
(* The two-list queues of VProcQueue are FIFO queues, for any threads. *)

LEMMA QueueFields ==
  ASSUME NEW T, NEW q \in QueueOf(T)
  PROVE  /\ q.rdyHd \in Seq(T) /\ q.rdyTl \in Seq(T)
         /\ q.sndHd \in Seq(T) /\ q.sndTl \in Seq(T)
         /\ q = [rdyHd |-> q.rdyHd, rdyTl |-> q.rdyTl,
                 sndHd |-> q.sndHd, sndTl |-> q.sndTl]
  BY DEF QueueOf

LEMMA WithRdyHd ==
  ASSUME NEW T, NEW q \in QueueOf(T), NEW h \in Seq(T)
  PROVE  /\ [q EXCEPT !.rdyHd = h] \in QueueOf(T)
         /\ [q EXCEPT !.rdyHd = h].rdyHd = h
         /\ [q EXCEPT !.rdyHd = h].rdyTl = q.rdyTl
         /\ [q EXCEPT !.rdyHd = h].sndHd = q.sndHd
         /\ [q EXCEPT !.rdyHd = h].sndTl = q.sndTl
  BY DEF QueueOf

LEMMA WithRdyTl ==
  ASSUME NEW T, NEW q \in QueueOf(T), NEW l \in Seq(T)
  PROVE  /\ [q EXCEPT !.rdyTl = l] \in QueueOf(T)
         /\ [q EXCEPT !.rdyTl = l].rdyHd = q.rdyHd
         /\ [q EXCEPT !.rdyTl = l].rdyTl = l
         /\ [q EXCEPT !.rdyTl = l].sndHd = q.sndHd
         /\ [q EXCEPT !.rdyTl = l].sndTl = q.sndTl
  BY DEF QueueOf

(* @enqueue-in-atomic: a thread that is enqueued becomes the last of the   *)
(* primary queue, wherever the threads before it are kept.                 *)
THEOREM EnqueueAppends ==
  ASSUME NEW T, NEW q \in QueueOf(T), NEW t \in T
  PROVE  /\ Enqueue(q, t) \in QueueOf(T)
         /\ Primary(Enqueue(q, t)) = Append(Primary(q), t)
         /\ Secondary(Enqueue(q, t)) = Secondary(q)
  <1>1. /\ Enqueue(q, t).rdyHd = q.rdyHd
        /\ Enqueue(q, t).rdyTl = <<t>> \o q.rdyTl
        /\ Enqueue(q, t).sndHd = q.sndHd
        /\ Enqueue(q, t).sndTl = q.sndTl
    BY QueueFields DEF Enqueue
  <1>2. Enqueue(q, t) \in QueueOf(T)
    <2>1. <<t>> \o q.rdyTl \in Seq(T)
      BY QueueFields
    <2> QED
      BY <2>1 DEF Enqueue, QueueOf
  <1>3. Reverse(<<t>> \o q.rdyTl) = Append(Reverse(q.rdyTl), t)
    BY QueueFields, ReverseCons
  <1>4. q.rdyHd \o Append(Reverse(q.rdyTl), t) = Append(q.rdyHd \o Reverse(q.rdyTl), t)
    <2> DEFINE h == q.rdyHd
               r == Reverse(q.rdyTl)
    <2>1. h \in Seq(T) /\ r \in Seq(T)
      BY QueueFields, ReverseProperties
    <2> HIDE DEF h, r
    <2>2. h \o Append(r, t) = Append(h \o r, t)
      BY <2>1, ConcatAppend
    <2> QED
      BY <2>2 DEF h, r
  <1> QED
    BY <1>1, <1>2, <1>3, <1>4 DEF Primary, Secondary

(* @secondary-enqueue-in-atomic does the same to the secondary queue. *)
THEOREM SecondaryEnqueueAppends ==
  ASSUME NEW T, NEW q \in QueueOf(T), NEW t \in T
  PROVE  /\ SecondaryEnqueue(q, t) \in QueueOf(T)
         /\ Secondary(SecondaryEnqueue(q, t)) = Append(Secondary(q), t)
         /\ Primary(SecondaryEnqueue(q, t)) = Primary(q)
  <1>1. /\ SecondaryEnqueue(q, t).rdyHd = q.rdyHd
        /\ SecondaryEnqueue(q, t).rdyTl = q.rdyTl
        /\ SecondaryEnqueue(q, t).sndHd = q.sndHd
        /\ SecondaryEnqueue(q, t).sndTl = <<t>> \o q.sndTl
    BY QueueFields DEF SecondaryEnqueue
  <1>2. SecondaryEnqueue(q, t) \in QueueOf(T)
    <2>1. <<t>> \o q.sndTl \in Seq(T)
      BY QueueFields
    <2> QED
      BY <2>1 DEF SecondaryEnqueue, QueueOf
  <1>3. Reverse(<<t>> \o q.sndTl) = Append(Reverse(q.sndTl), t)
    BY QueueFields, ReverseCons
  <1>4. q.sndHd \o Append(Reverse(q.sndTl), t) = Append(q.sndHd \o Reverse(q.sndTl), t)
    <2> DEFINE h == q.sndHd
               r == Reverse(q.sndTl)
    <2>1. h \in Seq(T) /\ r \in Seq(T)
      BY QueueFields, ReverseProperties
    <2> HIDE DEF h, r
    <2>2. h \o Append(r, t) = Append(h \o r, t)
      BY <2>1, ConcatAppend
    <2> QED
      BY <2>2 DEF h, r
  <1> QED
    BY <1>1, <1>2, <1>3, <1>4 DEF Primary, Secondary

(* @primary-dequeue-in-atomic takes the first thread of the primary queue  *)
(* and leaves the others in order, whether or not the tail list has to be  *)
(* reversed for it; of an empty queue it takes nothing.                    *)
THEOREM PrimaryDequeueTakesFirst ==
  ASSUME NEW T, NEW q \in QueueOf(T)
  PROVE  LET d == PrimaryDequeue(q)
         IN  /\ d.rest \in QueueOf(T)
             /\ Secondary(d.rest) = Secondary(q)
             /\ Primary(q) # <<>> =>
                  d.item = Head(Primary(q)) /\ Primary(d.rest) = Tail(Primary(q))
             /\ Primary(q) = <<>> => d.item = NoThread /\ d.rest = q
  <1> DEFINE d == PrimaryDequeue(q)
  <1>1. CASE q.rdyHd # <<>>
    <2>1. d = [item |-> Head(q.rdyHd), rest |-> [q EXCEPT !.rdyHd = Tail(@)]]
      BY <1>1 DEF PrimaryDequeue
    <2>2. /\ d.rest \in QueueOf(T)
          /\ d.rest.rdyHd = Tail(q.rdyHd) /\ d.rest.rdyTl = q.rdyTl
          /\ d.rest.sndHd = q.sndHd /\ d.rest.sndTl = q.sndTl
      <3> DEFINE h == Tail(q.rdyHd)
      <3>1. h \in Seq(T)
        BY <1>1, QueueFields
      <3>2. d.rest = [q EXCEPT !.rdyHd = h]
        BY <2>1
      <3> HIDE DEF d, h
      <3>3. /\ d.rest \in QueueOf(T)
            /\ d.rest.rdyHd = h /\ d.rest.rdyTl = q.rdyTl
            /\ d.rest.sndHd = q.sndHd /\ d.rest.sndTl = q.sndTl
        BY <3>1, <3>2, WithRdyHd
      <3> QED
        BY <3>3 DEF h
    <2>3. Reverse(q.rdyTl) \in Seq(T)
      BY QueueFields, ReverseProperties
    <2>4. /\ Head(Primary(q)) = Head(q.rdyHd)
          /\ Tail(Primary(q)) = Tail(q.rdyHd) \o Reverse(q.rdyTl)
      BY <1>1, <2>3, QueueFields, HeadOfConcat DEF Primary
    <2>5. Primary(q) # <<>>
      BY <1>1, <2>3, QueueFields, ConcatEqualIffEmpty DEF Primary
    <2>6. d.item = Head(q.rdyHd)
      BY <2>1
    <2> HIDE DEF d
    <2>7. /\ Secondary(d.rest) = Secondary(q)
          /\ Primary(d.rest) = Tail(q.rdyHd) \o Reverse(q.rdyTl)
      BY <2>2 DEF Primary, Secondary
    <2> QED
      BY <2>2, <2>4, <2>5, <2>6, <2>7 DEF d
  <1>2. CASE q.rdyHd = <<>> /\ q.rdyTl # <<>>
    <2>1. d = [item |-> Head(Reverse(q.rdyTl)),
               rest |-> [q EXCEPT !.rdyTl = <<>>, !.rdyHd = Tail(Reverse(q.rdyTl))]]
      BY <1>2 DEF PrimaryDequeue
    <2>2. Reverse(q.rdyTl) \in Seq(T) /\ Reverse(q.rdyTl) # <<>>
      BY <1>2, QueueFields, ReverseProperties, ReverseNonempty
    <2>3. Tail(Reverse(q.rdyTl)) \in Seq(T)
      BY <2>2
    <2>4. /\ d.rest \in QueueOf(T)
          /\ d.rest.rdyHd = Tail(Reverse(q.rdyTl)) /\ d.rest.rdyTl = <<>>
          /\ d.rest.sndHd = q.sndHd /\ d.rest.sndTl = q.sndTl
      <3> DEFINE h == Tail(Reverse(q.rdyTl))
                 l == <<>>
                 c == [q EXCEPT !.rdyTl = l]
      <3>1. h \in Seq(T) /\ l \in Seq(T)
        BY <2>3
      <3>2. d.rest = [c EXCEPT !.rdyHd = h]
        BY <2>1
      <3> HIDE DEF d, h, l
      <3>3. c \in QueueOf(T) /\ c.rdyTl = l /\ c.sndHd = q.sndHd /\ c.sndTl = q.sndTl
        BY <3>1, WithRdyTl
      <3> HIDE DEF c
      <3>4. /\ d.rest \in QueueOf(T)
            /\ d.rest.rdyHd = h /\ d.rest.rdyTl = l
            /\ d.rest.sndHd = q.sndHd /\ d.rest.sndTl = q.sndTl
        BY <3>1, <3>2, <3>3, WithRdyHd
      <3> QED
        BY <3>4 DEF h, l
    <2>5. Primary(q) = Reverse(q.rdyTl)
      BY <1>2, <2>2, ConcatEmptySeq DEF Primary
    <2>6. Primary(d.rest) = Tail(Reverse(q.rdyTl))
      BY <2>3, <2>4, ReverseEmpty, ConcatEmptySeq DEF Primary
    <2>7. d.item = Head(Reverse(q.rdyTl))
      BY <2>1
    <2> HIDE DEF d
    <2>8. Secondary(d.rest) = Secondary(q)
      BY <2>4 DEF Secondary
    <2> QED
      BY <2>2, <2>4, <2>5, <2>6, <2>7, <2>8 DEF d
  <1>3. CASE q.rdyHd = <<>> /\ q.rdyTl = <<>>
    <2>1. d = [item |-> NoThread, rest |-> q]
      BY <1>3 DEF PrimaryDequeue
    <2>2. Primary(q) = <<>>
      BY <1>3, ReverseEmpty DEF Primary
    <2> QED
      BY <2>1, <2>2
  <1> QED
    BY <1>1, <1>2, <1>3

(* The threads on a queue, and that each is there once. *)
Items(q) == ToSet(q.rdyHd) \union ToSet(q.rdyTl) \union ToSet(q.sndHd) \union ToSet(q.sndTl)

EachOnce(q) ==
  /\ IsInjective(q.rdyHd) /\ IsInjective(q.rdyTl) /\ IsInjective(q.sndHd) /\ IsInjective(q.sndTl)
  /\ ToSet(q.rdyHd) \intersect (ToSet(q.rdyTl) \union ToSet(q.sndHd) \union ToSet(q.sndTl)) = {}
  /\ ToSet(q.rdyTl) \intersect (ToSet(q.sndHd) \union ToSet(q.sndTl)) = {}
  /\ ToSet(q.sndHd) \intersect ToSet(q.sndTl) = {}

LEMMA WithSndHd ==
  ASSUME NEW T, NEW q \in QueueOf(T), NEW h \in Seq(T)
  PROVE  /\ [q EXCEPT !.sndHd = h] \in QueueOf(T)
         /\ [q EXCEPT !.sndHd = h].rdyHd = q.rdyHd
         /\ [q EXCEPT !.sndHd = h].rdyTl = q.rdyTl
         /\ [q EXCEPT !.sndHd = h].sndHd = h
         /\ [q EXCEPT !.sndHd = h].sndTl = q.sndTl
  BY DEF QueueOf

LEMMA WithSndTl ==
  ASSUME NEW T, NEW q \in QueueOf(T), NEW l \in Seq(T)
  PROVE  /\ [q EXCEPT !.sndTl = l] \in QueueOf(T)
         /\ [q EXCEPT !.sndTl = l].rdyHd = q.rdyHd
         /\ [q EXCEPT !.sndTl = l].rdyTl = q.rdyTl
         /\ [q EXCEPT !.sndTl = l].sndHd = q.sndHd
         /\ [q EXCEPT !.sndTl = l].sndTl = l
  BY DEF QueueOf

LEMMA EmptyItems ==
  ASSUME NEW T
  PROVE  EmptyQueue \in QueueOf(T) /\ Items(EmptyQueue) = {} /\ EachOnce(EmptyQueue)
  BY EmptyList DEF EmptyQueue, QueueOf, Items, EachOnce

LEMMA ItemsType ==
  ASSUME NEW T, NEW q \in QueueOf(T)
  PROVE  Items(q) \subseteq T
  <1>1. \A s \in Seq(T) : ToSet(s) \subseteq T
    BY LenProperties DEF ToSet
  <1> QED
    BY <1>1, QueueFields DEF Items

(* Threads new to the queue are put before those of one of its lists. *)
LEMMA AddedToRdyHd ==
  ASSUME NEW T, NEW q \in QueueOf(T), NEW h \in Seq(T),
         EachOnce(q), IsInjective(h), ToSet(h) \intersect Items(q) = {}
  PROVE  LET r == [q EXCEPT !.rdyHd = h \o @]
         IN  r \in QueueOf(T) /\ Items(r) = Items(q) \union ToSet(h) /\ EachOnce(r)
  <1> DEFINE l == h \o q.rdyHd
             r == [q EXCEPT !.rdyHd = l]
  <1>1. /\ l \in Seq(T) /\ ToSet(l) = ToSet(h) \union ToSet(q.rdyHd)
        /\ ToSet(h) \intersect ToSet(q.rdyHd) = {} => IsInjective(l)
    BY QueueFields, ConcatList DEF EachOnce
  <1> HIDE DEF l
  <1>2. /\ r \in QueueOf(T) /\ r.rdyHd = l /\ r.rdyTl = q.rdyTl
        /\ r.sndHd = q.sndHd /\ r.sndTl = q.sndTl
    BY <1>1, WithRdyHd
  <1> HIDE DEF r
  <1>3. Items(r) = Items(q) \union ToSet(h) /\ EachOnce(r)
    BY <1>1, <1>2 DEF Items, EachOnce
  <1> QED
    BY <1>2, <1>3 DEF r, l

LEMMA AddedToRdyTl ==
  ASSUME NEW T, NEW q \in QueueOf(T), NEW h \in Seq(T),
         EachOnce(q), IsInjective(h), ToSet(h) \intersect Items(q) = {}
  PROVE  LET r == [q EXCEPT !.rdyTl = h \o @]
         IN  r \in QueueOf(T) /\ Items(r) = Items(q) \union ToSet(h) /\ EachOnce(r)
  <1> DEFINE l == h \o q.rdyTl
             r == [q EXCEPT !.rdyTl = l]
  <1>1. /\ l \in Seq(T) /\ ToSet(l) = ToSet(h) \union ToSet(q.rdyTl)
        /\ ToSet(h) \intersect ToSet(q.rdyTl) = {} => IsInjective(l)
    BY QueueFields, ConcatList DEF EachOnce
  <1> HIDE DEF l
  <1>2. /\ r \in QueueOf(T) /\ r.rdyHd = q.rdyHd /\ r.rdyTl = l
        /\ r.sndHd = q.sndHd /\ r.sndTl = q.sndTl
    BY <1>1, WithRdyTl
  <1> HIDE DEF r
  <1>3. Items(r) = Items(q) \union ToSet(h) /\ EachOnce(r)
    BY <1>1, <1>2 DEF Items, EachOnce
  <1> QED
    BY <1>2, <1>3 DEF r, l

LEMMA AddedToSndTl ==
  ASSUME NEW T, NEW q \in QueueOf(T), NEW h \in Seq(T),
         EachOnce(q), IsInjective(h), ToSet(h) \intersect Items(q) = {}
  PROVE  LET r == [q EXCEPT !.sndTl = h \o @]
         IN  r \in QueueOf(T) /\ Items(r) = Items(q) \union ToSet(h) /\ EachOnce(r)
  <1> DEFINE l == h \o q.sndTl
             r == [q EXCEPT !.sndTl = l]
  <1>1. /\ l \in Seq(T) /\ ToSet(l) = ToSet(h) \union ToSet(q.sndTl)
        /\ ToSet(h) \intersect ToSet(q.sndTl) = {} => IsInjective(l)
    BY QueueFields, ConcatList DEF EachOnce
  <1> HIDE DEF l
  <1>2. /\ r \in QueueOf(T) /\ r.rdyHd = q.rdyHd /\ r.rdyTl = q.rdyTl
        /\ r.sndHd = q.sndHd /\ r.sndTl = l
    BY <1>1, WithSndTl
  <1> HIDE DEF r
  <1>3. Items(r) = Items(q) \union ToSet(h) /\ EachOnce(r)
    BY <1>1, <1>2 DEF Items, EachOnce
  <1> QED
    BY <1>2, <1>3 DEF r, l

(* Enqueueing a thread that is on no list, and delivering the threads of a  *)
(* landing pad or of the sleeping list (vproc-queue.pml:225-240, 342-352).          *)
THEOREM EnqueueKeepsThreads ==
  ASSUME NEW T, NEW q \in QueueOf(T), NEW t \in T, EachOnce(q), t \notin Items(q)
  PROVE  \A r \in {Enqueue(q, t), SecondaryEnqueue(q, t)} :
           r \in QueueOf(T) /\ Items(r) = Items(q) \union {t} /\ EachOnce(r)
  <1> DEFINE h == <<t>>
             Grown(r) == r \in QueueOf(T) /\ Items(r) = Items(q) \union ToSet(h) /\ EachOnce(r)
  <1>1. h \in Seq(T) /\ IsInjective(h) /\ ToSet(h) = {t} /\ ToSet(h) \intersect Items(q) = {}
    BY OneThread
  <1> HIDE DEF h
  <1>2. Grown([q EXCEPT !.rdyTl = h \o @])
    BY <1>1, AddedToRdyTl, Zenon
  <1>3. Grown([q EXCEPT !.sndTl = h \o @])
    BY <1>1, AddedToSndTl, Zenon
  <1>4. Grown(Enqueue(q, t)) /\ Grown(SecondaryEnqueue(q, t))
    BY <1>2, <1>3, Zenon DEF Enqueue, SecondaryEnqueue, h
  <1> QED
    <2>1. Items(q) \union ToSet(h) = Items(q) \union {t}
      BY <1>1
    <2> QED
      BY <1>4, <2>1, Zenon

THEOREM DeliverKeepsThreads ==
  ASSUME NEW T, NEW q \in QueueOf(T), NEW ts \in Seq(T),
         EachOnce(q), IsInjective(ts), ToSet(ts) \intersect Items(q) = {}
  PROVE  \A r \in {Deliver(q, ts), EnqueueAll(q, ts)} :
           r \in QueueOf(T) /\ Items(r) = Items(q) \union ToSet(ts) /\ EachOnce(r)
  <1> DEFINE h == Reverse(ts)
             Grown(r) == r \in QueueOf(T) /\ Items(r) = Items(q) \union ToSet(h) /\ EachOnce(r)
  <1>1. h \in Seq(T) /\ IsInjective(h) /\ ToSet(h) = ToSet(ts) /\ ToSet(h) \intersect Items(q) = {}
    BY ReverseProperties, ReverseList
  <1> HIDE DEF h
  <1>2. /\ Deliver(q, ts) \in QueueOf(T) /\ EachOnce(Deliver(q, ts))
        /\ Items(Deliver(q, ts)) = Items(q) \union ToSet(ts)
    BY AddedToRdyHd, Zenon DEF Deliver
  <1>3. Grown([q EXCEPT !.rdyTl = h \o @])
    BY <1>1, AddedToRdyTl, Zenon
  <1>4. Grown(EnqueueAll(q, ts))
    BY <1>3, Zenon DEF EnqueueAll, h
  <1>5. Items(q) \union ToSet(h) = Items(q) \union ToSet(ts)
    BY <1>1
  <1> QED
    BY <1>2, <1>4, <1>5, Zenon

(* d is what a dequeue from q returns. *)
TakesOne(d, q, T) ==
  /\ d.rest \in QueueOf(T)
  /\ EachOnce(d.rest)
  /\ IF d.item = NoThread
     THEN d.rest = q
     ELSE d.item \in Items(q) /\ Items(d.rest) = Items(q) \ {d.item}

(* A head list loses its first thread. *)
LEMMA HeadTaken ==
  ASSUME NEW T, NEW q \in QueueOf(T), NoThread \notin T, EachOnce(q)
  PROVE  /\ q.rdyHd # <<>> =>
              TakesOne([item |-> Head(q.rdyHd), rest |-> [q EXCEPT !.rdyHd = Tail(@)]], q, T)
              /\ Head(q.rdyHd) # NoThread
         /\ q.sndHd # <<>> =>
              TakesOne([item |-> Head(q.sndHd), rest |-> [q EXCEPT !.sndHd = Tail(@)]], q, T)
              /\ Head(q.sndHd) # NoThread
  <1>1. ASSUME q.rdyHd # <<>>
        PROVE  TakesOne([item |-> Head(q.rdyHd), rest |-> [q EXCEPT !.rdyHd = Tail(@)]], q, T)
               /\ Head(q.rdyHd) # NoThread
    <2> DEFINE x == Head(q.rdyHd)
               l == Tail(q.rdyHd)
               r == [q EXCEPT !.rdyHd = l]
    <2>1. x \in T /\ l \in Seq(T) /\ ToSet(q.rdyHd) = {x} \union ToSet(l)
          /\ x \notin ToSet(l) /\ IsInjective(l)
      BY <1>1, QueueFields, TailList, HeadTailProperties DEF EachOnce
    <2> HIDE DEF x, l
    <2>2. /\ r \in QueueOf(T) /\ r.rdyHd = l /\ r.rdyTl = q.rdyTl
          /\ r.sndHd = q.sndHd /\ r.sndTl = q.sndTl
      BY <2>1, WithRdyHd
    <2> HIDE DEF r
    <2>3. EachOnce(r) /\ x \in Items(q) /\ Items(r) = Items(q) \ {x} /\ x # NoThread
      BY <2>1, <2>2 DEF Items, EachOnce
    <2>4. TakesOne([item |-> x, rest |-> r], q, T)
      BY <2>2, <2>3 DEF TakesOne
    <2> QED
      BY <2>3, <2>4 DEF x, l, r
  <1>2. ASSUME q.sndHd # <<>>
        PROVE  TakesOne([item |-> Head(q.sndHd), rest |-> [q EXCEPT !.sndHd = Tail(@)]], q, T)
               /\ Head(q.sndHd) # NoThread
    <2> DEFINE x == Head(q.sndHd)
               l == Tail(q.sndHd)
               r == [q EXCEPT !.sndHd = l]
    <2>1. x \in T /\ l \in Seq(T) /\ ToSet(q.sndHd) = {x} \union ToSet(l)
          /\ x \notin ToSet(l) /\ IsInjective(l)
      BY <1>2, QueueFields, TailList, HeadTailProperties DEF EachOnce
    <2> HIDE DEF x, l
    <2>2. /\ r \in QueueOf(T) /\ r.rdyHd = q.rdyHd /\ r.rdyTl = q.rdyTl
          /\ r.sndHd = l /\ r.sndTl = q.sndTl
      BY <2>1, WithSndHd
    <2> HIDE DEF r
    <2>3. EachOnce(r) /\ x \in Items(q) /\ Items(r) = Items(q) \ {x} /\ x # NoThread
      BY <2>1, <2>2 DEF Items, EachOnce
    <2>4. TakesOne([item |-> x, rest |-> r], q, T)
      BY <2>2, <2>3 DEF TakesOne
    <2> QED
      BY <2>3, <2>4 DEF x, l, r
  <1> QED
    BY <1>1, <1>2

(* A tail list becomes the head list, but for the last thread of it. *)
LEMMA LastTaken ==
  ASSUME NEW T, NEW q \in QueueOf(T), NoThread \notin T, EachOnce(q)
  PROVE  /\ q.rdyHd = <<>> /\ q.rdyTl # <<>> =>
              TakesOne([item |-> Head(Reverse(q.rdyTl)),
                        rest |-> [q EXCEPT !.rdyTl = <<>>, !.rdyHd = Tail(Reverse(q.rdyTl))]],
                       q, T)
              /\ Head(Reverse(q.rdyTl)) # NoThread
         /\ q.sndHd = <<>> /\ q.sndTl # <<>> =>
              TakesOne([item |-> Head(Reverse(q.sndTl)),
                        rest |-> [q EXCEPT !.sndTl = <<>>, !.sndHd = Tail(Reverse(q.sndTl))]],
                       q, T)
              /\ Head(Reverse(q.sndTl)) # NoThread
  <1>1. <<>> \in Seq(T) /\ ToSet(<<>>) = {} /\ IsInjective(<<>>)
    BY EmptyList
  <1>2. ASSUME q.rdyHd = <<>>, q.rdyTl # <<>>
        PROVE  TakesOne([item |-> Head(Reverse(q.rdyTl)),
                         rest |-> [q EXCEPT !.rdyTl = <<>>, !.rdyHd = Tail(Reverse(q.rdyTl))]],
                        q, T)
               /\ Head(Reverse(q.rdyTl)) # NoThread
    <2> DEFINE rev == Reverse(q.rdyTl)
               x == Head(rev)
               l == Tail(rev)
               e == <<>>
               c == [q EXCEPT !.rdyTl = e]
               r == [c EXCEPT !.rdyHd = l]
    <2>1. rev \in Seq(T) /\ rev # <<>> /\ ToSet(rev) = ToSet(q.rdyTl) /\ IsInjective(rev)
      BY <1>2, QueueFields, ReverseProperties, ReverseNonempty, ReverseList DEF EachOnce
    <2> HIDE DEF rev
    <2>2. x \in T /\ l \in Seq(T) /\ ToSet(rev) = {x} \union ToSet(l)
          /\ x \notin ToSet(l) /\ IsInjective(l)
      BY <2>1, TailList, HeadTailProperties
    <2> HIDE DEF x, l
    <2>3. e \in Seq(T) /\ ToSet(e) = {} /\ IsInjective(e) /\ q.rdyHd = e
      BY <1>1, <1>2
    <2> HIDE DEF e
    <2>4. c \in QueueOf(T) /\ c.rdyTl = e /\ c.sndHd = q.sndHd /\ c.sndTl = q.sndTl
      BY <2>3, WithRdyTl
    <2> HIDE DEF c
    <2>5. /\ r \in QueueOf(T) /\ r.rdyHd = l /\ r.rdyTl = e
          /\ r.sndHd = q.sndHd /\ r.sndTl = q.sndTl
      BY <2>2, <2>4, WithRdyHd
    <2> HIDE DEF r
    <2>6. EachOnce(r) /\ x \in Items(q) /\ Items(r) = Items(q) \ {x} /\ x # NoThread
      BY <2>1, <2>2, <2>3, <2>5 DEF Items, EachOnce
    <2>7. TakesOne([item |-> x, rest |-> r], q, T)
      BY <2>5, <2>6 DEF TakesOne
    <2>8. r = [q EXCEPT !.rdyTl = e, !.rdyHd = l]
      BY DEF r, c
    <2> QED
      BY <2>6, <2>7, <2>8 DEF x, l, rev, e
  <1>3. ASSUME q.sndHd = <<>>, q.sndTl # <<>>
        PROVE  TakesOne([item |-> Head(Reverse(q.sndTl)),
                         rest |-> [q EXCEPT !.sndTl = <<>>, !.sndHd = Tail(Reverse(q.sndTl))]],
                        q, T)
               /\ Head(Reverse(q.sndTl)) # NoThread
    <2> DEFINE rev == Reverse(q.sndTl)
               x == Head(rev)
               l == Tail(rev)
               e == <<>>
               c == [q EXCEPT !.sndTl = e]
               r == [c EXCEPT !.sndHd = l]
    <2>1. rev \in Seq(T) /\ rev # <<>> /\ ToSet(rev) = ToSet(q.sndTl) /\ IsInjective(rev)
      BY <1>3, QueueFields, ReverseProperties, ReverseNonempty, ReverseList DEF EachOnce
    <2> HIDE DEF rev
    <2>2. x \in T /\ l \in Seq(T) /\ ToSet(rev) = {x} \union ToSet(l)
          /\ x \notin ToSet(l) /\ IsInjective(l)
      BY <2>1, TailList, HeadTailProperties
    <2> HIDE DEF x, l
    <2>3. e \in Seq(T) /\ ToSet(e) = {} /\ IsInjective(e) /\ q.sndHd = e
      BY <1>1, <1>3
    <2> HIDE DEF e
    <2>4. c \in QueueOf(T) /\ c.rdyHd = q.rdyHd /\ c.rdyTl = q.rdyTl /\ c.sndTl = e
      BY <2>3, WithSndTl
    <2> HIDE DEF c
    <2>5. /\ r \in QueueOf(T) /\ r.rdyHd = q.rdyHd /\ r.rdyTl = q.rdyTl
          /\ r.sndHd = l /\ r.sndTl = e
      BY <2>2, <2>4, WithSndHd
    <2> HIDE DEF r
    <2>6. EachOnce(r) /\ x \in Items(q) /\ Items(r) = Items(q) \ {x} /\ x # NoThread
      BY <2>1, <2>2, <2>3, <2>5 DEF Items, EachOnce
    <2>7. TakesOne([item |-> x, rest |-> r], q, T)
      BY <2>5, <2>6 DEF TakesOne
    <2>8. r = [q EXCEPT !.sndTl = e, !.sndHd = l]
      BY DEF r, c
    <2> QED
      BY <2>6, <2>7, <2>8 DEF x, l, rev, e
  <1> QED
    BY <1>2, <1>3

(* A dequeue takes one thread from the queues and keeps the others; it finds *)
(* none only when both queues are empty (vproc-queue.pml:172-222).          *)
THEOREM DequeueKeepsThreads ==
  ASSUME NEW T, NEW q \in QueueOf(T), NoThread \notin T, EachOnce(q)
  PROVE  /\ TakesOne(SecondaryDequeue(q), q, T)
         /\ TakesOne(Dequeue(q), q, T)
         /\ Dequeue(q).item = NoThread => PrimaryEmpty(q) /\ SecondaryEmpty(q)
  <1>1. TakesOne([item |-> NoThread, rest |-> q], q, T)
    BY DEF TakesOne
  <1>2. /\ TakesOne(SecondaryDequeue(q), q, T)
        /\ SecondaryDequeue(q).item = NoThread => SecondaryEmpty(q)
    BY <1>1, HeadTaken, LastTaken DEF SecondaryDequeue, SecondaryEmpty
  <1>3. /\ TakesOne(PrimaryDequeue(q), q, T)
        /\ PrimaryDequeue(q).item = NoThread => PrimaryEmpty(q)
    BY <1>1, HeadTaken, LastTaken DEF PrimaryDequeue, PrimaryEmpty
  <1> QED
    BY <1>2, <1>3 DEF Dequeue

----------------------------------------------------------------------------
(* The scheduler. *)

(* The sleeping list. *)
Entries == [thread : Threads, left : Past..(MaxSleep * NsPerTick)]

Names(s) == [i \in DOMAIN s |-> s[i].thread]

LEMMA NamesType ==
  ASSUME NEW s \in Seq(Entries)
  PROVE  /\ Names(s) \in Seq(Threads)
         /\ DOMAIN Names(s) = DOMAIN s
         /\ ToSet(Names(s)) = {s[i].thread : i \in DOMAIN s}
         /\ ToSet(Names(s)) \subseteq Threads
         /\ s = <<>> <=> Names(s) = <<>>
  <1>1. Len(s) \in Nat /\ DOMAIN s = 1..Len(s) /\ \A i \in 1..Len(s) : s[i] \in Entries
    BY LenProperties
  <1>2. \A e \in Entries : e.thread \in Threads
    BY DEF Entries
  <1>3. Names(s) \in [1..Len(s) -> Threads] /\ DOMAIN Names(s) = DOMAIN s
    BY <1>1, <1>2 DEF Names
  <1>4. Names(s) \in Seq(Threads)
    BY <1>1, <1>3, SeqDef
  <1>5. ToSet(Names(s)) = {s[i].thread : i \in DOMAIN s}
    BY <1>3 DEF ToSet, Names
  <1>6. ToSet(Names(s)) \subseteq Threads
    BY <1>1, <1>2, <1>5
  <1>7. s = <<>> <=> Names(s) = <<>>
    BY <1>1, <1>3, <1>4, LenProperties, EmptySeq
  <1> QED
    BY <1>3, <1>4, <1>5, <1>6, <1>7

LEMMA SelectedNames ==
  ASSUME NEW s \in Seq(Entries), NEW I \in SUBSET DOMAIN s
  PROVE  /\ SelectAt(s, I) \in Seq(Entries)
         /\ ToSet(Names(SelectAt(s, I))) = {s[i].thread : i \in I}
         /\ IsInjective(Names(s)) => IsInjective(Names(SelectAt(s, I)))
  <1> DEFINE r == SelectAt(s, I)
             m == Cardinality(I)
             n == Len(s)
  <1>1. n \in Nat /\ DOMAIN s = 1..n
    BY LenProperties
  <1>2. /\ r \in Seq(Entries) /\ DOMAIN r = 1..m
        /\ \A k \in 1..m : Position(I, k) \in I /\ r[k] = s[Position(I, k)]
        /\ \A i \in I : \E k \in 1..m : r[k] = s[i]
    BY Selected
  <1>3. \A k, l \in 1..m : Position(I, k) = Position(I, l) => k = l
    BY <1>1, Positions
  <1> HIDE DEF r, m, n
  <1>4. ToSet(Names(r)) = {r[k].thread : k \in 1..m}
    BY <1>2, NamesType
  <1>5. ToSet(Names(r)) = {s[i].thread : i \in I}
    BY <1>2, <1>4
  <1>6. ASSUME IsInjective(Names(s))
        PROVE  IsInjective(Names(r))
    <2>1. \A i, j \in DOMAIN s : s[i].thread = s[j].thread => i = j
      BY <1>6 DEF IsInjective, Names
    <2>2. ASSUME NEW k \in 1..m, NEW l \in 1..m, r[k].thread = r[l].thread
          PROVE  k = l
      <3> DEFINE i == Position(I, k)
                 j == Position(I, l)
      <3>1. i \in DOMAIN s /\ j \in DOMAIN s /\ r[k] = s[i] /\ r[l] = s[j]
        BY <1>2
      <3> HIDE DEF i, j
      <3>2. i = j
        BY <2>1, <2>2, <3>1
      <3> QED
        BY <1>3, <3>2 DEF i, j
    <2> QED
      BY <1>2, <2>2 DEF IsInjective, Names
  <1> QED
    BY <1>2, <1>5, <1>6 DEF r

----------------------------------------------------------------------------
(* The invariant. *)

(* What a vproc has in its queues, on its pad, asleep and running. *)
All(q, pad, asleep, now) ==
  Items(q) \union ToSet(pad) \union ToSet(Names(asleep)) \union ({now} \ {NoThread})

AllOnce(q, pad, asleep, now) ==
  /\ EachOnce(q) /\ IsInjective(pad) /\ IsInjective(Names(asleep))
  /\ Items(q) \intersect ToSet(pad) = {}
  /\ Items(q) \intersect ToSet(Names(asleep)) = {}
  /\ ToSet(pad) \intersect ToSet(Names(asleep)) = {}
  /\ now # NoThread => now \notin Items(q) \union ToSet(pad) \union ToSet(Names(asleep))

Has(v) == All(queue[v], landingPad[v], sleeping[v], current[v])

HasOnce(v) == AllOnce(queue[v], landingPad[v], sleeping[v], current[v])

Homes ==
  /\ \A v \in VProcs : HasOnce(v)
  /\ \A u, v \in VProcs : u # v => Has(u) \intersect Has(v) = {}
  /\ \A v \in VProcs : Has(v) \intersect parked = {}
  /\ \A f \in Fibers \ parked : \E v \in VProcs : f \in Has(v)

(* dummyK of a vproc is on no list before the vproc has got a signal. *)
IdleParked == \A v \in VProcs : pc[v] = "idle" => v \in parked

Inv == TypeOK /\ Homes /\ IdleParked /\ NeverIdleWithWork

Waiting == {"wait", "nanosleep", "idle"}

Typed(q, pad, asleep, now, place) ==
  /\ q \in QueueOf(Fibers)
  /\ pad \in Seq(Threads)
  /\ asleep \in Seq(Entries)
  /\ now \in Fibers \union {NoThread}
  /\ place \in {"run", "dispatch", "wait", "nanosleep", "idle"}
  /\ now # NoThread <=> place = "run"

(* A step that gives these values to what belongs to v. *)
Becomes(v, q, pad, asleep, now, place) ==
  /\ queue' = [queue EXCEPT ![v] = q]
  /\ landingPad' = [landingPad EXCEPT ![v] = pad]
  /\ sleeping' = [sleeping EXCEPT ![v] = asleep]
  /\ current' = [current EXCEPT ![v] = now]
  /\ pc' = [pc EXCEPT ![v] = place]

LEMMA Unchanged ==
  ASSUME NEW T, NEW f \in [VProcs -> T], NEW v \in VProcs
  PROVE  f = [f EXCEPT ![v] = f[v]]
  OBVIOUS

LEMMA NoThreadIsNone == NoThread \notin Fibers
  BY RoundRobinAssumption DEF Fibers

LEMMA TypesKept ==
  ASSUME TypeOK, NEW v \in VProcs,
         NEW q, NEW pad, NEW asleep, NEW now, NEW place, Typed(q, pad, asleep, now, place),
         Becomes(v, q, pad, asleep, now, place),
         parked' \subseteq Fibers,
         lag' \in [VProcs -> 0..LongAgo], doneComm' \in [Fibers -> BOOLEAN]
  PROVE  TypeOK'
  <1> USE DEF TypeOK, Becomes, Typed
  <1>1. queue' \in [VProcs -> QueueOf(Fibers)]
    OBVIOUS
  <1>2. landingPad' \in [VProcs -> Seq(Threads)]
    OBVIOUS
  <1>3. sleeping' \in [VProcs -> Seq([thread : Threads, left : Past..(MaxSleep * NsPerTick)])]
    BY DEF Entries
  <1>4. current' \in [VProcs -> Fibers \union {NoThread}]
    OBVIOUS
  <1>5. pc' \in [VProcs -> {"run", "dispatch", "wait", "nanosleep", "idle"}]
    OBVIOUS
  <1>6. \A u \in VProcs : current'[u] # NoThread <=> pc'[u] = "run"
    OBVIOUS
  <1> HIDE DEF Becomes, Typed
  <1> QED
    BY <1>1, <1>2, <1>3, <1>4, <1>5, <1>6

(* A step of v gives homes to the fibers in In and takes those in Out away. *)
LEMMA Rehomed ==
  ASSUME TypeOK, Homes, NEW v \in VProcs,
         NEW q, NEW pad, NEW asleep, NEW now, NEW place,
         NEW In \in SUBSET parked, NEW Out \in SUBSET Has(v),
         Becomes(v, q, pad, asleep, now, place),
         AllOnce(q, pad, asleep, now),
         All(q, pad, asleep, now) = (Has(v) \ Out) \union In,
         parked' = (parked \ In) \union Out
  PROVE  Homes'
  <1>1. \A u \in VProcs :
          /\ queue'[u] = IF u = v THEN q ELSE queue[u]
          /\ landingPad'[u] = IF u = v THEN pad ELSE landingPad[u]
          /\ sleeping'[u] = IF u = v THEN asleep ELSE sleeping[u]
          /\ current'[u] = IF u = v THEN now ELSE current[u]
    BY DEF Becomes, TypeOK
  <1>2. \A u \in VProcs : Has(u)' = IF u = v THEN (Has(v) \ Out) \union In ELSE Has(u)
    BY <1>1 DEF Has
  <1>3. \A u \in VProcs : HasOnce(u)'
    BY <1>1 DEF HasOnce, Homes
  <1>4. \A u \in VProcs : Has(u) \intersect In = {}
    BY DEF Homes
  <1>5. \A u \in VProcs : u # v => Has(u) \intersect Has(v) = {}
    BY DEF Homes
  <1>6. \A u, w \in VProcs : u # w => Has(u)' \intersect Has(w)' = {}
    BY <1>2, <1>4, <1>5 DEF Homes
  <1>7. \A u \in VProcs : Has(u)' \intersect parked' = {}
    BY <1>2, <1>4, <1>5 DEF Homes
  <1>8. ASSUME NEW f \in Fibers \ parked'
        PROVE  \E u \in VProcs : f \in Has(u)'
    <2>1. CASE f \in In
      BY <1>2, <2>1
    <2>2. CASE f \notin In
      <3>1. f \notin parked /\ f \notin Out
        BY <1>8, <2>2
      <3>2. PICK u \in VProcs : f \in Has(u)
        BY <3>1 DEF Homes
      <3> QED
        BY <1>2, <3>1, <3>2
    <2> QED
      BY <2>1, <2>2
  <1> QED
    BY <1>3, <1>6, <1>7, <1>8 DEF Homes

(* All that a step of one vproc has to do to keep the invariant. *)
LEMMA Handled ==
  ASSUME Inv, NEW v \in VProcs,
         NEW q, NEW pad, NEW asleep, NEW now, NEW place, Typed(q, pad, asleep, now, place),
         NEW In \in SUBSET parked, NEW Out \in SUBSET Has(v),
         Becomes(v, q, pad, asleep, now, place),
         AllOnce(q, pad, asleep, now),
         All(q, pad, asleep, now) = (Has(v) \ Out) \union In,
         parked' = (parked \ In) \union Out, Out \subseteq Fibers,
         lag' \in [VProcs -> 0..LongAgo], doneComm' \in [Fibers -> BOOLEAN],
         place \in Waiting => PrimaryEmpty(q) /\ SecondaryEmpty(q),
         \A u \in VProcs : u \in In => pc[u] # "idle" \/ (u = v /\ place # "idle"),
         place = "idle" => pc[v] = "idle"
  PROVE  Inv'
  <1>1. TypeOK /\ Homes /\ IdleParked /\ NeverIdleWithWork
    BY DEF Inv
  <1>2. parked \subseteq Fibers /\ parked' \subseteq Fibers
    BY <1>1 DEF TypeOK
  <1>3. TypeOK'
    BY <1>1, <1>2, TypesKept
  <1>4. Homes'
    BY <1>1, Rehomed
  <1>5. \A u \in VProcs :
          /\ queue'[u] = IF u = v THEN q ELSE queue[u]
          /\ pc'[u] = IF u = v THEN place ELSE pc[u]
    BY <1>1 DEF Becomes, TypeOK
  <1>6. IdleParked'
    BY <1>1, <1>5 DEF IdleParked
  <1>7. NeverIdleWithWork'
    BY <1>1, <1>5 DEF NeverIdleWithWork, Waiting
  <1> QED
    BY <1>3, <1>4, <1>6, <1>7 DEF Inv

LEMMA StateOf ==
  ASSUME Inv, NEW v \in VProcs
  PROVE  /\ Typed(queue[v], landingPad[v], sleeping[v], current[v], pc[v])
         /\ AllOnce(queue[v], landingPad[v], sleeping[v], current[v])
         /\ Has(v) = All(queue[v], landingPad[v], sleeping[v], current[v])
         /\ Has(v) \subseteq Fibers
         /\ Has(v) \intersect parked = {}
         /\ parked \subseteq Fibers
         /\ lag \in [VProcs -> 0..LongAgo] /\ doneComm \in [Fibers -> BOOLEAN]
         /\ Becomes(v, queue[v], landingPad[v], sleeping[v], current[v], pc[v])
              <=> UNCHANGED <<queue, landingPad, sleeping, current, pc>>
  <1>1. TypeOK
    BY DEF Inv
  <1>2. Typed(queue[v], landingPad[v], sleeping[v], current[v], pc[v])
    BY <1>1 DEF TypeOK, Typed, Entries
  <1>3. AllOnce(queue[v], landingPad[v], sleeping[v], current[v]) /\ Has(v) \intersect parked = {}
    BY DEF Inv, Homes, HasOnce
  <1>4. Has(v) \subseteq Fibers
    <2>1. Items(queue[v]) \subseteq Fibers
      BY <1>2, ItemsType DEF Typed
    <2>2. ToSet(Names(sleeping[v])) \subseteq Fibers
      BY <1>2, NamesType DEF Typed, Fibers
    <2>3. ToSet(landingPad[v]) \subseteq Fibers
      BY <1>2, LenProperties DEF Typed, ToSet, Fibers
    <2>4. {current[v]} \ {NoThread} \subseteq Fibers
      BY <1>2 DEF Typed
    <2> QED
      BY <2>1, <2>2, <2>3, <2>4 DEF Has, All
  <1>5. Becomes(v, queue[v], landingPad[v], sleeping[v], current[v], pc[v])
          <=> UNCHANGED <<queue, landingPad, sleeping, current, pc>>
    BY <1>1, Unchanged DEF Becomes, TypeOK
  <1> QED
    BY <1>1, <1>2, <1>3, <1>4, <1>5 DEF TypeOK, Has

LEMMA InitInv == Init => Inv
  <1> SUFFICES ASSUME Init
               PROVE  Inv
    OBVIOUS
  <1> USE DEF Init
  <1>1. \A v \in VProcs :
          /\ queue[v] = EmptyQueue /\ landingPad[v] = <<>> /\ sleeping[v] = <<>>
          /\ current[v] = IF v = Lead THEN Main ELSE NoThread
          /\ pc[v] = IF v = Lead THEN "run" ELSE "idle"
    OBVIOUS
  <1>2. Main \in Fibers /\ Main # NoThread /\ Main \notin VProcs /\ Lead \in VProcs
    BY RoundRobinAssumption DEF Fibers
  <1>3. EmptyQueue \in QueueOf(Fibers) /\ Items(EmptyQueue) = {} /\ EachOnce(EmptyQueue)
    BY EmptyItems
  <1>4. Names(<<>>) = <<>> /\ ToSet(<<>>) = {} /\ IsInjective(<<>>)
    BY EmptyList DEF Names
  <1>5. TypeOK
    <2>1. LongAgo \in Nat
      BY RoundRobinAssumption DEF LongAgo
    <2>2. lag \in [VProcs -> 0..LongAgo] /\ doneComm \in [Fibers -> BOOLEAN] /\ parked \subseteq Fibers
      BY <2>1
    <2>3. queue \in [VProcs -> QueueOf(Fibers)]
      BY <1>3
    <2>4. landingPad \in [VProcs -> Seq(Threads)]
          /\ sleeping \in [VProcs -> Seq([thread : Threads, left : Past..(MaxSleep * NsPerTick)])]
      OBVIOUS
    <2>5. current \in [VProcs -> Fibers \union {NoThread}]
      BY <1>2
    <2>6. pc \in [VProcs -> {"run", "dispatch", "wait", "nanosleep", "idle"}]
      OBVIOUS
    <2>7. \A v \in VProcs : current[v] # NoThread <=> pc[v] = "run"
      BY <1>1, <1>2
    <2> HIDE DEF Init
    <2> QED
      BY <2>2, <2>3, <2>4, <2>5, <2>6, <2>7 DEF TypeOK
  <1>6. \A v \in VProcs : Has(v) = IF v = Lead THEN {Main} ELSE {}
    BY <1>1, <1>2, <1>3, <1>4 DEF Has, All
  <1>7. \A v \in VProcs : HasOnce(v)
    BY <1>1, <1>3, <1>4 DEF HasOnce, AllOnce
  <1>8. Homes
    BY <1>2, <1>6, <1>7 DEF Homes
  <1>9. IdleParked
    BY <1>1, <1>2 DEF IdleParked, Fibers
  <1>10. NeverIdleWithWork
    BY <1>1 DEF NeverIdleWithWork, EmptyQueue, PrimaryEmpty, SecondaryEmpty
  <1> QED
    BY <1>5, <1>8, <1>9, <1>10 DEF Inv

----------------------------------------------------------------------------
(* What the handlers call. *)

LEMMA MoveThreadsKeeps ==
  ASSUME NEW q \in QueueOf(Fibers), EachOnce(q), NEW f
  PROVE  /\ MoveThreads(q, f) \in QueueOf(Fibers)
         /\ Items(MoveThreads(q, f)) = Items(q)
         /\ EachOnce(MoveThreads(q, f))
  <1> DEFINE d == SecondaryDequeue(q)
  <1>1. TakesOne(d, q, Fibers)
    BY NoThreadIsNone, DequeueKeepsThreads
  <1> HIDE DEF d
  <1>2. CASE doneComm[f] /\ d.item # NoThread
    <2> DEFINE r == Enqueue(d.rest, d.item)
    <2>1. /\ d.rest \in QueueOf(Fibers) /\ EachOnce(d.rest)
          /\ d.item \in Items(q) /\ Items(d.rest) = Items(q) \ {d.item}
      BY <1>1, <1>2 DEF TakesOne
    <2>2. d.item \in Fibers /\ d.item \notin Items(d.rest)
      BY <2>1, ItemsType
    <2>3. r \in QueueOf(Fibers) /\ Items(r) = Items(d.rest) \union {d.item} /\ EachOnce(r)
      BY <2>1, <2>2, EnqueueKeepsThreads
    <2>4. MoveThreads(q, f) = r
      BY <1>2 DEF MoveThreads, d
    <2> HIDE DEF r
    <2> QED
      BY <2>1, <2>3, <2>4
  <1>3. CASE ~ (doneComm[f] /\ d.item # NoThread)
    <2>1. MoveThreads(q, f) = q
      BY <1>3 DEF MoveThreads, d
    <2> QED
      BY <2>1
  <1> QED
    BY <1>2, <1>3

LEMMA PutPreemptedKeeps ==
  ASSUME NEW q \in QueueOf(Fibers), EachOnce(q), NEW f \in Fibers, f \notin Items(q)
  PROVE  /\ PutPreempted(q, f) \in QueueOf(Fibers)
         /\ Items(PutPreempted(q, f)) = Items(q) \union {f}
         /\ EachOnce(PutPreempted(q, f))
  <1>1. PutPreempted(q, f) \in {Enqueue(q, f), SecondaryEnqueue(q, f)}
    BY DEF PutPreempted
  <1> QED
    BY <1>1, EnqueueKeepsThreads

LEMMA WakeupKeeps ==
  ASSUME Inv, NEW v \in VProcs, NEW q \in QueueOf(Fibers), EachOnce(q),
         Items(q) \intersect ToSet(Names(sleeping[v])) = {}, WakeupSleepingThreads(v, q)
  PROVE  \E r \in QueueOf(Fibers), asleep \in Seq(Entries) :
           /\ queue' = [queue EXCEPT ![v] = r]
           /\ sleeping' = [sleeping EXCEPT ![v] = asleep]
           /\ lag' \in [VProcs -> 0..LongAgo]
           /\ EachOnce(r) /\ IsInjective(Names(asleep))
           /\ Items(r) \intersect ToSet(Names(asleep)) = {}
           /\ Items(r) \union ToSet(Names(asleep)) = Items(q) \union ToSet(Names(sleeping[v]))
           /\ DueThreads(v) = <<>> =>
                /\ PrimaryEmpty(q) => PrimaryEmpty(r)
                /\ SecondaryEmpty(q) => SecondaryEmpty(r)
  <1> DEFINE s == sleeping[v]
             due == Due(v)
             later == DOMAIN s \ due
             woken == Names(SelectAt(s, due))
             asleep == SelectAt(s, later)
             r == EnqueueAll(q, woken)
  <1>1. s \in Seq(Entries) /\ IsInjective(Names(s))
    BY StateOf DEF Typed, AllOnce
  <1>2. due \in SUBSET DOMAIN s /\ later \in SUBSET DOMAIN s
    BY DEF Due
  <1>3. due \union later = DOMAIN s /\ due \intersect later = {}
    BY <1>2
  <1>4. DueThreads(v) = woken
    BY DEF DueThreads, Names
  <1>5. /\ queue' = [queue EXCEPT ![v] = r]
        /\ sleeping' = [sleeping EXCEPT ![v] = asleep]
        /\ lag' = [lag EXCEPT ![v] = 0]
    BY <1>4 DEF WakeupSleepingThreads
  <1> HIDE DEF s, due, later
  <1>6. /\ SelectAt(s, due) \in Seq(Entries) /\ IsInjective(woken)
        /\ ToSet(woken) = {s[i].thread : i \in due}
    BY <1>1, <1>2, SelectedNames
  <1>7. /\ asleep \in Seq(Entries) /\ IsInjective(Names(asleep))
        /\ ToSet(Names(asleep)) = {s[i].thread : i \in later}
    BY <1>1, <1>2, SelectedNames
  <1>8. woken \in Seq(Threads) /\ woken \in Seq(Fibers)
    BY <1>6, NamesType, SeqMonotonic DEF Fibers
  <1> HIDE DEF woken, asleep
  <1>9. ToSet(woken) \union ToSet(Names(asleep)) = ToSet(Names(s))
    BY <1>1, <1>3, <1>6, <1>7, NamesType
  <1>10. ToSet(woken) \intersect ToSet(Names(asleep)) = {}
    <2>1. \A i, j \in DOMAIN s : s[i].thread = s[j].thread => i = j
      BY <1>1 DEF IsInjective, Names
    <2> QED
      BY <1>3, <1>6, <1>7, <2>1
  <1>11. ToSet(woken) \intersect Items(q) = {}
    BY <1>9 DEF s
  <1>12. r \in QueueOf(Fibers) /\ Items(r) = Items(q) \union ToSet(woken) /\ EachOnce(r)
    BY <1>6, <1>8, <1>11, DeliverKeepsThreads
  <1>13. lag' \in [VProcs -> 0..LongAgo]
    <2>1. LongAgo \in Nat
      BY RoundRobinAssumption DEF LongAgo
    <2> QED
      BY <1>5, <2>1, StateOf
  <1>14. woken = <<>> => /\ PrimaryEmpty(q) => PrimaryEmpty(r)
                         /\ SecondaryEmpty(q) => SecondaryEmpty(r)
    <2>1. ASSUME woken = <<>>
          PROVE  r.rdyTl = q.rdyTl /\ r.rdyHd = q.rdyHd /\ r.sndHd = q.sndHd /\ r.sndTl = q.sndTl
      <3> DEFINE l == Reverse(woken) \o q.rdyTl
      <3>1. l = q.rdyTl
        BY <2>1, ReverseEmpty, QueueFields, ConcatEmptySeq
      <3>2. r = [q EXCEPT !.rdyTl = l]
        BY DEF EnqueueAll
      <3> HIDE DEF l, r
      <3> QED
        BY <3>1, <3>2, QueueFields, WithRdyTl
    <2> QED
      BY <2>1 DEF PrimaryEmpty, SecondaryEmpty
  <1> HIDE DEF r
  <1>15. Items(r) \intersect ToSet(Names(asleep)) = {}
    BY <1>9, <1>10, <1>12 DEF s
  <1>16. Items(r) \union ToSet(Names(asleep)) = Items(q) \union ToSet(Names(sleeping[v]))
    BY <1>9, <1>12 DEF s
  <1> QED
    BY <1>4, <1>5, <1>7, <1>12, <1>13, <1>14, <1>15, <1>16

LEMMA DeliveredPad ==
  ASSUME Inv, NEW v \in VProcs, NEW q \in QueueOf(Fibers), EachOnce(q),
         Items(q) \intersect ToSet(landingPad[v]) = {}
  PROVE  /\ Deliver(q, landingPad[v]) \in QueueOf(Fibers)
         /\ EachOnce(Deliver(q, landingPad[v]))
         /\ Items(Deliver(q, landingPad[v])) = Items(q) \union ToSet(landingPad[v])
  <1>1. landingPad[v] \in Seq(Threads) /\ IsInjective(landingPad[v])
    BY StateOf DEF Typed, AllOnce
  <1>2. landingPad[v] \in Seq(Fibers)
    BY <1>1, SeqMonotonic DEF Fibers
  <1> QED
    BY <1>1, <1>2, DeliverKeepsThreads

(* Preempt, Block and LeaveIdle all poll the pad and wake the sleepers,    *)
(* once they have put a fiber on the queue.                                *)
LEMMA PolledAndWoken ==
  ASSUME Inv, NEW v \in VProcs, NEW In \in SUBSET parked,
         NEW q \in QueueOf(Fibers), EachOnce(q),
         Items(q) \intersect (ToSet(landingPad[v]) \union ToSet(Names(sleeping[v]))) = {},
         Items(q) \union ToSet(landingPad[v]) \union ToSet(Names(sleeping[v]))
           = Has(v) \union In,
         WakeupSleepingThreads(v, Deliver(q, landingPad[v])),
         landingPad' = [landingPad EXCEPT ![v] = <<>>],
         ToDispatch(v), parked' = parked \ In,
         doneComm' \in [Fibers -> BOOLEAN],
         \A u \in VProcs : u \in In => u = v
  PROVE  Inv'
  <1> DEFINE p == landingPad[v]
             s == sleeping[v]
             d == Deliver(q, p)
  <1>1. ToSet(p) \intersect ToSet(Names(s)) = {}
    BY StateOf DEF AllOnce
  <1>2. d \in QueueOf(Fibers) /\ EachOnce(d) /\ Items(d) = Items(q) \union ToSet(p)
    BY DeliveredPad
  <1>3. Items(d) \intersect ToSet(Names(s)) = {}
    BY <1>1, <1>2
  <1> HIDE DEF d
  <1>4. WakeupSleepingThreads(v, d)
    BY DEF d
  <1>5. PICK r \in QueueOf(Fibers), asleep \in Seq(Entries) :
           /\ queue' = [queue EXCEPT ![v] = r]
           /\ sleeping' = [sleeping EXCEPT ![v] = asleep]
           /\ lag' \in [VProcs -> 0..LongAgo]
           /\ EachOnce(r) /\ IsInjective(Names(asleep))
           /\ Items(r) \intersect ToSet(Names(asleep)) = {}
           /\ Items(r) \union ToSet(Names(asleep)) = Items(d) \union ToSet(Names(sleeping[v]))
           /\ DueThreads(v) = <<>> =>
                /\ PrimaryEmpty(d) => PrimaryEmpty(r)
                /\ SecondaryEmpty(d) => SecondaryEmpty(r)
    BY <1>2, <1>3, <1>4, WakeupKeeps, Zenon
  <1>6. Typed(r, <<>>, asleep, NoThread, "dispatch")
    BY DEF Typed
  <1>7. Becomes(v, r, <<>>, asleep, NoThread, "dispatch")
    BY <1>5 DEF Becomes, ToDispatch
  <1>8. AllOnce(r, <<>>, asleep, NoThread)
    BY <1>5, EmptyList DEF AllOnce
  <1>9. All(r, <<>>, asleep, NoThread) = Items(d) \union ToSet(Names(s))
    BY <1>5, EmptyList DEF All
  <1>10. All(r, <<>>, asleep, NoThread) = (Has(v) \ {}) \union In
    BY <1>2, <1>9
  <1>11. parked' = (parked \ In) \union {} /\ {} \in SUBSET Has(v) /\ {} \subseteq Fibers
    OBVIOUS
  <1>12. "dispatch" \in Waiting => PrimaryEmpty(r) /\ SecondaryEmpty(r)
    BY DEF Waiting
  <1>13. \A u \in VProcs : u \in In => pc[u] # "idle" \/ (u = v /\ "dispatch" # "idle")
    OBVIOUS
  <1>14. "dispatch" = "idle" => pc[v] = "idle"
    OBVIOUS
  <1> QED
    BY <1>5, <1>6, <1>7, <1>8, <1>10, <1>11, <1>12, <1>13, <1>14, Handled

(* What a vproc that runs a thread has. *)
LEMMA WhileRunning ==
  ASSUME Inv, NEW v \in VProcs, Running(v)
  PROVE  /\ current[v] \in Fibers /\ current[v] # NoThread
         /\ queue[v] \in QueueOf(Fibers) /\ EachOnce(queue[v])
         /\ landingPad[v] \in Seq(Threads) /\ IsInjective(landingPad[v])
         /\ sleeping[v] \in Seq(Entries) /\ IsInjective(Names(sleeping[v]))
         /\ Items(queue[v]) \intersect (ToSet(landingPad[v]) \union ToSet(Names(sleeping[v]))) = {}
         /\ ToSet(landingPad[v]) \intersect ToSet(Names(sleeping[v])) = {}
         /\ current[v] \notin Items(queue[v]) \union ToSet(landingPad[v])
                                \union ToSet(Names(sleeping[v]))
         /\ Has(v) = Items(queue[v]) \union ToSet(landingPad[v])
                       \union ToSet(Names(sleeping[v])) \union {current[v]}
         /\ current[v] \notin parked
  <1>1. Typed(queue[v], landingPad[v], sleeping[v], current[v], pc[v])
        /\ AllOnce(queue[v], landingPad[v], sleeping[v], current[v])
        /\ Has(v) = All(queue[v], landingPad[v], sleeping[v], current[v])
        /\ Has(v) \intersect parked = {}
    BY StateOf
  <1>2. current[v] # NoThread /\ current[v] \in Fibers
    BY <1>1 DEF Typed, Running
  <1>3. Has(v) = Items(queue[v]) \union ToSet(landingPad[v])
                   \union ToSet(Names(sleeping[v])) \union {current[v]}
    BY <1>1, <1>2 DEF All
  <1>4. /\ current[v] \notin Items(queue[v]) \union ToSet(landingPad[v])
                                \union ToSet(Names(sleeping[v]))
        /\ EachOnce(queue[v]) /\ IsInjective(landingPad[v]) /\ IsInjective(Names(sleeping[v]))
        /\ ToSet(landingPad[v]) \intersect ToSet(Names(sleeping[v])) = {}
        /\ Items(queue[v]) \intersect (ToSet(landingPad[v]) \union ToSet(Names(sleeping[v]))) = {}
    BY <1>1, <1>2 DEF AllOnce
  <1>5. queue[v] \in QueueOf(Fibers) /\ landingPad[v] \in Seq(Threads) /\ sleeping[v] \in Seq(Entries)
    BY <1>1 DEF Typed
  <1> QED
    BY <1>1, <1>2, <1>3, <1>4, <1>5

LEMMA DoneCommKept ==
  ASSUME Inv, NEW f, NEW b \in BOOLEAN, UpdateDoneComm(f, b)
  PROVE  doneComm' \in [Fibers -> BOOLEAN]
  BY DEF Inv, TypeOK, UpdateDoneComm

----------------------------------------------------------------------------
(* Every handler keeps the invariant. *)

LEMMA StopKeeps ==
  ASSUME Inv, NEW v \in VProcs, Stop(v)
  PROVE  Inv'
  <1> DEFINE p == landingPad[v]
             s == sleeping[v]
             c == current[v]
             q == MoveThreads(queue[v], c)
  <1>1. Running(v) /\ UpdateDoneComm(c, TRUE) /\ parked' = parked \union {c} /\ ToDispatch(v)
        /\ queue' = [queue EXCEPT ![v] = q] /\ UNCHANGED <<landingPad, sleeping, lag>>
    BY DEF Stop, clocks
  <1>2. /\ c \in Fibers /\ c # NoThread /\ queue[v] \in QueueOf(Fibers) /\ EachOnce(queue[v])
        /\ p \in Seq(Threads) /\ IsInjective(p) /\ s \in Seq(Entries) /\ IsInjective(Names(s))
        /\ Items(queue[v]) \intersect (ToSet(p) \union ToSet(Names(s))) = {}
        /\ ToSet(p) \intersect ToSet(Names(s)) = {}
        /\ c \notin Items(queue[v]) \union ToSet(p) \union ToSet(Names(s))
        /\ Has(v) = Items(queue[v]) \union ToSet(p) \union ToSet(Names(s)) \union {c}
    BY <1>1, WhileRunning
  <1>3. q \in QueueOf(Fibers) /\ Items(q) = Items(queue[v]) /\ EachOnce(q)
    BY <1>2, MoveThreadsKeeps
  <1>4. doneComm' \in [Fibers -> BOOLEAN]
    BY <1>1, DoneCommKept
  <1>5. lag' \in [VProcs -> 0..LongAgo]
    BY <1>1, StateOf
  <1>6. Becomes(v, q, p, s, NoThread, "dispatch")
    <2>1. landingPad' = [landingPad EXCEPT ![v] = p] /\ sleeping' = [sleeping EXCEPT ![v] = s]
      BY <1>1, Unchanged DEF Inv, TypeOK
    <2> QED
      BY <1>1, <2>1 DEF Becomes, ToDispatch
  <1> HIDE DEF q, p, s, c
  <1>7. Typed(q, p, s, NoThread, "dispatch")
    BY <1>2, <1>3 DEF Typed
  <1>8. AllOnce(q, p, s, NoThread)
    BY <1>2, <1>3 DEF AllOnce
  <1> DEFINE In == {}
             Out == {c}
  <1>9. All(q, p, s, NoThread) = (Has(v) \ Out) \union In
    BY <1>2, <1>3 DEF All
  <1>10. In \in SUBSET parked /\ Out \in SUBSET Has(v) /\ Out \subseteq Fibers
         /\ parked' = (parked \ In) \union Out
    BY <1>1, <1>2
  <1>11. "dispatch" \in Waiting => PrimaryEmpty(q) /\ SecondaryEmpty(q)
    BY DEF Waiting
  <1>12. \A u \in VProcs : u \in In => pc[u] # "idle" \/ (u = v /\ "dispatch" # "idle")
    OBVIOUS
  <1>13. "dispatch" = "idle" => pc[v] = "idle"
    OBVIOUS
  <1> HIDE DEF In, Out
  <1> QED
    BY <1>4, <1>5, <1>6, <1>7, <1>8, <1>9, <1>10, <1>11, <1>12, <1>13, Handled

(* The thread that was running is queued again. *)
LEMMA QueuedAgain ==
  ASSUME Inv, NEW v \in VProcs, Running(v), NEW q, Items(q) = Items(queue[v]) \union {current[v]}
  PROVE  /\ Items(q) \intersect (ToSet(landingPad[v]) \union ToSet(Names(sleeping[v]))) = {}
         /\ Items(q) \union ToSet(landingPad[v]) \union ToSet(Names(sleeping[v])) = Has(v)
  <1> DEFINE pad == ToSet(landingPad[v])
             asleep == ToSet(Names(sleeping[v]))
  <1>1. /\ Items(queue[v]) \intersect (pad \union asleep) = {}
        /\ current[v] \notin Items(queue[v]) \union pad \union asleep
        /\ Has(v) = Items(queue[v]) \union pad \union asleep \union {current[v]}
    BY WhileRunning
  <1> HIDE DEF pad, asleep
  <1>2. Items(q) \intersect (pad \union asleep) = {} /\ Items(q) \union pad \union asleep = Has(v)
    BY <1>1
  <1> QED
    BY <1>2 DEF pad, asleep

LEMMA PreemptKeeps ==
  ASSUME Inv, NEW v \in VProcs, Preempt(v)
  PROVE  Inv'
  <1> DEFINE In == {}
             q == PutPreempted(queue[v], current[v])
  <1>1. /\ Running(v) /\ WakeupSleepingThreads(v, Deliver(q, landingPad[v]))
        /\ UpdateDoneComm(current[v], FALSE)
        /\ landingPad' = [landingPad EXCEPT ![v] = <<>>] /\ ToDispatch(v) /\ parked' = parked \ In
    BY DEF Preempt
  <1>2. q \in QueueOf(Fibers) /\ Items(q) = Items(queue[v]) \union {current[v]} /\ EachOnce(q)
    BY <1>1, WhileRunning, PutPreemptedKeeps
  <1> HIDE DEF q
  <1>3. /\ Items(q) \intersect (ToSet(landingPad[v]) \union ToSet(Names(sleeping[v]))) = {}
        /\ Items(q) \union ToSet(landingPad[v]) \union ToSet(Names(sleeping[v])) = Has(v) \union In
    BY <1>1, <1>2, QueuedAgain
  <1>4. doneComm' \in [Fibers -> BOOLEAN]
    BY <1>1, DoneCommKept
  <1>5. In \in SUBSET parked /\ \A u \in VProcs : u \in In => u = v
    OBVIOUS
  <1> HIDE DEF In
  <1> QED
    BY <1>1, <1>2, <1>3, <1>4, <1>5, PolledAndWoken

LEMMA BlockKeeps ==
  ASSUME Inv, NEW v \in VProcs, Block(v)
  PROVE  Inv'
  <1> DEFINE In == {}
             m == MoveThreads(queue[v], current[v])
             q == Enqueue(m, current[v])
  <1>1. /\ Running(v) /\ WakeupSleepingThreads(v, Deliver(q, landingPad[v]))
        /\ UpdateDoneComm(current[v], TRUE)
        /\ landingPad' = [landingPad EXCEPT ![v] = <<>>] /\ ToDispatch(v) /\ parked' = parked \ In
    BY DEF Block
  <1>2. m \in QueueOf(Fibers) /\ Items(m) = Items(queue[v]) /\ EachOnce(m)
    BY <1>1, WhileRunning, MoveThreadsKeeps
  <1> HIDE DEF m
  <1>3. q \in QueueOf(Fibers) /\ Items(q) = Items(queue[v]) \union {current[v]} /\ EachOnce(q)
    BY <1>1, <1>2, WhileRunning, EnqueueKeepsThreads
  <1> HIDE DEF q
  <1>4. /\ Items(q) \intersect (ToSet(landingPad[v]) \union ToSet(Names(sleeping[v]))) = {}
        /\ Items(q) \union ToSet(landingPad[v]) \union ToSet(Names(sleeping[v])) = Has(v) \union In
    BY <1>1, <1>3, QueuedAgain
  <1>5. doneComm' \in [Fibers -> BOOLEAN]
    BY <1>1, DoneCommKept
  <1>6. In \in SUBSET parked /\ \A u \in VProcs : u \in In => u = v
    OBVIOUS
  <1> HIDE DEF In
  <1> QED
    BY <1>1, <1>3, <1>4, <1>5, <1>6, PolledAndWoken

LEMMA LeaveIdleKeeps ==
  ASSUME Inv, NEW v \in VProcs, LeaveIdle(v)
  PROVE  Inv'
  <1> DEFINE q == PutPreempted(queue[v], v)
  <1>1. /\ pc[v] = "idle" /\ WakeupSleepingThreads(v, Deliver(q, landingPad[v]))
        /\ UpdateDoneComm(v, FALSE)
        /\ landingPad' = [landingPad EXCEPT ![v] = <<>>] /\ ToDispatch(v) /\ parked' = parked \ {v}
    BY DEF LeaveIdle
  <1>2. v \in parked /\ v \in Fibers /\ v \notin Has(v)
    <2>1. v \in parked
      BY <1>1 DEF Inv, IdleParked
    <2> QED
      BY <2>1, StateOf
  <1>3. /\ queue[v] \in QueueOf(Fibers) /\ EachOnce(queue[v])
        /\ Items(queue[v]) \intersect (ToSet(landingPad[v]) \union ToSet(Names(sleeping[v]))) = {}
        /\ Has(v) = Items(queue[v]) \union ToSet(landingPad[v]) \union ToSet(Names(sleeping[v]))
    <2>1. Typed(queue[v], landingPad[v], sleeping[v], current[v], pc[v])
          /\ AllOnce(queue[v], landingPad[v], sleeping[v], current[v])
          /\ Has(v) = All(queue[v], landingPad[v], sleeping[v], current[v])
      BY StateOf
    <2>2. current[v] = NoThread
      BY <1>1, <2>1 DEF Typed
    <2>3. queue[v] \in QueueOf(Fibers)
      BY <2>1 DEF Typed
    <2> QED
      BY <2>1, <2>2, <2>3 DEF AllOnce, All
  <1>4. q \in QueueOf(Fibers) /\ Items(q) = Items(queue[v]) \union {v} /\ EachOnce(q)
    BY <1>2, <1>3, PutPreemptedKeeps
  <1> HIDE DEF q
  <1>5. /\ Items(q) \intersect (ToSet(landingPad[v]) \union ToSet(Names(sleeping[v]))) = {}
        /\ Items(q) \union ToSet(landingPad[v]) \union ToSet(Names(sleeping[v])) = Has(v) \union {v}
    BY <1>2, <1>3, <1>4
  <1>6. doneComm' \in [Fibers -> BOOLEAN]
    BY <1>1, DoneCommKept
  <1>7. {v} \in SUBSET parked /\ \A u \in VProcs : u \in {v} => u = v
    BY <1>2
  <1> QED
    BY <1>1, <1>4, <1>5, <1>6, <1>7, PolledAndWoken

(* A handler that leaves the same fibers with its vproc. *)
LEMMA Rearranged ==
  ASSUME Inv, NEW v \in VProcs,
         NEW q, NEW pad, NEW asleep, NEW now, NEW place, Typed(q, pad, asleep, now, place),
         Becomes(v, q, pad, asleep, now, place),
         AllOnce(q, pad, asleep, now), All(q, pad, asleep, now) = Has(v),
         parked' = parked,
         lag' \in [VProcs -> 0..LongAgo], doneComm' \in [Fibers -> BOOLEAN],
         place \in Waiting => PrimaryEmpty(q) /\ SecondaryEmpty(q),
         place = "idle" => pc[v] = "idle"
  PROVE  Inv'
  <1>1. TypeOK /\ Homes /\ IdleParked /\ NeverIdleWithWork /\ parked \subseteq Fibers
    BY DEF Inv, TypeOK
  <1>2. TypeOK'
    BY <1>1, TypesKept
  <1>3. \A u \in VProcs :
          /\ queue'[u] = IF u = v THEN q ELSE queue[u]
          /\ landingPad'[u] = IF u = v THEN pad ELSE landingPad[u]
          /\ sleeping'[u] = IF u = v THEN asleep ELSE sleeping[u]
          /\ current'[u] = IF u = v THEN now ELSE current[u]
          /\ pc'[u] = IF u = v THEN place ELSE pc[u]
    BY <1>1 DEF Becomes, TypeOK
  <1>4. \A u \in VProcs : Has(u)' = Has(u) /\ HasOnce(u)'
    BY <1>1, <1>3 DEF Has, HasOnce, Homes
  <1>5. Homes'
    BY <1>1, <1>4 DEF Homes
  <1>6. IdleParked'
    BY <1>1, <1>3 DEF IdleParked
  <1>7. NeverIdleWithWork'
    BY <1>1, <1>3 DEF NeverIdleWithWork, Waiting
  <1> QED
    BY <1>2, <1>5, <1>6, <1>7 DEF Inv

LEMMA TimeLeftType ==
  ASSUME Inv, NEW v \in VProcs, NEW d \in 1..MaxSleep
  PROVE  TimeLeft(v, d) \in Past..(MaxSleep * NsPerTick)
  <1> DEFINE m == MaxSleep * NsPerTick
             l == d * NsPerTick
  <1>1. d \in Nat /\ d <= MaxSleep /\ MaxSleep \in Nat /\ NsPerTick \in Nat
    BY RoundRobinAssumption
  <1>2. l \in Nat /\ m \in Nat /\ l <= m
    BY <1>1
  <1>3. lag[v] \in Nat
    <2>1. LongAgo \in Nat
      BY <1>2 DEF LongAgo
    <2> QED
      BY <2>1, StateOf
  <1>4. TimeLeft(v, d) = IF Past > l - lag[v] THEN Past ELSE l - lag[v]
    BY DEF TimeLeft, Larger
  <1> HIDE DEF l, m
  <1>5. TimeLeft(v, d) \in Past..m
    BY <1>2, <1>3, <1>4 DEF Past
  <1> QED
    BY <1>5 DEF m

LEMMA SleepKeeps ==
  ASSUME Inv, NEW v \in VProcs, NEW d \in 1..MaxSleep, Sleep(v, d)
  PROVE  Inv'
  <1> DEFINE p == landingPad[v]
             s == sleeping[v]
             c == current[v]
             q == MoveThreads(queue[v], c)
             e == [thread |-> c, left |-> TimeLeft(v, d)]
             asleep == <<e>> \o s
  <1>1. /\ Running(v) /\ UpdateDoneComm(c, TRUE) /\ parked' = parked /\ ToDispatch(v)
        /\ queue' = [queue EXCEPT ![v] = q] /\ UNCHANGED <<landingPad, lag>>
        /\ c \in Threads /\ sleeping' = [sleeping EXCEPT ![v] = asleep]
    BY DEF Sleep, AddToSleepingList
  <1>2. /\ c \in Fibers /\ c # NoThread /\ queue[v] \in QueueOf(Fibers) /\ EachOnce(queue[v])
        /\ p \in Seq(Threads) /\ IsInjective(p) /\ s \in Seq(Entries) /\ IsInjective(Names(s))
        /\ Items(queue[v]) \intersect (ToSet(p) \union ToSet(Names(s))) = {}
        /\ ToSet(p) \intersect ToSet(Names(s)) = {}
        /\ c \notin Items(queue[v]) \union ToSet(p) \union ToSet(Names(s))
        /\ Has(v) = Items(queue[v]) \union ToSet(p) \union ToSet(Names(s)) \union {c}
    BY <1>1, WhileRunning
  <1>3. q \in QueueOf(Fibers) /\ Items(q) = Items(queue[v]) /\ EachOnce(q)
    BY <1>2, MoveThreadsKeeps
  <1>4. doneComm' \in [Fibers -> BOOLEAN]
    BY <1>1, DoneCommKept
  <1>5. lag' \in [VProcs -> 0..LongAgo]
    BY <1>1, StateOf
  <1>6. Becomes(v, q, p, asleep, NoThread, "dispatch")
    <2>1. landingPad' = [landingPad EXCEPT ![v] = p]
      BY <1>1, Unchanged DEF Inv, TypeOK
    <2> QED
      BY <1>1, <2>1 DEF Becomes, ToDispatch
  <1>7. e \in Entries /\ e.thread = c
    BY <1>1, TimeLeftType DEF Entries
  <1> HIDE DEF q, p, s, c, e
  <1>8. /\ asleep \in Seq(Entries) /\ ToSet(Names(asleep)) = {c} \union ToSet(Names(s))
        /\ IsInjective(Names(asleep))
    <2>1. <<e>> \in Seq(Entries)
      BY <1>7
    <2>2. asleep \in Seq(Entries) /\ DOMAIN s = 1..Len(s) /\ Len(s) \in Nat
      BY <1>2, <2>1, LenProperties
    <2>3. /\ DOMAIN asleep = 1..(Len(s) + 1)
          /\ asleep[1] = e
          /\ \A i \in 1..Len(s) : asleep[i + 1] = s[i]
      BY <1>2, <1>7, <2>1, <2>2
    <2> HIDE DEF asleep
    <2>4. Names(asleep) = <<c>> \o Names(s)
      <3>1. Names(s) \in Seq(Threads) /\ DOMAIN Names(s) = 1..Len(s) /\ <<c>> \in Seq(Threads)
        BY <1>1, <1>2, <2>2, NamesType DEF c
      <3>2. Len(Names(s)) = Len(s)
        BY <2>2, <3>1, LenProperties
      <3>3. /\ <<c>> \o Names(s) \in Seq(Threads)
            /\ DOMAIN (<<c>> \o Names(s)) = 1..(Len(s) + 1)
            /\ (<<c>> \o Names(s))[1] = c
            /\ \A i \in 2..(Len(s) + 1) : (<<c>> \o Names(s))[i] = Names(s)[i - 1]
        BY <2>2, <3>1, <3>2
      <3>4. \A i \in 2..(Len(s) + 1) : Names(s)[i - 1] = s[i - 1].thread /\ asleep[i] = s[i - 1]
        <4>1. ASSUME NEW i \in 2..(Len(s) + 1)
              PROVE  Names(s)[i - 1] = s[i - 1].thread /\ asleep[i] = s[i - 1]
          <5>1. i - 1 \in 1..Len(s) /\ (i - 1) + 1 = i
            BY <2>2
          <5> QED
            BY <2>2, <2>3, <5>1 DEF Names
        <4> QED
          BY <4>1
      <3>5. \A i \in 1..(Len(s) + 1) : asleep[i].thread = (<<c>> \o Names(s))[i]
        <4>1. \A i \in 1..(Len(s) + 1) : i = 1 \/ i \in 2..(Len(s) + 1)
          BY <2>2
        <4> QED
          BY <1>7, <2>3, <3>3, <3>4, <4>1
      <3>6. Names(asleep) \in Seq(Threads) /\ DOMAIN Names(asleep) = 1..(Len(s) + 1)
        BY <2>2, <2>3, NamesType
      <3>7. \A i \in 1..(Len(s) + 1) : Names(asleep)[i] = (<<c>> \o Names(s))[i]
        BY <2>3, <3>5 DEF Names
      <3> DEFINE l == <<c>> \o Names(s)
      <3> HIDE DEF l
      <3>8. l \in Seq(Threads) /\ DOMAIN l = 1..(Len(s) + 1)
            /\ \A i \in 1..(Len(s) + 1) : Names(asleep)[i] = l[i]
        BY <3>3, <3>7 DEF l
      <3>9. Names(asleep) = l
        BY <3>6, <3>8, SeqEqual
      <3> QED
        BY <3>9 DEF l
    <2>5. Names(s) \in Seq(Threads) /\ <<c>> \in Seq(Threads)
          /\ ToSet(<<c>>) = {c} /\ IsInjective(<<c>>)
      BY <1>1, <1>2, NamesType, OneThread DEF c
    <2>6. {c} \intersect ToSet(Names(s)) = {}
      BY <1>2
    <2>7. /\ ToSet(<<c>> \o Names(s)) = ToSet(<<c>>) \union ToSet(Names(s))
          /\ IsInjective(<<c>> \o Names(s)) <=>
               /\ IsInjective(<<c>>) /\ IsInjective(Names(s))
               /\ ToSet(<<c>>) \intersect ToSet(Names(s)) = {}
      BY <2>5, ConcatList
    <2> QED
      BY <1>2, <2>2, <2>4, <2>5, <2>6, <2>7
  <1> HIDE DEF asleep
  <1>9. Typed(q, p, asleep, NoThread, "dispatch")
    BY <1>2, <1>3, <1>8 DEF Typed
  <1>10. AllOnce(q, p, asleep, NoThread)
    BY <1>2, <1>3, <1>8 DEF AllOnce
  <1>11. All(q, p, asleep, NoThread) = Has(v)
    BY <1>2, <1>3, <1>8 DEF All
  <1>12. "dispatch" \in Waiting => PrimaryEmpty(q) /\ SecondaryEmpty(q)
    BY DEF Waiting
  <1>13. "dispatch" = "idle" => pc[v] = "idle"
    OBVIOUS
  <1> QED
    BY <1>1, <1>4, <1>5, <1>6, <1>9, <1>10, <1>11, <1>12, <1>13, Rearranged

LEMMA DispatchKeeps ==
  ASSUME Inv, NEW v \in VProcs, Dispatch(v)
  PROVE  Inv'
  <1> DEFINE p == landingPad[v]
             s == sleeping[v]
             d == Dequeue(queue[v])
             place == IF d.item = NoThread THEN "wait" ELSE "run"
  <1>1. /\ pc[v] = "dispatch" /\ queue' = [queue EXCEPT ![v] = d.rest]
        /\ current' = [current EXCEPT ![v] = d.item] /\ pc' = [pc EXCEPT ![v] = place]
        /\ UNCHANGED <<landingPad, sleeping, lag, parked, doneComm>>
    BY DEF Dispatch, clocks
  <1>2. Typed(queue[v], p, s, current[v], pc[v]) /\ AllOnce(queue[v], p, s, current[v])
        /\ Has(v) = All(queue[v], p, s, current[v])
        /\ lag' \in [VProcs -> 0..LongAgo] /\ doneComm' \in [Fibers -> BOOLEAN]
    BY <1>1, StateOf
  <1>3. Becomes(v, d.rest, p, s, d.item, place)
    <2>1. landingPad' = [landingPad EXCEPT ![v] = p] /\ sleeping' = [sleeping EXCEPT ![v] = s]
      BY <1>1, Unchanged DEF Inv, TypeOK
    <2> QED
      BY <1>1, <2>1 DEF Becomes
  <1>4. current[v] = NoThread
    BY <1>1, <1>2 DEF Typed
  <1>5. queue[v] \in QueueOf(Fibers) /\ EachOnce(queue[v])
    BY <1>2 DEF Typed, AllOnce
  <1>6. /\ TakesOne(d, queue[v], Fibers)
        /\ d.item = NoThread => PrimaryEmpty(queue[v]) /\ SecondaryEmpty(queue[v])
    BY <1>5, NoThreadIsNone, DequeueKeepsThreads
  <1>7. place \in {"wait", "run"} /\ (d.item # NoThread <=> place = "run")
    OBVIOUS
  <1> HIDE DEF d, place, p, s
  <1>8. /\ d.rest \in QueueOf(Fibers) /\ EachOnce(d.rest)
        /\ d.item = NoThread => d.rest = queue[v]
        /\ d.item # NoThread => d.item \in Items(queue[v]) /\ d.item \in Fibers
                                /\ Items(d.rest) = Items(queue[v]) \ {d.item}
    BY <1>5, <1>6, ItemsType DEF TakesOne
  <1>9. Typed(d.rest, p, s, d.item, place)
    BY <1>2, <1>7, <1>8 DEF Typed
  <1>10. AllOnce(d.rest, p, s, d.item)
    BY <1>2, <1>4, <1>8 DEF AllOnce
  <1>11. All(d.rest, p, s, d.item) = Has(v)
    BY <1>2, <1>4, <1>8 DEF All
  <1>12. place \in Waiting => PrimaryEmpty(d.rest) /\ SecondaryEmpty(d.rest)
    BY <1>6, <1>7, <1>8 DEF Waiting
  <1>13. place = "idle" => pc[v] = "idle"
    BY <1>7
  <1> QED
    BY <1>1, <1>2, <1>3, <1>9, <1>10, <1>11, <1>12, <1>13, Rearranged

(* What a vproc that runs no thread has. *)
LEMMA WhileNotRunning ==
  ASSUME Inv, NEW v \in VProcs, pc[v] # "run"
  PROVE  /\ current[v] = NoThread
         /\ queue[v] \in QueueOf(Fibers) /\ EachOnce(queue[v])
         /\ landingPad[v] \in Seq(Threads) /\ IsInjective(landingPad[v])
         /\ sleeping[v] \in Seq(Entries) /\ IsInjective(Names(sleeping[v]))
         /\ Items(queue[v]) \intersect ToSet(landingPad[v]) = {}
         /\ Items(queue[v]) \intersect ToSet(Names(sleeping[v])) = {}
         /\ ToSet(landingPad[v]) \intersect ToSet(Names(sleeping[v])) = {}
         /\ Has(v) = Items(queue[v]) \union ToSet(landingPad[v]) \union ToSet(Names(sleeping[v]))
  <1>1. Typed(queue[v], landingPad[v], sleeping[v], current[v], pc[v])
        /\ AllOnce(queue[v], landingPad[v], sleeping[v], current[v])
        /\ Has(v) = All(queue[v], landingPad[v], sleeping[v], current[v])
    BY StateOf
  <1>2. current[v] = NoThread
    BY <1>1 DEF Typed
  <1>3. queue[v] \in QueueOf(Fibers) /\ landingPad[v] \in Seq(Threads) /\ sleeping[v] \in Seq(Entries)
    BY <1>1 DEF Typed
  <1>4. Has(v) = Items(queue[v]) \union ToSet(landingPad[v]) \union ToSet(Names(sleeping[v]))
    BY <1>1, <1>2 DEF All
  <1> QED
    BY <1>1, <1>2, <1>3, <1>4 DEF AllOnce

LEMMA WaitPollKeeps ==
  ASSUME Inv, NEW v \in VProcs, WaitPoll(v)
  PROVE  Inv'
  <1> DEFINE s == sleeping[v]
             q == Deliver(queue[v], landingPad[v])
  <1>1. /\ pc[v] = "wait" /\ queue' = [queue EXCEPT ![v] = q]
        /\ landingPad' = [landingPad EXCEPT ![v] = <<>>] /\ pc' = [pc EXCEPT ![v] = "dispatch"]
        /\ UNCHANGED <<sleeping, lag, current, parked, doneComm>>
    BY DEF WaitPoll, clocks
  <1>2. pc[v] # "run"
    BY <1>1
  <1>3. q \in QueueOf(Fibers) /\ EachOnce(q)
        /\ Items(q) = Items(queue[v]) \union ToSet(landingPad[v])
    BY <1>2, WhileNotRunning, DeliveredPad
  <1>4. Becomes(v, q, <<>>, s, NoThread, "dispatch")
    <2>1. current' = [current EXCEPT ![v] = current[v]] /\ sleeping' = [sleeping EXCEPT ![v] = s]
      BY <1>1, Unchanged DEF Inv, TypeOK
    <2>2. current[v] = NoThread
      BY <1>2, WhileNotRunning
    <2> QED
      BY <1>1, <2>1, <2>2 DEF Becomes
  <1> HIDE DEF q, s
  <1>5. s \in Seq(Entries) /\ IsInjective(Names(s)) /\ Items(q) \intersect ToSet(Names(s)) = {}
        /\ Has(v) = Items(q) \union ToSet(Names(s))
    BY <1>2, <1>3, WhileNotRunning DEF s
  <1>6. Typed(q, <<>>, s, NoThread, "dispatch")
    BY <1>3, <1>5 DEF Typed
  <1>7. AllOnce(q, <<>>, s, NoThread) /\ All(q, <<>>, s, NoThread) = Has(v)
    BY <1>3, <1>5, EmptyList DEF AllOnce, All
  <1>8. lag' \in [VProcs -> 0..LongAgo] /\ doneComm' \in [Fibers -> BOOLEAN]
    BY <1>1, StateOf
  <1>9. "dispatch" \in Waiting => PrimaryEmpty(q) /\ SecondaryEmpty(q)
    BY DEF Waiting
  <1>10. "dispatch" = "idle" => pc[v] = "idle"
    OBVIOUS
  <1> QED
    BY <1>1, <1>4, <1>6, <1>7, <1>8, <1>9, <1>10, Rearranged

LEMMA WaitWakeupKeeps ==
  ASSUME Inv, NEW v \in VProcs, WaitWakeup(v)
  PROVE  Inv'
  <1> DEFINE p == landingPad[v]
             place == IF DueThreads(v) = <<>> THEN "nanosleep" ELSE "dispatch"
  <1>1. /\ pc[v] = "wait" /\ p = <<>> /\ WakeupSleepingThreads(v, queue[v])
        /\ pc' = [pc EXCEPT ![v] = place] /\ UNCHANGED <<landingPad, current, parked, doneComm>>
    BY DEF WaitWakeup
  <1>2. pc[v] # "run"
    BY <1>1
  <1>3. /\ current[v] = NoThread /\ queue[v] \in QueueOf(Fibers) /\ EachOnce(queue[v])
        /\ Items(queue[v]) \intersect ToSet(Names(sleeping[v])) = {}
        /\ Has(v) = Items(queue[v]) \union ToSet(p) \union ToSet(Names(sleeping[v]))
    BY <1>2, WhileNotRunning
  <1>4. PrimaryEmpty(queue[v]) /\ SecondaryEmpty(queue[v])
    BY <1>1 DEF Inv, NeverIdleWithWork
  <1>5. PICK r \in QueueOf(Fibers), asleep \in Seq(Entries) :
           /\ queue' = [queue EXCEPT ![v] = r]
           /\ sleeping' = [sleeping EXCEPT ![v] = asleep]
           /\ lag' \in [VProcs -> 0..LongAgo]
           /\ EachOnce(r) /\ IsInjective(Names(asleep))
           /\ Items(r) \intersect ToSet(Names(asleep)) = {}
           /\ Items(r) \union ToSet(Names(asleep))
                = Items(queue[v]) \union ToSet(Names(sleeping[v]))
           /\ DueThreads(v) = <<>> =>
                /\ PrimaryEmpty(queue[v]) => PrimaryEmpty(r)
                /\ SecondaryEmpty(queue[v]) => SecondaryEmpty(r)
    BY <1>1, <1>3, WakeupKeeps, Zenon
  <1>6. Becomes(v, r, <<>>, asleep, NoThread, place)
    <2>1. current' = [current EXCEPT ![v] = current[v]]
          /\ landingPad' = [landingPad EXCEPT ![v] = landingPad[v]]
      BY <1>1, Unchanged DEF Inv, TypeOK
    <2> QED
      BY <1>1, <1>3, <1>5, <2>1 DEF Becomes
  <1>7. place \in {"nanosleep", "dispatch"} /\ (place = "nanosleep" => DueThreads(v) = <<>>)
    OBVIOUS
  <1> HIDE DEF place
  <1>8. Typed(r, <<>>, asleep, NoThread, place)
    BY <1>7 DEF Typed
  <1>9. AllOnce(r, <<>>, asleep, NoThread)
    BY <1>5, EmptyList DEF AllOnce
  <1>10. All(r, <<>>, asleep, NoThread) = Has(v)
    BY <1>1, <1>3, <1>5, EmptyList DEF All
  <1>11. doneComm' \in [Fibers -> BOOLEAN] /\ parked' = parked
    BY <1>1, StateOf
  <1>12. place \in Waiting => PrimaryEmpty(r) /\ SecondaryEmpty(r)
    BY <1>4, <1>5, <1>7 DEF Waiting
  <1>13. place = "idle" => pc[v] = "idle"
    BY <1>7
  <1> QED
    BY <1>5, <1>6, <1>8, <1>9, <1>10, <1>11, <1>12, <1>13, Rearranged

LEMMA NanosleepReturnsKeeps ==
  ASSUME Inv, NEW v \in VProcs, NanosleepReturns(v)
  PROVE  Inv'
  <1> DEFINE q == queue[v]
             p == landingPad[v]
             s == sleeping[v]
             c == current[v]
  <1>1. /\ pc[v] = "nanosleep" /\ pc' = [pc EXCEPT ![v] = "wait"]
        /\ UNCHANGED <<queue, landingPad, sleeping, lag, current, parked, doneComm>>
    BY DEF NanosleepReturns, clocks
  <1>2. Typed(q, p, s, c, pc[v]) /\ AllOnce(q, p, s, c) /\ All(q, p, s, c) = Has(v)
        /\ lag' \in [VProcs -> 0..LongAgo] /\ doneComm' \in [Fibers -> BOOLEAN]
    BY <1>1, StateOf
  <1>3. Becomes(v, q, p, s, c, "wait")
    BY <1>1, Unchanged DEF Becomes, Inv, TypeOK
  <1>4. "wait" \in Waiting => PrimaryEmpty(q) /\ SecondaryEmpty(q)
    BY <1>1 DEF Inv, NeverIdleWithWork
  <1> HIDE DEF q, p, s, c
  <1>5. Typed(q, p, s, c, "wait")
    BY <1>1, <1>2 DEF Typed
  <1>6. "wait" = "idle" => pc[v] = "idle"
    OBVIOUS
  <1> QED
    BY <1>1, <1>2, <1>3, <1>4, <1>5, <1>6, Rearranged

LEMMA EnqueueReadyKeeps ==
  ASSUME Inv, NEW v \in VProcs, NEW t \in Threads, NEW d \in VProcs, EnqueueReady(v, t, d)
  PROVE  Inv'
  <1> DEFINE In == {t}
             Out == {}
  <1>1. /\ Running(v) /\ t \in parked /\ parked' = parked \ {t}
        /\ UNCHANGED <<sleeping, lag, current, pc, doneComm>>
    BY DEF EnqueueReady, clocks
  <1>2. /\ In \in SUBSET parked /\ parked' = (parked \ In) \union Out
        /\ Out \subseteq Fibers /\ \A u \in VProcs : Out \in SUBSET Has(u)
    BY <1>1
  <1>3. \A u \in VProcs : u \notin In
    BY RoundRobinAssumption
  <1>4. t \in Fibers /\ \A u \in VProcs : t \notin Has(u)
    <2>1. t \in Fibers
      BY DEF Fibers
    <2> QED
      BY <1>1, <2>1, StateOf
  <1>5. lag' \in [VProcs -> 0..LongAgo] /\ doneComm' \in [Fibers -> BOOLEAN]
    BY <1>1, StateOf
  <1>6. CASE d = v
    <2> DEFINE q == Enqueue(queue[v], t)
               p == landingPad[v]
               s == sleeping[v]
               c == current[v]
    <2>1. queue' = [queue EXCEPT ![v] = q] /\ landingPad' = landingPad
      BY <1>6 DEF EnqueueReady
    <2>2. /\ c \in Fibers /\ c # NoThread /\ queue[v] \in QueueOf(Fibers) /\ EachOnce(queue[v])
          /\ p \in Seq(Threads) /\ IsInjective(p) /\ s \in Seq(Entries) /\ IsInjective(Names(s))
          /\ Items(queue[v]) \intersect (ToSet(p) \union ToSet(Names(s))) = {}
          /\ ToSet(p) \intersect ToSet(Names(s)) = {}
          /\ c \notin Items(queue[v]) \union ToSet(p) \union ToSet(Names(s))
          /\ Has(v) = Items(queue[v]) \union ToSet(p) \union ToSet(Names(s)) \union {c}
      BY <1>1, WhileRunning
    <2>3. t \notin Items(queue[v]) /\ t \notin ToSet(p) /\ t \notin ToSet(Names(s)) /\ t # c
      BY <1>4, <2>2
    <2>4. q \in QueueOf(Fibers) /\ Items(q) = Items(queue[v]) \union {t} /\ EachOnce(q)
      BY <1>4, <2>2, <2>3, EnqueueKeepsThreads
    <2>5. Becomes(v, q, p, s, c, "run")
      <3>1. /\ landingPad' = [landingPad EXCEPT ![v] = p] /\ sleeping' = [sleeping EXCEPT ![v] = s]
            /\ current' = [current EXCEPT ![v] = c] /\ pc' = [pc EXCEPT ![v] = pc[v]]
        BY <1>1, <2>1, Unchanged DEF Inv, TypeOK
      <3> QED
        BY <1>1, <2>1, <3>1 DEF Becomes, Running
    <2> HIDE DEF q, p, s, c
    <2>6. Typed(q, p, s, c, "run")
      BY <2>2, <2>4 DEF Typed
    <2>7. AllOnce(q, p, s, c)
      BY <2>2, <2>3, <2>4 DEF AllOnce
    <2>8. All(q, p, s, c) = (Has(v) \ Out) \union In
      BY <2>2, <2>4 DEF All
    <2>9. "run" \in Waiting => PrimaryEmpty(q) /\ SecondaryEmpty(q)
      BY DEF Waiting
    <2>10. \A u \in VProcs : u \in In => pc[u] # "idle" \/ (u = v /\ "run" # "idle")
      BY <1>3
    <2>11. "run" = "idle" => pc[v] = "idle"
      OBVIOUS
    <2>12. Out \in SUBSET Has(v)
      BY <1>2
    <2> HIDE DEF In, Out
    <2> QED
      BY <1>2, <1>5, <2>5, <2>6, <2>7, <2>8, <2>9, <2>10, <2>11, <2>12, Handled
  <1>7. CASE d # v
    <2> DEFINE q == queue[d]
               p == <<t>> \o landingPad[d]
               s == sleeping[d]
               c == current[d]
               place == pc[d]
    <2>1. landingPad' = [landingPad EXCEPT ![d] = p] /\ queue' = queue
      BY <1>7 DEF EnqueueReady
    <2>2. /\ Typed(q, landingPad[d], s, c, place) /\ AllOnce(q, landingPad[d], s, c)
          /\ Has(d) = All(q, landingPad[d], s, c)
      BY StateOf
    <2>3. t \notin Items(q) /\ t \notin ToSet(landingPad[d]) /\ t \notin ToSet(Names(s)) /\ t # c
      <3>1. t # NoThread
        BY RoundRobinAssumption
      <3> QED
        BY <1>4, <2>2, <3>1 DEF All
    <2>4. p \in Seq(Threads) /\ ToSet(p) = {t} \union ToSet(landingPad[d]) /\ IsInjective(p)
      <3>1. <<t>> \in Seq(Threads) /\ ToSet(<<t>>) = {t} /\ IsInjective(<<t>>)
        BY OneThread
      <3>2. landingPad[d] \in Seq(Threads) /\ IsInjective(landingPad[d])
        BY <2>2 DEF Typed, AllOnce
      <3> DEFINE l == landingPad[d]
      <3>3. {t} \intersect ToSet(l) = {}
        BY <2>3
      <3> HIDE DEF l
      <3>4. /\ <<t>> \o l \in Seq(Threads) /\ ToSet(<<t>> \o l) = ToSet(<<t>>) \union ToSet(l)
            /\ IsInjective(<<t>> \o l) <=>
                 IsInjective(<<t>>) /\ IsInjective(l) /\ ToSet(<<t>>) \intersect ToSet(l) = {}
        BY <3>1, <3>2, ConcatList DEF l
      <3> QED
        BY <3>1, <3>2, <3>3, <3>4 DEF l
    <2>5. Becomes(d, q, p, s, c, place)
      <3>1. /\ queue' = [queue EXCEPT ![d] = q] /\ sleeping' = [sleeping EXCEPT ![d] = s]
            /\ current' = [current EXCEPT ![d] = c] /\ pc' = [pc EXCEPT ![d] = place]
        BY <1>1, <2>1, Unchanged DEF Inv, TypeOK
      <3> QED
        BY <2>1, <3>1 DEF Becomes
    <2>6. place \in Waiting => PrimaryEmpty(q) /\ SecondaryEmpty(q)
      BY DEF Inv, NeverIdleWithWork, Waiting
    <2>7. \A u \in VProcs : u \in In => pc[u] # "idle" \/ (u = d /\ place # "idle")
      BY <1>3
    <2>8. place = "idle" => pc[d] = "idle"
      OBVIOUS
    <2> HIDE DEF q, p, s, c, place
    <2>9. Typed(q, p, s, c, place)
      BY <2>2, <2>4 DEF Typed
    <2>10. AllOnce(q, p, s, c)
      BY <2>2, <2>3, <2>4 DEF AllOnce
    <2>11. All(q, p, s, c) = (Has(d) \ Out) \union In
      BY <2>2, <2>4 DEF All
    <2>12. Out \in SUBSET Has(d)
      BY <1>2
    <2> HIDE DEF In, Out
    <2> QED
      BY <1>2, <1>5, <2>5, <2>6, <2>7, <2>8, <2>9, <2>10, <2>11, <2>12, Handled
  <1> QED
    BY <1>6, <1>7

LEMMA TickKeeps ==
  ASSUME Inv, Tick
  PROVE  Inv'
  <1> DEFINE later(s) == [i \in DOMAIN s |-> [s[i] EXCEPT !.left = Larger(@ - 1, Past)]]
  <1>1. TypeOK /\ Homes /\ IdleParked /\ NeverIdleWithWork
    BY DEF Inv
  <1>2. /\ lag' = [v \in VProcs |-> Smaller(lag[v] + 1, LongAgo)]
        /\ sleeping' = [v \in VProcs |-> later(sleeping[v])]
        /\ UNCHANGED <<queue, landingPad, current, pc, parked, doneComm>>
    BY DEF Tick
  <1>3. MaxSleep * NsPerTick \in Nat /\ LongAgo \in Nat
    BY RoundRobinAssumption DEF LongAgo
  <1>4. ASSUME NEW s \in Seq(Entries)
        PROVE  later(s) \in Seq(Entries) /\ Names(later(s)) = Names(s)
    <2>1. ASSUME NEW e \in Entries
          PROVE  [e EXCEPT !.left = Larger(@ - 1, Past)] \in Entries
                 /\ [e EXCEPT !.left = Larger(@ - 1, Past)].thread = e.thread
      <3>1. Larger(e.left - 1, Past) \in Past..(MaxSleep * NsPerTick)
        <4> DEFINE m == MaxSleep * NsPerTick
        <4>1. e.left \in Past..m /\ m \in Nat
          BY <1>3 DEF Entries
        <4> HIDE DEF m
        <4>2. Larger(e.left - 1, Past) \in Past..m
          BY <4>1 DEF Larger, Past
        <4> QED
          BY <4>2 DEF m
      <3> QED
        BY <3>1 DEF Entries
    <2>2. Len(s) \in Nat /\ DOMAIN s = 1..Len(s) /\ \A i \in 1..Len(s) : s[i] \in Entries
      BY LenProperties
    <2>3. later(s) \in [1..Len(s) -> Entries] /\ \A i \in 1..Len(s) : later(s)[i].thread = s[i].thread
      BY <2>1, <2>2
    <2> HIDE DEF later
    <2>4. later(s) \in Seq(Entries)
      BY <2>2, <2>3, SeqDef
    <2> QED
      BY <2>2, <2>3, <2>4 DEF Names
  <1>5. \A v \in VProcs : sleeping[v] \in Seq(Entries)
    BY <1>1 DEF TypeOK, Entries
  <1> HIDE DEF later
  <1>6. sleeping' \in [VProcs -> Seq(Entries)]
        /\ \A v \in VProcs : Names(sleeping'[v]) = Names(sleeping[v])
    BY <1>2, <1>4, <1>5
  <1>7. lag' \in [VProcs -> 0..LongAgo]
    BY <1>1, <1>2, <1>3 DEF TypeOK, Smaller
  <1>8. TypeOK'
    BY <1>1, <1>2, <1>6, <1>7 DEF TypeOK, Entries
  <1>9. \A v \in VProcs : Has(v)' = Has(v) /\ HasOnce(v)' = HasOnce(v)
    BY <1>2, <1>6 DEF Has, HasOnce, All, AllOnce
  <1>10. Homes'
    BY <1>1, <1>2, <1>9 DEF Homes
  <1>11. IdleParked' /\ NeverIdleWithWork'
    BY <1>1, <1>2 DEF IdleParked, NeverIdleWithWork
  <1> QED
    BY <1>8, <1>10, <1>11 DEF Inv

LEMMA NextInv == Inv /\ [Next]_vars => Inv'
  <1> SUFFICES ASSUME Inv, [Next]_vars
               PROVE  Inv'
    OBVIOUS
  <1>1. ASSUME NEW v \in VProcs, Schedule(v)
        PROVE  Inv'
    <2>1. Dispatch(v) \/ WaitPoll(v) \/ WaitWakeup(v) \/ NanosleepReturns(v) \/ LeaveIdle(v)
      BY <1>1 DEF Schedule
    <2> QED
      BY <2>1, DispatchKeeps, WaitPollKeeps, WaitWakeupKeeps, NanosleepReturnsKeeps, LeaveIdleKeeps
  <1>2. CASE UNCHANGED vars
    BY <1>2 DEF vars, clocks, Inv, TypeOK, Homes, Has, HasOnce, All, AllOnce, IdleParked,
                NeverIdleWithWork
  <1>3. CASE Tick
    BY <1>3, TickKeeps
  <1>4. ASSUME NEW v \in VProcs, Stop(v) \/ Preempt(v) \/ Block(v)
        PROVE  Inv'
    BY <1>4, StopKeeps, PreemptKeeps, BlockKeeps
  <1>5. ASSUME NEW v \in VProcs, NEW d \in 1..MaxSleep, Sleep(v, d)
        PROVE  Inv'
    BY <1>5, SleepKeeps
  <1>6. ASSUME NEW v \in VProcs, NEW t \in Threads, NEW d \in VProcs, EnqueueReady(v, t, d)
        PROVE  Inv'
    BY <1>6, EnqueueReadyKeeps
  <1> QED
    BY <1>1, <1>2, <1>3, <1>4, <1>5, <1>6 DEF Next

----------------------------------------------------------------------------
(* The theorems. *)

LEMMA AlwaysInv == Spec => []Inv
  BY InitInv, NextInv, PTL DEF Spec

(* Every variable keeps to its type, and a vproc has a fiber exactly while *)
(* it runs one: dispatch of round-robin.pml never runs "no thread".        *)
THEOREM TypesCorrect == Spec => []TypeOK
  <1>1. Inv => TypeOK
    BY DEF Inv
  <1> QED
    BY <1>1, AlwaysInv, PTL

(* The lists of a vproc, one after the other, hold what it has, once. *)
LEMMA HeldOnce ==
  ASSUME Inv, NEW v \in VProcs
  PROVE  IsInjective(Held(v)) /\ ToSet(Held(v)) = Has(v)
  <1> DEFINE q == queue[v]
             p == landingPad[v]
             s == Names(sleeping[v])
             c == IF current[v] = NoThread THEN <<>> ELSE <<current[v]>>
             h2 == q.rdyHd \o q.rdyTl
             h3 == h2 \o q.sndHd
             h4 == h3 \o q.sndTl
             h5 == h4 \o p
             h6 == h5 \o s
             h7 == h6 \o c
  <1>1. Typed(q, p, sleeping[v], current[v], pc[v]) /\ AllOnce(q, p, sleeping[v], current[v])
        /\ Has(v) = All(q, p, sleeping[v], current[v])
    BY StateOf
  <1>2. Held(v) = h7
    BY DEF Held, Names
  <1>3. c \in Seq(Fibers) /\ IsInjective(c) /\ ToSet(c) = {current[v]} \ {NoThread}
    <2>1. CASE current[v] = NoThread
      BY <2>1, EmptyList
    <2>2. CASE current[v] # NoThread
      <3>1. current[v] \in Fibers
        BY <1>1, <2>2 DEF Typed
      <3>2. c = <<current[v]>>
        BY <2>2
      <3> QED
        BY <2>2, <3>1, <3>2, OneThread
    <2> QED
      BY <2>1, <2>2
  <1>4. /\ q.rdyHd \in Seq(Fibers) /\ q.rdyTl \in Seq(Fibers)
        /\ q.sndHd \in Seq(Fibers) /\ q.sndTl \in Seq(Fibers)
    BY <1>1, QueueFields DEF Typed
  <1>5. p \in Seq(Fibers)
    BY <1>1, SeqMonotonic DEF Typed, Fibers
  <1>6. s \in Seq(Fibers)
    <2>1. s \in Seq(Threads)
      BY <1>1, NamesType DEF Typed
    <2> QED
      BY <2>1, SeqMonotonic DEF Fibers
  <1>7. /\ EachOnce(q) /\ IsInjective(p) /\ IsInjective(s)
        /\ Items(q) \intersect ToSet(p) = {}
        /\ Items(q) \intersect ToSet(s) = {}
        /\ ToSet(p) \intersect ToSet(s) = {}
        /\ ToSet(c) \intersect (Items(q) \union ToSet(p) \union ToSet(s)) = {}
    BY <1>1, <1>3 DEF AllOnce
  <1>8. Has(v) = Items(q) \union ToSet(p) \union ToSet(s) \union ToSet(c)
    BY <1>1, <1>3 DEF All
  <1> HIDE DEF q, p, s, c
  <1>9. h2 \in Seq(Fibers) /\ ToSet(h2) = ToSet(q.rdyHd) \union ToSet(q.rdyTl) /\ IsInjective(h2)
    BY <1>4, <1>7, ConcatList DEF EachOnce
  <1> HIDE DEF h2
  <1>10. h3 \in Seq(Fibers) /\ ToSet(h3) = ToSet(h2) \union ToSet(q.sndHd) /\ IsInjective(h3)
    BY <1>4, <1>7, <1>9, ConcatList DEF EachOnce
  <1> HIDE DEF h3
  <1>11. h4 \in Seq(Fibers) /\ ToSet(h4) = Items(q) /\ IsInjective(h4)
    BY <1>4, <1>7, <1>9, <1>10, ConcatList DEF EachOnce, Items
  <1> HIDE DEF h4
  <1>12. h5 \in Seq(Fibers) /\ ToSet(h5) = Items(q) \union ToSet(p) /\ IsInjective(h5)
    BY <1>5, <1>7, <1>11, ConcatList
  <1> HIDE DEF h5
  <1>13. h6 \in Seq(Fibers) /\ ToSet(h6) = Items(q) \union ToSet(p) \union ToSet(s)
         /\ IsInjective(h6)
    BY <1>6, <1>7, <1>12, ConcatList
  <1> HIDE DEF h6
  <1>14. ToSet(h7) = ToSet(h6) \union ToSet(c) /\ IsInjective(h7)
    BY <1>3, <1>7, <1>13, ConcatList
  <1> QED
    BY <1>2, <1>8, <1>13, <1>14

(* No handler, poll or wake-up loses a thread or leaves it in two lists,   *)
(* from where two vprocs would run the same continuation.                  *)
THEOREM HomesCorrect == Spec => []OneHome
  <1>1. ASSUME Inv
        PROVE  OneHome
    <2>1. \A v \in VProcs : IsInjective(Held(v)) /\ ToSet(Held(v)) = Has(v)
      BY <1>1, HeldOnce
    <2>2. \A u, v \in VProcs : u # v => ToSet(Held(u)) \intersect ToSet(Held(v)) = {}
      BY <1>1, <2>1 DEF Inv, Homes
    <2>3. \A v \in VProcs : ToSet(Held(v)) \subseteq Fibers \ parked
      BY <1>1, <2>1, StateOf
    <2>4. \A f \in Fibers \ parked : \E v \in VProcs : f \in ToSet(Held(v))
      BY <1>1, <2>1 DEF Inv, Homes
    <2>5. Fibers \ parked = UNION {ToSet(Held(v)) : v \in VProcs}
      BY <2>3, <2>4
    <2> QED
      BY <2>1, <2>2, <2>5 DEF OneHome
  <1> QED
    BY <1>1, AlwaysInv, PTL

(* A vproc neither waits nor sleeps in the OS while one of its queues has  *)
(* a thread: what dispatch saw empty stays empty until waitForWork polls.  *)
THEOREM NeverIdle == Spec => []NeverIdleWithWork
  <1>1. Inv => NeverIdleWithWork
    BY DEF Inv
  <1> QED
    BY <1>1, AlwaysInv, PTL
=============================================================================
