----------------------------- MODULE VProcQueue -----------------------------
(***************************************************************************)
(* The thread queues of one vproc (basis/runtime/vproc-queue.pml).         *)
(*                                                                         *)
(* A vproc has a primary and a secondary queue, each a functional FIFO of  *)
(* two linked lists: threads are consed onto the tail list, and taken off  *)
(* the head list, which the reversed tail list replaces when it runs out.  *)
(* Only the vproc itself touches its queues, with signals masked, so each  *)
(* operation is a function from queues to queues.                          *)
(*                                                                         *)
(* A queue item is a fiber with its fiber-local storage; the two always    *)
(* travel together and are one thread name here.                           *)
(***************************************************************************)
EXTENDS SequencesExt

CONSTANT NoThread   \* what a dequeue of an empty queue returns (Option.NONE)

EmptyQueue == [rdyHd |-> <<>>, rdyTl |-> <<>>, sndHd |-> <<>>, sndTl |-> <<>>]

QueueOf(T) == [rdyHd : Seq(T), rdyTl : Seq(T), sndHd : Seq(T), sndTl : Seq(T)]

(* The two queues as FIFO sequences, first thread to run first. *)
Primary(q) == q.rdyHd \o Reverse(q.rdyTl)
Secondary(q) == q.sndHd \o Reverse(q.sndTl)

PrimaryEmpty(q) == q.rdyTl = <<>> /\ q.rdyHd = <<>>
SecondaryEmpty(q) == q.sndTl = <<>> /\ q.sndHd = <<>>

Enqueue(q, t) == [q EXCEPT !.rdyTl = <<t>> \o @]
SecondaryEnqueue(q, t) == [q EXCEPT !.sndTl = <<t>> \o @]

(* Faulty variant: the tail list is not cleared when it becomes the head list. *)
PrimaryDequeueUncleared(q) ==
  IF q.rdyHd # <<>>
    THEN [item |-> Head(q.rdyHd), rest |-> [q EXCEPT !.rdyHd = Tail(@)]]
  ELSE IF q.rdyTl # <<>>
    THEN [item |-> Last(q.rdyTl),
          rest |-> [q EXCEPT !.rdyHd = Tail(Reverse(q.rdyTl))]]
  ELSE [item |-> NoThread, rest |-> q]

PrimaryDequeue(q) ==
  IF q.rdyHd # <<>>
    THEN [item |-> Head(q.rdyHd), rest |-> [q EXCEPT !.rdyHd = Tail(@)]]
  ELSE IF q.rdyTl # <<>>
    THEN [item |-> Head(Reverse(q.rdyTl)),
          rest |-> [q EXCEPT !.rdyTl = <<>>, !.rdyHd = Tail(Reverse(q.rdyTl))]]
  ELSE [item |-> NoThread, rest |-> q]

SecondaryDequeue(q) ==
  IF q.sndHd # <<>>
    THEN [item |-> Head(q.sndHd), rest |-> [q EXCEPT !.sndHd = Tail(@)]]
  ELSE IF q.sndTl # <<>>
    THEN [item |-> Head(Reverse(q.sndTl)),
          rest |-> [q EXCEPT !.sndTl = <<>>, !.sndHd = Tail(Reverse(q.sndTl))]]
  ELSE [item |-> NoThread, rest |-> q]

(* Faulty variant: the secondary queue is not looked at. *)
DequeuePrimaryOnly(q) == PrimaryDequeue(q)

(* Faulty variant: the secondary queue is served first. *)
DequeueSecondaryFirst(q) ==
  LET secondary == SecondaryDequeue(q)
  IN  IF secondary.item # NoThread THEN secondary ELSE PrimaryDequeue(q)

(* The secondary queue is served when the primary one is empty. *)
Dequeue(q) ==
  LET primary == PrimaryDequeue(q)
  IN  IF primary.item # NoThread THEN primary ELSE SecondaryDequeue(q)

(* Threads enqueued one after the other. *)
EnqueueAll(q, ts) == [q EXCEPT !.rdyTl = Reverse(ts) \o @]

(* @poll-landing-pad-in-atomic puts what was on the pad before the primary queue. *)
Deliver(q, items) == [q EXCEPT !.rdyHd = items \o @]
=============================================================================
