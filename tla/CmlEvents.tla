----------------------------- MODULE CmlEvents -----------------------------
(***************************************************************************)
(* Channels, condition variables and events of CML: alt-prim-chan.pml,     *)
(* prim-event.pml and cvar.pml.                                            *)
(*                                                                         *)
(* A thread sends, receives, waits, signals, or synchronises on a choice   *)
(* of sending, receiving and waiting.  An operation that finds no partner  *)
(* leaves an item on the queue of each channel it could use; the items of  *)
(* one operation share a status flag, and who sets it to SYNCHED by a CAS  *)
(* may resume the thread.  A synchronisation that meets a partner on a     *)
(* queue first sets its own flag to CLAIMED, so that nobody takes it away. *)
(*                                                                         *)
(* The flag of a synchronisation is allocated on the local heap.  With the *)
(* first item that points to it, it is copied to the global heap, and the  *)
(* thread goes on using the old object until a collection forwards the     *)
(* pointer: local[t] is the old object, state the copies.                  *)
(*                                                                         *)
(* A step is one CAS on a flag with the queue operations done before it    *)
(* under the channel's lock.  Each thread may have a vproc to itself:      *)
(* signals are masked during an operation, so that sharing a vproc only    *)
(* takes interleavings away.                                               *)
(***************************************************************************)
EXTENDS SequencesExt, Lists

CONSTANTS
  Threads,   \* the CML threads
  Chans,     \* the channels
  Ops,       \* the operations the threads may perform
  MaxOps,    \* bound: the operations that are begun
  MaxSyncs,  \* bound: the synchronisations among them
  None       \* no thread, no item

Ids == 1..MaxOps

(* A base event; the plain operations are treated as events of their own.  *)
Event(dir, c) == [dir |-> dir, ch |-> c]
WaitEvent == Event("wait", None)
ChanEvents == [dir : {"send", "recv"}, ch : Chans]

Plain(e) == [kind |-> "plain", evts |-> <<e>>]
Sync(evts) == [kind |-> "sync", evts |-> evts]
Signal == [kind |-> "signal", evts |-> <<>>]

ASSUME CmlEventsAssumption ==
  /\ MaxOps \in Nat /\ MaxSyncs \in Nat
  /\ None \notin Threads /\ None \notin Ids
  /\ \A o \in Ops :
       \/ o = Signal
       \/ \E e \in ChanEvents \union {WaitEvent} : o = Plain(e)
       \/ o.kind = "sync" /\ o.evts \in Seq(ChanEvents \union {WaitEvent}) /\ o.evts # <<>>

VARIABLES
  pc,       \* where a thread is
  started,  \* how many operations have begun; they are numbered in that order
  what,     \* the operations
  op,       \* the last operation of a thread, 0 for none
  todo,     \* the base events to poll, to try or to block on yet
  enabled,  \* the events found enabled, the last one polled first
  queue,    \* sendq and recvq of each channel: the operations with an item there
  lock,     \* the holder of a channel's lock between two steps
  item,     \* the item a thread has taken from a queue and not matched yet
  state,    \* the flag that an operation's items point to
  local,    \* the flag object a synchronising thread has allocated
  promoted, \* the threads whose flag has been copied
  forwarded,\* those whose pointer denotes the copy
  cvState,  \* CV_STATE
  waiting,  \* CV_WAITING, the operations with a waiter there
  toWake,   \* the waiters a signalling thread has yet to wake
  resumed,  \* how often an operation's continuation was thrown or enqueued, up to twice
  got       \* the sends whose messages a receive got; None for its vproc

chans == <<queue, lock, item>>
flagVars == <<state, local, promoted, forwarded>>
cvar == <<cvState, waiting, toWake>>
vars == <<pc, started, what, op, todo, enabled, chans, flagVars, cvar, resumed, got>>

Opposite(dir) == IF dir = "send" THEN "recv" ELSE "send"
GoTo(t, where) == pc' = [pc EXCEPT ![t] = where]

Init ==
  /\ pc = [t \in Threads |-> "run"]
  /\ started = 0
  /\ what = [id \in Ids |-> Signal]
  /\ op = [t \in Threads |-> 0]
  /\ todo = [t \in Threads |-> <<>>]
  /\ enabled = [t \in Threads |-> <<>>]
  /\ queue = [dir \in {"send", "recv"} |-> [c \in Chans |-> <<>>]]
  /\ lock = [c \in Chans |-> None]
  /\ item = [t \in Threads |-> None]
  /\ state = [id \in Ids |-> "WAITING"]
  /\ local = [t \in Threads |-> "WAITING"]
  /\ promoted = {}
  /\ forwarded = {}
  /\ cvState = FALSE
  /\ waiting = <<>>
  /\ toWake = [t \in Threads |-> <<>>]
  /\ resumed = [id \in Ids |-> 0]
  /\ got = [id \in Ids |-> {}]

----------------------------------------------------------------------------
(* Beginning an operation. *)

Ready(t) == pc[t] = "run" \/ (pc[t] = "stopped" /\ resumed[op[t]] > 0)

Begin(t, o) ==
  /\ Ready(t)
  /\ started < MaxOps
  /\ o.kind = "sync" => Cardinality({id \in 1..started : what[id].kind = "sync"}) < MaxSyncs
  /\ started' = started + 1
  /\ op' = [op EXCEPT ![t] = started + 1]
  /\ what' = [what EXCEPT ![started + 1] = o]
  /\ todo' = [todo EXCEPT ![t] = o.evts]
  /\ local' = [local EXCEPT ![t] = "WAITING"]
  /\ promoted' = promoted \ {t}
  /\ forwarded' = forwarded \ {t}
  /\ UNCHANGED <<enabled, chans, state, resumed, got>>

BeginChan(t, o) ==
  /\ o.kind # "signal"
  /\ Begin(t, o)
  /\ GoTo(t, IF o.kind = "plain" THEN "try" ELSE "poll")
  /\ UNCHANGED cvar

(* Faulty variant: the last waiter is taken for the end of the list. *)
LeaveOne(waiters) == Len(waiters) > 1

MoreToWake(waiters) == waiters # <<>>

(* @cvar-signal up to SPIN_UNLOCK and @atomic-end. *)
BeginSignal(t) ==
  /\ Signal \in Ops
  /\ Begin(t, Signal)
  /\ cvState' = TRUE
  /\ waiting' = <<>>
  /\ toWake' = [toWake EXCEPT ![t] = waiting]
  /\ GoTo(t, IF MoreToWake(waiting) THEN "wake" ELSE "run")

----------------------------------------------------------------------------
(* The queues of a channel.  A take is the item found, or None, and what   *)
(* is left of the queue: items that were SYNCHED meanwhile are dropped.    *)

(* Faulty variant: a stale item at the head hides the others. *)
TakeHead(q, skip) ==
  IF q = <<>> \/ Head(q) \in skip \/ state[Head(q)] = "SYNCHED"
  THEN [item |-> None, rest |-> q]
  ELSE [item |-> Head(q), rest |-> Tail(q)]

(* @chan-dequeue-... with the DEREF of tryLp, repeated; the -match variants *)
(* leave the items with a given flag where they are.                       *)
Take(q, skip) ==
  LET usable == {i \in DOMAIN q : q[i] \notin skip /\ state[q[i]] # "SYNCHED"}
      first == IF usable = {} THEN Len(q) + 1 ELSE Min(usable)
  IN  [item |-> IF usable = {} THEN None ELSE q[first],
       rest |-> SelectAt(q, {i \in DOMAIN q : i > first \/ (i < first /\ q[i] \in skip)})]

SetQueue(dir, c, q) == queue' = [queue EXCEPT ![dir][c] = q]

(* Thread t meets the operation j.  Its own operation goes on, and j's     *)
(* continuation is enqueued on its vproc or thrown to.                     *)
Resume(ids) ==
  resumed' = [id \in Ids |-> IF resumed[id] + ids[id] < 2 THEN resumed[id] + ids[id] ELSE 2]

Meet(t, j, dir, message) ==
  /\ Resume([id \in Ids |-> (IF id = op[t] THEN 1 ELSE 0) + (IF id = j THEN 1 ELSE 0)])
  /\ state' = [state EXCEPT ![j] = "SYNCHED"]
  /\ got' = IF dir = "recv" THEN [got EXCEPT ![op[t]] = @ \union {message}]
            ELSE [got EXCEPT ![j] = @ \union {message}]

Finish(t, where) ==
  /\ GoTo(t, where)
  /\ todo' = [todo EXCEPT ![t] = <<>>]
  /\ enabled' = [enabled EXCEPT ![t] = <<>>]
  /\ item' = [item EXCEPT ![t] = None]

(* An operation keeps the lock from a try to the next; one that an earlier *)
(* operation of the thread never released is not to be had.                *)
HasLock(t, c) == lock[c] \in {None, op[t]}

(* Faulty variant: the lock is released before the match. *)
LockNot(t, c) == lock' = [lock EXCEPT ![c] = None]

Lock(t, c) == lock' = [lock EXCEPT ![c] = op[t]]
Unlock(c) == lock' = [lock EXCEPT ![c] = None]

(* Faulty variant: the two directions are mixed up. *)
OwnMessage(t, j, dir) == IF dir = "send" THEN j ELSE op[t]

(* The message of a send: the operation stands for it. *)
Message(t, j, dir) == IF dir = "send" THEN op[t] ELSE j

----------------------------------------------------------------------------
(* @chan-recv, @chan-send, and the doFn of their events: tryLp, matchLp.   *)

(* doEvt: no enabled event could be taken, so blockThd goes on. *)
DoEvents(t, evts) ==
  /\ todo' = [todo EXCEPT ![t] = IF evts = <<>> THEN what[op[t]].evts ELSE evts]
  /\ GoTo(t, IF evts = <<>> THEN "block" ELSE "try")
  /\ enabled' = [enabled EXCEPT ![t] = <<>>]

(* Faulty variant: a matched doFn returns instead of throwing. *)
GoOn(t) == DoEvents(t, Tail(todo[t])) /\ item' = [item EXCEPT ![t] = None]

(* The continuation of the operation is thrown to. *)
Matched(t) == Finish(t, "run")

Trying(t, e) ==
  /\ pc[t] = "try"
  /\ e = Head(todo[t]) /\ e # WaitEvent
  /\ HasLock(t, e.ch)

MeetNow(t, e, j) ==
  /\ state[j] = "WAITING"
  /\ Meet(t, j, e.dir, Message(t, j, e.dir))
  /\ Unlock(e.ch)
  /\ Matched(t)

Try(t, e) ==
  LET taken == Take(queue[Opposite(e.dir)][e.ch], {})
      j == taken.item
  IN  /\ Trying(t, e)
      /\ j # None
      /\ SetQueue(Opposite(e.dir), e.ch, taken.rest)
      /\ \/ MeetNow(t, e, j)
         \/ /\ state[j] = "CLAIMED"
            /\ Lock(t, e.ch)
            /\ item' = [item EXCEPT ![t] = j]
            /\ GoTo(t, "spin")
            /\ UNCHANGED <<todo, enabled, state, resumed, got>>
      /\ UNCHANGED <<started, what, op, local, promoted, forwarded, cvar>>

(* matchLp again, with the lock held.                                      *)
Spin(t, e) ==
  /\ pc[t] = "spin"
  /\ e = Head(todo[t])
  /\ \/ MeetNow(t, e, item[t])
     \/ /\ state[item[t]] = "SYNCHED"
        /\ item' = [item EXCEPT ![t] = None]
        /\ GoTo(t, "try")
        /\ UNCHANGED <<todo, enabled, lock, state, resumed, got>>
  /\ UNCHANGED <<started, what, op, queue, local, promoted, forwarded, cvar>>

(* Nobody to meet.  A plain operation leaves its item and stops. *)
TryEmpty(t, e) ==
  LET taken == Take(queue[Opposite(e.dir)][e.ch], {})
  IN  /\ Trying(t, e)
      /\ taken.item = None
      /\ IF what[op[t]].kind = "plain"
         THEN /\ queue' = [queue EXCEPT ![Opposite(e.dir)][e.ch] = taken.rest,
                                        ![e.dir][e.ch] = Append(@, op[t])]
              /\ Finish(t, "stopped")
         ELSE /\ SetQueue(Opposite(e.dir), e.ch, taken.rest)
              /\ DoEvents(t, Tail(todo[t]))
              /\ UNCHANGED item
      /\ Unlock(e.ch)
      /\ UNCHANGED <<started, what, op, flagVars, cvar, resumed, got>>

----------------------------------------------------------------------------
(* PrimEvent.@sync: poll every base event, try the enabled ones, block.    *)

IsEnabled(e) == IF e = WaitEvent THEN cvState ELSE queue[Opposite(e.dir)][e.ch] # <<>>

Poll(t) ==
  LET found == IF IsEnabled(Head(todo[t])) THEN <<Head(todo[t])>> \o enabled[t] ELSE enabled[t]
  IN  /\ pc[t] = "poll"
      /\ IF Len(todo[t]) = 1
         THEN DoEvents(t, found)
         ELSE /\ enabled' = [enabled EXCEPT ![t] = found]
              /\ todo' = [todo EXCEPT ![t] = Tail(@)]
              /\ UNCHANGED pc
      /\ UNCHANGED <<started, what, op, chans, flagVars, cvar, resumed, got>>

(* A heap check between two steps may find the nursery full.  Only t uses  *)
(* the pointer, so this need not be a step of its own.                     *)
MayCollect(t) == forwarded' \in {forwarded, forwarded \union ({t} \intersect promoted')}

(* The blkFn of a channel event.  An item with the thread's own flag is    *)
(* known by its pointer.                                                   *)
OwnItems(t) == {op[t]} \intersect (IF t \in forwarded THEN Ids ELSE {})

Blocking(t, e) ==
  /\ pc[t] = "block"
  /\ e = Head(todo[t])

BlockEmpty(t, e) ==
  LET taken == Take(queue[Opposite(e.dir)][e.ch], OwnItems(t))
  IN  /\ Blocking(t, e) /\ e # WaitEvent
      /\ HasLock(t, e.ch)
      /\ taken.item = None
      /\ queue' = [queue EXCEPT ![Opposite(e.dir)][e.ch] = taken.rest, ![e.dir][e.ch] = Append(@, op[t])]
      /\ state' = [state EXCEPT ![op[t]] = IF t \in promoted THEN @ ELSE local[t]]
      /\ promoted' = promoted \union {t}
      /\ Unlock(e.ch)
      /\ IF Len(todo[t]) = 1
         THEN Finish(t, "stopped") /\ UNCHANGED forwarded
         ELSE /\ todo' = [todo EXCEPT ![t] = Tail(@)]
              /\ MayCollect(t)
              /\ UNCHANGED <<pc, enabled, item>>
      /\ UNCHANGED <<started, what, op, local, cvar, resumed, got>>

BlockTake(t, e) ==
  LET taken == Take(queue[Opposite(e.dir)][e.ch], OwnItems(t))
  IN  /\ Blocking(t, e) /\ e # WaitEvent
      /\ HasLock(t, e.ch)
      /\ taken.item # None
      /\ SetQueue(Opposite(e.dir), e.ch, taken.rest)
      /\ Lock(t, e.ch)
      /\ item' = [item EXCEPT ![t] = taken.item]
      /\ GoTo(t, "claim")
      /\ UNCHANGED <<started, what, op, todo, enabled, state, local, promoted, cvar, resumed, got>>
      /\ MayCollect(t)

(* CAS(&0(flg), WAITING, CLAIMED) on the thread's own flag. *)
MyStatus(t) == IF t \in forwarded THEN state[op[t]] ELSE local[t]

Claim(t) ==
  /\ pc[t] = "claim"
  /\ MyStatus(t) = "WAITING"
  /\ IF t \in forwarded
     THEN state' = [state EXCEPT ![op[t]] = "CLAIMED"] /\ UNCHANGED local
     ELSE local' = [local EXCEPT ![t] = "CLAIMED"] /\ UNCHANGED state
  /\ GoTo(t, "match")
  /\ UNCHANGED <<started, what, op, todo, enabled, chans, promoted, forwarded, cvar, resumed, got>>

(* Faulty variant: the item goes to the end of the queue. *)
PushBack(q, id) == Append(q, id)

(* Faulty variant: the item is dropped. *)
PushNothing(q, id) == q

PushItem(q, id) == <<id>> \o q

(* The thread's own flag is not WAITING: the item is put back. *)
ClaimFails(t) ==
  LET e == Head(todo[t])
      dir == Opposite(e.dir)
  IN  /\ pc[t] = "claim"
      /\ MyStatus(t) # "WAITING"
      /\ SetQueue(dir, e.ch, PushItem(queue[dir][e.ch], item[t]))
      /\ Unlock(e.ch)
      /\ Finish(t, "stopped")
      /\ UNCHANGED <<started, what, op, flagVars, cvar, resumed, got>>

(* CAS(&0(state), WAITING, SYNCHED) on the partner's flag.  The blkFn of a *)
(* receive passes field 2 of the item on, the sender's vproc; that of a     *)
(* send does not release the lock.                                         *)
Match(t) ==
  LET e == Head(todo[t])
      j == item[t]
  IN  /\ pc[t] = "match"
      /\ state[j] = "WAITING"
      /\ Meet(t, j, e.dir, IF e.dir = "recv" THEN None ELSE op[t])
      /\ IF e.dir = "recv" THEN Unlock(e.ch) ELSE UNCHANGED lock
      /\ Finish(t, "run")
      /\ UNCHANGED <<started, what, op, queue, local, promoted, forwarded, cvar>>

MatchFails(t) ==
  /\ pc[t] = "match"
  /\ state[item[t]] # "WAITING"
  /\ GoTo(t, IF state[item[t]] = "CLAIMED" THEN "retry" ELSE "next")
  /\ UNCHANGED <<started, what, op, todo, enabled, chans, flagVars, cvar, resumed, got>>

(* "roll back": the store goes to the partner's flag. *)
RollBack(t) ==
  /\ pc[t] \in {"retry", "next"}
  /\ state' = [state EXCEPT ![item[t]] = "WAITING"]
  /\ \/ pc[t] = "retry" /\ GoTo(t, "claim") /\ UNCHANGED item
     \/ pc[t] = "next" /\ GoTo(t, "block") /\ item' = [item EXCEPT ![t] = None]
  /\ UNCHANGED <<started, what, op, todo, enabled, queue, lock, local, promoted, forwarded, cvar,
                 resumed, got>>

----------------------------------------------------------------------------
(* Condition variables.  Each critical section under CV_LOCK is a step.    *)

(* @cvar-wait, and the doFn of its event. *)
TryWait(t) ==
  /\ pc[t] = "try" /\ Head(todo[t]) = WaitEvent
  /\ IF cvState
     THEN /\ Finish(t, "run")
          /\ Resume([id \in Ids |-> IF id = op[t] THEN 1 ELSE 0])
          /\ UNCHANGED waiting
     ELSE /\ Finish(t, "stopped")
          /\ waiting' = <<op[t]>> \o waiting
          /\ UNCHANGED resumed
  /\ UNCHANGED <<started, what, op, queue, lock, flagVars, cvState, toWake, got>>

(* The blkFn of its event stops the thread itself, with a flag of its own. *)
BlockWait(t) ==
  /\ Blocking(t, WaitEvent)
  /\ IF cvState
     THEN /\ Finish(t, "run")
          /\ Resume([id \in Ids |-> IF id = op[t] THEN 1 ELSE 0])
          /\ UNCHANGED waiting
     ELSE /\ Finish(t, "stopped")
          /\ waiting' = <<op[t]>> \o waiting
          /\ UNCHANGED resumed
  /\ UNCHANGED <<started, what, op, queue, lock, flagVars, cvState, toWake, got>>

(* signalWaiting: nobody else knows a waiter's flag, which is WAITING.     *)
WakeWaiter(t) ==
  /\ pc[t] = "wake"
  /\ Resume([id \in Ids |-> IF id = Head(toWake[t]) THEN 1 ELSE 0])
  /\ IF MoreToWake(Tail(toWake[t]))
     THEN toWake' = [toWake EXCEPT ![t] = Tail(@)] /\ UNCHANGED pc
     ELSE toWake' = [toWake EXCEPT ![t] = <<>>] /\ GoTo(t, "run")
  /\ UNCHANGED <<started, what, op, todo, enabled, chans, flagVars, cvState, waiting, got>>

----------------------------------------------------------------------------
Next ==
  \E t \in Threads :
    \/ \E o \in Ops : BeginChan(t, o)
    \/ BeginSignal(t)
    \/ \E e \in ChanEvents :
         \/ Try(t, e) \/ Spin(t, e) \/ TryEmpty(t, e)
         \/ BlockEmpty(t, e) \/ BlockTake(t, e)
    \/ Poll(t) \/ Claim(t) \/ ClaimFails(t) \/ Match(t) \/ MatchFails(t) \/ RollBack(t)
    \/ TryWait(t) \/ BlockWait(t) \/ WakeWaiter(t)

Spec == Init /\ [][Next]_vars

----------------------------------------------------------------------------
(* Properties.                                                             *)

Statuses == {"WAITING", "CLAIMED", "SYNCHED"}
Places == {"run", "try", "spin", "poll", "block", "claim", "match", "retry", "next",
           "wake", "stopped"}

(* Every variable has the type the code gives it, and a channel is locked  *)
(* whenever a thread has an item of it in its hands.                       *)
TypeOK ==
  /\ pc \in [Threads -> Places]
  /\ started \in 0..MaxOps
  /\ what \in [Ids -> Ops \union {Signal}] /\ op \in [Threads -> 0..started]
  /\ \A dir \in {"send", "recv"}, c \in Chans : queue[dir][c] \in Seq(Ids)
  /\ lock \in [Chans -> Ids \union {None}]
  /\ item \in [Threads -> Ids \union {None}]
  /\ state \in [Ids -> Statuses] /\ local \in [Threads -> Statuses]
  /\ forwarded \subseteq promoted /\ promoted \subseteq Threads
  /\ resumed \in [Ids -> 0..2]
  /\ got \in [Ids -> SUBSET (Ids \union {None})]
  /\ \A t \in Threads : item[t] # None => lock[Head(todo[t]).ch] = op[t]

(* A plain operation or a synchronisation on one base event has only one   *)
(* continuation to resume.                                                 *)
Simple(id) == Len(what[id].evts) <= 1
PlainOp(id, dir, c) == what[id] = Plain(Event(dir, c))

(* @chan-recv, @chan-send and @cvar-wait return once, and so does @sync on *)
(* a single base event, whoever takes its item and whatever choices are    *)
(* made on the other end.                                                  *)
OnceUnlessChoice == \A id \in Ids : Simple(id) => resumed[id] <= 1

(* @sync returns once.  "check to make sure that some other thread has not *)
(* already claimed the event" (alt-prim-chan.pml:425).                     *)
ResumedOnce == \A id \in Ids : resumed[id] <= 1

(* No send and receive wait for each other on the two queues of a channel: *)
(* whoever comes second finds the first behind any number of stale items.  *)
NoMissedMatch ==
  \A c \in Chans :
    \A s \in ToSet(queue["send"][c]), r \in ToSet(queue["recv"][c]) :
      ~ (Simple(s) /\ Simple(r) /\ state[s] = "WAITING" /\ state[r] = "WAITING")

(* An item that was taken by a claim that failed is back at the head: the  *)
(* plain operations on a queue are served in the order they came.          *)
Line(dir, c) ==
  LET held == {t \in Threads : pc[t] \in {"claim", "match", "retry"}
                                 /\ Head(todo[t]) = Event(Opposite(dir), c)}
  IN  SelectSeq(SetToSeq({item[t] : t \in held}) \o queue[dir][c], Simple)

Fifo ==
  [][\A dir \in {"send", "recv"}, c \in Chans :
       LET old == Line(dir, c)
           new == Line(dir, c)'
       IN  SelectSeq(old, LAMBDA id : id \in ToSet(new))
             = SelectSeq(new, LAMBDA id : id \in ToSet(old))]_vars

(* A plain receive returns the message of one send on its channel, which   *)
(* returns too, and no two receives return the message of a plain send.    *)
MessageIntegrity ==
  \A c \in Chans, r \in Ids :
    PlainOp(r, "recv", c) =>
      /\ Cardinality(got[r]) = resumed[r]
      /\ \A s \in got[r] :
           /\ s \in Ids /\ resumed[s] > 0
           /\ Event("send", c) \in ToSet(what[s].evts)
           /\ Simple(s) => \A o \in Ids \ {r} : s \notin got[o]

(* A thread that stopped in a plain operation and was not resumed can      *)
(* still be: its item is on a queue or in somebody's hands, or it is in a  *)
(* list of waiters that a signal has taken or will take.                   *)
WaitersKept ==
  \A t \in Threads :
    pc[t] = "stopped" /\ what[op[t]].kind = "plain" /\ resumed[op[t]] = 0 =>
      LET e == Head(what[op[t]].evts)
      IN  IF e = WaitEvent
          THEN op[t] \in ToSet(waiting) \union UNION {ToSet(toWake[u]) : u \in Threads}
          ELSE /\ state[op[t]] = "WAITING"
               /\ \/ op[t] \in ToSet(queue[e.dir][e.ch])
                  \/ \E u \in Threads : item[u] = op[t]
=============================================================================
