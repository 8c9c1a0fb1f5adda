-------------------------- MODULE CmlEventsProofs --------------------------
(***************************************************************************)
(* What holds of CmlEvents for any threads, channels and operations.       *)
(*                                                                         *)
(* An operation on one base event makes one offer: its item, on a queue or *)
(* in a hand, or its waiter.  Whoever takes the offer resumes it, and the  *)
(* thread that is still at the operation has not made it yet.              *)
(***************************************************************************)
EXTENDS CmlEvents, ListProofs, WellFoundedInduction

Dirs == {"send", "recv"}
Events == ChanEvents \union {WaitEvent}

(* The places of a thread that is at an operation on events, that blocks on *)
(* them, and that has taken an item.                                       *)
Holding == {"spin", "claim", "match", "retry", "next"}
Synching == {"poll", "block", "claim", "match", "retry", "next"}
Working == {"try", "spin"} \union Synching

Typed ==
  /\ pc \in [Threads -> Places]
  /\ started \in 0..MaxOps
  /\ what \in [Ids -> Ops \union {Signal}]
  /\ op \in [Threads -> 0..started]
  /\ todo \in [Threads -> Seq(Events)] /\ enabled \in [Threads -> Seq(Events)]
  /\ queue \in [Dirs -> [Chans -> Seq(Ids)]]
  /\ lock \in [Chans -> Ids \union {None}]
  /\ item \in [Threads -> Ids \union {None}]
  /\ state \in [Ids -> Statuses]
  /\ local \in [Threads -> {"WAITING", "CLAIMED"}]
  /\ promoted \subseteq Threads /\ forwarded \subseteq promoted
  /\ cvState \in BOOLEAN
  /\ waiting \in Seq(Ids) /\ toWake \in [Threads -> Seq(Ids)]
  /\ resumed \in [Ids -> 0..2]
  /\ got \in [Ids -> SUBSET (Ids \union {None})]

EventsOf(id) == ToSet(what[id].evts)

(* What a thread does fits its operation, and it holds the lock of the     *)
(* channel it has an item of; two threads are at different operations.     *)
AtWork(t) ==
  /\ op[t] \in Ids
  /\ what[op[t]].kind # "signal"
  /\ todo[t] # <<>>
  /\ ToSet(todo[t]) \union ToSet(enabled[t]) \subseteq EventsOf(op[t])

Controlled(t) ==
  /\ pc[t] \in Working => AtWork(t)
  /\ pc[t] \notin Working => enabled[t] = <<>>
  /\ pc[t] = "stopped" => op[t] \in Ids
  /\ pc[t] \in Synching => what[op[t]].kind = "sync"
  /\ pc[t] \in Synching \ {"poll"} /\ Simple(op[t]) => Len(todo[t]) <= 1
  /\ item[t] # None <=> pc[t] \in Holding
  /\ item[t] # None => Head(todo[t]) \in ChanEvents /\ lock[Head(todo[t]).ch] = op[t]
  /\ toWake[t] # <<>> <=> pc[t] = "wake"

Control ==
  /\ \A t \in Threads : Controlled(t)
  /\ \A t, u \in Threads : t # u /\ op[t] = op[u] => op[t] = 0

(* The items on queues q, of which one of an operation with one event is on *)
(* the queue for it and there once.                                        *)
Items(q) == {id \in Ids : \E dir \in Dirs, c \in Chans : id \in ToSet(q[dir][c])}

OffersOf(s, e) ==
  /\ \A i \in DOMAIN s : s[i] <= started /\ e \in EventsOf(s[i])
  /\ \A i, j \in DOMAIN s : s[i] = s[j] /\ Simple(s[i]) => i = j

QueuesFit(q) ==
  /\ q \in [Dirs -> [Chans -> Seq(Ids)]]
  /\ \A dir \in Dirs, c \in Chans : OffersOf(q[dir][c], Event(dir, c))

(* The items on the queues and in the hands of threads. *)
Queued == Items(queue)
Held == {id \in Ids : \E t \in Threads : item[t] = id}
Offers == Queued \union Held

ItemEvent(t) == Event(Opposite(Head(todo[t]).dir), Head(todo[t]).ch)

HandsFit ==
  /\ \A t \in Threads :
       item[t] # None =>
         /\ item[t] <= started
         /\ ItemEvent(t) \in EventsOf(item[t])
         /\ Simple(item[t]) => item[t] \notin Queued
  /\ \A t, u \in Threads : t # u /\ item[t] = item[u] /\ item[t] # None => ~ Simple(item[t])

OffersOpen == \A id \in Offers : Simple(id) => resumed[id] = 0

(* A waiter is on one list, once. *)
AllWaiters == ToSet(waiting) \union UNION {ToSet(toWake[t]) : t \in Threads}

WaitersApart ==
  /\ IsInjective(waiting) /\ \A t \in Threads : IsInjective(toWake[t])
  /\ \A t \in Threads : ToSet(toWake[t]) \intersect ToSet(waiting) = {}
  /\ \A t, u \in Threads : t # u => ToSet(toWake[t]) \intersect ToSet(toWake[u]) = {}

WaitersOpen ==
  \A id \in AllWaiters :
    id <= started /\ WaitEvent \in EventsOf(id) /\ (Simple(id) => resumed[id] = 0)

(* Before it stops or returns an operation has made no offer. *)
NotOffered ==
  \A t \in Threads :
    pc[t] \in Working =>
      /\ op[t] \notin AllWaiters
      /\ Simple(op[t]) => op[t] \notin Offers /\ resumed[op[t]] = 0

NotStarted ==
  \A id \in Ids : id > started => resumed[id] = 0 /\ got[id] = {} /\ state[id] = "WAITING"

(* A flag that nobody matched is not SYNCHED, and that of a plain operation *)
(* is WAITING; an item is given up only if it is not a plain operation's.  *)
Flags ==
  /\ \A id \in Ids : Simple(id) /\ resumed[id] = 0 => state[id] # "SYNCHED"
  /\ \A id \in Ids : what[id].kind = "plain" /\ resumed[id] = 0 => state[id] = "WAITING"
  /\ \A t \in Threads : pc[t] \in {"retry", "next"} => what[item[t]].kind # "plain"

(* No two simple operations with offers fit, whatever their flags are. *)
Fit(s, r) ==
  \E c \in Chans : Event("send", c) \in EventsOf(s) /\ Event("recv", c) \in EventsOf(r)

NoMatchLeft == \A s, r \in Offers : Simple(s) /\ Simple(r) => ~ Fit(s, r)

(* What has been received was sent, by an operation that is resumed. *)
Messages ==
  /\ \A id \in Ids : \A m \in got[id] : m # None => resumed[m] > 0
  /\ \A s \in Ids : Simple(s) => \A r1, r2 \in Ids : s \in got[r1] /\ s \in got[r2] => r1 = r2
  /\ \A c \in Chans, r \in Ids :
       PlainOp(r, "recv", c) =>
         \/ resumed[r] = 0 /\ got[r] = {}
         \/ /\ resumed[r] = 1
            /\ \E s \in Ids : got[r] = {s} /\ Event("send", c) \in EventsOf(s)

(* A plain operation that stopped has its offer until it is resumed. *)
OfferKept ==
  \A t \in Threads :
    pc[t] = "stopped" /\ what[op[t]].kind = "plain" /\ resumed[op[t]] = 0 =>
      op[t] \in Offers \union AllWaiters

Inv ==
  /\ Typed /\ Control
  /\ QueuesFit(queue) /\ HandsFit /\ OffersOpen /\ WaitersApart /\ WaitersOpen /\ NotOffered /\ NotStarted
  /\ OnceUnlessChoice /\ Flags
  /\ NoMatchLeft /\ Messages /\ OfferKept

----------------------------------------------------------------------------
(* Events and operations. *)

LEMMA EventFacts ==
  /\ \A dir \in Dirs : Opposite(dir) \in Dirs /\ Opposite(dir) # dir
                       /\ Opposite(Opposite(dir)) = dir
  /\ \A dir \in Dirs, c \in Chans : Event(dir, c) \in ChanEvents /\ Event(dir, c) # WaitEvent
  /\ \A e \in ChanEvents : e.dir \in Dirs /\ e.ch \in Chans /\ e = Event(e.dir, e.ch)
  /\ \A d1, d2 \in Dirs, c1, c2 \in Chans : Event(d1, c1) = Event(d2, c2) => d1 = d2 /\ c1 = c2
  /\ WaitEvent \notin ChanEvents
  /\ ChanEvents \subseteq Events /\ WaitEvent \in Events
  <1>1. \A dir \in Dirs : Opposite(dir) \in Dirs /\ Opposite(dir) # dir
                       /\ Opposite(Opposite(dir)) = dir
    BY DEF Dirs, Opposite
  <1>2. \A d1, d2, c1, c2 : Event(d1, c1) = Event(d2, c2) => d1 = d2 /\ c1 = c2
    BY DEF Event
  <1>3. \A e \in ChanEvents : e.dir \in Dirs /\ e.ch \in Chans /\ e = Event(e.dir, e.ch)
    BY DEF ChanEvents, Event, Dirs
  <1>4. \A dir \in Dirs, c \in Chans : Event(dir, c) \in ChanEvents
    BY DEF ChanEvents, Event, Dirs
  <1>5. "wait" \notin Dirs
    BY DEF Dirs
  <1>6. \A dir \in Dirs, c \in Chans : Event(dir, c) # WaitEvent
    BY <1>2, <1>5 DEF WaitEvent
  <1>7. WaitEvent \notin ChanEvents
    BY <1>3, <1>6
  <1> QED
    BY <1>1, <1>2, <1>3, <1>4, <1>6, <1>7 DEF Events

LEMMA OperationFacts ==
  ASSUME NEW o \in Ops \union {Signal}
  PROVE  /\ o.evts \in Seq(Events)
         /\ o.kind = "plain" => \E e \in Events : o = Plain(e) /\ o.evts = <<e>>
         /\ o.kind # "signal" => o.evts # <<>>
         /\ o.kind \in {"plain", "sync", "signal"}
  <1>1. CASE o = Signal
    BY <1>1 DEF Signal
  <1>2. CASE \E e \in Events : o = Plain(e)
    <2>1. PICK e \in Events : o = Plain(e)
      BY <1>2
    <2>2. o.evts = <<e>> /\ o.kind = "plain"
      BY <2>1 DEF Plain
    <2> QED
      BY <2>1, <2>2
  <1>3. CASE o.kind = "sync" /\ o.evts \in Seq(Events) /\ o.evts # <<>>
    BY <1>3
  <1> QED
    BY <1>1, <1>2, <1>3, CmlEventsAssumption DEF Events

(* An operation with one event has only that one. *)
LEMMA SimpleHasOne ==
  ASSUME Typed, NEW id \in Ids, Simple(id), NEW e \in EventsOf(id), NEW d \in EventsOf(id)
  PROVE  d = e
  <1> DEFINE s == what[id].evts
  <1>1. s \in Seq(Events)
    BY OperationFacts DEF Typed
  <1>2. Len(s) <= 1 /\ e \in ToSet(s) /\ d \in ToSet(s)
    BY DEF Simple, EventsOf
  <1> HIDE DEF s
  <1>3. PICK i, j \in DOMAIN s : s[i] = e /\ s[j] = d
    BY <1>2 DEF ToSet
  <1>4. Len(s) \in Nat /\ DOMAIN s = 1..Len(s)
    BY <1>1, LenProperties
  <1>5. i = 1 /\ j = 1
    BY <1>2, <1>3, <1>4
  <1> QED
    BY <1>3, <1>5

LEMMA PlainIsSimple ==
  ASSUME Typed, NEW id \in Ids, what[id].kind = "plain"
  PROVE  /\ Simple(id)
         /\ \E e \in Events : what[id] = Plain(e) /\ EventsOf(id) = {e} /\ Head(what[id].evts) = e
  <1>1. PICK e \in Events : what[id] = Plain(e) /\ what[id].evts = <<e>>
    BY OperationFacts DEF Typed
  <1>2. Len(<<e>>) <= 1 /\ ToSet(<<e>>) = {e} /\ Head(<<e>>) = e
    BY OneThread
  <1> QED
    BY <1>1, <1>2 DEF Simple, EventsOf

----------------------------------------------------------------------------
(* Lists of items. *)

LEMMA FirstOf ==
  ASSUME NEW n \in Nat, NEW I \in SUBSET (1..n), I # {}
  PROVE  Min(I) \in I /\ \A i \in I : Min(I) <= i
  <1>1. \E k \in I : \A j \in I : k <= j
    <2>1. I \subseteq Nat
      OBVIOUS
    <2>2. PICK k \in I : \A j \in I : ~ (<<j, k>> \in OpToRel(<, Nat))
      BY <2>1, NatLessThanWellFounded, WFMin
    <2>3. \A j \in I : ~ (j < k)
      BY <2>1, <2>2 DEF OpToRel
    <2> QED
      BY <2>1, <2>3
  <1> QED
    BY <1>1 DEF Min

(* A take removes the first usable item, if there is one, and no other that *)
(* is not SYNCHED.                                                         *)
LEMMA Taken ==
  ASSUME NEW q \in Seq(Ids), NEW skip, NEW k, k = Take(q, skip)
  PROVE  /\ k.rest \in Seq(Ids)
         /\ ToSet(k.rest) \subseteq ToSet(q)
         /\ \A id \in ToSet(q) : id = k.item \/ id \in ToSet(k.rest) \/ state[id] = "SYNCHED"
         /\ \/ k.item = None /\ \A id \in ToSet(q) : id \in skip \/ state[id] = "SYNCHED"
            \/ k.item \in ToSet(q) /\ k.item # None /\ k.item \notin skip /\ state[k.item] # "SYNCHED"
         /\ \A e : OffersOf(q, e) =>
              OffersOf(k.rest, e) /\ (k.item # None /\ Simple(k.item) => k.item \notin ToSet(k.rest))
  <1> DEFINE n == Len(q)
             usable == {i \in DOMAIN q : q[i] \notin skip /\ state[q[i]] # "SYNCHED"}
             first == IF usable = {} THEN n + 1 ELSE Min(usable)
             I == {i \in DOMAIN q : i > first \/ (i < first /\ q[i] \in skip)}
             m == Cardinality(I)
             r == k.rest
  <1>1. n \in Nat /\ DOMAIN q = 1..n /\ \A i \in 1..n : q[i] \in Ids
    BY LenProperties
  <1>2. k.rest = SelectAt(q, I) /\ k.item = IF usable = {} THEN None ELSE q[first]
    BY DEF Take
  <1>3. ToSet(q) = {q[i] : i \in 1..n}
    BY <1>1 DEF ToSet
  <1>4. \/ usable = {} /\ first = n + 1
        \/ usable # {} /\ first \in usable /\ \A i \in usable : first <= i
    <2>1. usable \in SUBSET (1..n)
      BY <1>1
    <2> HIDE DEF usable, n
    <2> QED
      BY <1>1, <2>1, FirstOf
  <1>5. usable \subseteq 1..n /\ \A i \in 1..n : i \in usable <=> q[i] \notin skip /\ state[q[i]] # "SYNCHED"
    BY <1>1
  <1>6. \A i \in 1..n : i \in I <=> i > first \/ (i < first /\ q[i] \in skip)
    BY <1>1
  <1>7. /\ I \in SUBSET (1..n)
        /\ m \in Nat
        /\ r \in Seq(Ids)
        /\ DOMAIN r = 1..m
        /\ \A j \in 1..m : Position(I, j) \in I /\ r[j] = q[Position(I, j)]
        /\ \A i \in I : \E j \in 1..m : r[j] = q[i]
        /\ \A j, l \in 1..m : Position(I, j) = Position(I, l) => j = l
    <2>1. I \in SUBSET DOMAIN q /\ I \in SUBSET (1..n)
      BY <1>1
    <2> HIDE DEF I, n
    <2>2. \A j, l \in 1..Cardinality(I) : Position(I, j) = Position(I, l) => j = l
      BY <1>1, <2>1, Positions
    <2> QED
      BY <1>2, <2>1, <2>2, Selected
  <1>8. None \notin Ids
    BY CmlEventsAssumption
  <1> HIDE DEF n, usable, first, I, m
  <1>9. ToSet(r) = {r[j] : j \in 1..m}
    BY <1>7 DEF ToSet
  <1> HIDE DEF r
  <1>10. ToSet(r) \subseteq ToSet(q)
    BY <1>3, <1>7, <1>9
  <1>11. ASSUME NEW i \in 1..n
         PROVE  q[i] = k.item \/ q[i] \in ToSet(r) \/ state[q[i]] = "SYNCHED"
    <2>1. CASE i \in I
      BY <1>7, <1>9, <2>1
    <2>2. CASE i \notin I /\ usable = {}
      <3>1. i < first
        BY <1>1, <1>4, <2>2
      <3> QED
        BY <1>5, <1>6, <2>2, <3>1
    <2>3. CASE i \notin I /\ usable # {} /\ i = first
      BY <1>2, <2>3
    <2>4. CASE i \notin I /\ usable # {} /\ i # first
      <3>1. first \in 1..n
        BY <1>4, <1>5, <2>4
      <3>2. i < first
        BY <1>6, <2>4, <3>1
      <3>3. q[i] \notin skip
        BY <1>6, <2>4, <3>2
      <3>4. i \notin usable
        BY <1>4, <2>4, <3>1, <3>2
      <3> QED
        BY <1>5, <3>3, <3>4
    <2> QED
      BY <2>1, <2>2, <2>3, <2>4
  <1>12. \/ k.item = None /\ \A id \in ToSet(q) : id \in skip \/ state[id] = "SYNCHED"
         \/ k.item \in ToSet(q) /\ k.item # None /\ k.item \notin skip /\ state[k.item] # "SYNCHED"
    BY <1>1, <1>2, <1>3, <1>4, <1>5, <1>8
  <1>13. ASSUME NEW e, OffersOf(q, e)
         PROVE  OffersOf(r, e) /\ (k.item # None /\ Simple(k.item) => k.item \notin ToSet(r))
    <2>1. /\ \A i \in 1..n : q[i] <= started /\ e \in EventsOf(q[i])
          /\ \A i, j \in 1..n : q[i] = q[j] /\ Simple(q[i]) => i = j
      BY <1>1, <1>13 DEF OffersOf
    <2>2. \A j \in 1..m : Position(I, j) \in 1..n /\ r[j] = q[Position(I, j)]
      BY <1>7
    <2>3. \A j \in 1..m : r[j] <= started /\ e \in EventsOf(r[j])
      BY <2>1, <2>2
    <2>4. \A j, l \in 1..m : r[j] = r[l] /\ Simple(r[j]) => j = l
      BY <1>7, <2>1, <2>2
    <2>5. OffersOf(r, e)
      BY <1>7, <2>3, <2>4 DEF OffersOf
    <2>6. ASSUME k.item # None, Simple(k.item), NEW j \in 1..m, k.item = r[j]
          PROVE  FALSE
      <3>1. first \in 1..n /\ k.item = q[first]
        BY <1>2, <1>4, <1>5, <2>6
      <3>2. Position(I, j) = first
        BY <2>1, <2>2, <2>6, <3>1
      <3>3. first \in I
        BY <1>7, <3>2
      <3> QED
        BY <1>6, <3>1, <3>3
    <2> QED
      BY <1>9, <2>5, <2>6
  <1> QED
    BY <1>3, <1>7, <1>10, <1>11, <1>12, <1>13 DEF r

Joins(r, q, id) == r = Append(q, id) \/ r = <<id>> \o q

LEMMA Joined ==
  ASSUME NEW q \in Seq(Ids), NEW id \in Ids, NEW r, Joins(r, q, id)
  PROVE  /\ r \in Seq(Ids)
         /\ ToSet(r) = ToSet(q) \union {id}
         /\ \A e : OffersOf(q, e) /\ id <= started /\ e \in EventsOf(id)
                   /\ (Simple(id) => id \notin ToSet(q)) => OffersOf(r, e)
  <1> DEFINE n == Len(q)
  <1>1. n \in Nat /\ DOMAIN q = 1..n /\ \A i \in 1..n : q[i] \in Ids
    BY LenProperties
  <1>2. r \in Seq(Ids) /\ DOMAIN r = 1..(n + 1)
    <2>1. Append(q, id) \in Seq(Ids) /\ Len(Append(q, id)) = n + 1
      OBVIOUS
    <2>2. <<id>> \o q \in Seq(Ids) /\ Len(<<id>> \o q) = 1 + n
      OBVIOUS
    <2>3. r \in Seq(Ids) /\ Len(r) = n + 1
      BY <1>1, <2>1, <2>2 DEF Joins
    <2> QED
      BY <2>3, LenProperties
  <1>3. \/ r[n + 1] = id /\ \A i \in 1..n : r[i] = q[i]
        \/ r[1] = id /\ \A i \in 1..n : r[i + 1] = q[i]
    <2>1. Append(q, id)[n + 1] = id /\ \A i \in 1..n : Append(q, id)[i] = q[i]
      OBVIOUS
    <2>2. (<<id>> \o q)[1] = id /\ \A i \in 1..n : (<<id>> \o q)[i + 1] = q[i]
      <3>1. \A i \in 1..(1 + n) : (<<id>> \o q)[i] = IF i <= 1 THEN <<id>>[i] ELSE q[i - 1]
        OBVIOUS
      <3> QED
        BY <1>1, <3>1
    <2> QED
      BY <2>1, <2>2 DEF Joins
  <1>4. ToSet(q) = {q[i] : i \in 1..n} /\ ToSet(r) = {r[i] : i \in 1..(n + 1)}
    BY <1>1, <1>2 DEF ToSet
  <1> HIDE DEF n
  <1>5. \E k \in 1..(n + 1), f \in [1..(n + 1) -> Int] :
          /\ r[k] = id
          /\ \A i \in 1..(n + 1) : i # k => f[i] \in 1..n /\ r[i] = q[f[i]]
          /\ \A i, j \in 1..(n + 1) : f[i] = f[j] => i = j
          /\ \A i \in 1..n : \E j \in 1..(n + 1) : r[j] = q[i]
    <2>1. CASE r[n + 1] = id /\ \A i \in 1..n : r[i] = q[i]
      <3> DEFINE f == [i \in 1..(n + 1) |-> i]
      <3>1. f \in [1..(n + 1) -> Int] /\ n + 1 \in 1..(n + 1)
        BY <1>1
      <3>2. \A i \in 1..(n + 1) : i # n + 1 => f[i] \in 1..n /\ r[i] = q[f[i]]
        BY <1>1, <2>1
      <3>3. \A i, j \in 1..(n + 1) : f[i] = f[j] => i = j
        OBVIOUS
      <3>4. \A i \in 1..n : \E j \in 1..(n + 1) : r[j] = q[i]
        BY <1>1, <2>1
      <3> HIDE DEF f
      <3> QED
        BY <2>1, <3>1, <3>2, <3>3, <3>4
    <2>2. CASE r[1] = id /\ \A i \in 1..n : r[i + 1] = q[i]
      <3> DEFINE f == [i \in 1..(n + 1) |-> i - 1]
      <3>1. f \in [1..(n + 1) -> Int] /\ 1 \in 1..(n + 1)
        BY <1>1
      <3>2. \A i \in 1..(n + 1) : i # 1 => i - 1 \in 1..n /\ f[i] = i - 1
        BY <1>1
      <3>3. \A i \in 1..n : i + 1 \in 1..(n + 1) /\ r[i + 1] = q[i]
        BY <1>1, <2>2
      <3>4. \A i \in 1..(n + 1) : i # 1 => r[i] = q[i - 1]
        <4> TAKE i \in 1..(n + 1)
        <4> HAVE i # 1
        <4>1. i - 1 \in 1..n /\ (i - 1) + 1 = i
          BY <1>1, <3>2
        <4> QED
          BY <3>3, <4>1
      <3>5. \A i, j \in 1..(n + 1) : f[i] = f[j] => i = j
        BY <1>1
      <3>6. \A i \in 1..(n + 1) : i # 1 => f[i] \in 1..n /\ r[i] = q[f[i]]
        BY <3>2, <3>4
      <3> HIDE DEF f
      <3> QED
        BY <2>2, <3>1, <3>3, <3>5, <3>6
    <2> QED
      BY <1>3, <2>1, <2>2
  <1>6. PICK k \in 1..(n + 1), f \in [1..(n + 1) -> Int] :
          /\ r[k] = id
          /\ \A i \in 1..(n + 1) : i # k => f[i] \in 1..n /\ r[i] = q[f[i]]
          /\ \A i, j \in 1..(n + 1) : f[i] = f[j] => i = j
          /\ \A i \in 1..n : \E j \in 1..(n + 1) : r[j] = q[i]
    BY <1>5
  <1>7. ToSet(r) = ToSet(q) \union {id}
    <2>1. \A i \in 1..(n + 1) : r[i] = id \/ \E j \in 1..n : r[i] = q[j]
      BY <1>6
    <2> QED
      BY <1>4, <1>6, <2>1
  <1>8. ASSUME NEW e, OffersOf(q, e), id <= started, e \in EventsOf(id), Simple(id) => id \notin ToSet(q)
        PROVE  OffersOf(r, e)
    <2>1. /\ \A i \in 1..n : q[i] <= started /\ e \in EventsOf(q[i])
          /\ \A i, j \in 1..n : q[i] = q[j] /\ Simple(q[i]) => i = j
      BY <1>1, <1>8 DEF OffersOf
    <2>2. \A i \in 1..(n + 1) : r[i] <= started /\ e \in EventsOf(r[i])
      BY <1>6, <1>8, <2>1
    <2>3. ASSUME NEW i \in 1..(n + 1), NEW j \in 1..(n + 1), r[i] = r[j], Simple(r[i])
          PROVE  i = j
      <3>1. CASE i = k \/ j = k
        BY <1>4, <1>6, <1>8, <2>3, <3>1
      <3>2. CASE i # k /\ j # k
        BY <1>6, <2>1, <2>3, <3>2
      <3> QED
        BY <3>1, <3>2
    <2> QED
      BY <1>2, <2>2, <2>3 DEF OffersOf
  <1> QED
    BY <1>2, <1>7, <1>8

----------------------------------------------------------------------------
(* Types, and where the threads are. *)

SameOps == started' = started /\ what' = what /\ op' = op

Frame(t) ==
  \A u \in Threads : u # t =>
    /\ pc'[u] = pc[u] /\ todo'[u] = todo[u] /\ enabled'[u] = enabled[u]
    /\ item'[u] = item[u] /\ toWake'[u] = toWake[u] /\ op'[u] = op[u]

LockFrame(t) == \A c \in Chans : lock'[c] = lock[c] \/ HasLock(t, c)

LEMMA OthersControlled ==
  ASSUME Typed, Control, NEW t \in Threads, Frame(t), LockFrame(t),
         \A id \in Ids : id <= started => what'[id] = what[id],
         NEW u \in Threads, u # t
  PROVE  Controlled(u)'
  <1>1. Controlled(u) /\ op[u] \in 0..started /\ started \in Nat
    BY CmlEventsAssumption DEF Control, Typed
  <1>2. op[u] \in Ids => what'[op[u]] = what[op[u]]
    BY <1>1 DEF Ids
  <1>3. /\ pc'[u] = pc[u] /\ todo'[u] = todo[u] /\ enabled'[u] = enabled[u]
        /\ item'[u] = item[u] /\ toWake'[u] = toWake[u] /\ op'[u] = op[u]
    BY DEF Frame
  <1>4. pc[u] \in Working => op[u] \in Ids
    BY <1>1 DEF Controlled, AtWork
  <1>5. ASSUME item[u] # None
        PROVE  lock'[Head(todo[u]).ch] = lock[Head(todo[u]).ch]
    <2>1. lock[Head(todo[u]).ch] = op[u] /\ op[u] \in Ids /\ Head(todo[u]).ch \in Chans
      BY <1>1, <1>4, <1>5, EventFacts DEF Controlled, Holding, Working, Synching
    <2>2. op[t] # op[u]
      BY <1>5, <2>1 DEF Control, Ids
    <2>3. op[u] # None
      BY <2>1, CmlEventsAssumption
    <2> QED
      BY <2>1, <2>2, <2>3 DEF LockFrame, HasLock
  <1>6. AtWork(u) /\ op[u] \in Ids => AtWork(u)'
    BY <1>2, <1>3 DEF AtWork, EventsOf
  <1>7. Synching \subseteq Working
    BY DEF Working
  <1>8. op[u] \in Ids => (Simple(op[u]) <=> Simple(op[u])') /\ op'[u] = op[u]
    BY <1>2, <1>3 DEF Simple
  <1> QED
    BY <1>1, <1>2, <1>3, <1>4, <1>5, <1>6, <1>7, <1>8 DEF Controlled, Simple

LEMMA ControlStep ==
  ASSUME Typed, Control, NEW t \in Threads, Frame(t), LockFrame(t), SameOps, Controlled(t)'
  PROVE  Control'
  <1>1. \A u \in Threads : u # t => Controlled(u)'
    BY OthersControlled DEF SameOps
  <1> QED
    BY <1>1 DEF Control, SameOps

LEMMA WorkFacts ==
  ASSUME Typed, Control, NEW t \in Threads, pc[t] \in Working
  PROVE  /\ AtWork(t) /\ op[t] \in Ids /\ op[t] <= started
         /\ Head(todo[t]) \in Events /\ Head(todo[t]) \in EventsOf(op[t])
         /\ todo[t] \in Seq(Events) /\ Len(todo[t]) \in Nat \ {0}
         /\ Tail(todo[t]) \in Seq(Events) /\ ToSet(Tail(todo[t])) \subseteq EventsOf(op[t])
         /\ Len(Tail(todo[t])) = Len(todo[t]) - 1
         /\ toWake[t] = <<>>
         /\ what[op[t]].evts \in Seq(Events) /\ what[op[t]].evts # <<>>
  <1>1. AtWork(t) /\ toWake[t] = <<>>
    BY DEF Control, Controlled, Working, Synching
  <1>2. todo[t] \in Seq(Events) /\ todo[t] # <<>>
    BY <1>1 DEF AtWork, Typed
  <1> DEFINE s == todo[t]
  <1> HIDE DEF s
  <1>3. s \in Seq(Events) /\ s # <<>> =>
          /\ Len(s) \in Nat \ {0} /\ Tail(s) \in Seq(Events) /\ ToSet(s) = {Head(s)} \union ToSet(Tail(s))
          /\ Len(Tail(s)) = Len(s) - 1 /\ Head(s) \in Events
    <2> SUFFICES ASSUME s \in Seq(Events), s # <<>>
                 PROVE  /\ Len(s) \in Nat \ {0} /\ Tail(s) \in Seq(Events)
                        /\ ToSet(s) = {Head(s)} \union ToSet(Tail(s))
                        /\ Len(Tail(s)) = Len(s) - 1 /\ Head(s) \in Events
      OBVIOUS
    <2>1. Tail(s) \in Seq(Events) /\ ToSet(s) = {Head(s)} \union ToSet(Tail(s))
      BY TailList
    <2> QED
      BY <2>1
  <1>4. ToSet(s) = {Head(s)} \union ToSet(Tail(s)) /\ ToSet(s) \subseteq EventsOf(op[t])
    BY <1>1, <1>2, <1>3 DEF AtWork, s
  <1>5. op[t] \in Ids /\ op[t] <= started
    BY <1>1 DEF AtWork, Typed
  <1>6. what[op[t]].evts \in Seq(Events) /\ what[op[t]].evts # <<>>
    BY <1>1, <1>5, OperationFacts DEF AtWork, Typed
  <1> QED
    BY <1>1, <1>2, <1>3, <1>4, <1>5, <1>6 DEF s

LEMMA Finished ==
  ASSUME Typed, Control, NEW t \in Threads, pc[t] \in Working, SameOps, toWake' = toWake,
         NEW where \in {"run", "stopped"}, Finish(t, where)
  PROVE  Controlled(t)' /\ Frame(t) /\ pc'[t] = where
         /\ pc' \in [Threads -> Places] /\ todo' \in [Threads -> Seq(Events)]
         /\ enabled' \in [Threads -> Seq(Events)] /\ item' \in [Threads -> Ids \union {None}]
  <1>1. /\ pc' = [pc EXCEPT ![t] = where] /\ todo' = [todo EXCEPT ![t] = <<>>]
        /\ enabled' = [enabled EXCEPT ![t] = <<>>] /\ item' = [item EXCEPT ![t] = None]
    BY DEF Finish, GoTo
  <1>2. /\ pc \in [Threads -> Places] /\ todo \in [Threads -> Seq(Events)]
        /\ enabled \in [Threads -> Seq(Events)] /\ item \in [Threads -> Ids \union {None}]
    BY DEF Typed
  <1>3. where \in Places /\ <<>> \in Seq(Events)
    BY DEF Places
  <1>4. pc'[t] = where /\ enabled'[t] = <<>> /\ item'[t] = None /\ toWake'[t] = <<>> /\ op'[t] \in Ids
    BY <1>1, <1>2, WorkFacts DEF SameOps
  <1>5. Controlled(t)'
    BY <1>4 DEF Controlled, Working, Synching, Holding
  <1>6. Frame(t)
    BY <1>1, <1>2 DEF Frame, SameOps
  <1> QED
    BY <1>1, <1>2, <1>3, <1>4, <1>5, <1>6

LEMMA EventsDone ==
  ASSUME Typed, Control, NEW t \in Threads, pc[t] \in Working, SameOps, toWake' = toWake,
         item[t] = None, item' = item,
         what[op[t]].kind = "sync",
         NEW evts \in Seq(Events), ToSet(evts) \subseteq EventsOf(op[t]),
         DoEvents(t, evts)
  PROVE  Controlled(t)' /\ Frame(t) /\ pc'[t] \in {"try", "block"}
         /\ pc' \in [Threads -> Places] /\ todo' \in [Threads -> Seq(Events)]
         /\ enabled' \in [Threads -> Seq(Events)]
  <1> DEFINE all == what[op[t]].evts
             next == IF evts = <<>> THEN all ELSE evts
             where == IF evts = <<>> THEN "block" ELSE "try"
  <1>1. /\ pc' = [pc EXCEPT ![t] = where] /\ todo' = [todo EXCEPT ![t] = next]
        /\ enabled' = [enabled EXCEPT ![t] = <<>>]
    BY DEF DoEvents, GoTo
  <1>2. all \in Seq(Events) /\ all # <<>> /\ op[t] \in Ids /\ toWake[t] = <<>>
    BY WorkFacts
  <1>3. next \in Seq(Events) /\ next # <<>> /\ ToSet(next) \subseteq EventsOf(op[t])
    BY <1>2 DEF EventsOf
  <1>4. where = "block" => (Simple(op[t]) => Len(next) <= 1)
    BY DEF Simple
  <1>5. /\ pc \in [Threads -> Places] /\ todo \in [Threads -> Seq(Events)]
        /\ enabled \in [Threads -> Seq(Events)] /\ item \in [Threads -> Ids \union {None}]
    BY DEF Typed
  <1>6. where \in {"try", "block"} /\ where \in Places /\ <<>> \in Seq(Events)
    BY DEF Places
  <1> HIDE DEF next, where, all
  <1>7. pc'[t] = where /\ todo'[t] = next /\ enabled'[t] = <<>> /\ item'[t] = None /\ toWake'[t] = <<>>
        /\ op'[t] = op[t]
    BY <1>1, <1>2, <1>5 DEF SameOps
  <1>8. ToSet(<<>>) = {}
    BY EmptyList
  <1>9. AtWork(t)'
    BY <1>2, <1>3, <1>7, <1>8 DEF AtWork, SameOps, EventsOf
  <1>10. Controlled(t)'
    BY <1>2, <1>4, <1>6, <1>7, <1>9 DEF Controlled, Working, Synching, Holding, SameOps, Simple
  <1>11. Frame(t)
    BY <1>1, <1>5 DEF Frame, SameOps
  <1> QED
    BY <1>1, <1>3, <1>5, <1>6, <1>7, <1>10, <1>11

LEMMA Resumed ==
  ASSUME Typed, NEW ids \in [Ids -> 0..2], Resume(ids)
  PROVE  /\ resumed' \in [Ids -> 0..2]
         /\ \A id \in Ids : /\ resumed[id] \in 0..2 /\ resumed'[id] >= resumed[id]
                            /\ ids[id] = 0 => resumed'[id] = resumed[id]
                            /\ ids[id] > 0 => resumed'[id] > 0
                            /\ ids[id] = 1 /\ resumed[id] = 0 => resumed'[id] = 1
  <1>1. resumed \in [Ids -> 0..2]
    BY DEF Typed
  <1>2. resumed' = [id \in Ids |-> IF resumed[id] + ids[id] < 2 THEN resumed[id] + ids[id] ELSE 2]
    BY DEF Resume
  <1>3. \A id \in Ids : resumed[id] \in 0..2 /\ ids[id] \in 0..2
    BY <1>1
  <1>4. \A id \in Ids : resumed'[id] = IF resumed[id] + ids[id] < 2 THEN resumed[id] + ids[id] ELSE 2
    BY <1>2
  <1> QED
    BY <1>2, <1>3, <1>4

LEMMA ResumedOne ==
  ASSUME Typed, NEW one \in Ids, Resume([id \in Ids |-> IF id = one THEN 1 ELSE 0])
  PROVE  /\ resumed' \in [Ids -> 0..2]
         /\ \A id \in Ids : /\ resumed[id] \in 0..2 /\ resumed'[id] >= resumed[id]
                            /\ id # one => resumed'[id] = resumed[id]
         /\ resumed'[one] > 0 /\ (resumed[one] = 0 => resumed'[one] = 1)
  <1> DEFINE ids == [id \in Ids |-> IF id = one THEN 1 ELSE 0]
  <1>1. ids \in [Ids -> 0..2] /\ \A id \in Ids : ids[id] = IF id = one THEN 1 ELSE 0
    OBVIOUS
  <1>2. Resume(ids)
    OBVIOUS
  <1> HIDE DEF ids
  <1> QED
    BY <1>1, <1>2, Resumed

Receiver(t, j, dir) == IF dir = "recv" THEN op[t] ELSE j

Gets(r, m) ==
  \A id \in Ids : /\ id = r => got'[id] = got[id] \union {m}
                  /\ id # r => got'[id] = got[id]

(* A meeting resumes the two operations and no other. *)
LEMMA Met ==
  ASSUME Typed, NEW t \in Threads, op[t] \in Ids, NEW j \in Ids, NEW dir \in Dirs,
         NEW m \in Ids \union {None}, Meet(t, j, dir, m)
  PROVE  /\ resumed' \in [Ids -> 0..2]
         /\ state' = [state EXCEPT ![j] = "SYNCHED"] /\ state' \in [Ids -> Statuses]
         /\ got' \in [Ids -> SUBSET (Ids \union {None})]
         /\ \A id \in Ids : /\ resumed[id] \in 0..2 /\ resumed'[id] >= resumed[id]
                            /\ id # op[t] /\ id # j => resumed'[id] = resumed[id]
                            /\ id \in {op[t], j} => resumed'[id] > 0
                            /\ op[t] # j /\ id \in {op[t], j} /\ resumed[id] = 0 => resumed'[id] = 1
         /\ Gets(Receiver(t, j, dir), m)
  <1> DEFINE ids == [id \in Ids |-> (IF id = op[t] THEN 1 ELSE 0) + (IF id = j THEN 1 ELSE 0)]
             to == Receiver(t, j, dir)
  <1>1. /\ ids \in [Ids -> 0..2]
        /\ \A id \in Ids : /\ id # op[t] /\ id # j => ids[id] = 0
                           /\ id \in {op[t], j} => ids[id] > 0
                           /\ op[t] # j /\ id \in {op[t], j} => ids[id] = 1
    OBVIOUS
  <1>2. Resume(ids)
    BY DEF Meet
  <1>3. got' = [got EXCEPT ![to] = @ \union {m}] /\ got \in [Ids -> SUBSET (Ids \union {None})] /\ to \in Ids
    BY DEF Meet, Typed, Receiver
  <1>4. state' = [state EXCEPT ![j] = "SYNCHED"] /\ state' \in [Ids -> Statuses]
    BY DEF Meet, Typed, Statuses
  <1> HIDE DEF ids, to
  <1>5. got' \in [Ids -> SUBSET (Ids \union {None})]
        /\ Gets(to, m)
    BY <1>3 DEF Gets
  <1>6. /\ resumed' \in [Ids -> 0..2]
        /\ \A id \in Ids : /\ resumed[id] \in 0..2 /\ resumed'[id] >= resumed[id]
                           /\ ids[id] = 0 => resumed'[id] = resumed[id]
                           /\ ids[id] > 0 => resumed'[id] > 0
                           /\ ids[id] = 1 /\ resumed[id] = 0 => resumed'[id] = 1
    BY <1>1, <1>2, Resumed
  <1> QED
    BY <1>1, <1>4, <1>5, <1>6 DEF to

(* The channel whose lock a thread may take. *)
LEMMA Locking ==
  ASSUME Typed, NEW t \in Threads, op[t] \in Ids, NEW c \in Chans, HasLock(t, c),
         Lock(t, c) \/ Unlock(c) \/ UNCHANGED lock
  PROVE  /\ lock' \in [Chans -> Ids \union {None}] /\ LockFrame(t)
         /\ Lock(t, c) => lock'[c] = op[t]
  BY DEF Lock, Unlock, LockFrame, Typed

----------------------------------------------------------------------------
(* Each step keeps types and control. *)

LEMMA BeginTypes ==
  ASSUME Typed, Control, NEW t \in Threads, NEW o \in Ops \union {Signal}, Begin(t, o)
  PROVE  /\ started \in Nat /\ started + 1 \in Ids
         /\ started' = started + 1 /\ op'[t] = started + 1 /\ what'[started + 1] = o
         /\ \A id \in Ids : id # started + 1 => what'[id] = what[id]
         /\ started' \in 0..MaxOps /\ what' \in [Ids -> Ops \union {Signal}]
         /\ op' \in [Threads -> 0..started'] /\ todo' \in [Threads -> Seq(Events)]
         /\ local' \in [Threads -> {"WAITING", "CLAIMED"}]
         /\ promoted' \subseteq Threads /\ forwarded' \subseteq promoted'
         /\ todo'[t] = o.evts
         /\ \A u \in Threads : u # t => todo'[u] = todo[u] /\ op'[u] = op[u]
         /\ pc[t] \notin Working /\ item[t] = None /\ enabled[t] = <<>> /\ toWake[t] = <<>>
         /\ \A u, v \in Threads : u # v /\ op'[u] = op'[v] => op'[u] = 0
  <1>1. started \in 0..MaxOps /\ MaxOps \in Nat /\ started < MaxOps
    BY CmlEventsAssumption DEF Typed, Begin
  <1>2. started \in Nat /\ started + 1 \in Ids /\ started + 1 \in 0..MaxOps
    BY <1>1 DEF Ids
  <1>3. o.evts \in Seq(Events)
    BY OperationFacts
  <1>4. /\ started' = started + 1
        /\ op' = [op EXCEPT ![t] = started + 1]
        /\ what' = [what EXCEPT ![started + 1] = o]
        /\ todo' = [todo EXCEPT ![t] = o.evts]
        /\ local' = [local EXCEPT ![t] = "WAITING"]
        /\ promoted' = promoted \ {t} /\ forwarded' = forwarded \ {t}
    BY DEF Begin
  <1>5. /\ what \in [Ids -> Ops \union {Signal}] /\ op \in [Threads -> 0..started]
        /\ todo \in [Threads -> Seq(Events)] /\ local \in [Threads -> {"WAITING", "CLAIMED"}]
        /\ promoted \subseteq Threads /\ forwarded \subseteq promoted
    BY DEF Typed
  <1>6. op' \in [Threads -> 0..(started + 1)]
    <2>1. \A u \in Threads : op[u] \in 0..(started + 1)
      BY <1>2, <1>5
    <2> QED
      BY <1>2, <1>4, <1>5, <2>1
  <1>7. pc[t] \in {"run", "stopped"}
    BY DEF Begin, Ready
  <1>8. Controlled(t)
    BY DEF Control
  <1>9. pc[t] \notin Working /\ item[t] = None /\ enabled[t] = <<>> /\ toWake[t] = <<>>
    BY <1>7, <1>8 DEF Controlled, Working, Synching, Holding
  <1>10. \A u \in Threads : u # t => todo'[u] = todo[u] /\ op'[u] = op[u]
    BY <1>4, <1>5
  <1>11. op'[t] = started + 1 /\ todo'[t] = o.evts
    BY <1>4, <1>5
  <1>12. \A u \in Threads : op[u] # started + 1
    BY <1>2, <1>5
  <1>13. \A u, v \in Threads : u # v /\ op'[u] = op'[v] => op'[u] = 0
    BY <1>10, <1>11, <1>12 DEF Control
  <1>14. what' \in [Ids -> Ops \union {Signal}] /\ what'[started + 1] = o
         /\ \A id \in Ids : id # started + 1 => what'[id] = what[id]
    BY <1>2, <1>4, <1>5
  <1>15. todo' \in [Threads -> Seq(Events)]
    BY <1>3, <1>4, <1>5
  <1>16. local' \in [Threads -> {"WAITING", "CLAIMED"}]
    BY <1>4, <1>5
  <1> QED
    BY <1>2, <1>4, <1>5, <1>6, <1>9, <1>10, <1>11, <1>13, <1>14, <1>15, <1>16

LEMMA BeginOthers ==
  ASSUME Typed, Control, NEW t \in Threads, NEW o \in Ops \union {Signal}, Begin(t, o),
         NEW where, GoTo(t, where),
         \A u \in Threads : u # t => toWake'[u] = toWake[u], Controlled(t)'
  PROVE  Control'
  <1>1. /\ \A u \in Threads : u # t => todo'[u] = todo[u] /\ op'[u] = op[u]
        /\ \A u, v \in Threads : u # v /\ op'[u] = op'[v] => op'[u] = 0
        /\ \A id \in Ids : id # started + 1 => what'[id] = what[id]
        /\ started \in Nat
    BY BeginTypes
  <1>2. enabled' = enabled /\ item' = item /\ lock' = lock
    BY DEF Begin, chans
  <1>3. \A u \in Threads : u # t => pc'[u] = pc[u]
    BY DEF GoTo, Typed
  <1>4. Frame(t) /\ LockFrame(t)
    BY <1>1, <1>2, <1>3 DEF Frame, LockFrame
  <1>5. \A id \in Ids : id <= started => what'[id] = what[id]
    BY <1>1 DEF Ids
  <1>6. \A u \in Threads : u # t => Controlled(u)'
    BY <1>4, <1>5, OthersControlled
  <1> QED
    BY <1>1, <1>6 DEF Control

LEMMA BeginChanTypes ==
  ASSUME Typed, Control, NEW t \in Threads, NEW o \in Ops, BeginChan(t, o)
  PROVE  Typed' /\ Control'
  <1> DEFINE where == IF o.kind = "plain" THEN "try" ELSE "poll"
  <1>1. Begin(t, o) /\ GoTo(t, where) /\ o.kind # "signal" /\ UNCHANGED cvar
    BY DEF BeginChan
  <1>2. o \in Ops \union {Signal}
    OBVIOUS
  <1>3. /\ started \in Nat /\ started + 1 \in Ids
        /\ op'[t] = started + 1 /\ what'[started + 1] = o
        /\ started' \in 0..MaxOps /\ what' \in [Ids -> Ops \union {Signal}]
        /\ op' \in [Threads -> 0..started'] /\ todo' \in [Threads -> Seq(Events)]
        /\ local' \in [Threads -> {"WAITING", "CLAIMED"}]
        /\ promoted' \subseteq Threads /\ forwarded' \subseteq promoted'
        /\ todo'[t] = o.evts
        /\ item[t] = None /\ enabled[t] = <<>> /\ toWake[t] = <<>>
    BY <1>1, <1>2, BeginTypes
  <1>4. enabled' = enabled /\ queue' = queue /\ lock' = lock /\ item' = item /\ state' = state
        /\ resumed' = resumed /\ got' = got
        /\ cvState' = cvState /\ waiting' = waiting /\ toWake' = toWake
    BY <1>1 DEF Begin, chans, cvar
  <1>5. where \in Places /\ where \in {"try", "poll"} /\ pc' = [pc EXCEPT ![t] = where]
    BY <1>1 DEF Places, GoTo
  <1> HIDE DEF where
  <1>6. pc' \in [Threads -> Places] /\ pc'[t] = where
    BY <1>5 DEF Typed
  <1>7. o.evts # <<>> /\ o.evts \in Seq(Events)
    BY <1>1, <1>2, OperationFacts
  <1>8. o.kind = "plain" \/ o.kind = "sync"
    BY <1>1, CmlEventsAssumption DEF Plain, Signal
  <1>9. AtWork(t)'
    BY <1>1, <1>3, <1>4, <1>7, EmptyList DEF AtWork, EventsOf
  <1>10. where = "poll" => o.kind = "sync"
    BY <1>8 DEF where
  <1>11. Controlled(t)'
    BY <1>3, <1>4, <1>5, <1>6, <1>9, <1>10 DEF Controlled, Working, Synching, Holding
  <1>12. Control'
    BY <1>1, <1>2, <1>4, <1>11, BeginOthers
  <1>13. Typed'
    BY <1>3, <1>4, <1>6 DEF Typed
  <1> QED
    BY <1>12, <1>13

LEMMA BeginSignalTypes ==
  ASSUME Typed, Control, NEW t \in Threads, BeginSignal(t)
  PROVE  Typed' /\ Control'
  <1> DEFINE where == IF MoreToWake(waiting) THEN "wake" ELSE "run"
  <1>1. /\ Begin(t, Signal) /\ GoTo(t, where)
        /\ cvState' = TRUE /\ waiting' = <<>> /\ toWake' = [toWake EXCEPT ![t] = waiting]
    BY DEF BeginSignal
  <1>3. /\ op'[t] = started + 1
        /\ started' \in 0..MaxOps /\ what' \in [Ids -> Ops \union {Signal}]
        /\ op' \in [Threads -> 0..started'] /\ todo' \in [Threads -> Seq(Events)]
        /\ local' \in [Threads -> {"WAITING", "CLAIMED"}]
        /\ promoted' \subseteq Threads /\ forwarded' \subseteq promoted'
        /\ item[t] = None /\ enabled[t] = <<>>
    BY <1>1, BeginTypes
  <1>4. enabled' = enabled /\ queue' = queue /\ lock' = lock /\ item' = item /\ state' = state
        /\ resumed' = resumed /\ got' = got
    BY <1>1 DEF Begin, chans
  <1>5. where \in Places /\ where \in {"wake", "run"} /\ (where = "wake" <=> waiting # <<>>)
        /\ pc' = [pc EXCEPT ![t] = where]
    BY <1>1 DEF Places, GoTo, MoreToWake
  <1> HIDE DEF where
  <1>6. pc' \in [Threads -> Places] /\ pc'[t] = where
    BY <1>5 DEF Typed
  <1>7. toWake \in [Threads -> Seq(Ids)] /\ waiting \in Seq(Ids)
    BY DEF Typed
  <1>8. toWake' \in [Threads -> Seq(Ids)] /\ toWake'[t] = waiting /\ waiting' \in Seq(Ids)
        /\ \A u \in Threads : u # t => toWake'[u] = toWake[u]
    BY <1>1, <1>7
  <1>9. Controlled(t)'
    BY <1>3, <1>4, <1>5, <1>6, <1>8 DEF Controlled, Working, Synching, Holding
  <1>10. Control'
    BY <1>1, <1>8, <1>9, BeginOthers
  <1>11. Typed'
    BY <1>1, <1>3, <1>4, <1>6, <1>8 DEF Typed
  <1> QED
    BY <1>10, <1>11

LEMMA HoldFacts ==
  ASSUME Typed, Control, NEW t \in Threads, pc[t] \in Holding
  PROVE  /\ pc[t] \in Working /\ item[t] \in Ids /\ item[t] # None
         /\ Head(todo[t]) \in ChanEvents /\ Head(todo[t]).ch \in Chans
         /\ Head(todo[t]).dir \in Dirs /\ Opposite(Head(todo[t]).dir) \in Dirs
         /\ HasLock(t, Head(todo[t]).ch) /\ lock[Head(todo[t]).ch] = op[t]
  <1>1. pc[t] \in Working /\ Controlled(t)
    BY DEF Working, Synching, Holding, Control
  <1>2. item[t] # None /\ Head(todo[t]) \in ChanEvents /\ lock[Head(todo[t]).ch] = op[t]
    BY <1>1 DEF Controlled
  <1>3. item[t] \in Ids
    BY <1>2 DEF Typed
  <1> QED
    BY <1>1, <1>2, <1>3, EventFacts DEF HasLock

(* Only queue c in the direction dir is another one. *)
Replaced(p, q, dir, c, s) ==
  /\ p \in [Dirs -> [Chans -> Seq(Ids)]] /\ p[dir][c] = s
  /\ \A d \in Dirs, b \in Chans : d # dir \/ b # c => p[d][b] = q[d][b]

LEMMA QueueSet ==
  ASSUME Typed, NEW dir \in Dirs, NEW c \in Chans, NEW q \in Seq(Ids), SetQueue(dir, c, q)
  PROVE  queue' \in [Dirs -> [Chans -> Seq(Ids)]] /\ Replaced(queue', queue, dir, c, q)
  <1>1. queue \in [Dirs -> [Chans -> Seq(Ids)]]
    BY DEF Typed
  <1>2. queue' = [queue EXCEPT ![dir] = [queue[dir] EXCEPT ![c] = q]]
    BY DEF SetQueue
  <1> DEFINE row == [queue[dir] EXCEPT ![c] = q]
  <1>3. row \in [Chans -> Seq(Ids)] /\ row[c] = q /\ \A b \in Chans : b # c => row[b] = queue[dir][b]
    BY <1>1
  <1>4. queue' = [queue EXCEPT ![dir] = row]
    BY <1>2
  <1> HIDE DEF row
  <1>5. queue' \in [Dirs -> [Chans -> Seq(Ids)]] /\ queue'[dir] = row
        /\ \A d \in Dirs : d # dir => queue'[d] = queue[d]
    BY <1>1, <1>3, <1>4
  <1> QED
    BY <1>3, <1>5 DEF Replaced

LEMMA MeetNowTypes ==
  ASSUME Typed, Control, NEW t \in Threads, NEW e \in ChanEvents, e = Head(todo[t]),
         pc[t] \in Working, NEW j \in Ids, HasLock(t, e.ch), MeetNow(t, e, j),
         SameOps, UNCHANGED <<local, promoted, forwarded, cvar>>,
         queue' \in [Dirs -> [Chans -> Seq(Ids)]]
  PROVE  Typed' /\ Control'
  <1>1. Meet(t, j, e.dir, Message(t, j, e.dir)) /\ Unlock(e.ch) /\ Finish(t, "run")
    BY DEF MeetNow, Matched
  <1>2. op[t] \in Ids /\ e.dir \in Dirs /\ e.ch \in Chans
    BY WorkFacts, EventFacts
  <1>3. Message(t, j, e.dir) \in Ids \union {None}
    BY <1>2 DEF Message
  <1>4. state' \in [Ids -> Statuses] /\ resumed' \in [Ids -> 0..2]
        /\ got' \in [Ids -> SUBSET (Ids \union {None})]
    BY <1>1, <1>2, <1>3, Met, Zenon
  <1>5. lock' \in [Chans -> Ids \union {None}] /\ LockFrame(t)
    BY <1>1, <1>2, Locking
  <1>6. /\ Controlled(t)' /\ Frame(t)
        /\ pc' \in [Threads -> Places] /\ todo' \in [Threads -> Seq(Events)]
        /\ enabled' \in [Threads -> Seq(Events)] /\ item' \in [Threads -> Ids \union {None}]
    BY <1>1, Finished DEF cvar
  <1>7. Control'
    BY <1>5, <1>6, ControlStep
  <1>8. Typed'
    BY <1>4, <1>5, <1>6 DEF Typed, SameOps, cvar
  <1> QED
    BY <1>7, <1>8

LEMMA TryTypes ==
  ASSUME Typed, Control, NEW t \in Threads, NEW e \in ChanEvents, Try(t, e)
  PROVE  Typed' /\ Control'
  <1> DEFINE d == Opposite(e.dir)
             k == Take(queue[d][e.ch], {})
  <1>1. /\ pc[t] = "try" /\ e = Head(todo[t]) /\ HasLock(t, e.ch)
        /\ k.item # None /\ SetQueue(d, e.ch, k.rest)
        /\ \/ MeetNow(t, e, k.item)
           \/ /\ Lock(t, e.ch) /\ item' = [item EXCEPT ![t] = k.item] /\ GoTo(t, "spin")
              /\ UNCHANGED <<todo, enabled, state, resumed, got>>
        /\ UNCHANGED <<started, what, op, local, promoted, forwarded, cvar>>
    BY DEF Try, Trying
  <1>2. d \in Dirs /\ e.dir \in Dirs /\ e.ch \in Chans /\ pc[t] \in Working /\ op[t] \in Ids
    BY <1>1, EventFacts, WorkFacts DEF Working
  <1>3. queue[d][e.ch] \in Seq(Ids)
    BY <1>2 DEF Typed
  <1> DEFINE q == queue[d][e.ch]
  <1> HIDE DEF q
  <1>4. k.rest \in Seq(Ids) /\ k.item \in ToSet(q)
    <2>1. q \in Seq(Ids) /\ k = Take(q, {})
      BY <1>3 DEF q
    <2> HIDE DEF k
    <2> QED
      BY <1>1, <2>1, Taken
  <1>5. k.item \in Ids
    BY <1>3, <1>4 DEF q, ToSet
  <1> HIDE DEF k, d
  <1>6. queue' \in [Dirs -> [Chans -> Seq(Ids)]] /\ SameOps
    BY <1>1, <1>2, <1>4, QueueSet DEF SameOps
  <1>7. CASE MeetNow(t, e, k.item)
    BY <1>1, <1>2, <1>5, <1>6, <1>7, MeetNowTypes
  <1>8. CASE /\ Lock(t, e.ch) /\ item' = [item EXCEPT ![t] = k.item] /\ GoTo(t, "spin")
             /\ UNCHANGED <<todo, enabled, state, resumed, got>>
    <2>1. lock' \in [Chans -> Ids \union {None}] /\ LockFrame(t) /\ lock'[e.ch] = op[t]
      BY <1>1, <1>2, <1>8, Locking
    <2>2. pc' \in [Threads -> Places] /\ pc'[t] = "spin" /\ item' \in [Threads -> Ids \union {None}]
          /\ item'[t] = k.item /\ toWake' = toWake
      BY <1>1, <1>5, <1>8 DEF Typed, GoTo, Places, cvar
    <2>3. Frame(t)
      BY <1>6, <1>8, <2>2 DEF Frame, GoTo, SameOps, Typed
    <2>4. AtWork(t) /\ toWake[t] = <<>>
      BY <1>2, WorkFacts
    <2>5. AtWork(t)'
      BY <1>6, <1>8, <2>4 DEF AtWork, SameOps, EventsOf
    <2>6. Controlled(t)'
      BY <1>1, <1>6, <1>8, <2>1, <2>2, <2>4, <2>5 DEF Controlled, Working, Synching, Holding, SameOps
    <2>7. Control'
      BY <1>6, <2>1, <2>3, <2>6, ControlStep
    <2> QED
      BY <1>1, <1>6, <1>8, <2>1, <2>2, <2>7 DEF Typed, cvar
  <1> QED
    BY <1>1, <1>7, <1>8

LEMMA SpinTypes ==
  ASSUME Typed, Control, NEW t \in Threads, NEW e \in ChanEvents, Spin(t, e)
  PROVE  Typed' /\ Control'
  <1>1. /\ pc[t] = "spin" /\ e = Head(todo[t]) /\ UNCHANGED queue
        /\ \/ MeetNow(t, e, item[t])
           \/ /\ item' = [item EXCEPT ![t] = None] /\ GoTo(t, "try")
              /\ UNCHANGED <<todo, enabled, lock, state, resumed, got>>
        /\ SameOps /\ UNCHANGED <<local, promoted, forwarded, cvar>>
    BY DEF Spin, SameOps
  <1>2. pc[t] \in Working /\ item[t] \in Ids /\ HasLock(t, e.ch)
    BY <1>1, HoldFacts DEF Holding
  <1>3. queue' \in [Dirs -> [Chans -> Seq(Ids)]]
    BY <1>1 DEF Typed
  <1>4. CASE MeetNow(t, e, item[t])
    BY <1>1, <1>2, <1>3, <1>4, MeetNowTypes
  <1>5. CASE /\ item' = [item EXCEPT ![t] = None] /\ GoTo(t, "try")
             /\ UNCHANGED <<todo, enabled, lock, state, resumed, got>>
    <2>2. pc' \in [Threads -> Places] /\ pc'[t] = "try" /\ item' \in [Threads -> Ids \union {None}]
          /\ item'[t] = None /\ toWake' = toWake
      BY <1>1, <1>5 DEF Typed, GoTo, Places, cvar
    <2>3. Frame(t) /\ LockFrame(t)
      BY <1>1, <1>5, <2>2 DEF Frame, LockFrame, GoTo, SameOps, Typed
    <2>4. AtWork(t) /\ toWake[t] = <<>>
      BY <1>2, WorkFacts
    <2>5. AtWork(t)'
      BY <1>1, <1>5, <2>4 DEF AtWork, SameOps, EventsOf
    <2>6. Controlled(t)'
      BY <1>1, <1>5, <2>2, <2>4, <2>5 DEF Controlled, Working, Synching, Holding, SameOps
    <2>7. Control'
      BY <1>1, <2>3, <2>6, ControlStep
    <2> QED
      BY <1>1, <1>5, <2>2, <2>7 DEF Typed, cvar, SameOps
  <1> QED
    BY <1>1, <1>4, <1>5

LEMMA TakenTypes ==
  ASSUME Typed, NEW dir \in Dirs, NEW c \in Chans, NEW skip, NEW k, k = Take(queue[dir][c], skip)
  PROVE  /\ queue[dir][c] \in Seq(Ids) /\ k.rest \in Seq(Ids)
         /\ k.item # None => k.item \in Ids
  <1>1. queue[dir][c] \in Seq(Ids)
    BY DEF Typed
  <1> DEFINE q == queue[dir][c]
  <1> HIDE DEF q
  <1>2. q \in Seq(Ids) /\ k = Take(q, skip)
    BY <1>1 DEF q
  <1>3. k.rest \in Seq(Ids) /\ (k.item # None => k.item \in ToSet(q))
    BY <1>2, Taken
  <1> QED
    BY <1>1, <1>2, <1>3 DEF q, ToSet

(* Two queues of a channel are changed: one is purged, the other gets an    *)
(* item.                                                                   *)
Exchanged(p, q, opp, dir, c, rest, s) ==
  /\ p \in [Dirs -> [Chans -> Seq(Ids)]]
  /\ p[opp][c] = rest /\ p[dir][c] = s
  /\ \A d \in Dirs, b \in Chans : b # c => p[d][b] = q[d][b]

LEMMA QueuesLeft ==
  ASSUME NEW q \in [Dirs -> [Chans -> Seq(Ids)]], NEW dir \in Dirs, NEW opp \in Dirs, opp # dir,
         NEW c \in Chans, NEW rest \in Seq(Ids), NEW s \in Seq(Ids)
  PROVE  \A p : p = [q EXCEPT ![opp][c] = rest, ![dir][c] = s] => Exchanged(p, q, opp, dir, c, rest, s)
  <1> DEFINE p1 == [q EXCEPT ![opp][c] = rest]
             p2 == [q EXCEPT ![opp][c] = rest, ![dir][c] = s]
  <1>1. /\ p1 \in [Dirs -> [Chans -> Seq(Ids)]]
        /\ p1[opp][c] = rest
        /\ \A d \in Dirs, b \in Chans : b # c => p1[d][b] = q[d][b]
    OBVIOUS
  <1>2. p2 = [p1 EXCEPT ![dir][c] = s]
    OBVIOUS
  <1> HIDE DEF p1, p2
  <1>3. /\ p2 \in [Dirs -> [Chans -> Seq(Ids)]] /\ p2[dir][c] = s
        /\ p2[opp] = p1[opp]
        /\ \A d \in Dirs, b \in Chans : b # c => p2[d][b] = p1[d][b]
    BY <1>1, <1>2
  <1>4. /\ p2 \in [Dirs -> [Chans -> Seq(Ids)]]
        /\ p2[opp][c] = rest /\ p2[dir][c] = s
        /\ \A d \in Dirs, b \in Chans : b # c => p2[d][b] = q[d][b]
    BY <1>1, <1>3
  <1>5. \A p : p = p2 => Exchanged(p, q, opp, dir, c, rest, s)
    BY <1>4 DEF Exchanged
  <1> QED
    BY <1>5 DEF p2

LEMMA TryEmptyTypes ==
  ASSUME Typed, Control, NEW t \in Threads, NEW e \in ChanEvents, TryEmpty(t, e)
  PROVE  Typed' /\ Control'
  <1> DEFINE d == Opposite(e.dir)
             k == Take(queue[d][e.ch], {})
  <1>1. /\ pc[t] = "try" /\ e = Head(todo[t]) /\ HasLock(t, e.ch)
        /\ \/ /\ what[op[t]].kind = "plain"
              /\ queue' = [queue EXCEPT ![Opposite(e.dir)][e.ch] = k.rest, ![e.dir][e.ch] = Append(@, op[t])]
              /\ Finish(t, "stopped")
           \/ /\ what[op[t]].kind # "plain"
              /\ SetQueue(d, e.ch, k.rest) /\ DoEvents(t, Tail(todo[t])) /\ UNCHANGED item
        /\ Unlock(e.ch)
        /\ UNCHANGED <<started, what, op, flagVars, cvar, resumed, got>>
    BY DEF TryEmpty, Trying
  <1>2. d \in Dirs /\ e.dir \in Dirs /\ e.ch \in Chans /\ pc[t] \in Working /\ op[t] \in Ids
    BY <1>1, EventFacts, WorkFacts DEF Working
  <1>3. k.rest \in Seq(Ids)
    BY <1>2, TakenTypes
  <1> HIDE DEF k
  <1>4. lock' \in [Chans -> Ids \union {None}] /\ LockFrame(t)
    BY <1>1, <1>2, Locking
  <1>5. SameOps /\ toWake' = toWake
    BY <1>1 DEF SameOps, cvar
  <1>6. CASE /\ what[op[t]].kind = "plain"
             /\ queue' = [queue EXCEPT ![Opposite(e.dir)][e.ch] = k.rest, ![e.dir][e.ch] = Append(@, op[t])]
             /\ Finish(t, "stopped")
    <2>1. queue \in [Dirs -> [Chans -> Seq(Ids)]]
      BY DEF Typed
    <2>2. queue' \in [Dirs -> [Chans -> Seq(Ids)]]
      <3> DEFINE l == Append(queue[e.dir][e.ch], op[t])
      <3>1. l \in Seq(Ids)
        <4>1. queue[e.dir][e.ch] \in Seq(Ids)
          BY <1>2, <2>1
        <4> QED
          BY <1>2, <4>1
      <3>2. queue' = [queue EXCEPT ![d][e.ch] = k.rest, ![e.dir][e.ch] = l]
        BY <1>6
      <3>3. d # e.dir
        BY <1>2, EventFacts
      <3> HIDE DEF l, d
      <3>4. Exchanged(queue', queue, d, e.dir, e.ch, k.rest, l)
        BY <1>2, <1>3, <2>1, <3>1, <3>2, <3>3, QueuesLeft
      <3> QED
        BY <3>4 DEF Exchanged
    <2>3. /\ Controlled(t)' /\ Frame(t)
          /\ pc' \in [Threads -> Places] /\ todo' \in [Threads -> Seq(Events)]
          /\ enabled' \in [Threads -> Seq(Events)] /\ item' \in [Threads -> Ids \union {None}]
      BY <1>2, <1>5, <1>6, Finished
    <2>4. Control'
      BY <1>4, <1>5, <2>3, ControlStep
    <2> QED
      BY <1>1, <1>4, <2>2, <2>3, <2>4 DEF Typed, flagVars, cvar
  <1>7. CASE /\ what[op[t]].kind # "plain"
             /\ SetQueue(d, e.ch, k.rest) /\ DoEvents(t, Tail(todo[t])) /\ UNCHANGED item
    <2>1. queue' \in [Dirs -> [Chans -> Seq(Ids)]]
      BY <1>2, <1>3, <1>7, QueueSet
    <2>2. what[op[t]].kind = "sync"
      BY <1>2, <1>7, WorkFacts, OperationFacts DEF AtWork, Typed
    <2>3. item[t] = None
      BY <1>1 DEF Control, Controlled, Holding
    <2>4. Tail(todo[t]) \in Seq(Events) /\ ToSet(Tail(todo[t])) \subseteq EventsOf(op[t])
      BY <1>2, WorkFacts
    <2>5. /\ Controlled(t)' /\ Frame(t)
          /\ pc' \in [Threads -> Places] /\ todo' \in [Threads -> Seq(Events)]
          /\ enabled' \in [Threads -> Seq(Events)]
      BY <1>2, <1>5, <1>7, <2>2, <2>3, <2>4, EventsDone
    <2>6. Control'
      BY <1>4, <1>5, <2>5, ControlStep
    <2> QED
      BY <1>1, <1>4, <1>7, <2>1, <2>5, <2>6 DEF Typed, flagVars, cvar
  <1> QED
    BY <1>1, <1>6, <1>7

LEMMA PollTypes ==
  ASSUME Typed, Control, NEW t \in Threads, Poll(t)
  PROVE  Typed' /\ Control'
  <1> DEFINE h == Head(todo[t])
             found == IF IsEnabled(h) THEN <<h>> \o enabled[t] ELSE enabled[t]
  <1>1. /\ pc[t] = "poll"
        /\ \/ Len(todo[t]) = 1 /\ DoEvents(t, found)
           \/ /\ Len(todo[t]) # 1
              /\ enabled' = [enabled EXCEPT ![t] = found]
              /\ todo' = [todo EXCEPT ![t] = Tail(@)]
              /\ UNCHANGED pc
        /\ SameOps /\ UNCHANGED <<chans, flagVars, cvar, resumed, got>>
    BY DEF Poll, SameOps
  <1>2. pc[t] \in Working /\ op[t] \in Ids /\ what[op[t]].kind = "sync" /\ item[t] = None
    BY <1>1, WorkFacts DEF Working, Synching, Holding, Control, Controlled
  <1>3. /\ h \in Events /\ h \in EventsOf(op[t]) /\ AtWork(t) /\ toWake[t] = <<>>
        /\ Tail(todo[t]) \in Seq(Events) /\ ToSet(Tail(todo[t])) \subseteq EventsOf(op[t])
        /\ Len(Tail(todo[t])) = Len(todo[t]) - 1 /\ Len(todo[t]) \in Nat \ {0}
    BY <1>2, WorkFacts
  <1>4. enabled[t] \in Seq(Events) /\ ToSet(enabled[t]) \subseteq EventsOf(op[t])
    BY <1>3 DEF Typed, AtWork
  <1>5. found \in Seq(Events) /\ ToSet(found) \subseteq EventsOf(op[t])
    <2> DEFINE r == <<h>>
               s == enabled[t]
    <2>1. r \in Seq(Events) /\ ToSet(r) = {h} /\ s \in Seq(Events)
      BY <1>3, <1>4, OneThread
    <2> HIDE DEF r, s
    <2>2. r \o s \in Seq(Events) /\ ToSet(r \o s) = ToSet(r) \union ToSet(s)
      BY <2>1, ConcatList
    <2>3. <<h>> \o enabled[t] \in Seq(Events)
          /\ ToSet(<<h>> \o enabled[t]) = {h} \union ToSet(enabled[t])
      BY <2>1, <2>2 DEF r, s
    <2> QED
      BY <1>3, <1>4, <2>3
  <1> HIDE DEF found
  <1>6. lock' = lock /\ item' = item /\ toWake' = toWake /\ LockFrame(t)
    BY <1>1 DEF chans, cvar, LockFrame
  <1>7. CASE DoEvents(t, found)
    <2>1. /\ Controlled(t)' /\ Frame(t)
          /\ pc' \in [Threads -> Places] /\ todo' \in [Threads -> Seq(Events)]
          /\ enabled' \in [Threads -> Seq(Events)]
      BY <1>1, <1>2, <1>5, <1>6, <1>7, EventsDone
    <2>2. Control'
      BY <1>1, <1>6, <2>1, ControlStep
    <2> QED
      BY <1>1, <2>1, <2>2 DEF Typed, chans, flagVars, cvar, SameOps
  <1>8. CASE /\ Len(todo[t]) # 1
             /\ enabled' = [enabled EXCEPT ![t] = found]
             /\ todo' = [todo EXCEPT ![t] = Tail(@)]
             /\ UNCHANGED pc
    <2>1. /\ enabled' \in [Threads -> Seq(Events)] /\ todo' \in [Threads -> Seq(Events)]
          /\ enabled'[t] = found /\ todo'[t] = Tail(todo[t])
          /\ \A u \in Threads : u # t => enabled'[u] = enabled[u] /\ todo'[u] = todo[u]
      BY <1>3, <1>5, <1>8 DEF Typed
    <2>2. Tail(todo[t]) # <<>>
      <3> DEFINE n == Len(todo[t])
                 s == Tail(todo[t])
      <3>1. n \in Nat \ {0} /\ n # 1 /\ Len(s) = n - 1
        BY <1>3, <1>8
      <3> HIDE DEF n, s
      <3>2. Len(s) # 0
        BY <3>1
      <3>3. s # <<>>
        BY <3>2
      <3> QED
        BY <3>3 DEF s
    <2>3. AtWork(t)'
      BY <1>1, <1>3, <1>5, <2>1, <2>2 DEF AtWork, SameOps, EventsOf
    <2>4. Controlled(t)'
      BY <1>1, <1>2, <1>3, <1>6, <1>8, <2>3 DEF Controlled, Working, Synching, Holding, SameOps
    <2>5. Frame(t)
      BY <1>1, <1>6, <1>8, <2>1 DEF Frame, SameOps
    <2>6. Control'
      BY <1>1, <1>6, <2>4, <2>5, ControlStep
    <2> QED
      BY <1>1, <1>8, <2>1, <2>6 DEF Typed, chans, flagVars, cvar, SameOps
  <1> QED
    BY <1>1, <1>7, <1>8

(* A thread goes on with the event it is at. *)
LEMMA Moved ==
  ASSUME Typed, Control, NEW t \in Threads, pc[t] \in Working, SameOps, LockFrame(t),
         NEW where \in Working, GoTo(t, where), UNCHANGED <<todo, enabled>>, toWake' = toWake,
         NEW j \in Ids \union {None}, item' = [item EXCEPT ![t] = j],
         j # None <=> where \in Holding,
         j # None => Head(todo[t]) \in ChanEvents /\ lock'[Head(todo[t]).ch] = op[t],
         where \in Synching => what[op[t]].kind = "sync",
         where \in Synching \ {"poll"} /\ Simple(op[t]) => Len(todo[t]) <= 1
  PROVE  Control' /\ pc' \in [Threads -> Places] /\ item' \in [Threads -> Ids \union {None}]
  <1>1. where \in Places
    BY DEF Working, Synching, Places
  <1>2. pc' \in [Threads -> Places] /\ pc'[t] = where
        /\ item' \in [Threads -> Ids \union {None}] /\ item'[t] = j
        /\ \A u \in Threads : u # t => pc'[u] = pc[u] /\ item'[u] = item[u]
    BY <1>1 DEF GoTo, Typed
  <1>3. Frame(t)
    BY <1>2 DEF Frame, SameOps
  <1>4. AtWork(t) /\ op[t] \in Ids /\ toWake[t] = <<>>
    BY WorkFacts
  <1>5. AtWork(t)'
    BY <1>4 DEF AtWork, SameOps, EventsOf
  <1>6. where # "wake" /\ where # "stopped"
    BY DEF Working, Synching
  <1>7. Controlled(t)'
    BY <1>2, <1>4, <1>5, <1>6 DEF Controlled, SameOps, Simple
  <1> QED
    BY <1>2, <1>3, <1>7, ControlStep

LEMMA SameItem ==
  ASSUME Typed, NEW t \in Threads
  PROVE  item = [item EXCEPT ![t] = item[t]] /\ item[t] \in Ids \union {None}
  BY DEF Typed

LEMMA SynchFacts ==
  ASSUME Typed, Control, NEW t \in Threads, pc[t] \in Synching \ {"poll"}
  PROVE  /\ pc[t] \in Working /\ op[t] \in Ids /\ what[op[t]].kind = "sync"
         /\ Simple(op[t]) => Len(todo[t]) <= 1
  BY WorkFacts DEF Working, Control, Controlled

LEMMA ClaimTypes ==
  ASSUME Typed, Control, NEW t \in Threads, Claim(t)
  PROVE  Typed' /\ Control'
  <1>1. /\ pc[t] = "claim" /\ GoTo(t, "match") /\ SameOps
        /\ \/ state' = [state EXCEPT ![op[t]] = "CLAIMED"] /\ UNCHANGED local
           \/ local' = [local EXCEPT ![t] = "CLAIMED"] /\ UNCHANGED state
        /\ UNCHANGED <<todo, enabled, chans, promoted, forwarded, cvar, resumed, got>>
    BY DEF Claim, SameOps
  <1>2. pc[t] \in Synching \ {"poll"} /\ pc[t] \in Holding
    BY <1>1 DEF Synching, Holding
  <1>3. state' \in [Ids -> Statuses] /\ local' \in [Threads -> {"WAITING", "CLAIMED"}]
    BY <1>1 DEF Typed, Statuses
  <1>4. item' = [item EXCEPT ![t] = item[t]] /\ item[t] \in Ids \union {None}
        /\ toWake' = toWake /\ lock' = lock /\ LockFrame(t)
    BY <1>1, SameItem DEF chans, cvar, LockFrame
  <1>5. "match" \in Working /\ "match" \in Holding
    BY DEF Working, Synching, Holding
  <1>6. Control' /\ pc' \in [Threads -> Places] /\ item' \in [Threads -> Ids \union {None}]
    BY <1>1, <1>2, <1>4, <1>5, HoldFacts, SynchFacts, Moved
  <1> QED
    BY <1>1, <1>3, <1>6 DEF Typed, chans, cvar, SameOps

LEMMA MatchFailsTypes ==
  ASSUME Typed, Control, NEW t \in Threads, MatchFails(t)
  PROVE  Typed' /\ Control'
  <1> DEFINE where == IF state[item[t]] = "CLAIMED" THEN "retry" ELSE "next"
  <1>1. /\ pc[t] = "match" /\ GoTo(t, where) /\ SameOps
        /\ UNCHANGED <<todo, enabled, chans, flagVars, cvar, resumed, got>>
    BY DEF MatchFails, SameOps
  <1>2. pc[t] \in Synching \ {"poll"} /\ pc[t] \in Holding
    BY <1>1 DEF Synching, Holding
  <1>3. item' = [item EXCEPT ![t] = item[t]] /\ item[t] \in Ids \union {None}
        /\ toWake' = toWake /\ lock' = lock /\ LockFrame(t)
    BY <1>1, SameItem DEF chans, cvar, LockFrame
  <1>4. where \in Working /\ where \in Holding
    BY DEF Working, Synching, Holding
  <1> HIDE DEF where
  <1>5. Control' /\ pc' \in [Threads -> Places] /\ item' \in [Threads -> Ids \union {None}]
    BY <1>1, <1>2, <1>3, <1>4, HoldFacts, SynchFacts, Moved
  <1> QED
    BY <1>1, <1>5 DEF Typed, chans, cvar, flagVars, SameOps

LEMMA RollBackTypes ==
  ASSUME Typed, Control, NEW t \in Threads, RollBack(t)
  PROVE  Typed' /\ Control'
  <1>1. /\ pc[t] \in {"retry", "next"} /\ state' = [state EXCEPT ![item[t]] = "WAITING"]
        /\ \/ GoTo(t, "claim") /\ UNCHANGED item
           \/ GoTo(t, "block") /\ item' = [item EXCEPT ![t] = None]
        /\ SameOps
        /\ UNCHANGED <<todo, enabled, queue, lock, local, promoted, forwarded, cvar, resumed, got>>
    BY DEF RollBack, SameOps
  <1>2. pc[t] \in Synching \ {"poll"} /\ pc[t] \in Holding
    BY <1>1 DEF Synching, Holding
  <1>3. state' \in [Ids -> Statuses]
    BY <1>1 DEF Typed, Statuses
  <1>4. toWake' = toWake /\ lock' = lock /\ LockFrame(t)
    BY <1>1 DEF cvar, LockFrame
  <1>5. "claim" \in Working /\ "claim" \in Holding /\ "block" \in Working /\ "block" \notin Holding
    BY DEF Working, Synching, Holding
  <1>6. CASE GoTo(t, "claim") /\ UNCHANGED item
    <2>1. item' = [item EXCEPT ![t] = item[t]] /\ item[t] \in Ids \union {None}
      BY <1>6, SameItem
    <2>2. Control' /\ pc' \in [Threads -> Places] /\ item' \in [Threads -> Ids \union {None}]
      BY <1>1, <1>2, <1>4, <1>5, <1>6, <2>1, HoldFacts, SynchFacts, Moved
    <2> QED
      BY <1>1, <1>3, <2>2 DEF Typed, cvar, SameOps
  <1>7. CASE GoTo(t, "block") /\ item' = [item EXCEPT ![t] = None]
    <2>1. Control' /\ pc' \in [Threads -> Places] /\ item' \in [Threads -> Ids \union {None}]
      BY <1>1, <1>2, <1>4, <1>5, <1>7, SynchFacts, Moved
    <2> QED
      BY <1>1, <1>3, <2>1 DEF Typed, cvar, SameOps
  <1> QED
    BY <1>1, <1>6, <1>7

LEMMA BlockTakeTypes ==
  ASSUME Typed, Control, NEW t \in Threads, NEW e \in ChanEvents, BlockTake(t, e)
  PROVE  Typed' /\ Control'
  <1> DEFINE d == Opposite(e.dir)
             k == Take(queue[d][e.ch], OwnItems(t))
  <1>1. /\ pc[t] = "block" /\ e = Head(todo[t]) /\ HasLock(t, e.ch) /\ k.item # None
        /\ SetQueue(d, e.ch, k.rest) /\ Lock(t, e.ch)
        /\ item' = [item EXCEPT ![t] = k.item] /\ GoTo(t, "claim")
        /\ SameOps /\ UNCHANGED <<todo, enabled, state, local, promoted, cvar, resumed, got>>
        /\ MayCollect(t)
    BY DEF BlockTake, Blocking, SameOps
  <1>2. d \in Dirs /\ e.ch \in Chans /\ pc[t] \in Synching \ {"poll"}
    BY <1>1, EventFacts DEF Synching
  <1>3. k.rest \in Seq(Ids) /\ k.item \in Ids
    BY <1>1, <1>2, TakenTypes
  <1> HIDE DEF k, d
  <1>4. queue' \in [Dirs -> [Chans -> Seq(Ids)]]
    BY <1>1, <1>2, <1>3, QueueSet
  <1>5. lock' \in [Chans -> Ids \union {None}] /\ LockFrame(t) /\ lock'[e.ch] = op[t]
    BY <1>1, <1>2, SynchFacts, Locking
  <1>6. "claim" \in Working /\ "claim" \in Holding
    BY DEF Working, Synching, Holding
  <1>7. toWake' = toWake
    BY <1>1 DEF cvar
  <1>8. Control' /\ pc' \in [Threads -> Places] /\ item' \in [Threads -> Ids \union {None}]
    BY <1>1, <1>2, <1>3, <1>5, <1>6, <1>7, SynchFacts, Moved
  <1>9. forwarded' \subseteq promoted'
    BY <1>1 DEF MayCollect, Typed
  <1> QED
    BY <1>1, <1>4, <1>5, <1>8, <1>9 DEF Typed, cvar, SameOps

LEMMA ClaimFailsTypes ==
  ASSUME Typed, Control, NEW t \in Threads, ClaimFails(t)
  PROVE  Typed' /\ Control'
  <1> DEFINE e == Head(todo[t])
             d == Opposite(e.dir)
             l == PushItem(queue[d][e.ch], item[t])
  <1>1. /\ pc[t] = "claim" /\ SetQueue(d, e.ch, l) /\ Unlock(e.ch) /\ Finish(t, "stopped")
        /\ SameOps /\ UNCHANGED <<flagVars, cvar, resumed, got>>
    BY DEF ClaimFails, SameOps
  <1>2. /\ pc[t] \in Working /\ op[t] \in Ids /\ item[t] \in Ids
        /\ d \in Dirs /\ e.ch \in Chans /\ HasLock(t, e.ch)
    BY <1>1, HoldFacts, WorkFacts DEF Holding, Working
  <1>3. l \in Seq(Ids)
    <2>1. queue[d][e.ch] \in Seq(Ids)
      BY <1>2 DEF Typed
    <2> QED
      BY <1>2, <2>1 DEF PushItem
  <1> HIDE DEF l, d, e
  <1>4. queue' \in [Dirs -> [Chans -> Seq(Ids)]]
    BY <1>1, <1>2, <1>3, QueueSet
  <1>5. lock' \in [Chans -> Ids \union {None}] /\ LockFrame(t)
    BY <1>1, <1>2, Locking
  <1>6. /\ Controlled(t)' /\ Frame(t)
        /\ pc' \in [Threads -> Places] /\ todo' \in [Threads -> Seq(Events)]
        /\ enabled' \in [Threads -> Seq(Events)] /\ item' \in [Threads -> Ids \union {None}]
    BY <1>1, <1>2, Finished DEF cvar
  <1>7. Control'
    BY <1>1, <1>5, <1>6, ControlStep
  <1> QED
    BY <1>1, <1>4, <1>5, <1>6, <1>7 DEF Typed, flagVars, cvar, SameOps

LEMMA MatchTypes ==
  ASSUME Typed, Control, NEW t \in Threads, Match(t)
  PROVE  Typed' /\ Control'
  <1> DEFINE e == Head(todo[t])
             m == IF e.dir = "recv" THEN None ELSE op[t]
  <1>1. /\ pc[t] = "match" /\ Meet(t, item[t], e.dir, m)
        /\ Unlock(e.ch) \/ UNCHANGED lock
        /\ Finish(t, "run")
        /\ SameOps /\ UNCHANGED <<queue, local, promoted, forwarded, cvar>>
    BY DEF Match, SameOps
  <1>2. /\ pc[t] \in Working /\ op[t] \in Ids /\ item[t] \in Ids
        /\ e.dir \in Dirs /\ e.ch \in Chans /\ HasLock(t, e.ch)
    BY <1>1, HoldFacts, WorkFacts DEF Holding, Working
  <1>3. m \in Ids \union {None}
    BY <1>2
  <1> HIDE DEF m, e
  <1>4. state' \in [Ids -> Statuses] /\ resumed' \in [Ids -> 0..2]
        /\ got' \in [Ids -> SUBSET (Ids \union {None})]
    BY <1>1, <1>2, <1>3, Met, Zenon
  <1>5. lock' \in [Chans -> Ids \union {None}] /\ LockFrame(t)
    BY <1>1, <1>2, Locking
  <1>6. /\ Controlled(t)' /\ Frame(t)
        /\ pc' \in [Threads -> Places] /\ todo' \in [Threads -> Seq(Events)]
        /\ enabled' \in [Threads -> Seq(Events)] /\ item' \in [Threads -> Ids \union {None}]
    BY <1>1, <1>2, Finished DEF cvar
  <1>7. Control'
    BY <1>1, <1>5, <1>6, ControlStep
  <1> QED
    BY <1>1, <1>4, <1>5, <1>6, <1>7 DEF Typed, cvar, SameOps

LEMMA BlockEmptyTypes ==
  ASSUME Typed, Control, NEW t \in Threads, NEW e \in ChanEvents, BlockEmpty(t, e)
  PROVE  Typed' /\ Control'
  <1> DEFINE d == Opposite(e.dir)
             k == Take(queue[d][e.ch], OwnItems(t))
             l == Append(queue[e.dir][e.ch], op[t])
  <1>1. /\ pc[t] = "block" /\ e = Head(todo[t]) /\ HasLock(t, e.ch)
        /\ queue' = [queue EXCEPT ![d][e.ch] = k.rest, ![e.dir][e.ch] = l]
        /\ state' = [state EXCEPT ![op[t]] = IF t \in promoted THEN @ ELSE local[t]]
        /\ promoted' = promoted \union {t}
        /\ Unlock(e.ch)
        /\ \/ Finish(t, "stopped") /\ UNCHANGED forwarded
           \/ /\ Len(todo[t]) # 1
              /\ todo' = [todo EXCEPT ![t] = Tail(@)]
              /\ MayCollect(t) /\ UNCHANGED <<pc, enabled, item>>
        /\ SameOps /\ UNCHANGED <<local, cvar, resumed, got>>
    BY DEF BlockEmpty, Blocking, SameOps
  <1>2. /\ d \in Dirs /\ e.dir \in Dirs /\ d # e.dir /\ e.ch \in Chans
        /\ pc[t] \in Synching \ {"poll"} /\ pc[t] \notin Holding
    BY <1>1, EventFacts DEF Synching, Holding
  <1>3. pc[t] \in Working /\ op[t] \in Ids /\ what[op[t]].kind = "sync"
        /\ (Simple(op[t]) => Len(todo[t]) <= 1)
    BY <1>2, SynchFacts
  <1>4. k.rest \in Seq(Ids) /\ l \in Seq(Ids)
    <2>1. k.rest \in Seq(Ids) /\ queue[e.dir][e.ch] \in Seq(Ids)
      BY <1>2, TakenTypes
    <2> QED
      BY <1>3, <2>1
  <1>5. queue \in [Dirs -> [Chans -> Seq(Ids)]] /\ state \in [Ids -> Statuses] /\ local[t] \in Statuses
    BY DEF Typed, Statuses
  <1> HIDE DEF l, k, d
  <1>6. queue' \in [Dirs -> [Chans -> Seq(Ids)]]
    <2>1. queue' = [queue EXCEPT ![d][e.ch] = k.rest, ![e.dir][e.ch] = l]
      BY <1>1
    <2>2. Exchanged(queue', queue, d, e.dir, e.ch, k.rest, l)
      BY <1>2, <1>4, <1>5, <2>1, QueuesLeft
    <2> QED
      BY <2>2 DEF Exchanged
  <1>7. state' \in [Ids -> Statuses]
    BY <1>1, <1>5
  <1>8. lock' \in [Chans -> Ids \union {None}] /\ LockFrame(t)
    BY <1>1, <1>2, <1>3, Locking
  <1>9. toWake' = toWake
    BY <1>1 DEF cvar
  <1>10. CASE Finish(t, "stopped") /\ UNCHANGED forwarded
    <2>1. /\ Controlled(t)' /\ Frame(t)
          /\ pc' \in [Threads -> Places] /\ todo' \in [Threads -> Seq(Events)]
          /\ enabled' \in [Threads -> Seq(Events)] /\ item' \in [Threads -> Ids \union {None}]
      BY <1>1, <1>3, <1>9, <1>10, Finished
    <2>2. Control'
      BY <1>1, <1>8, <2>1, ControlStep
    <2>3. promoted' \subseteq Threads /\ forwarded' \subseteq promoted'
      BY <1>1, <1>10 DEF Typed
    <2> QED
      BY <1>1, <1>6, <1>7, <1>8, <2>1, <2>2, <2>3 DEF Typed, cvar, SameOps
  <1>11. CASE /\ Len(todo[t]) # 1
              /\ todo' = [todo EXCEPT ![t] = Tail(@)]
              /\ MayCollect(t) /\ UNCHANGED <<pc, enabled, item>>
    <2>1. /\ AtWork(t) /\ toWake[t] = <<>>
          /\ Tail(todo[t]) \in Seq(Events) /\ ToSet(Tail(todo[t])) \subseteq EventsOf(op[t])
          /\ Len(Tail(todo[t])) = Len(todo[t]) - 1 /\ Len(todo[t]) \in Nat \ {0}
      BY <1>3, WorkFacts
    <2>2. todo' \in [Threads -> Seq(Events)] /\ todo'[t] = Tail(todo[t])
          /\ \A u \in Threads : u # t => todo'[u] = todo[u]
      BY <1>11, <2>1 DEF Typed
    <2>3. Tail(todo[t]) # <<>> /\ ~ Simple(op[t])
      <3> DEFINE n == Len(todo[t])
                 s == Tail(todo[t])
      <3>1. n \in Nat \ {0} /\ n # 1 /\ Len(s) = n - 1 /\ (Simple(op[t]) => n <= 1)
        BY <1>3, <1>11, <2>1
      <3> HIDE DEF n, s
      <3>2. Len(s) # 0 /\ ~ Simple(op[t])
        BY <3>1
      <3>3. s # <<>>
        BY <3>2
      <3> QED
        BY <3>2, <3>3 DEF s
    <2>4. AtWork(t)'
      BY <1>1, <1>11, <2>1, <2>2, <2>3 DEF AtWork, SameOps, EventsOf
    <2>5. item[t] = None /\ pc[t] # "wake"
      BY <1>1, <1>2 DEF Control, Controlled
    <2>6. Controlled(t)'
      BY <1>1, <1>2, <1>3, <1>9, <1>11, <2>1, <2>3, <2>4, <2>5
         DEF Controlled, Working, SameOps, Simple
    <2>7. Frame(t)
      BY <1>1, <1>9, <1>11, <2>2 DEF Frame, SameOps
    <2>8. Control'
      BY <1>1, <1>8, <2>6, <2>7, ControlStep
    <2>9. promoted' \subseteq Threads /\ forwarded' \subseteq promoted'
      BY <1>1, <1>11 DEF Typed, MayCollect
    <2> QED
      BY <1>1, <1>6, <1>7, <1>8, <1>11, <2>2, <2>8, <2>9 DEF Typed, cvar, SameOps
  <1> QED
    BY <1>1, <1>10, <1>11

(* @cvar-wait and the blkFn of its event differ in where they are called. *)
Waits(t) ==
  /\ Head(todo[t]) = WaitEvent
  /\ \/ /\ Finish(t, "run") /\ UNCHANGED waiting
        /\ Resume([id \in Ids |-> IF id = op[t] THEN 1 ELSE 0])
     \/ Finish(t, "stopped") /\ waiting' = <<op[t]>> \o waiting /\ UNCHANGED resumed
  /\ SameOps /\ UNCHANGED <<queue, lock, flagVars, cvState, toWake, got>>

LEMMA WaitsIs ==
  ASSUME NEW t \in Threads, TryWait(t) \/ BlockWait(t)
  PROVE  Waits(t) /\ pc[t] \in {"try", "block"}
  BY DEF TryWait, BlockWait, Blocking, Waits, SameOps

LEMMA WaitTypes ==
  ASSUME Typed, Control, NEW t \in Threads, TryWait(t) \/ BlockWait(t)
  PROVE  Typed' /\ Control'
  <1>1. /\ Finish(t, "run") \/ Finish(t, "stopped")
        /\ \/ waiting' = waiting /\ Resume([id \in Ids |-> IF id = op[t] THEN 1 ELSE 0])
           \/ waiting' = <<op[t]>> \o waiting /\ resumed' = resumed
        /\ SameOps /\ UNCHANGED <<queue, lock, flagVars, cvState, toWake, got>>
        /\ pc[t] \in {"try", "block"}
    BY WaitsIs DEF Waits
  <1>2. pc[t] \in Working /\ op[t] \in Ids
    BY <1>1, WorkFacts DEF Working, Synching
  <1>3. waiting' \in Seq(Ids) /\ resumed' \in [Ids -> 0..2]
    <2>1. waiting \in Seq(Ids) /\ resumed \in [Ids -> 0..2]
      BY DEF Typed
    <2>2. <<op[t]>> \o waiting \in Seq(Ids)
      BY <1>2, <2>1
    <2> QED
      BY <1>1, <1>2, <2>1, <2>2, ResumedOne
  <1>4. /\ Controlled(t)' /\ Frame(t)
        /\ pc' \in [Threads -> Places] /\ todo' \in [Threads -> Seq(Events)]
        /\ enabled' \in [Threads -> Seq(Events)] /\ item' \in [Threads -> Ids \union {None}]
    BY <1>1, <1>2, Finished
  <1>5. LockFrame(t)
    BY <1>1 DEF LockFrame
  <1>6. Control'
    BY <1>1, <1>4, <1>5, ControlStep
  <1> QED
    BY <1>1, <1>3, <1>4, <1>6 DEF Typed, flagVars, SameOps

LEMMA WakeFacts ==
  ASSUME Typed, Control, NEW t \in Threads, WakeWaiter(t)
  PROVE  /\ Head(toWake[t]) \in Ids /\ Head(toWake[t]) \in ToSet(toWake[t])
         /\ toWake' = [toWake EXCEPT ![t] = Tail(@)] /\ toWake' \in [Threads -> Seq(Ids)]
         /\ ToSet(toWake[t]) = {Head(toWake[t])} \union ToSet(toWake'[t])
         /\ toWake[t] \in Seq(Ids) /\ toWake[t] # <<>> /\ toWake'[t] = Tail(toWake[t])
         /\ Resume([id \in Ids |-> IF id = Head(toWake[t]) THEN 1 ELSE 0])
         /\ \/ toWake'[t] # <<>> /\ UNCHANGED pc
            \/ toWake'[t] = <<>> /\ GoTo(t, "run")
         /\ pc[t] = "wake" /\ SameOps
         /\ UNCHANGED <<todo, enabled, chans, flagVars, cvState, waiting, got>>
  <1> DEFINE s == toWake[t]
  <1>1. s \in Seq(Ids) /\ s # <<>>
    BY DEF WakeWaiter, Control, Controlled, Typed
  <1> HIDE DEF s
  <1>2. Head(s) \in Ids /\ Tail(s) \in Seq(Ids) /\ ToSet(s) = {Head(s)} \union ToSet(Tail(s))
    <2>1. Tail(s) \in Seq(Ids) /\ ToSet(s) = {Head(s)} \union ToSet(Tail(s))
      BY <1>1, TailList
    <2> QED
      BY <1>1, <2>1
  <1>3. /\ pc[t] = "wake" /\ SameOps
        /\ Resume([id \in Ids |-> IF id = Head(toWake[t]) THEN 1 ELSE 0])
        /\ \/ Tail(s) # <<>> /\ toWake' = [toWake EXCEPT ![t] = Tail(@)] /\ UNCHANGED pc
           \/ Tail(s) = <<>> /\ toWake' = [toWake EXCEPT ![t] = <<>>] /\ GoTo(t, "run")
        /\ UNCHANGED <<todo, enabled, chans, flagVars, cvState, waiting, got>>
    BY DEF WakeWaiter, SameOps, MoreToWake, s
  <1>4. toWake \in [Threads -> Seq(Ids)]
    BY DEF Typed
  <1>5. toWake' = [toWake EXCEPT ![t] = Tail(@)]
    BY <1>3 DEF s
  <1>6. toWake' \in [Threads -> Seq(Ids)] /\ toWake'[t] = Tail(s)
    BY <1>2, <1>4, <1>5 DEF s
  <1> QED
    BY <1>1, <1>2, <1>3, <1>5, <1>6 DEF s

LEMMA WakeTypes ==
  ASSUME Typed, Control, NEW t \in Threads, WakeWaiter(t)
  PROVE  Typed' /\ Control'
  <1>1. /\ Head(toWake[t]) \in Ids
        /\ toWake' = [toWake EXCEPT ![t] = Tail(@)] /\ toWake' \in [Threads -> Seq(Ids)]
        /\ Resume([id \in Ids |-> IF id = Head(toWake[t]) THEN 1 ELSE 0])
        /\ \/ toWake'[t] # <<>> /\ UNCHANGED pc
           \/ toWake'[t] = <<>> /\ GoTo(t, "run")
        /\ pc[t] = "wake" /\ SameOps
        /\ UNCHANGED <<todo, enabled, chans, flagVars, cvState, waiting, got>>
    BY WakeFacts
  <1>2. resumed' \in [Ids -> 0..2]
    BY <1>1, ResumedOne
  <1>3. pc' \in [Threads -> Places] /\ (pc'[t] = "run" \/ pc'[t] = "wake")
        /\ (toWake'[t] # <<>> <=> pc'[t] = "wake")
        /\ \A u \in Threads : u # t => pc'[u] = pc[u]
    BY <1>1 DEF GoTo, Typed, Places
  <1>4. \A u \in Threads : u # t => toWake'[u] = toWake[u]
    BY <1>1 DEF Typed
  <1>5. Frame(t) /\ LockFrame(t)
    BY <1>1, <1>3, <1>4 DEF Frame, LockFrame, chans, SameOps
  <1>6. Controlled(t)
    BY DEF Control
  <1>7. Controlled(t)'
    BY <1>1, <1>3, <1>6 DEF Controlled, Working, Synching, Holding, chans
  <1>8. Control'
    BY <1>1, <1>5, <1>7, ControlStep
  <1> QED
    BY <1>1, <1>2, <1>3, <1>8 DEF Typed, chans, flagVars, SameOps

----------------------------------------------------------------------------
(* What a step does to the offers. *)

(* Thread t takes a step that resumes the operations R and makes the offers *)
(* N and the waiters M.                                                    *)
OfferStep(t, R, N, M) ==
  /\ SameOps /\ Frame(t)
  /\ R \subseteq Ids /\ N \subseteq {op[t]} /\ M \subseteq {op[t]} /\ N \intersect R = {}
  /\ \A id \in Ids \ R : resumed'[id] = resumed[id]
  /\ \A id \in R :
       /\ id <= started /\ resumed'[id] > 0
       /\ Simple(id) => resumed'[id] = 1 /\ id \in {op[t]} \union Offers \union AllWaiters
  /\ \A id \in Offers' : Simple(id) => id \in (Offers \ R) \union N
  /\ \A id \in AllWaiters' : id \in AllWaiters \union M /\ (Simple(id) => id \notin R)
  /\ \A id \in Offers \union AllWaiters :
       what[id].kind = "plain" => id \in Offers' \union AllWaiters' \union R
  /\ \A id \in N, other \in Offers' :
       Simple(id) /\ Simple(other) => ~ Fit(id, other) /\ ~ Fit(other, id)
  /\ \A id \in M : WaitEvent \in EventsOf(id)
  /\ N \union M # {} => pc[t] \in Working
  /\ pc'[t] \in Working =>
       pc[t] \in Working /\ op[t] \notin R \union M /\ (Simple(op[t]) => op[t] \notin N)
  /\ pc'[t] = "stopped" /\ what[op[t]].kind = "plain" => op[t] \in Offers' \union AllWaiters'

(* The flags it changes. *)
FlagStep(t, R) ==
  /\ \A id \in Ids :
       \/ state'[id] = state[id]
       \/ id \in R
       \/ state'[id] # "SYNCHED" /\ (what[id].kind = "plain" => state'[id] = "WAITING")
  /\ \A id \in Ids : id > started => state'[id] = state[id] /\ got'[id] = got[id]
  /\ pc'[t] \in {"retry", "next"} => what[item'[t]].kind # "plain"

LEMMA SameEvents ==
  ASSUME SameOps
  PROVE  /\ started' = started /\ what' = what /\ op' = op
         /\ \A id : Simple(id)' <=> Simple(id)
         /\ \A id : EventsOf(id)' = EventsOf(id)
         /\ \A s, r : Fit(s, r)' <=> Fit(s, r)
         /\ \A q : QueuesFit(q) => QueuesFit(q)'
  BY DEF SameOps, Simple, EventsOf, Fit, QueuesFit, OffersOf

LEMMA OffersKept ==
  ASSUME Typed, Control, OffersOpen, WaitersOpen, NotOffered, OnceUnlessChoice,
         NEW t \in Threads, NEW R, NEW N, NEW M, OfferStep(t, R, N, M), Typed', Control'
  PROVE  OffersOpen' /\ WaitersOpen' /\ NotOffered' /\ OnceUnlessChoice'
  <1> DEFINE goes == N \union M # {}
  <1>1. /\ SameOps /\ Frame(t)
        /\ R \subseteq Ids /\ N \subseteq {op[t]} /\ M \subseteq {op[t]} /\ N \intersect R = {}
    BY DEF OfferStep
  <1>2. \A id \in Ids \ R : resumed'[id] = resumed[id]
    BY DEF OfferStep
  <1>3. \A id \in R :
          /\ id <= started /\ resumed'[id] > 0
          /\ Simple(id) => resumed'[id] = 1 /\ id \in {op[t]} \union Offers \union AllWaiters
    BY DEF OfferStep
  <1>4. \A id \in Offers' : Simple(id) => id \in (Offers \ R) \union N
    BY DEF OfferStep
  <1>5. \A id \in AllWaiters' : id \in AllWaiters \union M /\ (Simple(id) => id \notin R)
    BY DEF OfferStep
  <1>6. \A id \in M : WaitEvent \in EventsOf(id)
    BY DEF OfferStep
  <1>7. N \union M # {} => pc[t] \in Working
    BY DEF OfferStep
  <1>8. pc'[t] \in Working =>
          pc[t] \in Working /\ op[t] \notin R \union M /\ (Simple(op[t]) => op[t] \notin N)
    BY DEF OfferStep
  <1>9. /\ started' = started /\ what' = what /\ op' = op
        /\ \A id : Simple(id)' <=> Simple(id)
        /\ \A id : EventsOf(id)' = EventsOf(id)
    BY <1>1, SameEvents
  <1>10. \A id \in Offers : id \in Ids
    BY DEF Offers, Queued, Held, Items
  <1>11. \A id \in AllWaiters : id \in Ids
    <2>1. waiting \in Seq(Ids) /\ \A u \in Threads : toWake[u] \in Seq(Ids)
      BY DEF Typed
    <2>2. ToSet(waiting) \subseteq Ids /\ \A u \in Threads : ToSet(toWake[u]) \subseteq Ids
      BY <2>1 DEF ToSet
    <2> QED
      BY <2>2 DEF AllWaiters
  <1>12. pc[t] \in Working => op[t] \in Ids /\ op[t] <= started
    BY WorkFacts
  <1>13. pc[t] \in Working => op[t] \notin AllWaiters /\ (Simple(op[t]) => op[t] \notin Offers /\ resumed[op[t]] = 0)
    BY DEF NotOffered
  <1>14. OffersOpen'
    <2> SUFFICES ASSUME NEW id \in Offers', Simple(id)
                 PROVE  resumed'[id] = 0
      BY <1>9 DEF OffersOpen
    <2>1. CASE id \in Offers \ R
      BY <1>2, <1>10, <2>1 DEF OffersOpen
    <2>2. CASE id \in N
      BY <1>1, <1>2, <1>7, <1>12, <1>13, <2>2
    <2> QED
      BY <1>4, <2>1, <2>2
  <1>15. WaitersOpen'
    <2> SUFFICES ASSUME NEW id \in AllWaiters'
                 PROVE  id <= started /\ WaitEvent \in EventsOf(id) /\ (Simple(id) => resumed'[id] = 0)
      BY <1>9 DEF WaitersOpen
    <2>1. CASE id \in AllWaiters
      BY <1>2, <1>5, <1>11, <2>1 DEF WaitersOpen
    <2>2. CASE id \in M
      BY <1>1, <1>2, <1>5, <1>6, <1>7, <1>12, <1>13, <2>2
    <2> QED
      BY <1>5, <2>1, <2>2
  <1>16. NotOffered'
    <2> SUFFICES ASSUME NEW u \in Threads, pc'[u] \in Working
                 PROVE  /\ op[u] \notin AllWaiters'
                        /\ Simple(op[u]) => op[u] \notin Offers' /\ resumed'[op[u]] = 0
      BY <1>9 DEF NotOffered
    <2>1. (pc[u] \in Working /\ op[u] \notin N \union M) \/ u = t
      <3>1. CASE u # t
        <4>1. pc[u] \in Working
          BY <1>1, <3>1 DEF Frame
        <4>2. op[u] \in Ids /\ op[u] # 0
          BY <4>1, WorkFacts DEF Ids
        <4>3. op[u] # op[t]
          BY <3>1, <4>2 DEF Control
        <4> QED
          BY <1>1, <4>1, <4>3
      <3> QED
        BY <3>1
    <2>2. pc[u] \in Working /\ op[u] \notin M /\ (Simple(op[u]) => op[u] \notin N)
      BY <1>8, <2>1
    <2>3. op[u] \notin AllWaiters /\ (Simple(op[u]) => op[u] \notin Offers /\ resumed[op[u]] = 0)
      BY <2>2 DEF NotOffered
    <2>4. Simple(op[u]) => op[u] \notin R
      <3>1. CASE u = t
        BY <1>8, <3>1
      <3>2. CASE u # t
        <4>1. op[u] \in Ids /\ op[u] # 0
          BY <2>2, WorkFacts DEF Ids
        <4>2. op[u] # op[t]
          BY <3>2, <4>1 DEF Control
        <4> QED
          BY <1>3, <2>3, <4>2
      <3> QED
        BY <3>1, <3>2
    <2>5. op[u] \in Ids
      BY <2>2, WorkFacts
    <2> QED
      BY <1>2, <1>4, <1>5, <2>2, <2>3, <2>4, <2>5
  <1>17. OnceUnlessChoice'
    <2> SUFFICES ASSUME NEW id \in Ids, Simple(id)
                 PROVE  resumed'[id] <= 1
      BY <1>9 DEF OnceUnlessChoice
    <2>1. CASE id \in R
      BY <1>3, <2>1
    <2>2. CASE id \notin R
      BY <1>2, <2>2 DEF OnceUnlessChoice
    <2> QED
      BY <2>1, <2>2
  <1> QED
    BY <1>14, <1>15, <1>16, <1>17

LEMMA FlagsKept ==
  ASSUME Typed, Control, NotStarted, Flags, HandsFit,
         NEW t \in Threads, NEW R, NEW N, NEW M, OfferStep(t, R, N, M), FlagStep(t, R), Typed', Control'
  PROVE  NotStarted' /\ Flags'
  <1>1. /\ SameOps /\ Frame(t) /\ R \subseteq Ids
        /\ \A id \in Ids \ R : resumed'[id] = resumed[id]
        /\ \A id \in R : id <= started /\ resumed'[id] > 0
    BY DEF OfferStep
  <1>2. /\ started' = started /\ what' = what /\ op' = op
        /\ \A id : Simple(id)' <=> Simple(id)
    BY <1>1, SameEvents
  <1>3. \A id \in Ids :
       \/ state'[id] = state[id]
       \/ id \in R
       \/ state'[id] # "SYNCHED" /\ (what[id].kind = "plain" => state'[id] = "WAITING")
    BY DEF FlagStep
  <1>4. \A id \in Ids : id > started => state'[id] = state[id] /\ got'[id] = got[id]
    BY DEF FlagStep
  <1>5. NotStarted'
    <2>1. \A id \in Ids : id > started => id \notin R
      <3>1. started \in Int /\ Ids \subseteq Int
        BY CmlEventsAssumption DEF Typed, Ids
      <3> QED
        BY <1>1, <3>1
    <2> QED
      BY <1>1, <1>2, <1>4, <2>1 DEF NotStarted
  <1>6. \A id \in Ids : resumed'[id] = 0 => id \notin R /\ resumed[id] = 0
    BY <1>1
  <1>7. \A id \in Ids : Simple(id) /\ resumed'[id] = 0 => state'[id] # "SYNCHED"
    BY <1>3, <1>6 DEF Flags
  <1>8. \A id \in Ids : what[id].kind = "plain" /\ resumed'[id] = 0 => state'[id] = "WAITING"
    BY <1>3, <1>6 DEF Flags
  <1>9. \A u \in Threads : pc'[u] \in {"retry", "next"} => what[item'[u]].kind # "plain"
    <2> TAKE u \in Threads
    <2>1. CASE u = t
      BY <2>1 DEF FlagStep
    <2>2. CASE u # t
      BY <1>1, <2>2 DEF Frame, Flags
    <2> QED
      BY <2>1, <2>2
  <1>10. Flags'
    BY <1>2, <1>7, <1>8, <1>9 DEF Flags
  <1> QED
    BY <1>5, <1>10

LEMMA MatchesKept ==
  ASSUME Typed, Control, NoMatchLeft, OfferKept,
         NEW t \in Threads, NEW R, NEW N, NEW M, OfferStep(t, R, N, M)
  PROVE  NoMatchLeft' /\ OfferKept'
  <1>1. /\ SameOps /\ Frame(t)
        /\ N \subseteq {op[t]}
        /\ \A id \in Ids \ R : resumed'[id] = resumed[id]
        /\ \A id \in R : resumed'[id] > 0
    BY DEF OfferStep
  <1>2. \A id \in Offers' : Simple(id) => id \in (Offers \ R) \union N
    BY DEF OfferStep
  <1>3. \A id \in N, other \in Offers' :
       Simple(id) /\ Simple(other) => ~ Fit(id, other) /\ ~ Fit(other, id)
    BY DEF OfferStep
  <1>4. \A id \in Offers \union AllWaiters :
       what[id].kind = "plain" => id \in Offers' \union AllWaiters' \union R
    BY DEF OfferStep
  <1>5. pc'[t] = "stopped" /\ what[op[t]].kind = "plain" => op[t] \in Offers' \union AllWaiters'
    BY DEF OfferStep
  <1>6. /\ started' = started /\ what' = what /\ op' = op
        /\ \A id : Simple(id)' <=> Simple(id)
        /\ \A s, r : Fit(s, r)' <=> Fit(s, r)
    BY <1>1, SameEvents
  <1>7. NoMatchLeft'
    <2> SUFFICES ASSUME NEW s \in Offers', NEW r \in Offers', Simple(s), Simple(r)
                 PROVE  ~ Fit(s, r)
      BY <1>6 DEF NoMatchLeft
    <2>1. CASE s \in Offers /\ r \in Offers
      BY <2>1 DEF NoMatchLeft
    <2>2. CASE s \in N \/ r \in N
      BY <1>3, <2>2
    <2> QED
      BY <1>2, <2>1, <2>2
  <1>8. OfferKept'
    <2> SUFFICES ASSUME NEW u \in Threads,
                        pc'[u] = "stopped", what[op[u]].kind = "plain", resumed'[op[u]] = 0
                 PROVE  op[u] \in Offers' \union AllWaiters'
      BY <1>6 DEF OfferKept
    <2>1. CASE u = t
      BY <1>5, <2>1
    <2>2. CASE u # t
      <3>1. pc[u] = "stopped"
        BY <1>1, <2>2 DEF Frame
      <3>2. op[u] \in Ids
        BY <3>1 DEF Control, Controlled
      <3>3. op[u] \notin R /\ resumed[op[u]] = 0
        BY <1>1, <3>2
      <3> QED
        BY <1>4, <3>1, <3>3 DEF OfferKept
    <2> QED
      BY <2>1, <2>2
  <1> QED
    BY <1>7, <1>8

----------------------------------------------------------------------------
(* What a take and a put do to the queues. *)

LEMMA ItemFacts ==
  ASSUME Typed, NEW q, QueuesFit(q)
  PROVE  /\ q \in [Dirs -> [Chans -> Seq(Ids)]]
         /\ \A d \in Dirs, b \in Chans :
              /\ q[d][b] \in Seq(Ids) /\ ToSet(q[d][b]) \subseteq Items(q)
              /\ \A id \in ToSet(q[d][b]) : id \in Ids /\ id <= started /\ Event(d, b) \in EventsOf(id)
         /\ \A id \in Items(q) : id \in Ids /\ id <= started
                                 /\ \E d \in Dirs, b \in Chans : id \in ToSet(q[d][b])
  <1>1. q \in [Dirs -> [Chans -> Seq(Ids)]]
    BY DEF QueuesFit
  <1>2. ASSUME NEW d \in Dirs, NEW b \in Chans
        PROVE  /\ q[d][b] \in Seq(Ids) /\ ToSet(q[d][b]) \subseteq Ids
               /\ \A id \in ToSet(q[d][b]) : id \in Ids /\ id <= started /\ Event(d, b) \in EventsOf(id)
    <2> DEFINE s == q[d][b]
    <2>1. s \in Seq(Ids) /\ OffersOf(s, Event(d, b))
      BY <1>1 DEF QueuesFit
    <2> HIDE DEF s
    <2>2. \A id \in ToSet(s) : id \in Ids /\ id <= started /\ Event(d, b) \in EventsOf(id)
      BY <2>1 DEF OffersOf, ToSet
    <2> QED
      BY <2>1, <2>2 DEF s
  <1>3. \A d \in Dirs, b \in Chans : ToSet(q[d][b]) \subseteq Items(q)
    BY <1>2 DEF Items
  <1>4. \A id \in Items(q) : id \in Ids /\ \E d \in Dirs, b \in Chans : id \in ToSet(q[d][b])
    BY DEF Items
  <1> QED
    BY <1>1, <1>2, <1>3, <1>4

(* A simple operation's items are on the queue of its event. *)
LEMMA OneQueue ==
  ASSUME Typed, NEW q, QueuesFit(q), NEW dir \in Dirs, NEW c \in Chans, NEW id \in Items(q),
         Simple(id), Event(dir, c) \in EventsOf(id)
  PROVE  id \in ToSet(q[dir][c])
  <1>1. PICK d \in Dirs, b \in Chans : id \in ToSet(q[d][b]) /\ id \in Ids
    BY ItemFacts
  <1>2. Event(d, b) \in EventsOf(id)
    BY <1>1, ItemFacts
  <1>3. Event(d, b) = Event(dir, c)
    BY <1>1, <1>2, SimpleHasOne
  <1>4. d = dir /\ b = c
    BY <1>3, EventFacts
  <1> QED
    BY <1>1, <1>4

(* On the queues q, j is taken from queue c, or nobody is there. *)
Purge(q, dir, c, skip, j) ==
  /\ QueuesFit(q) /\ Items(q) \subseteq Queued
  /\ \A id \in Queued : id = j \/ id \in Items(q) \/ state[id] = "SYNCHED"
  /\ \/ j = None /\ \A id \in ToSet(queue[dir][c]) : id \in skip \/ state[id] = "SYNCHED"
     \/ /\ j \in Queued /\ j # None /\ j \notin skip /\ state[j] # "SYNCHED"
        /\ j \in Ids /\ j <= started /\ Event(dir, c) \in EventsOf(j)
        /\ Simple(j) => j \notin Items(q)

LEMMA Purged ==
  ASSUME Typed, QueuesFit(queue), NEW dir \in Dirs, NEW c \in Chans, NEW skip,
         NEW k, k = Take(queue[dir][c], skip),
         NEW q, Replaced(q, queue, dir, c, k.rest)
  PROVE  Purge(q, dir, c, skip, k.item)
  <1> DEFINE s == queue[dir][c]
  <1>1. s \in Seq(Ids) /\ OffersOf(s, Event(dir, c)) /\ queue \in [Dirs -> [Chans -> Seq(Ids)]]
        /\ k = Take(s, skip)
    BY DEF QueuesFit
  <1> HIDE DEF s
  <1>2. k.rest \in Seq(Ids) /\ ToSet(k.rest) \subseteq ToSet(s)
    BY <1>1, Taken
  <1>3. \A id \in ToSet(s) : id = k.item \/ id \in ToSet(k.rest) \/ state[id] = "SYNCHED"
    BY <1>1, Taken
  <1>4. \/ k.item = None /\ \A id \in ToSet(s) : id \in skip \/ state[id] = "SYNCHED"
        \/ k.item \in ToSet(s) /\ k.item # None /\ k.item \notin skip /\ state[k.item] # "SYNCHED"
    BY <1>1, Taken
  <1>5. OffersOf(k.rest, Event(dir, c)) /\ (k.item # None /\ Simple(k.item) => k.item \notin ToSet(k.rest))
    BY <1>1, Taken
  <1> HIDE DEF s
  <1> DEFINE r == k.rest
  <1>7. /\ q \in [Dirs -> [Chans -> Seq(Ids)]] /\ q[dir][c] = r
        /\ \A d \in Dirs, b \in Chans : d # dir \/ b # c => q[d][b] = queue[d][b]
    BY DEF Replaced
  <1> HIDE DEF r
  <1>9. QueuesFit(q)
    <2> SUFFICES ASSUME NEW d \in Dirs, NEW b \in Chans
                 PROVE  OffersOf(q[d][b], Event(d, b))
      BY <1>7 DEF QueuesFit
    <2>1. CASE d = dir /\ b = c
      BY <1>5, <1>7, <2>1 DEF r
    <2>2. CASE d # dir \/ b # c
      BY <1>7, <2>2 DEF QueuesFit
    <2> QED
      BY <2>1, <2>2
  <1>10. Items(q) \subseteq Queued
    <2>1. \A d \in Dirs, b \in Chans : ToSet(q[d][b]) \subseteq ToSet(queue[d][b])
      <3> TAKE d \in Dirs, b \in Chans
      <3>1. CASE d = dir /\ b = c
        BY <1>2, <1>7, <3>1 DEF r, s
      <3>2. CASE d # dir \/ b # c
        BY <1>7, <3>2
      <3> QED
        BY <3>1, <3>2
    <2> QED
      BY <2>1 DEF Items, Queued
  <1>11. ASSUME NEW id \in Queued
         PROVE  id = k.item \/ id \in Items(q) \/ state[id] = "SYNCHED"
    <2>1. PICK d \in Dirs, b \in Chans : id \in ToSet(queue[d][b]) /\ id \in Ids
      BY DEF Queued, Items
    <2>2. CASE d = dir /\ b = c
      BY <1>3, <1>7, <2>1, <2>2 DEF Items, r, s
    <2>3. CASE d # dir \/ b # c
      <3>1. id \in ToSet(q[d][b])
        BY <1>7, <2>1, <2>3
      <3> QED
        BY <2>1, <3>1 DEF Items
    <2> QED
      BY <2>2, <2>3
  <1>12. CASE k.item = None /\ \A id \in ToSet(s) : id \in skip \/ state[id] = "SYNCHED"
    BY <1>9, <1>10, <1>11, <1>12 DEF s, Purge
  <1>13. CASE k.item \in ToSet(s) /\ k.item # None /\ k.item \notin skip /\ state[k.item] # "SYNCHED"
    <2>1. k.item \in Queued /\ k.item \in Ids /\ k.item <= started /\ Event(dir, c) \in EventsOf(k.item)
      BY <1>13, ItemFacts DEF s, Queued
    <2>2. Simple(k.item) => k.item \notin Items(q)
      <3> SUFFICES ASSUME Simple(k.item), k.item \in Items(q)
                   PROVE  FALSE
        OBVIOUS
      <3>1. k.item \in ToSet(q[dir][c])
        BY <1>9, <2>1, OneQueue
      <3> QED
        BY <1>5, <1>7, <1>13, <3>1 DEF r
    <2> QED
      BY <1>9, <1>10, <1>11, <1>13, <2>1, <2>2 DEF Purge
  <1> QED
    BY <1>4, <1>12, <1>13

LEMMA Grown ==
  ASSUME Typed, NEW q, QueuesFit(q), NEW dir \in Dirs, NEW c \in Chans,
         NEW id \in Ids, id <= started, Event(dir, c) \in EventsOf(id), Simple(id) => id \notin Items(q),
         NEW r, Joins(r, q[dir][c], id),
         NEW p, Replaced(p, q, dir, c, r)
  PROVE  QueuesFit(p) /\ Items(p) = Items(q) \union {id}
  <1> DEFINE s == q[dir][c]
  <1>0. /\ p \in [Dirs -> [Chans -> Seq(Ids)]] /\ p[dir][c] = r
        /\ \A d \in Dirs, b \in Chans : d # dir \/ b # c => p[d][b] = q[d][b]
    BY DEF Replaced
  <1>1. s \in Seq(Ids) /\ OffersOf(s, Event(dir, c))
    BY DEF QueuesFit
  <1>2. Joins(r, s, id)
    OBVIOUS
  <1>3. Simple(id) => id \notin ToSet(s)
    BY ItemFacts
  <1> HIDE DEF s
  <1>4. ToSet(r) = ToSet(s) \union {id} /\ OffersOf(r, Event(dir, c))
    BY <1>1, <1>2, <1>3, Joined
  <1>5. QueuesFit(p)
    <2> SUFFICES ASSUME NEW d \in Dirs, NEW b \in Chans
                 PROVE  OffersOf(p[d][b], Event(d, b))
      BY <1>0 DEF QueuesFit
    <2>1. CASE d = dir /\ b = c
      BY <1>0, <1>4, <2>1
    <2>2. CASE d # dir \/ b # c
      <3>1. p[d][b] = q[d][b]
        BY <1>0, <2>2
      <3> QED
        BY <3>1 DEF QueuesFit
    <2> QED
      BY <2>1, <2>2
  <1>6. \A d \in Dirs, b \in Chans :
          /\ d = dir /\ b = c => ToSet(p[d][b]) = ToSet(q[d][b]) \union {id}
          /\ d # dir \/ b # c => ToSet(p[d][b]) = ToSet(q[d][b])
    <2> TAKE d \in Dirs, b \in Chans
    <2>1. CASE d = dir /\ b = c
      BY <1>0, <1>4, <2>1 DEF s
    <2>2. CASE d # dir \/ b # c
      BY <1>0, <2>2
    <2> QED
      BY <2>1, <2>2
  <1>7. Items(p) \subseteq Items(q) \union {id}
    <2> SUFFICES ASSUME NEW x \in Items(p), x # id
                 PROVE  x \in Items(q)
      OBVIOUS
    <2>1. PICK d \in Dirs, b \in Chans : x \in ToSet(p[d][b]) /\ x \in Ids
      BY DEF Items
    <2>2. x \in ToSet(q[d][b])
      <3>1. CASE d = dir /\ b = c
        BY <1>6, <2>1, <3>1
      <3>2. CASE d # dir \/ b # c
        BY <1>6, <2>1, <3>2
      <3> QED
        BY <3>1, <3>2
    <2> QED
      BY <2>1, <2>2 DEF Items
  <1>8. Items(q) \subseteq Items(p)
    BY <1>6 DEF Items
  <1>9. id \in ToSet(p[dir][c])
    BY <1>6
  <1>10. id \in Items(p)
    BY <1>9 DEF Items
  <1> QED
    BY <1>5, <1>7, <1>8, <1>10

(* A queue is purged and its opposite gets an item. *)
Exchange(p, opp, c, skip, id) ==
  /\ QueuesFit(p) /\ Items(p) \subseteq Queued \union {id} /\ id \in Items(p)
  /\ \A other \in Queued : other \in Items(p) \/ state[other] = "SYNCHED"
  /\ \A other \in ToSet(queue[opp][c]) : other \in skip \/ state[other] = "SYNCHED"

LEMMA Swapped ==
  ASSUME Typed, QueuesFit(queue), NEW dir \in Dirs, NEW opp, opp = Opposite(dir), NEW c \in Chans, NEW skip,
         NEW k, k = Take(queue[opp][c], skip), k.item = None,
         NEW id \in Ids, id <= started, Event(dir, c) \in EventsOf(id), Simple(id) => id \notin Queued,
         NEW l, l = Append(queue[dir][c], id),
         NEW p, Exchanged(p, queue, opp, dir, c, k.rest, l)
  PROVE  Exchange(p, opp, c, skip, id)
  <1> DEFINE q == [queue EXCEPT ![opp][c] = k.rest]
  <1>1. opp \in Dirs /\ opp # dir
    BY EventFacts
  <1>0. Replaced(q, queue, opp, c, k.rest)
    <2> DEFINE r == k.rest
    <2>1. queue \in [Dirs -> [Chans -> Seq(Ids)]] /\ r \in Seq(Ids)
      BY <1>1, TakenTypes DEF Typed
    <2> HIDE DEF r
    <2>2. [queue EXCEPT ![opp][c] = r] \in [Dirs -> [Chans -> Seq(Ids)]]
      BY <1>1, <2>1
    <2>3. [queue EXCEPT ![opp][c] = r][opp][c] = r
      BY <1>1, <2>1
    <2>4. \A d \in Dirs, b \in Chans : d # opp \/ b # c => [queue EXCEPT ![opp][c] = r][d][b] = queue[d][b]
      BY <1>1, <2>1
    <2> QED
      BY <2>2, <2>3, <2>4 DEF r, Replaced
  <1>2. QueuesFit(q) /\ Items(q) \subseteq Queued
        /\ (\A other \in Queued : other = k.item \/ other \in Items(q) \/ state[other] = "SYNCHED")
        /\ \/ k.item = None /\ \A other \in ToSet(queue[opp][c]) : other \in skip \/ state[other] = "SYNCHED"
           \/ k.item \in Queued /\ k.item # None
    <2> HIDE DEF q
    <2>1. Purge(q, opp, c, skip, k.item)
      BY <1>0, <1>1, Purged
    <2> QED
      BY <2>1 DEF Purge
  <1> HIDE DEF q
  <1>5. /\ p \in [Dirs -> [Chans -> Seq(Ids)]]
        /\ p[opp][c] = k.rest /\ p[dir][c] = l
        /\ \A d \in Dirs, b \in Chans : b # c => p[d][b] = queue[d][b]
    BY DEF Exchanged
  <1>6. \A d \in Dirs : d = dir \/ d = opp
    BY <1>1 DEF Dirs
  <1>7. l = Append(q[dir][c], id)
    BY <1>0, <1>1 DEF Replaced
  <1>8. Replaced(p, q, dir, c, l)
    <2>1. \A d \in Dirs, b \in Chans : d # dir \/ b # c => p[d][b] = q[d][b]
      BY <1>0, <1>1, <1>5, <1>6 DEF Replaced
    <2> QED
      BY <1>5, <2>1 DEF Replaced
  <1>9. Simple(id) => id \notin Items(q)
    BY <1>2
  <1>10. QueuesFit(p) /\ Items(p) = Items(q) \union {id}
    <2>1. Joins(l, q[dir][c], id)
      BY <1>7 DEF Joins
    <2>2. QueuesFit(q)
      BY <1>2
    <2>3. QueuesFit(p)
      BY <1>8, <1>9, <2>1, <2>2, Grown
    <2>4. Items(p) = Items(q) \union {id}
      BY <1>8, <1>9, <2>1, <2>2, Grown
    <2> QED
      BY <2>3, <2>4
  <1>11. None \notin Queued
    BY CmlEventsAssumption DEF Queued, Items
  <1> QED
    BY <1>2, <1>10, <1>11 DEF Exchange

----------------------------------------------------------------------------
(* Steps that resume nobody and make no offer. *)

LEMMA PlainEvents ==
  ASSUME NEW id \in Ids, NEW dir \in Dirs, NEW c \in Chans, PlainOp(id, dir, c)
  PROVE  /\ what[id].kind = "plain" /\ Simple(id) /\ EventsOf(id) = {Event(dir, c)}
         /\ WaitEvent \notin EventsOf(id)
  <1> DEFINE e == Event(dir, c)
  <1>1. what[id].kind = "plain" /\ what[id].evts = <<e>>
    BY DEF PlainOp, Plain
  <1>2. e # WaitEvent
    BY EventFacts
  <1> HIDE DEF e
  <1>3. Len(<<e>>) <= 1 /\ ToSet(<<e>>) = {e}
    BY DEF ToSet
  <1>4. Simple(id) /\ EventsOf(id) = {e}
    BY <1>1, <1>3 DEF Simple, EventsOf
  <1> QED
    BY <1>1, <1>2, <1>4 DEF e

LEMMA PlainOffers ==
  ASSUME Inv, NEW id \in Offers, what[id].kind = "plain"
  PROVE  id \in Ids /\ Simple(id) /\ resumed[id] = 0 /\ state[id] = "WAITING"
  <1>1. id \in Ids
    BY DEF Offers, Queued, Held, Items
  <1>2. Simple(id)
    BY <1>1, PlainIsSimple DEF Inv
  <1> QED
    BY <1>1, <1>2 DEF Inv, OffersOpen, Flags

(* What a thread has in its hands. *)
LEMMA Handled ==
  ASSUME Typed, HandsFit, NEW t \in Threads, SameOps, Frame(t),
         NEW j \in Ids \union {None}, item' = [item EXCEPT ![t] = j],
         j # None => j <= started /\ ItemEvent(t)' \in EventsOf(j),
         j # None /\ Simple(j) => j \notin Queued' /\ \A u \in Threads \ {t} : item[u] # j,
         \A id \in Queued' : Simple(id) => id \in Queued \/ \A u \in Threads \ {t} : item[u] # id
  PROVE  /\ HandsFit'
         /\ \A id \in Held' : id = j \/ (id \in Held /\ (id = item[t] => ~ Simple(id)))
         /\ \A id \in Held : id = item[t] \/ id \in Held'
         /\ j # None => j \in Held'
  <1>1. item'[t] = j /\ \A u \in Threads \ {t} : item'[u] = item[u] /\ todo'[u] = todo[u]
    BY DEF Frame, Typed
  <1>2. /\ started' = started
        /\ \A id : Simple(id)' <=> Simple(id)
        /\ \A id : EventsOf(id)' = EventsOf(id)
    BY SameEvents
  <1>3. \A u \in Threads : item'[u] # None =>
             /\ item'[u] <= started
             /\ ItemEvent(u)' \in EventsOf(item'[u])
             /\ Simple(item'[u]) => item'[u] \notin Queued'
    <2> TAKE u \in Threads
    <2>1. CASE u = t
      BY <1>1, <2>1
    <2>2. CASE u # t
      <3>1. ItemEvent(u)' = ItemEvent(u)
        BY <1>1, <2>2 DEF ItemEvent
      <3> QED
        BY <1>1, <2>2, <3>1 DEF HandsFit
    <2> QED
      BY <2>1, <2>2
  <1>4. \A u, v \in Threads : u # v /\ item'[u] = item'[v] /\ item'[u] # None => ~ Simple(item'[u])
    <2> TAKE u, v \in Threads
    <2>1. CASE u = t \/ v = t
      BY <1>1, <2>1
    <2>2. CASE u # t /\ v # t
      BY <1>1, <2>2 DEF HandsFit
    <2> QED
      BY <2>1, <2>2
  <1>5. HandsFit'
    BY <1>2, <1>3, <1>4 DEF HandsFit
  <1>6. ASSUME NEW id \in Held'
        PROVE  id = j \/ (id \in Held /\ (id = item[t] => ~ Simple(id)))
    <2>1. PICK u \in Threads : item'[u] = id /\ id \in Ids
      BY DEF Held
    <2>2. CASE u = t
      BY <1>1, <2>1, <2>2
    <2>3. CASE u # t
      BY <1>1, <2>1, <2>3, CmlEventsAssumption DEF Held, HandsFit
    <2> QED
      BY <2>2, <2>3
  <1>7. \A id \in Held : id = item[t] \/ id \in Held'
    BY <1>1 DEF Held
  <1>8. j # None => j \in Held'
    BY <1>1 DEF Held
  <1> QED
    BY <1>5, <1>6, <1>7, <1>8

LEMMA SameMessages ==
  ASSUME Typed, Messages, NEW t \in Threads, NEW R, NEW N, NEW M, OfferStep(t, R, N, M), Typed', got' = got,
         \A id \in R : WaitEvent \in EventsOf(id)
  PROVE  Messages'
  <1>1. /\ SameOps /\ R \subseteq Ids
        /\ \A id \in Ids \ R : resumed'[id] = resumed[id]
        /\ \A id \in R : resumed'[id] > 0
    BY DEF OfferStep
  <1>2. /\ started' = started /\ what' = what /\ op' = op
        /\ \A id : Simple(id)' <=> Simple(id)
        /\ \A id : EventsOf(id)' = EventsOf(id)
    BY <1>1, SameEvents
  <1>3. \A id \in Ids : \A m \in got[id] : m # None => resumed'[m] > 0
    <2> TAKE id \in Ids
    <2> TAKE m \in got[id]
    <2> HAVE m # None
    <2>1. m \in Ids /\ resumed[m] > 0
      BY DEF Typed, Messages
    <2> QED
      BY <1>1, <2>1
  <1>4. \A c \in Chans, r \in Ids :
          PlainOp(r, "recv", c) =>
            \/ resumed'[r] = 0 /\ got[r] = {}
            \/ /\ resumed'[r] = 1
               /\ \E s \in Ids : got[r] = {s} /\ Event("send", c) \in EventsOf(s)
    <2> TAKE c \in Chans, r \in Ids
    <2> HAVE PlainOp(r, "recv", c)
    <2>1. r \notin R
      BY <1>1, PlainEvents DEF Dirs
    <2> QED
      BY <1>1, <2>1 DEF Messages
  <1>5. \A s \in Ids : Simple(s)' => \A r1, r2 \in Ids : s \in got'[r1] /\ s \in got'[r2] => r1 = r2
    BY <1>2 DEF Messages
  <1>6. \A c \in Chans, r \in Ids :
          PlainOp(r, "recv", c)' =>
            \/ resumed'[r] = 0 /\ got'[r] = {}
            \/ /\ resumed'[r] = 1
               /\ \E s \in Ids : got'[r] = {s} /\ Event("send", c) \in EventsOf(s)'
    BY <1>2, <1>4 DEF PlainOp
  <1> QED
    BY <1>3, <1>5, <1>6 DEF Messages

LEMMA QuietMessages ==
  ASSUME Inv, Typed', NEW t \in Threads, NEW N, OfferStep(t, {}, N, {}), got' = got
  PROVE  Messages'
  <1>1. Typed /\ Messages /\ \A id \in {} : WaitEvent \in EventsOf(id)
    BY DEF Inv
  <1> QED
    BY <1>1, SameMessages

LEMMA StepKeeps ==
  ASSUME Inv, Typed', Control', NEW t \in Threads, NEW R, NEW N, NEW M,
         OfferStep(t, R, N, M), FlagStep(t, R),
         QueuesFit(queue'), HandsFit', WaitersApart', Messages'
  PROVE  Inv'
  <1>1. /\ Typed /\ Control /\ HandsFit /\ OffersOpen /\ WaitersOpen /\ NotOffered /\ NotStarted
        /\ OnceUnlessChoice /\ Flags /\ NoMatchLeft /\ OfferKept
    BY DEF Inv
  <1>2. QueuesFit(queue)'
    BY SameEvents DEF OfferStep, QueuesFit, OffersOf
  <1>3. OffersOpen' /\ WaitersOpen' /\ NotOffered' /\ OnceUnlessChoice'
    BY <1>1, OffersKept
  <1>4. NotStarted' /\ Flags'
    BY <1>1, FlagsKept
  <1>5. NoMatchLeft' /\ OfferKept'
    BY <1>1, MatchesKept
  <1> QED
    BY <1>2, <1>3, <1>4, <1>5 DEF Inv

LEMMA SameWaiters ==
  ASSUME Inv, UNCHANGED <<waiting, toWake>>
  PROVE  AllWaiters' = AllWaiters /\ WaitersApart'
  BY DEF AllWaiters, WaitersApart, IsInjective, Inv

LEMMA QuietKeeps ==
  ASSUME Inv, Typed', Control', NEW t \in Threads, SameOps, Frame(t),
         UNCHANGED <<waiting, toWake, resumed, got>>,
         pc[t] \in Working, pc'[t] \in Working,
         QueuesFit(queue'), HandsFit',
         \A id \in Offers' : Simple(id) => id \in Offers,
         \A id \in Offers : what[id].kind = "plain" => id \in Offers',
         FlagStep(t, {})
  PROVE  Inv'
  <1>1. AllWaiters' = AllWaiters /\ WaitersApart'
    BY DEF AllWaiters, WaitersApart, IsInjective, Inv
  <1>2. pc'[t] # "stopped"
    BY DEF Working, Synching
  <1>3. OfferStep(t, {}, {}, {})
    BY <1>1, <1>2 DEF OfferStep
  <1>4. Messages'
    BY <1>3, SameMessages DEF Inv
  <1> QED
    BY <1>1, <1>3, <1>4, StepKeeps

(* Neither a queue nor a hand is changed. *)
LEMMA SameOffers ==
  ASSUME Inv, NEW t \in Threads, SameOps, Frame(t), UNCHANGED <<queue, item>>, todo'[t] = todo[t] \/ item[t] = None
  PROVE  QueuesFit(queue') /\ HandsFit' /\ Queued' = Queued /\ Offers' = Offers
  <1>1. Typed /\ HandsFit /\ QueuesFit(queue)
    BY DEF Inv
  <1>2. Queued' = Queued /\ Held' = Held
    BY DEF Queued, Items, Held
  <1>3. /\ started' = started
        /\ \A id : Simple(id)' <=> Simple(id)
        /\ \A id : EventsOf(id)' = EventsOf(id)
    BY SameEvents
  <1>4. \A u \in Threads : item[u] # None => ItemEvent(u)' = ItemEvent(u)
    BY DEF Frame, ItemEvent
  <1>5. HandsFit'
    BY <1>1, <1>2, <1>3, <1>4 DEF HandsFit
  <1>6. QueuesFit(queue')
    BY <1>1
  <1> QED
    BY <1>2, <1>5, <1>6 DEF Offers

LEMMA PollKeeps ==
  ASSUME Inv, NEW t \in Threads, Poll(t)
  PROVE  Inv'
  <1>1. Typed /\ Control
    BY DEF Inv
  <1>2. Typed' /\ Control'
    BY <1>1, PollTypes
  <1>3. /\ pc[t] = "poll" /\ SameOps
        /\ UNCHANGED <<chans, flagVars, cvar, resumed, got>>
        /\ (\E s : DoEvents(t, s)) \/ (/\ \E s : enabled' = [enabled EXCEPT ![t] = s]
                                       /\ todo' = [todo EXCEPT ![t] = Tail(@)] /\ UNCHANGED pc)
    BY DEF Poll, SameOps
  <1>4. UNCHANGED <<queue, item, waiting, toWake, state>>
    BY <1>3 DEF chans, cvar, flagVars
  <1>5. Frame(t) /\ pc'[t] \in {"try", "block", "poll"}
    <2>1. CASE \E s : DoEvents(t, s)
      BY <1>1, <1>3, <1>4, <2>1 DEF DoEvents, GoTo, Frame, Typed, SameOps
    <2>2. CASE /\ \E s : enabled' = [enabled EXCEPT ![t] = s]
               /\ todo' = [todo EXCEPT ![t] = Tail(@)] /\ UNCHANGED pc
      BY <1>1, <1>3, <1>4, <2>2 DEF Frame, Typed, SameOps
    <2> QED
      BY <1>3, <2>1, <2>2
  <1>6. item[t] = None /\ pc[t] \in Working /\ pc'[t] \in Working
    BY <1>1, <1>3, <1>5 DEF Control, Controlled, Holding, Working, Synching
  <1>7. QueuesFit(queue') /\ HandsFit' /\ Offers' = Offers
    BY <1>3, <1>4, <1>5, <1>6, SameOffers
  <1>8. FlagStep(t, {})
    BY <1>3, <1>4, <1>5 DEF FlagStep
  <1> QED
    BY <1>2, <1>3, <1>4, <1>5, <1>6, <1>7, <1>8, QuietKeeps

LEMMA ClaimKeeps ==
  ASSUME Inv, NEW t \in Threads, Claim(t)
  PROVE  Inv'
  <1>1. Typed /\ Control
    BY DEF Inv
  <1>2. Typed' /\ Control'
    BY <1>1, ClaimTypes
  <1>3. /\ pc[t] = "claim" /\ GoTo(t, "match") /\ SameOps
        /\ state' = [state EXCEPT ![op[t]] = "CLAIMED"] \/ UNCHANGED state
        /\ UNCHANGED <<todo, enabled, queue, item, waiting, toWake, resumed, got>>
    BY DEF Claim, SameOps, chans, cvar
  <1>4. Frame(t) /\ pc'[t] = "match"
    BY <1>1, <1>3 DEF GoTo, Frame, Typed, SameOps
  <1>5. pc[t] \in Working /\ pc'[t] \in Working /\ pc[t] \in Synching \ {"poll"}
    BY <1>3, <1>4 DEF Working, Synching
  <1>6. QueuesFit(queue') /\ HandsFit' /\ Offers' = Offers
    BY <1>3, <1>4, SameOffers
  <1>7. op[t] \in Ids /\ op[t] <= started /\ what[op[t]].kind = "sync"
    BY <1>1, <1>5, SynchFacts, WorkFacts
  <1>8. \A id \in Ids : id # op[t] => state'[id] = state[id]
    BY <1>1, <1>3 DEF Typed
  <1>9. state'[op[t]] = state[op[t]] \/ state'[op[t]] = "CLAIMED"
    BY <1>1, <1>3, <1>7 DEF Typed
  <1>10. started \in Int /\ Ids \subseteq Int
    BY <1>1, CmlEventsAssumption DEF Typed, Ids
  <1>11. FlagStep(t, {})
    BY <1>3, <1>4, <1>7, <1>8, <1>9, <1>10 DEF FlagStep
  <1> QED
    BY <1>2, <1>3, <1>4, <1>5, <1>6, <1>11, QuietKeeps

(* An item that is given up is not that of a plain operation. *)
LEMMA MatchFailsKeeps ==
  ASSUME Inv, NEW t \in Threads, MatchFails(t)
  PROVE  Inv'
  <1>1. Typed /\ Control
    BY DEF Inv
  <1>2. Typed' /\ Control'
    BY <1>1, MatchFailsTypes
  <1>3. /\ pc[t] = "match" /\ (GoTo(t, "retry") \/ GoTo(t, "next")) /\ SameOps
        /\ state[item[t]] # "WAITING"
        /\ UNCHANGED <<todo, enabled, queue, item, waiting, toWake, state, resumed, got>>
    BY DEF MatchFails, SameOps, chans, cvar, flagVars
  <1>4. Frame(t) /\ pc'[t] \in {"retry", "next"}
    BY <1>1, <1>3 DEF GoTo, Frame, Typed, SameOps
  <1>5. pc[t] \in Working /\ pc'[t] \in Working /\ pc[t] \in Holding
    BY <1>3, <1>4 DEF Working, Synching, Holding
  <1>6. QueuesFit(queue') /\ HandsFit' /\ Offers' = Offers
    BY <1>3, <1>4, SameOffers
  <1>7. item[t] \in Offers
    BY <1>1, <1>5, HoldFacts DEF Offers, Held
  <1>8. what[item[t]].kind # "plain"
    BY <1>3, <1>7, PlainOffers
  <1>9. FlagStep(t, {})
    BY <1>3, <1>8 DEF FlagStep
  <1> QED
    BY <1>2, <1>3, <1>4, <1>5, <1>6, <1>9, QuietKeeps

(* A thread gives up its item, which is not that of a plain operation. *)
LEMMA Dropped ==
  ASSUME Inv, NEW t \in Threads, SameOps, Frame(t), UNCHANGED queue,
         item' = [item EXCEPT ![t] = None], what[item[t]].kind # "plain"
  PROVE  /\ QueuesFit(queue') /\ HandsFit' /\ \A id \in Offers' : id \in Offers
         /\ \A id \in Offers : what[id].kind = "plain" => id \in Offers'
  <1>1. Typed /\ HandsFit /\ QueuesFit(queue)
    BY DEF Inv
  <1>2. Queued' = Queued
    BY DEF Queued, Items
  <1>3. /\ HandsFit'
        /\ \A id \in Held' : id = None \/ id \in Held
        /\ \A id \in Held : id = item[t] \/ id \in Held'
    BY <1>1, <1>2, Handled
  <1>4. \A id \in Held' : id # None
    BY CmlEventsAssumption DEF Held
  <1> QED
    BY <1>1, <1>2, <1>3, <1>4 DEF Offers

LEMMA RollBackKeeps ==
  ASSUME Inv, NEW t \in Threads, RollBack(t)
  PROVE  Inv'
  <1>1. Typed /\ Control
    BY DEF Inv
  <1>2. Typed' /\ Control'
    BY <1>1, RollBackTypes
  <1>3. /\ pc[t] \in {"retry", "next"} /\ SameOps
        /\ state' = [state EXCEPT ![item[t]] = "WAITING"]
        /\ \/ GoTo(t, "claim") /\ UNCHANGED item
           \/ GoTo(t, "block") /\ item' = [item EXCEPT ![t] = None]
        /\ UNCHANGED <<todo, enabled, queue, waiting, toWake, resumed, got>>
    BY DEF RollBack, SameOps, chans, cvar
  <1>4. Frame(t) /\ pc'[t] \in {"claim", "block"}
    BY <1>1, <1>3 DEF GoTo, Frame, Typed, SameOps
  <1>5. pc[t] \in Working /\ pc'[t] \in Working /\ pc[t] \in Holding
    BY <1>3, <1>4 DEF Working, Synching, Holding
  <1>6. what[item[t]].kind # "plain"
    BY <1>3 DEF Inv, Flags
  <1>7. /\ QueuesFit(queue') /\ HandsFit' /\ \A id \in Offers' : id \in Offers
        /\ \A id \in Offers : what[id].kind = "plain" => id \in Offers'
    <2>1. CASE UNCHANGED item
      BY <1>3, <1>4, <2>1, SameOffers
    <2>2. CASE item' = [item EXCEPT ![t] = None]
      BY <1>3, <1>4, <1>6, <2>2, Dropped
    <2> QED
      BY <1>3, <2>1, <2>2
  <1>8. item[t] \in Ids /\ item[t] <= started /\ item[t] # None
    BY <1>1, <1>5, HoldFacts DEF Inv, HandsFit
  <1>9. \A id \in Ids : id # item[t] => state'[id] = state[id]
    BY <1>1, <1>3 DEF Typed
  <1>10. state'[item[t]] = "WAITING"
    BY <1>1, <1>3, <1>8 DEF Typed
  <1>11. started \in Int /\ Ids \subseteq Int
    BY <1>1, CmlEventsAssumption DEF Typed, Ids
  <1>12. FlagStep(t, {})
    BY <1>3, <1>4, <1>8, <1>9, <1>10, <1>11 DEF FlagStep
  <1> QED
    BY <1>2, <1>3, <1>4, <1>5, <1>7, <1>12, QuietKeeps

(* A thread that goes on has a queue purged, and the item found in its hands. *)
LEMMA TakeKeeps ==
  ASSUME Inv, Typed', Control', NEW t \in Threads, SameOps, Frame(t),
         UNCHANGED <<waiting, toWake, state, resumed, got>>,
         pc[t] \in Working \ Holding, pc'[t] \in Working \ {"retry", "next"},
         NEW e \in ChanEvents, NEW d \in Dirs, d = Opposite(e.dir), NEW skip,
         NEW k, k = Take(queue[d][e.ch], skip), SetQueue(d, e.ch, k.rest),
         item' = [item EXCEPT ![t] = k.item],
         k.item # None => Head(todo'[t]) = e
  PROVE  Inv'
  <1>1. Typed /\ Control /\ HandsFit /\ QueuesFit(queue)
    BY DEF Inv
  <1>2. e.ch \in Chans /\ e.dir \in Dirs
    BY EventFacts
  <1> DEFINE q == queue'
  <1>3. Replaced(q, queue, d, e.ch, k.rest)
    BY <1>1, <1>2, TakenTypes, QueueSet
  <1>4. /\ QueuesFit(q) /\ Items(q) \subseteq Queued
        /\ \A id \in Queued : id = k.item \/ id \in Items(q) \/ state[id] = "SYNCHED"
        /\ \/ k.item = None
           \/ /\ k.item \in Queued /\ k.item \in Ids /\ k.item <= started
              /\ Event(d, e.ch) \in EventsOf(k.item)
              /\ Simple(k.item) => k.item \notin Items(q)
    <2> HIDE DEF q
    <2>1. Purge(q, d, e.ch, skip, k.item)
      BY <1>1, <1>2, <1>3, Purged
    <2> QED
      BY <2>1 DEF Purge
  <1>5. Queued' = Items(q)
    BY DEF Queued
  <1>6. ItemEvent(t)' = Event(d, e.ch) \/ k.item = None
    BY DEF ItemEvent
  <1>7. item[t] = None
    BY <1>1 DEF Control, Controlled
  <1> HIDE DEF q
  <1>8. k.item # None /\ Simple(k.item) => k.item \notin Queued' /\ \A u \in Threads \ {t} : item[u] # k.item
    BY <1>1, <1>4, <1>5 DEF HandsFit
  <1>9. k.item # None => k.item <= started /\ ItemEvent(t)' \in EventsOf(k.item)
    BY <1>4, <1>6
  <1>10. k.item \in Ids \union {None} /\ \A id \in Queued' : id \in Queued
    BY <1>4, <1>5
  <1>11. /\ HandsFit'
         /\ \A id \in Held' : id = k.item \/ id \in Held
         /\ \A id \in Held : id = item[t] \/ id \in Held'
         /\ k.item # None => k.item \in Held'
    BY <1>1, <1>8, <1>9, <1>10, Handled
  <1>12. None \notin Held /\ None \notin Held'
    BY CmlEventsAssumption DEF Held
  <1>13. \A id \in Offers' : id \in Offers
    BY <1>4, <1>10, <1>11, <1>12 DEF Offers
  <1>14. \A id \in Offers : what[id].kind = "plain" => id \in Offers'
    <2> TAKE id \in Offers
    <2> HAVE what[id].kind = "plain"
    <2>1. state[id] # "SYNCHED" /\ id \in Ids
      BY PlainOffers
    <2>2. CASE id \in Held
      BY <1>7, <1>11, <1>12, <2>2 DEF Offers
    <2>3. CASE id \in Queued
      BY <1>4, <1>5, <1>11, <2>1, <2>3, CmlEventsAssumption DEF Offers
    <2> QED
      BY <2>2, <2>3 DEF Offers
  <1>15. FlagStep(t, {})
    BY DEF FlagStep
  <1>16. QueuesFit(queue')
    BY <1>4 DEF q
  <1> QED
    BY <1>11, <1>13, <1>14, <1>15, <1>16, QuietKeeps

LEMMA BlockTakeKeeps ==
  ASSUME Inv, NEW t \in Threads, NEW e \in ChanEvents, BlockTake(t, e)
  PROVE  Inv'
  <1> DEFINE d == Opposite(e.dir)
             k == Take(queue[d][e.ch], OwnItems(t))
  <1>1. Typed /\ Control
    BY DEF Inv
  <1>2. Typed' /\ Control'
    BY <1>1, BlockTakeTypes
  <1>3. /\ pc[t] = "block" /\ e = Head(todo[t])
        /\ SetQueue(d, e.ch, k.rest)
        /\ item' = [item EXCEPT ![t] = k.item] /\ GoTo(t, "claim") /\ SameOps
        /\ UNCHANGED <<todo, enabled, waiting, toWake, state, resumed, got>>
    BY DEF BlockTake, Blocking, SameOps, cvar
  <1>4. d \in Dirs /\ d = Opposite(e.dir) /\ k = Take(queue[d][e.ch], OwnItems(t))
    BY EventFacts
  <1> HIDE DEF d, k
  <1>5. Frame(t) /\ pc'[t] = "claim"
    BY <1>1, <1>3 DEF GoTo, Frame, Typed, SameOps
  <1>6. pc[t] \in Working \ Holding /\ pc'[t] \in Working \ {"retry", "next"}
    BY <1>3, <1>5 DEF Working, Synching, Holding
  <1>7. k.item # None => Head(todo'[t]) = e
    BY <1>3
  <1> QED
    BY <1>2, <1>3, <1>4, <1>5, <1>6, <1>7, TakeKeeps

----------------------------------------------------------------------------
(* Meetings. *)

LEMMA SimpleEvents ==
  ASSUME Typed, NEW id \in Ids, Simple(id), NEW e \in ChanEvents, e \in EventsOf(id)
  PROVE  WaitEvent \notin EventsOf(id) /\ \A d \in EventsOf(id) : d = e
  <1>1. \A d \in EventsOf(id) : d = e
    BY SimpleHasOne
  <1> QED
    BY <1>1, EventFacts

(* The item that a thread meets. *)
Meeting(t, e, j, m) ==
  /\ e \in ChanEvents /\ e \in EventsOf(op[t])
  /\ j \in Offers /\ j <= started /\ Event(Opposite(e.dir), e.ch) \in EventsOf(j)
  /\ m \in Ids \union {None} /\ Meet(t, j, e.dir, m)
  /\ m = Message(t, j, e.dir) \/ (e.dir = "recv" /\ m = None /\ what[op[t]].kind # "plain")

LEMMA MeetingFacts ==
  ASSUME Inv, NEW t \in Threads, pc[t] \in Working, NEW e, NEW j, NEW m, Meeting(t, e, j, m)
  PROVE  /\ op[t] \in Ids /\ j \in Ids /\ e.dir \in Dirs /\ e.ch \in Chans /\ Opposite(e.dir) \in Dirs
         /\ op[t] <= started /\ j <= started
         /\ Simple(op[t]) => resumed[op[t]] = 0 /\ resumed'[op[t]] = 1 /\ op[t] # j /\ op[t] \notin Offers
         /\ Simple(j) => resumed[j] = 0 /\ resumed'[j] = 1 /\ op[t] # j
         /\ state' = [state EXCEPT ![j] = "SYNCHED"]
         /\ \A id \in Ids : /\ id \notin {op[t], j} => resumed'[id] = resumed[id]
                            /\ id \in {op[t], j} => resumed'[id] > 0
         /\ Gets(Receiver(t, j, e.dir), m)
  <1>1. Typed /\ Control
    BY DEF Inv
  <1>2. op[t] \in Ids /\ op[t] <= started
    BY <1>1, WorkFacts
  <1>3. /\ e \in ChanEvents /\ j \in Offers /\ j <= started
        /\ m \in Ids \union {None} /\ Meet(t, j, e.dir, m)
    BY DEF Meeting
  <1>4. j \in Ids
    BY <1>3 DEF Offers, Queued, Held, Items
  <1>5. e.dir \in Dirs /\ e.ch \in Chans /\ Opposite(e.dir) \in Dirs
    BY <1>3, EventFacts
  <1>6. Simple(op[t]) => resumed[op[t]] = 0 /\ op[t] \notin Offers
    BY DEF Inv, NotOffered
  <1>7. Simple(j) => resumed[j] = 0
    BY <1>3 DEF Inv, OffersOpen
  <1>8. Simple(op[t]) \/ Simple(j) => op[t] # j
    BY <1>3, <1>6
  <1> DEFINE to == Receiver(t, j, e.dir)
  <1>9. state' = [state EXCEPT ![j] = "SYNCHED"]
    BY <1>3 DEF Meet
  <1>10. \A id \in Ids : /\ resumed[id] \in 0..2 /\ resumed'[id] >= resumed[id]
                         /\ id # op[t] /\ id # j => resumed'[id] = resumed[id]
                         /\ id \in {op[t], j} => resumed'[id] > 0
                         /\ op[t] # j /\ id \in {op[t], j} /\ resumed[id] = 0 => resumed'[id] = 1
    BY <1>1, <1>2, <1>3, <1>4, <1>5, Met
  <1>11. Gets(to, m)
    BY <1>1, <1>2, <1>3, <1>4, <1>5, Met
  <1> QED
    BY <1>2, <1>3, <1>4, <1>5, <1>6, <1>7, <1>8, <1>9, <1>10, <1>11

LEMMA MeetingMessages ==
  ASSUME Inv, NEW t \in Threads, pc[t] \in Working, NEW e, NEW j, NEW m, Meeting(t, e, j, m), SameOps, Typed'
  PROVE  Messages'
  <1> DEFINE to == Receiver(t, j, e.dir)
  <1>1. /\ op[t] \in Ids /\ j \in Ids /\ e.dir \in Dirs /\ e.ch \in Chans /\ Opposite(e.dir) \in Dirs
        /\ Simple(op[t]) => resumed[op[t]] = 0 /\ resumed'[op[t]] = 1 /\ op[t] # j /\ op[t] \notin Offers
        /\ Simple(j) => resumed[j] = 0 /\ resumed'[j] = 1 /\ op[t] # j
        /\ \A id \in Ids : /\ id \notin {op[t], j} => resumed'[id] = resumed[id]
                           /\ id \in {op[t], j} => resumed'[id] > 0
    BY MeetingFacts
  <1>2. \A id \in Ids : /\ id = to => got'[id] = got[id] \union {m}
                        /\ id # to => got'[id] = got[id]
    BY MeetingFacts DEF Gets
  <1>3. /\ started' = started /\ what' = what /\ op' = op
        /\ \A id : Simple(id)' <=> Simple(id)
        /\ \A id : EventsOf(id)' = EventsOf(id)
    BY SameEvents
  <1>4. /\ e \in ChanEvents /\ e \in EventsOf(op[t])
        /\ Event(Opposite(e.dir), e.ch) \in EventsOf(j)
        /\ m \in Ids \union {None}
        /\ m = Message(t, j, e.dir) \/ (e.dir = "recv" /\ m = None /\ what[op[t]].kind # "plain")
    BY DEF Meeting
  <1>5. m # None => m \in {op[t], j}
    BY <1>4 DEF Message
  <1>6. Typed /\ Messages /\ None \notin Ids
    BY CmlEventsAssumption DEF Inv
  <1>7. \A id \in Ids : got[id] \subseteq Ids \union {None}
    BY <1>6 DEF Typed
  <1> HIDE DEF to
  <1>8. ASSUME NEW id \in Ids, NEW s \in got'[id], s # None
        PROVE  resumed'[s] > 0
    <2>1. s \in got[id] \/ s = m
      BY <1>2
    <2>2. CASE s = m
      BY <1>1, <1>5, <1>8, <2>2
    <2>3. CASE s \in got[id]
      <3>1. s \in Ids /\ resumed[s] > 0
        BY <1>6, <1>7, <1>8, <2>3 DEF Messages
      <3> QED
        BY <1>1, <3>1
    <2> QED
      BY <2>1, <2>2, <2>3
  <1>9. ASSUME NEW s \in Ids, Simple(s), NEW r1 \in Ids, NEW r2 \in Ids, s \in got'[r1], s \in got'[r2]
        PROVE  r1 = r2
    <2>1. CASE s = m
      <3>1. resumed[s] = 0
        BY <1>1, <1>5, <1>6, <1>9, <2>1
      <3>2. s \notin got[r1] /\ s \notin got[r2]
        BY <1>6, <1>9, <3>1 DEF Messages
      <3> QED
        BY <1>2, <1>9, <3>2
    <2>2. CASE s # m
      <3>1. s \in got[r1] /\ s \in got[r2]
        BY <1>2, <1>9, <2>2
      <3> QED
        BY <1>6, <1>9, <3>1 DEF Messages
    <2> QED
      BY <2>1, <2>2
  <1>10. ASSUME NEW c \in Chans, NEW r \in Ids, PlainOp(r, "recv", c)
         PROVE  \/ resumed'[r] = 0 /\ got'[r] = {}
                \/ /\ resumed'[r] = 1
                   /\ \E s \in Ids : got'[r] = {s} /\ Event("send", c) \in EventsOf(s)
    <2>1. what[r].kind = "plain" /\ Simple(r) /\ EventsOf(r) = {Event("recv", c)}
      BY <1>10, PlainEvents DEF Dirs
    <2>2. \/ resumed[r] = 0 /\ got[r] = {}
          \/ /\ resumed[r] = 1
             /\ \E s \in Ids : got[r] = {s} /\ Event("send", c) \in EventsOf(s)
      BY <1>6, <1>10 DEF Messages
    <2>3. e = Event(e.dir, e.ch)
      BY <1>4, EventFacts
    <2>4. CASE r \notin {op[t], j}
      <3>1. resumed'[r] = resumed[r] /\ got'[r] = got[r]
        BY <1>1, <1>2, <2>4 DEF to, Receiver
      <3> QED
        BY <2>2, <3>1
    <2>5. CASE r = op[t]
      <3>1. e = Event("recv", c)
        BY <1>4, <2>1, <2>5
      <3>2. e.dir = "recv" /\ e.ch = c
        BY <1>1, <2>3, <3>1, EventFacts DEF Dirs
      <3>3. m = j
        BY <1>4, <2>1, <2>5, <3>2 DEF Message
      <3>4. Event("send", c) \in EventsOf(j)
        BY <1>4, <3>2 DEF Opposite
      <3>5. got[r] = {} /\ resumed'[r] = 1
        BY <1>1, <2>1, <2>2, <2>5
      <3>6. got'[r] = {j}
        BY <1>2, <2>5, <3>2, <3>3, <3>5 DEF to, Receiver
      <3> QED
        BY <1>1, <3>4, <3>5, <3>6
    <2>6. CASE r = j
      <3>1. Event(Opposite(e.dir), e.ch) = Event("recv", c)
        BY <1>4, <2>1, <2>6
      <3>2. Opposite(e.dir) = "recv" /\ e.ch = c
        BY <1>1, <3>1, EventFacts DEF Dirs
      <3>3. e.dir = "send"
        BY <1>1, <3>2 DEF Opposite, Dirs
      <3>4. m = op[t]
        BY <1>4, <3>3 DEF Message
      <3>5. got[r] = {} /\ resumed'[r] = 1
        BY <1>1, <2>1, <2>2, <2>6
      <3>6. got'[r] = {op[t]}
        BY <1>2, <2>6, <3>3, <3>4, <3>5 DEF to, Receiver
      <3>7. Event("send", c) \in EventsOf(op[t])
        BY <1>4, <2>3, <3>2, <3>3
      <3> QED
        BY <1>1, <3>5, <3>6, <3>7
    <2> QED
      BY <2>4, <2>5, <2>6
  <1>11. \A s \in Ids : Simple(s)' => \A r1, r2 \in Ids : s \in got'[r1] /\ s \in got'[r2] => r1 = r2
    BY <1>3, <1>9
  <1>12. \A c \in Chans, r \in Ids :
          PlainOp(r, "recv", c)' =>
            \/ resumed'[r] = 0 /\ got'[r] = {}
            \/ /\ resumed'[r] = 1
               /\ \E s \in Ids : got'[r] = {s} /\ Event("send", c) \in EventsOf(s)'
    BY <1>3, <1>10 DEF PlainOp
  <1> QED
    BY <1>8, <1>11, <1>12 DEF Messages

LEMMA MeetingKeeps ==
  ASSUME Inv, Typed', Control', NEW t \in Threads, SameOps, Frame(t), UNCHANGED <<waiting, toWake>>,
         pc[t] \in Working, pc'[t] = "run",
         NEW e, NEW j, NEW m, Meeting(t, e, j, m),
         QueuesFit(queue'), HandsFit',
         \A id \in Offers' : id \in Offers /\ (Simple(j) => id # j),
         \A id \in Offers : what[id].kind = "plain" => id \in Offers' \/ id = j
  PROVE  Inv'
  <1> DEFINE R == {op[t], j}
  <1>1. /\ op[t] \in Ids /\ j \in Ids /\ e.dir \in Dirs /\ e.ch \in Chans /\ Opposite(e.dir) \in Dirs
        /\ op[t] <= started /\ j <= started
        /\ Simple(op[t]) => resumed[op[t]] = 0 /\ resumed'[op[t]] = 1 /\ op[t] # j /\ op[t] \notin Offers
        /\ Simple(j) => resumed[j] = 0 /\ resumed'[j] = 1 /\ op[t] # j
        /\ state' = [state EXCEPT ![j] = "SYNCHED"]
        /\ \A id \in Ids : /\ id \notin R => resumed'[id] = resumed[id]
                           /\ id \in R => resumed'[id] > 0
    BY MeetingFacts
  <1>2. \A id \in Ids : id \notin R => got'[id] = got[id]
    <2>1. Gets(Receiver(t, j, e.dir), m)
      BY MeetingFacts
    <2> QED
      BY <2>1 DEF Receiver, Gets
  <1>3. Typed /\ Control
    BY DEF Inv
  <1>4. AllWaiters' = AllWaiters /\ WaitersApart'
    BY DEF AllWaiters, WaitersApart, IsInjective, Inv
  <1>5. j \in Offers /\ Event(Opposite(e.dir), e.ch) \in EventsOf(j)
    BY DEF Meeting
  <1>6. \A id \in AllWaiters : Simple(id) => id \notin R
    <2>1. op[t] \notin AllWaiters
      BY DEF Inv, NotOffered
    <2>2. Simple(j) => WaitEvent \notin EventsOf(j)
      BY <1>1, <1>3, <1>5, SimpleEvents, EventFacts
    <2> QED
      BY <2>1, <2>2 DEF Inv, WaitersOpen
  <1>7. "run" \notin Working
    BY DEF Working, Synching
  <1>8. \A id \in R : id <= started /\ resumed'[id] > 0
                      /\ (Simple(id) => resumed'[id] = 1 /\ id \in {op[t]} \union Offers \union AllWaiters)
    BY <1>1, <1>5
  <1>9. \A id \in Offers' : Simple(id) => id \in Offers \ R
    BY <1>1
  <1>10. R \subseteq Ids /\ \A id \in Ids \ R : resumed'[id] = resumed[id]
    BY <1>1
  <1>11. \A id \in Offers \union AllWaiters :
           what[id].kind = "plain" => id \in Offers' \union AllWaiters' \union R
    BY <1>4
  <1>12. \A id \in AllWaiters' : id \in AllWaiters /\ (Simple(id) => id \notin R)
    BY <1>4, <1>6
  <1>13. started \in Int /\ Ids \subseteq Int
    BY <1>3, CmlEventsAssumption DEF Typed, Ids
  <1>14. \A id \in Ids : id # j => state'[id] = state[id]
    BY <1>1, <1>3 DEF Typed
  <1>15. \A id \in Ids : id > started => state'[id] = state[id] /\ got'[id] = got[id]
    <2>1. \A id \in Ids : id > started => id \notin R
      BY <1>1, <1>13
    <2> QED
      BY <1>2, <1>14, <2>1
  <1>16. \A id \in Ids : state'[id] = state[id] \/ id \in R
    BY <1>14
  <1> HIDE DEF R
  <1>17. OfferStep(t, R, {}, {})
    BY <1>7, <1>8, <1>9, <1>10, <1>11, <1>12 DEF OfferStep
  <1>18. FlagStep(t, R)
    BY <1>15, <1>16 DEF FlagStep
  <1>19. Messages'
    BY MeetingMessages
  <1> QED
    BY <1>4, <1>17, <1>18, <1>19, StepKeeps

LEMMA FinishFrame ==
  ASSUME Typed, NEW t \in Threads, NEW where, Finish(t, where), SameOps, toWake' = toWake
  PROVE  Frame(t) /\ pc'[t] = where /\ item' = [item EXCEPT ![t] = None]
  BY DEF Finish, GoTo, Frame, Typed, SameOps

(* The partner comes from a queue. *)
LEMMA TryKeeps ==
  ASSUME Inv, NEW t \in Threads, NEW e \in ChanEvents, Try(t, e)
  PROVE  Inv'
  <1> DEFINE d == Opposite(e.dir)
             k == Take(queue[d][e.ch], {})
             j == k.item
             m == Message(t, j, e.dir)
  <1>1. Typed /\ Control /\ HandsFit /\ QueuesFit(queue)
    BY DEF Inv
  <1>2. Typed' /\ Control'
    BY <1>1, TryTypes
  <1>3. /\ pc[t] = "try" /\ e = Head(todo[t]) /\ j # None
        /\ SetQueue(d, e.ch, k.rest)
        /\ \/ Meet(t, j, e.dir, m) /\ Finish(t, "run")
           \/ /\ item' = [item EXCEPT ![t] = j] /\ GoTo(t, "spin")
              /\ UNCHANGED <<todo, enabled, state, resumed, got>>
        /\ SameOps /\ UNCHANGED <<waiting, toWake>>
    BY DEF Try, Trying, MeetNow, Matched, SameOps, cvar
  <1>4. /\ d \in Dirs /\ d = Opposite(e.dir) /\ k = Take(queue[d][e.ch], {}) /\ e.ch \in Chans
        /\ j = k.item
    BY EventFacts
  <1>5. pc[t] \in Working \ Holding /\ item[t] = None
    BY <1>1, <1>3 DEF Working, Synching, Holding, Control, Controlled
  <1>6. op[t] \in Ids /\ e \in EventsOf(op[t])
    BY <1>1, <1>3, <1>5, WorkFacts
  <1>7. m = Message(t, j, e.dir) /\ (m = op[t] \/ m = j)
    BY DEF Message
  <1> DEFINE q == queue'
  <1>8. Replaced(q, queue, d, e.ch, k.rest)
    BY <1>1, <1>3, <1>4, TakenTypes, QueueSet
  <1> HIDE DEF d, k, j, m
  <1>9. CASE Meet(t, j, e.dir, m) /\ Finish(t, "run")
    <2>1. Purge(q, d, e.ch, {}, j)
      <3> HIDE DEF q
      <3>1. Purge(q, d, e.ch, {}, k.item)
        BY <1>1, <1>4, <1>8, Purged
      <3> QED
        BY <1>4, <3>1
    <2>2. /\ QueuesFit(q) /\ Items(q) \subseteq Queued
          /\ \A id \in Queued : id = j \/ id \in Items(q) \/ state[id] = "SYNCHED"
          /\ j \in Queued /\ j \in Ids /\ j <= started /\ Event(d, e.ch) \in EventsOf(j)
          /\ Simple(j) => j \notin Items(q)
      BY <1>3, <2>1 DEF Purge
    <2>3. Queued' = Items(q)
      BY DEF Queued
    <2>4. Frame(t) /\ pc'[t] = "run" /\ item' = [item EXCEPT ![t] = None]
      BY <1>1, <1>3, <1>9, FinishFrame
    <2>5. QueuesFit(queue')
      BY <2>2
    <2> HIDE DEF q
    <2>6. /\ HandsFit'
          /\ \A id \in Held' : id = None \/ id \in Held
          /\ \A id \in Held : id = item[t] \/ id \in Held'
      BY <1>1, <1>3, <2>2, <2>3, <2>4, Handled
    <2>7. None \notin Held /\ None \notin Held'
      BY CmlEventsAssumption DEF Held
    <2>8. Simple(j) => j \notin Held
      BY <1>1, <1>3, <2>2 DEF HandsFit, Held
    <2>9. \A id \in Offers' : id \in Offers /\ (Simple(j) => id # j)
      BY <2>2, <2>3, <2>6, <2>7, <2>8 DEF Offers
    <2>10. \A id \in Offers : what[id].kind = "plain" => id \in Offers' \/ id = j
      <3> TAKE id \in Offers
      <3> HAVE what[id].kind = "plain"
      <3>1. state[id] # "SYNCHED" /\ id \in Ids
        BY PlainOffers
      <3> QED
        BY <1>5, <2>2, <2>3, <2>6, <2>7, <3>1 DEF Offers
    <2>11. Meeting(t, e, j, m)
      BY <1>4, <1>6, <1>7, <1>9, <2>2 DEF Meeting, Offers
    <2> QED
      BY <1>2, <1>3, <1>5, <2>4, <2>5, <2>6, <2>9, <2>10, <2>11, MeetingKeeps
  <1>10. CASE /\ item' = [item EXCEPT ![t] = j] /\ GoTo(t, "spin")
              /\ UNCHANGED <<todo, enabled, state, resumed, got>>
    <2>1. Frame(t) /\ pc'[t] = "spin"
      BY <1>1, <1>3, <1>10 DEF GoTo, Frame, Typed, SameOps
    <2>2. pc'[t] \in Working \ {"retry", "next"}
      BY <2>1 DEF Working
    <2>3. k.item # None => Head(todo'[t]) = e
      BY <1>3, <1>10
    <2> QED
      BY <1>2, <1>3, <1>4, <1>5, <1>10, <2>1, <2>2, <2>3, TakeKeeps
  <1> QED
    BY <1>3, <1>9, <1>10

(* The partner is in the thread's hands. *)
LEMMA MeetHeld ==
  ASSUME Inv, Typed', Control', NEW t \in Threads, pc[t] \in Holding,
         NEW e, e = Head(todo[t]), NEW m,
         m = Message(t, item[t], e.dir) \/ (e.dir = "recv" /\ m = None /\ what[op[t]].kind # "plain"),
         Meet(t, item[t], e.dir, m), Finish(t, "run"),
         SameOps, UNCHANGED <<queue, waiting, toWake>>
  PROVE  Inv'
  <1> DEFINE j == item[t]
  <1>1. Typed /\ Control /\ HandsFit /\ QueuesFit(queue)
    BY DEF Inv
  <1>2. pc[t] \in Working /\ j \in Ids /\ j # None /\ e \in ChanEvents
    BY <1>1, HoldFacts
  <1>3. op[t] \in Ids /\ e \in EventsOf(op[t])
    BY <1>1, <1>2, WorkFacts
  <1>4. Frame(t) /\ pc'[t] = "run" /\ item' = [item EXCEPT ![t] = None]
    BY <1>1, FinishFrame
  <1>5. Queued' = Queued
    BY DEF Queued, Items
  <1>6. /\ HandsFit'
        /\ \A id \in Held' : id = None \/ (id \in Held /\ (id = item[t] => ~ Simple(id)))
        /\ \A id \in Held : id = item[t] \/ id \in Held'
    BY <1>1, <1>4, <1>5, Handled
  <1>7. None \notin Held'
    BY CmlEventsAssumption DEF Held
  <1>8. Simple(j) => j \notin Queued
    BY <1>1, <1>2 DEF HandsFit
  <1>9. j \in Offers /\ j <= started /\ Event(Opposite(e.dir), e.ch) \in EventsOf(j)
    BY <1>1, <1>2 DEF HandsFit, Offers, Held, ItemEvent
  <1>10. \A id \in Offers' : id \in Offers /\ (Simple(j) => id # j)
    BY <1>5, <1>6, <1>7, <1>8 DEF Offers
  <1>11. \A id \in Offers : what[id].kind = "plain" => id \in Offers' \/ id = j
    BY <1>5, <1>6 DEF Offers
  <1>12. m \in Ids \union {None}
    BY <1>2, <1>3 DEF Message
  <1>13. Meeting(t, e, j, m)
    BY <1>2, <1>3, <1>9, <1>12 DEF Meeting
  <1>14. QueuesFit(queue')
    BY <1>1
  <1> HIDE DEF j
  <1> QED
    BY <1>2, <1>4, <1>6, <1>10, <1>11, <1>13, <1>14, MeetingKeeps

LEMMA SpinKeeps ==
  ASSUME Inv, NEW t \in Threads, NEW e \in ChanEvents, Spin(t, e)
  PROVE  Inv'
  <1> DEFINE m == Message(t, item[t], e.dir)
  <1>1. Typed /\ Control
    BY DEF Inv
  <1>2. Typed' /\ Control'
    BY <1>1, SpinTypes
  <1>3. /\ pc[t] = "spin" /\ e = Head(todo[t]) /\ SameOps /\ UNCHANGED <<queue, waiting, toWake>>
        /\ \/ Meet(t, item[t], e.dir, m) /\ Finish(t, "run")
           \/ /\ state[item[t]] = "SYNCHED" /\ item' = [item EXCEPT ![t] = None] /\ GoTo(t, "try")
              /\ UNCHANGED <<todo, enabled, state, resumed, got>>
    BY DEF Spin, MeetNow, Matched, SameOps, cvar
  <1>4. m = Message(t, item[t], e.dir)
    OBVIOUS
  <1>5. pc[t] \in Holding /\ pc[t] \in Working
    BY <1>3 DEF Holding, Working
  <1> HIDE DEF m
  <1>6. CASE Meet(t, item[t], e.dir, m) /\ Finish(t, "run")
    BY <1>2, <1>3, <1>4, <1>5, <1>6, MeetHeld
  <1>7. CASE /\ state[item[t]] = "SYNCHED" /\ item' = [item EXCEPT ![t] = None] /\ GoTo(t, "try")
             /\ UNCHANGED <<todo, enabled, state, resumed, got>>
    <2>1. Frame(t) /\ pc'[t] = "try"
      BY <1>1, <1>3, <1>7 DEF GoTo, Frame, Typed, SameOps
    <2>2. item[t] \in Offers
      BY <1>1, <1>5, HoldFacts DEF Offers, Held
    <2>3. what[item[t]].kind # "plain"
      BY <1>7, <2>2, PlainOffers
    <2>4. /\ QueuesFit(queue') /\ HandsFit' /\ \A id \in Offers' : id \in Offers
          /\ \A id \in Offers : what[id].kind = "plain" => id \in Offers'
      BY <1>3, <1>7, <2>1, <2>3, Dropped
    <2>5. FlagStep(t, {})
      BY <1>7, <2>1 DEF FlagStep
    <2>6. pc'[t] \in Working
      BY <2>1 DEF Working
    <2> QED
      BY <1>2, <1>3, <1>5, <1>7, <2>1, <2>4, <2>5, <2>6, QuietKeeps
  <1> QED
    BY <1>3, <1>6, <1>7

LEMMA MatchKeeps ==
  ASSUME Inv, NEW t \in Threads, Match(t)
  PROVE  Inv'
  <1> DEFINE e == Head(todo[t])
             m == IF e.dir = "recv" THEN None ELSE op[t]
  <1>1. Typed /\ Control
    BY DEF Inv
  <1>2. Typed' /\ Control'
    BY <1>1, MatchTypes
  <1>3. /\ pc[t] = "match" /\ SameOps /\ UNCHANGED <<queue, waiting, toWake>>
        /\ Meet(t, item[t], e.dir, m) /\ Finish(t, "run")
    BY DEF Match, SameOps, cvar
  <1>4. pc[t] \in Holding /\ pc[t] \in Synching \ {"poll"}
    BY <1>3 DEF Holding, Synching
  <1>5. what[op[t]].kind # "plain" /\ e.dir \in Dirs
    BY <1>1, <1>4, SynchFacts, HoldFacts
  <1>6. m = Message(t, item[t], e.dir) \/ (e.dir = "recv" /\ m = None /\ what[op[t]].kind # "plain")
    BY <1>5 DEF Message, Dirs
  <1> HIDE DEF m
  <1> QED
    BY <1>2, <1>3, <1>4, <1>6, MeetHeld

----------------------------------------------------------------------------
(* Offers made, and put back. *)

(* The lock tells that nobody holds an item of the queue that was searched. *)
LEMMA NobodyThere ==
  ASSUME Inv, NEW t \in Threads, pc[t] \in Working \ Holding,
         NEW e \in ChanEvents, e = Head(todo[t]), HasLock(t, e.ch),
         NEW d \in Dirs, d = Opposite(e.dir), NEW skip \in SUBSET {op[t]},
         \A id \in ToSet(queue[d][e.ch]) : id \in skip \/ state[id] = "SYNCHED",
         Simple(op[t]), NEW other \in Offers \union {op[t]}, Simple(other)
  PROVE  ~ Fit(op[t], other) /\ ~ Fit(other, op[t])
  <1> DEFINE opposite == Event(d, e.ch)
  <1>1. Typed /\ Control /\ HandsFit /\ QueuesFit(queue)
    BY DEF Inv
  <1>2. op[t] \in Ids /\ e \in EventsOf(op[t]) /\ op[t] \notin Offers
    BY <1>1, WorkFacts DEF Inv, NotOffered
  <1>3. e.dir \in Dirs /\ e.ch \in Chans /\ e = Event(e.dir, e.ch) /\ d # e.dir
    BY EventFacts
  <1>4. other \in Ids
    BY <1>2 DEF Offers, Queued, Held, Items
  <1>5. opposite \notin EventsOf(other)
    <2> SUFFICES ASSUME opposite \in EventsOf(other)
                 PROVE  FALSE
      OBVIOUS
    <2>1. CASE other = op[t]
      <3>1. opposite = e
        BY <1>1, <1>2, <2>1, SimpleHasOne
      <3> QED
        BY <1>3, <3>1, EventFacts
    <2>2. CASE other \in Queued
      <3>1. other \in ToSet(queue[d][e.ch])
        BY <1>1, <1>3, <2>2, OneQueue DEF Queued
      <3>2. other \notin skip
        BY <1>2, <2>2 DEF Offers
      <3>3. state[other] = "SYNCHED"
        BY <3>1, <3>2
      <3>4. resumed[other] = 0
        BY <2>2 DEF Offers, Inv, OffersOpen
      <3> QED
        BY <1>4, <3>3, <3>4 DEF Inv, Flags
    <2>3. CASE other \in Held
      <3>1. PICK u \in Threads : item[u] = other
        BY <2>3 DEF Held
      <3>2. item[u] # None
        BY <1>4, <3>1, CmlEventsAssumption
      <3> DEFINE f == Head(todo[u])
      <3>3. f \in ChanEvents /\ lock[f.ch] = op[u] /\ pc[u] \in Holding
        BY <1>1, <3>2 DEF Control, Controlled
      <3>4. op[u] \in Ids
        BY <1>1, <3>3, HoldFacts, WorkFacts
      <3>5. Event(Opposite(f.dir), f.ch) \in EventsOf(other)
        BY <1>1, <3>1, <3>2 DEF HandsFit, ItemEvent
      <3>6. Event(Opposite(f.dir), f.ch) = opposite
        BY <1>1, <1>4, <3>5, SimpleHasOne
      <3>7. f.ch \in Chans /\ f.dir \in Dirs /\ Opposite(f.dir) \in Dirs
        BY <3>3, EventFacts
      <3> HIDE DEF f
      <3>8. f.ch = e.ch
        BY <1>3, <3>6, <3>7, EventFacts
      <3>9. op[u] = op[t]
        BY <3>3, <3>4, <3>8, CmlEventsAssumption DEF HasLock
      <3>10. u # t
        BY <3>3
      <3> QED
        BY <1>1, <3>4, <3>9, <3>10 DEF Control, Ids
    <2> QED
      BY <2>1, <2>2, <2>3 DEF Offers
  <1>6. ASSUME NEW c \in Chans, NEW dir \in Dirs,
               Event(dir, c) \in EventsOf(op[t]), Event(Opposite(dir), c) \in EventsOf(other)
        PROVE  FALSE
    <2>1. Event(dir, c) = e
      BY <1>1, <1>2, <1>6, SimpleHasOne
    <2>2. dir = e.dir /\ c = e.ch
      BY <1>3, <2>1, EventFacts
    <2> QED
      BY <1>5, <1>6, <2>2
  <1>7. /\ "send" \in Dirs /\ "recv" \in Dirs
        /\ Opposite("send") = "recv" /\ Opposite("recv") = "send"
    BY DEF Dirs, Opposite
  <1> QED
    BY <1>6, <1>7 DEF Fit

LEMMA OfferKeeps ==
  ASSUME Inv, Typed', Control', NEW t \in Threads, SameOps, Frame(t), pc[t] \in Working \ Holding,
         NEW e \in ChanEvents, e = Head(todo[t]), HasLock(t, e.ch),
         NEW d \in Dirs, d = Opposite(e.dir), NEW skip \in SUBSET {op[t]},
         NEW k, k = Take(queue[d][e.ch], skip), k.item = None,
         NEW l, l = Append(queue[e.dir][e.ch], op[t]),
         Exchanged(queue', queue, d, e.dir, e.ch, k.rest, l),
         item' = [item EXCEPT ![t] = None], UNCHANGED <<waiting, toWake, resumed, got>>,
         pc'[t] = "stopped" \/ (pc'[t] \in Working /\ ~ Simple(op[t])),
         FlagStep(t, {})
  PROVE  Inv'
  <1> DEFINE p == queue'
  <1>1. Typed /\ Control /\ HandsFit /\ QueuesFit(queue)
    BY DEF Inv
  <1>2. op[t] \in Ids /\ e \in EventsOf(op[t]) /\ op[t] <= started
    BY <1>1, WorkFacts
  <1>3. e.dir \in Dirs /\ e.ch \in Chans /\ e = Event(e.dir, e.ch)
    BY EventFacts
  <1>4. Simple(op[t]) => op[t] \notin Offers
    BY DEF Inv, NotOffered
  <1>6. /\ QueuesFit(p) /\ Items(p) \subseteq Queued \union {op[t]} /\ op[t] \in Items(p)
        /\ \A other \in Queued : other \in Items(p) \/ state[other] = "SYNCHED"
        /\ \A other \in ToSet(queue[d][e.ch]) : other \in skip \/ state[other] = "SYNCHED"
    <2>1. Simple(op[t]) => op[t] \notin Queued
      BY <1>4 DEF Offers
    <2>2. Event(e.dir, e.ch) \in EventsOf(op[t])
      BY <1>2, <1>3
    <2>3. Exchanged(p, queue, d, e.dir, e.ch, k.rest, l)
      OBVIOUS
    <2> HIDE DEF p
    <2>4. Exchange(p, d, e.ch, skip, op[t])
      BY <1>1, <1>2, <1>3, <2>1, <2>2, <2>3, Swapped
    <2> QED
      BY <2>4 DEF Exchange
  <1>7. Queued' = Items(p)
    BY DEF Queued
  <1>8. QueuesFit(queue')
    BY <1>6
  <1> HIDE DEF p
  <1>9. \A id \in Queued' : Simple(id) => id \in Queued \/ \A u \in Threads \ {t} : item[u] # id
    <2>1. Simple(op[t]) => \A u \in Threads : item[u] # op[t]
      BY <1>2, <1>4 DEF Offers, Held
    <2> QED
      BY <1>6, <1>7, <2>1
  <1>10. /\ HandsFit'
         /\ \A id \in Held' : id = None \/ id \in Held
         /\ \A id \in Held : id = item[t] \/ id \in Held'
    BY <1>1, <1>9, Handled
  <1>11. item[t] = None /\ None \notin Held /\ None \notin Held'
    BY <1>1, CmlEventsAssumption DEF Held, Control, Controlled
  <1>12. \A id \in Offers' : id \in Offers \union {op[t]}
    BY <1>6, <1>7, <1>10, <1>11 DEF Offers
  <1>13. \A id \in Offers : what[id].kind = "plain" => id \in Offers'
    <2> TAKE id \in Offers
    <2> HAVE what[id].kind = "plain"
    <2>1. state[id] # "SYNCHED"
      BY PlainOffers
    <2> QED
      BY <1>6, <1>7, <1>10, <1>11, <2>1 DEF Offers
  <1>14. op[t] \in Offers'
    BY <1>6, <1>7 DEF Offers
  <1>15. \A other \in Offers' : Simple(op[t]) /\ Simple(other) => ~ Fit(op[t], other) /\ ~ Fit(other, op[t])
    BY <1>6, <1>12, NobodyThere
  <1>16. AllWaiters' = AllWaiters /\ WaitersApart'
    BY SameWaiters
  <1>17. "stopped" \notin Working
    BY DEF Working, Synching
  <1>18. pc[t] \in Working => op[t] \notin AllWaiters
    BY DEF Inv, NotOffered
  <1>19. OfferStep(t, {}, {op[t]}, {})
    BY <1>12, <1>13, <1>14, <1>15, <1>16, <1>17, <1>18 DEF OfferStep
  <1>20. Messages'
    <2> DEFINE N == {op[t]}
    <2>1. got' = got
      OBVIOUS
    <2>2. OfferStep(t, {}, N, {})
      BY <1>19
    <2> HIDE DEF N
    <2> QED
      BY <2>1, <2>2, QuietMessages
  <1> QED
    BY <1>8, <1>10, <1>16, <1>19, <1>20, StepKeeps

LEMMA TryEmptyKeeps ==
  ASSUME Inv, NEW t \in Threads, NEW e \in ChanEvents, TryEmpty(t, e)
  PROVE  Inv'
  <1> DEFINE d == Opposite(e.dir)
             k == Take(queue[d][e.ch], {})
             l == Append(queue[e.dir][e.ch], op[t])
             p == [queue EXCEPT ![d][e.ch] = k.rest, ![e.dir][e.ch] = l]
  <1>1. Typed /\ Control
    BY DEF Inv
  <1>2. Typed' /\ Control'
    BY <1>1, TryEmptyTypes
  <1>3. /\ pc[t] = "try" /\ e = Head(todo[t]) /\ HasLock(t, e.ch) /\ k.item = None
        /\ \/ queue' = p /\ Finish(t, "stopped")
           \/ SetQueue(d, e.ch, k.rest) /\ DoEvents(t, Tail(todo[t])) /\ UNCHANGED item
        /\ SameOps /\ UNCHANGED <<waiting, toWake, state, resumed, got>>
    BY DEF TryEmpty, Trying, SameOps, flagVars, cvar
  <1>4. /\ d \in Dirs /\ d = Opposite(e.dir) /\ k = Take(queue[d][e.ch], {}) /\ e.ch \in Chans /\ e.dir \in Dirs
        /\ d # e.dir
    BY EventFacts
  <1>5. pc[t] \in Working \ Holding /\ pc[t] \in Working /\ item[t] = None
    BY <1>1, <1>3 DEF Working, Synching, Holding, Control, Controlled
  <1>6. op[t] \in Ids
    BY <1>1, <1>5, WorkFacts
  <1>7. queue \in [Dirs -> [Chans -> Seq(Ids)]] /\ k.rest \in Seq(Ids)
    BY <1>1, <1>4, TakenTypes DEF Typed
  <1> HIDE DEF k, p, l, d
  <1>8. CASE queue' = p /\ Finish(t, "stopped")
    <2>1. l \in Seq(Ids)
      <3>1. queue[e.dir][e.ch] \in Seq(Ids)
        BY <1>4, <1>7
      <3> QED
        BY <1>6, <3>1 DEF l
    <2>3. l = Append(queue[e.dir][e.ch], op[t])
      BY DEF l
    <2>4. Exchanged(queue', queue, d, e.dir, e.ch, k.rest, l)
      <3>1. Exchanged(p, queue, d, e.dir, e.ch, k.rest, l)
        BY <1>4, <1>7, <2>1, QueuesLeft DEF p
      <3> QED
        BY <1>8, <3>1
    <2>5. Frame(t) /\ pc'[t] = "stopped" /\ item' = [item EXCEPT ![t] = None]
      BY <1>1, <1>3, <1>8, FinishFrame
    <2>6. FlagStep(t, {})
      BY <1>3, <2>5 DEF FlagStep
    <2>7. {} \in SUBSET {op[t]}
      OBVIOUS
    <2> QED
      BY <1>2, <1>3, <1>4, <1>5, <2>3, <2>4, <2>5, <2>6, <2>7, OfferKeeps
  <1>9. CASE SetQueue(d, e.ch, k.rest) /\ DoEvents(t, Tail(todo[t])) /\ UNCHANGED item
    <2>1. Frame(t) /\ pc'[t] \in {"try", "block"}
      BY <1>1, <1>3, <1>9 DEF DoEvents, GoTo, Frame, Typed, SameOps
    <2>2. pc'[t] \in Working \ {"retry", "next"}
      BY <2>1 DEF Working, Synching
    <2>3. item' = [item EXCEPT ![t] = k.item]
      BY <1>1, <1>3, <1>5, <1>9, SameItem
    <2> QED
      <3>1. k.item # None => Head(todo'[t]) = e
        BY <1>3
      <3>2. UNCHANGED <<waiting, toWake, state, resumed, got>> /\ SameOps
        BY <1>3
      <3>3. SetQueue(d, e.ch, k.rest)
        BY <1>9
      <3> QED
        BY <1>2, <1>4, <1>5, <2>1, <2>2, <2>3, <3>1, <3>2, <3>3, TakeKeeps
  <1> QED
    BY <1>3, <1>8, <1>9

LEMMA BlockEmptyKeeps ==
  ASSUME Inv, NEW t \in Threads, NEW e \in ChanEvents, BlockEmpty(t, e)
  PROVE  Inv'
  <1> DEFINE d == Opposite(e.dir)
             k == Take(queue[d][e.ch], OwnItems(t))
             l == Append(queue[e.dir][e.ch], op[t])
             p == [queue EXCEPT ![d][e.ch] = k.rest, ![e.dir][e.ch] = l]
  <1>1. Typed /\ Control
    BY DEF Inv
  <1>2. Typed' /\ Control'
    BY <1>1, BlockEmptyTypes
  <1>3. /\ pc[t] = "block" /\ e = Head(todo[t]) /\ HasLock(t, e.ch) /\ k.item = None
        /\ queue' = p
        /\ state' = [state EXCEPT ![op[t]] = IF t \in promoted THEN @ ELSE local[t]]
        /\ \/ Finish(t, "stopped")
           \/ /\ Len(todo[t]) # 1
              /\ todo' = [todo EXCEPT ![t] = Tail(@)]
              /\ UNCHANGED <<pc, enabled, item>>
        /\ SameOps /\ UNCHANGED <<waiting, toWake, resumed, got>>
    BY DEF BlockEmpty, Blocking, SameOps, cvar
  <1>4. /\ d \in Dirs /\ d = Opposite(e.dir) /\ k = Take(queue[d][e.ch], OwnItems(t))
        /\ e.ch \in Chans /\ e.dir \in Dirs /\ d # e.dir
        /\ l = Append(queue[e.dir][e.ch], op[t]) /\ OwnItems(t) \in SUBSET {op[t]}
    BY EventFacts DEF OwnItems
  <1>5. pc[t] \in Working \ Holding /\ pc[t] \in Working /\ item[t] = None /\ pc[t] \in Synching \ {"poll"}
    BY <1>1, <1>3 DEF Working, Synching, Holding, Control, Controlled
  <1>6. op[t] \in Ids /\ op[t] <= started /\ Len(todo[t]) \in Nat \ {0} /\ what[op[t]].kind = "sync"
        /\ (Simple(op[t]) => Len(todo[t]) <= 1)
    BY <1>1, <1>5, WorkFacts, SynchFacts
  <1>7. queue \in [Dirs -> [Chans -> Seq(Ids)]] /\ k.rest \in Seq(Ids) /\ l \in Seq(Ids)
    <2>1. queue \in [Dirs -> [Chans -> Seq(Ids)]] /\ k.rest \in Seq(Ids)
      BY <1>1, <1>4, TakenTypes DEF Typed
    <2>2. queue[e.dir][e.ch] \in Seq(Ids)
      BY <1>4, <2>1
    <2>3. l \in Seq(Ids)
      BY <1>6, <2>2
    <2> QED
      BY <2>1, <2>3
  <1> HIDE DEF k, l, d, p
  <1>8. Exchanged(queue', queue, d, e.dir, e.ch, k.rest, l)
    <2>1. Exchanged(p, queue, d, e.dir, e.ch, k.rest, l)
      BY <1>4, <1>7, QueuesLeft DEF p
    <2> QED
      BY <1>3, <2>1
  <1>9. \A id \in Ids : id # op[t] => state'[id] = state[id]
    BY <1>1, <1>3 DEF Typed
  <1>10. state'[op[t]] = state[op[t]] \/ state'[op[t]] # "SYNCHED"
    BY <1>1, <1>3, <1>6 DEF Typed
  <1>11. started \in Int /\ Ids \subseteq Int
    BY <1>1, CmlEventsAssumption DEF Typed, Ids
  <1>12. /\ \A id \in Ids : \/ state'[id] = state[id]
                            \/ state'[id] # "SYNCHED" /\ (what[id].kind = "plain" => state'[id] = "WAITING")
         /\ \A id \in Ids : id > started => state'[id] = state[id] /\ got'[id] = got[id]
    BY <1>3, <1>6, <1>9, <1>10, <1>11
  <1>13. CASE Finish(t, "stopped")
    <2>1. Frame(t) /\ pc'[t] = "stopped" /\ item' = [item EXCEPT ![t] = None]
      BY <1>1, <1>3, <1>13, FinishFrame
    <2>2. FlagStep(t, {})
      BY <1>12, <2>1 DEF FlagStep
    <2> QED
      BY <1>2, <1>3, <1>4, <1>5, <1>8, <2>1, <2>2, OfferKeeps
  <1>14. CASE /\ Len(todo[t]) # 1
              /\ todo' = [todo EXCEPT ![t] = Tail(@)]
              /\ UNCHANGED <<pc, enabled, item>>
    <2>1. Frame(t)
      BY <1>1, <1>3, <1>14 DEF Frame, Typed, SameOps
    <2>2. FlagStep(t, {})
      BY <1>3, <1>12, <1>14 DEF FlagStep
    <2>3. item' = [item EXCEPT ![t] = None]
      BY <1>1, <1>5, <1>14, SameItem
    <2>4. ~ Simple(op[t])
      <3> DEFINE n == Len(todo[t])
      <3>1. n \in Nat \ {0} /\ n # 1 /\ (Simple(op[t]) => n <= 1)
        BY <1>6, <1>14
      <3> HIDE DEF n
      <3> QED
        BY <3>1
    <2>5. pc'[t] \in Working /\ ~ Simple(op[t])
      BY <1>5, <1>14, <2>4
    <2> QED
      BY <1>2, <1>3, <1>4, <1>5, <1>8, <2>1, <2>2, <2>3, <2>5, OfferKeeps
  <1> QED
    BY <1>3, <1>13, <1>14

LEMMA ClaimFailsKeeps ==
  ASSUME Inv, NEW t \in Threads, ClaimFails(t)
  PROVE  Inv'
  <1> DEFINE e == Head(todo[t])
             d == Opposite(e.dir)
             l == PushItem(queue[d][e.ch], item[t])
             p == queue'
  <1>1. Typed /\ Control /\ HandsFit /\ QueuesFit(queue)
    BY DEF Inv
  <1>2. Typed' /\ Control'
    BY <1>1, ClaimFailsTypes
  <1>3. /\ pc[t] = "claim" /\ SetQueue(d, e.ch, l) /\ Finish(t, "stopped")
        /\ SameOps /\ UNCHANGED <<waiting, toWake, state, resumed, got>>
    BY DEF ClaimFails, SameOps, flagVars, cvar
  <1>4. pc[t] \in Holding /\ pc[t] \in Synching \ {"poll"}
    BY <1>3 DEF Holding, Synching
  <1>5. /\ pc[t] \in Working /\ op[t] \in Ids /\ item[t] \in Ids /\ item[t] # None
        /\ d \in Dirs /\ e.ch \in Chans /\ what[op[t]].kind = "sync"
    BY <1>1, <1>4, HoldFacts, SynchFacts
  <1>6. l \in Seq(Ids) /\ Joins(l, queue[d][e.ch], item[t])
    <2>1. queue[d][e.ch] \in Seq(Ids)
      BY <1>1, <1>5 DEF Typed
    <2> QED
      BY <1>5, <2>1 DEF PushItem, Joins
  <1>7. /\ item[t] <= started /\ Event(d, e.ch) \in EventsOf(item[t])
        /\ Simple(item[t]) => item[t] \notin Items(queue)
    BY <1>1, <1>5 DEF HandsFit, ItemEvent, Queued
  <1> HIDE DEF l, d, e
  <1>8. Replaced(p, queue, d, e.ch, l)
    BY <1>1, <1>3, <1>5, <1>6, QueueSet
  <1>9. QueuesFit(p) /\ Items(p) = Queued \union {item[t]}
    <2> HIDE DEF p
    <2>1. QueuesFit(p)
      BY <1>1, <1>5, <1>6, <1>7, <1>8, Grown
    <2>2. Items(p) = Items(queue) \union {item[t]}
      BY <1>1, <1>5, <1>6, <1>7, <1>8, Grown
    <2> QED
      BY <2>1, <2>2 DEF Queued
  <1>10. Queued' = Items(p)
    BY DEF Queued
  <1>11. QueuesFit(queue')
    BY <1>9
  <1> HIDE DEF p
  <1>12. Frame(t) /\ pc'[t] = "stopped" /\ item' = [item EXCEPT ![t] = None]
    BY <1>1, <1>3, FinishFrame
  <1>13. \A id \in Queued' : Simple(id) => id \in Queued \/ \A u \in Threads \ {t} : item[u] # id
    BY <1>1, <1>5, <1>9, <1>10 DEF HandsFit
  <1>14. /\ HandsFit'
         /\ \A id \in Held' : id = None \/ id \in Held
         /\ \A id \in Held : id = item[t] \/ id \in Held'
    BY <1>1, <1>3, <1>12, <1>13, Handled
  <1>15. None \notin Held' /\ item[t] \in Held
    BY <1>5, CmlEventsAssumption DEF Held
  <1>16. Offers' = Offers
    BY <1>9, <1>10, <1>14, <1>15 DEF Offers
  <1>17. AllWaiters' = AllWaiters /\ WaitersApart'
    BY <1>3 DEF AllWaiters, WaitersApart, IsInjective, Inv
  <1>18. pc'[t] \notin Working
    BY <1>12 DEF Working, Synching
  <1>19. OfferStep(t, {}, {}, {})
    BY <1>3, <1>5, <1>12, <1>16, <1>17, <1>18 DEF OfferStep
  <1>20. FlagStep(t, {})
    BY <1>3, <1>12 DEF FlagStep
  <1>21. Messages'
    BY <1>1, <1>2, <1>3, <1>19, SameMessages DEF Inv
  <1> QED
    BY <1>2, <1>11, <1>14, <1>17, <1>19, <1>20, <1>21, StepKeeps

----------------------------------------------------------------------------
(* Waiting and waking. *)

LEMMA OfferEvent ==
  ASSUME Inv, NEW id \in Offers
  PROVE  \E e \in ChanEvents : e \in EventsOf(id)
  <1>1. Typed /\ Control /\ QueuesFit(queue) /\ HandsFit
    BY DEF Inv
  <1>2. CASE id \in Queued
    <2>1. PICK d \in Dirs, b \in Chans : id \in ToSet(queue[d][b])
      BY <1>1, <1>2, ItemFacts DEF Queued
    <2>2. Event(d, b) \in EventsOf(id)
      BY <1>1, <2>1, ItemFacts
    <2> QED
      BY <2>2, EventFacts
  <1>3. CASE id \in Held
    <2>1. PICK u \in Threads : item[u] = id /\ id \in Ids
      BY <1>3 DEF Held
    <2>2. item[u] # None
      BY <2>1, CmlEventsAssumption
    <2>3. ItemEvent(u) \in EventsOf(id) /\ Head(todo[u]) \in ChanEvents
      BY <1>1, <2>1, <2>2 DEF HandsFit, Control, Controlled
    <2>4. ItemEvent(u) \in ChanEvents
      BY <2>3, EventFacts DEF ItemEvent
    <2> QED
      BY <2>3, <2>4
  <1> QED
    BY <1>2, <1>3 DEF Offers

LEMMA WaiterFacts ==
  ASSUME Inv, NEW id \in AllWaiters
  PROVE  id \in Ids /\ id <= started /\ WaitEvent \in EventsOf(id)
         /\ (Simple(id) => resumed[id] = 0 /\ id \notin Offers)
  <1>1. Typed /\ WaitersOpen
    BY DEF Inv
  <1>2. id \in Ids
    <2>1. waiting \in Seq(Ids) /\ \A u \in Threads : toWake[u] \in Seq(Ids)
      BY <1>1 DEF Typed
    <2>2. ToSet(waiting) \subseteq Ids /\ \A u \in Threads : ToSet(toWake[u]) \subseteq Ids
      BY <2>1 DEF ToSet
    <2> QED
      BY <2>2 DEF AllWaiters
  <1>3. id <= started /\ WaitEvent \in EventsOf(id) /\ (Simple(id) => resumed[id] = 0)
    BY <1>1 DEF WaitersOpen
  <1>4. ASSUME Simple(id), id \in Offers
        PROVE  FALSE
    <2>1. PICK e \in ChanEvents : e \in EventsOf(id)
      BY <1>4, OfferEvent
    <2> QED
      BY <1>1, <1>2, <1>3, <1>4, <2>1, SimpleEvents
  <1> QED
    BY <1>2, <1>3, <1>4

LEMMA WaitKeeps ==
  ASSUME Inv, NEW t \in Threads, TryWait(t) \/ BlockWait(t)
  PROVE  Inv'
  <1>1. Typed /\ Control /\ WaitersApart
    BY DEF Inv
  <1>2. Typed' /\ Control'
    BY <1>1, WaitTypes
  <1>3. /\ Head(todo[t]) = WaitEvent
        /\ \/ /\ Finish(t, "run") /\ UNCHANGED waiting
              /\ Resume([id \in Ids |-> IF id = op[t] THEN 1 ELSE 0])
           \/ Finish(t, "stopped") /\ waiting' = <<op[t]>> \o waiting /\ UNCHANGED resumed
        /\ SameOps /\ UNCHANGED <<queue, state, toWake, got>>
        /\ pc[t] \in {"try", "block"}
    BY WaitsIs DEF Waits, flagVars
  <1>4. pc[t] \in Working /\ item[t] = None
    BY <1>1, <1>3 DEF Working, Synching, Holding, Control, Controlled
  <1>5. /\ op[t] \in Ids /\ op[t] <= started /\ WaitEvent \in EventsOf(op[t])
        /\ op[t] \notin AllWaiters
        /\ Simple(op[t]) => op[t] \notin Offers /\ resumed[op[t]] = 0
    BY <1>1, <1>3, <1>4, WorkFacts DEF Inv, NotOffered
  <1>6. /\ Frame(t) /\ item' = item
        /\ \/ /\ pc'[t] = "run" /\ UNCHANGED waiting
              /\ Resume([id \in Ids |-> IF id = op[t] THEN 1 ELSE 0])
           \/ pc'[t] = "stopped" /\ waiting' = <<op[t]>> \o waiting /\ UNCHANGED resumed
    <2>1. ASSUME NEW where, Finish(t, where)
          PROVE  Frame(t) /\ pc'[t] = where /\ item' = item
      <3>1. Frame(t) /\ pc'[t] = where /\ item' = [item EXCEPT ![t] = None]
        BY <1>1, <1>3, <2>1, FinishFrame
      <3> QED
        BY <1>1, <1>4, <3>1 DEF Typed
    <2> QED
      BY <1>3, <2>1
  <1>7. QueuesFit(queue') /\ HandsFit' /\ Offers' = Offers
    BY <1>3, <1>4, <1>6, SameOffers
  <1>8. pc'[t] \notin Working /\ pc'[t] \notin {"retry", "next"}
    BY <1>6 DEF Working, Synching
  <1>9. CASE pc'[t] = "run" /\ waiting' = waiting /\ Resume([id \in Ids |-> IF id = op[t] THEN 1 ELSE 0])
    <2> DEFINE R == {op[t]}
    <2>1. AllWaiters' = AllWaiters /\ WaitersApart'
      BY <1>3, <1>9, SameWaiters
    <2>2. /\ \A id \in Ids \ R : resumed'[id] = resumed[id]
          /\ \A id \in R : resumed'[id] > 0 /\ (Simple(id) => resumed'[id] = 1)
      BY <1>1, <1>5, <1>9, ResumedOne
    <2>3. OfferStep(t, R, {}, {})
      BY <1>3, <1>5, <1>6, <1>7, <1>8, <1>9, <2>1, <2>2 DEF OfferStep
    <2>4. FlagStep(t, R)
      BY <1>3, <1>8 DEF FlagStep
    <2>5. Messages'
      BY <1>1, <1>2, <1>3, <1>5, <2>3, SameMessages DEF Inv
    <2> QED
      BY <1>2, <1>7, <2>1, <2>3, <2>4, <2>5, StepKeeps
  <1>10. CASE pc'[t] = "stopped" /\ waiting' = <<op[t]>> \o waiting /\ resumed' = resumed
    <2> DEFINE s == <<op[t]>>
    <2>1. waiting \in Seq(Ids) /\ s \in Seq(Ids) /\ ToSet(s) = {op[t]} /\ IsInjective(s)
      BY <1>1, <1>5, OneThread DEF Typed
    <2>2. waiting' = s \o waiting
      BY <1>10
    <2> HIDE DEF s
    <2>3. op[t] \notin ToSet(waiting) /\ \A u \in Threads : op[t] \notin ToSet(toWake[u])
      BY <1>5 DEF AllWaiters
    <2>4. ToSet(waiting') = {op[t]} \union ToSet(waiting) /\ (IsInjective(waiting) => IsInjective(waiting'))
      BY <2>1, <2>2, <2>3, ConcatList
    <2>5. WaitersApart'
      BY <1>1, <1>3, <2>3, <2>4 DEF WaitersApart
    <2>6. AllWaiters' = AllWaiters \union {op[t]}
      BY <1>3, <2>4 DEF AllWaiters
    <2>7. OfferStep(t, {}, {}, {op[t]})
      BY <1>3, <1>4, <1>5, <1>6, <1>7, <1>8, <1>10, <2>6 DEF OfferStep
    <2>8. FlagStep(t, {})
      BY <1>3, <1>8 DEF FlagStep
    <2>9. Messages'
      BY <1>1, <1>2, <1>3, <2>7, SameMessages DEF Inv
    <2> QED
      BY <1>2, <1>7, <2>5, <2>7, <2>8, <2>9, StepKeeps
  <1> QED
    BY <1>6, <1>9, <1>10

LEMMA WakeKeeps ==
  ASSUME Inv, NEW t \in Threads, WakeWaiter(t)
  PROVE  Inv'
  <1> DEFINE h == Head(toWake[t])
             R == {h}
  <1>1. Typed /\ Control /\ WaitersApart
    BY DEF Inv
  <1>2. Typed' /\ Control'
    BY <1>1, WakeTypes
  <1>3. /\ h \in Ids /\ h \in ToSet(toWake[t])
        /\ toWake' = [toWake EXCEPT ![t] = Tail(@)]
        /\ ToSet(toWake[t]) = {h} \union ToSet(toWake'[t])
        /\ toWake[t] \in Seq(Ids) /\ toWake[t] # <<>> /\ toWake'[t] = Tail(toWake[t])
        /\ Resume([id \in Ids |-> IF id = h THEN 1 ELSE 0])
        /\ \/ toWake'[t] # <<>> /\ UNCHANGED pc
           \/ toWake'[t] = <<>> /\ GoTo(t, "run")
        /\ pc[t] = "wake" /\ SameOps
    BY <1>1, WakeFacts
  <1>4. UNCHANGED <<todo, enabled, queue, item, state, waiting, got>>
    BY <1>1, WakeFacts DEF chans, flagVars
  <1>5. pc'[t] \in {"run", "wake"} /\ Frame(t)
    BY <1>1, <1>3, <1>4 DEF GoTo, Frame, Typed, SameOps
  <1>6. pc'[t] \notin Working /\ pc'[t] \notin {"retry", "next", "stopped"}
    BY <1>5 DEF Working, Synching
  <1>7. QueuesFit(queue') /\ HandsFit' /\ Offers' = Offers
    BY <1>3, <1>4, <1>5, SameOffers
  <1>8. \A u \in Threads : u # t => toWake'[u] = toWake[u]
    BY <1>1, <1>3 DEF Typed
  <1>9. IsInjective(toWake'[t]) /\ h \notin ToSet(toWake'[t])
    <2> DEFINE s == toWake[t]
    <2>1. s \in Seq(Ids) /\ s # <<>> /\ IsInjective(s)
      BY <1>1, <1>3 DEF WaitersApart
    <2> HIDE DEF s
    <2>2. IsInjective(Tail(s)) /\ Head(s) \notin ToSet(Tail(s))
      BY <2>1, TailList
    <2> QED
      BY <1>3, <2>2 DEF s
  <1>10. h \in AllWaiters
    BY <1>3 DEF AllWaiters
  <1>11. /\ h <= started /\ WaitEvent \in EventsOf(h)
         /\ Simple(h) => resumed[h] = 0 /\ h \notin Offers
    BY <1>10, WaiterFacts
  <1>12. \A u \in Threads : ToSet(toWake'[u]) \subseteq ToSet(toWake[u]) \ {h}
    <2> TAKE u \in Threads
    <2>1. CASE u = t
      BY <1>3, <1>9, <2>1
    <2>2. CASE u # t
      <3>1. h \notin ToSet(toWake[u])
        BY <1>1, <1>3, <2>2 DEF WaitersApart
      <3> QED
        BY <1>8, <2>2, <3>1
    <2> QED
      BY <2>1, <2>2
  <1>13. h \notin ToSet(waiting)
    BY <1>1, <1>3 DEF WaitersApart
  <1>14. AllWaiters' \subseteq AllWaiters \ {h}
    BY <1>4, <1>12, <1>13 DEF AllWaiters
  <1>15. AllWaiters \subseteq AllWaiters' \union {h}
    <2>1. \A u \in Threads : ToSet(toWake[u]) \subseteq ToSet(toWake'[u]) \union {h}
      <3> TAKE u \in Threads
      <3>1. CASE u = t
        BY <1>3, <3>1
      <3>2. CASE u # t
        BY <1>8, <3>2
      <3> QED
        BY <3>1, <3>2
    <2> QED
      BY <1>4, <2>1 DEF AllWaiters
  <1>16. WaitersApart'
    <2>1. \A u \in Threads : IsInjective(toWake'[u])
      <3> TAKE u \in Threads
      <3>1. CASE u = t
        BY <1>9, <3>1
      <3>2. CASE u # t
        BY <1>1, <1>8, <3>2 DEF WaitersApart
      <3> QED
        BY <3>1, <3>2
    <2> QED
      BY <1>1, <1>4, <1>12, <2>1 DEF WaitersApart
  <1> HIDE DEF h
  <1>17. /\ \A id \in Ids \ R : resumed'[id] = resumed[id]
         /\ \A id \in R : resumed'[id] > 0 /\ (Simple(id) => resumed'[id] = 1)
    BY <1>1, <1>3, <1>11, ResumedOne
  <1>18. OfferStep(t, R, {}, {})
    <2>1. R \subseteq Ids
      BY <1>3
    <2>2. \A id \in R : /\ id <= started /\ resumed'[id] > 0
                        /\ Simple(id) => resumed'[id] = 1 /\ id \in {op[t]} \union Offers \union AllWaiters
      BY <1>10, <1>11, <1>17
    <2>3. \A id \in Offers' : Simple(id) => id \in Offers \ R
      BY <1>7, <1>11
    <2>4. \A id \in AllWaiters' : id \in AllWaiters /\ id \notin R
      BY <1>14
    <2>5. \A id \in Offers \union AllWaiters : id \in Offers' \union AllWaiters' \union R
      BY <1>7, <1>15
    <2> HIDE DEF R
    <2> QED
      BY <1>3, <1>5, <1>6, <1>17, <2>1, <2>2, <2>3, <2>4, <2>5 DEF OfferStep
  <1>19. FlagStep(t, R)
    BY <1>4, <1>6 DEF FlagStep
  <1>20. Messages'
    <2>1. \A id \in R : WaitEvent \in EventsOf(id)
      BY <1>11
    <2> HIDE DEF R
    <2> QED
      BY <1>1, <1>2, <1>4, <1>18, <2>1, SameMessages DEF Inv
  <1> HIDE DEF R
  <1> QED
    BY <1>2, <1>7, <1>16, <1>18, <1>19, <1>20, StepKeeps

----------------------------------------------------------------------------
(* A new operation has made no offer and nobody knows it. *)

LEMMA BeginKeeps ==
  ASSUME Inv, NEW t \in Threads, NEW o \in Ops \union {Signal}, Begin(t, o),
         NEW where \in {"try", "poll", "wake", "run"}, GoTo(t, where), Typed', Control',
         AllWaiters' = AllWaiters, WaitersApart'
  PROVE  Inv'
  <1> DEFINE old(id) == id \in Ids /\ id <= started
             simple(id) == Len(what'[id].evts) <= 1
             events(id) == ToSet(what'[id].evts)
  <1>1. Typed /\ Control
    BY DEF Inv
  <1>2. /\ started \in Nat /\ started' = started + 1 /\ started + 1 \in Ids /\ op'[t] = started + 1
        /\ \A id \in Ids : id # started + 1 => what'[id] = what[id]
        /\ \A u \in Threads : u # t => todo'[u] = todo[u] /\ op'[u] = op[u]
        /\ item[t] = None
    BY <1>1, BeginTypes
  <1>3. UNCHANGED <<queue, item, state, resumed, got>>
    BY DEF Begin, chans
  <1>4. pc'[t] = where /\ \A u \in Threads : u # t => pc'[u] = pc[u]
    BY <1>1 DEF GoTo, Typed
  <1>5. Ids \subseteq Nat /\ \A id \in Ids : id <= started => id # started + 1 /\ id <= started'
    BY <1>2 DEF Ids
  <1>6. \A id : old(id) => /\ what'[id] = what[id] /\ (simple(id) <=> Simple(id))
                           /\ events(id) = EventsOf(id)
    BY <1>2, <1>5 DEF Simple, EventsOf
  <1>7. \A id \in Ids : ~ old(id) => resumed[id] = 0 /\ got[id] = {} /\ state[id] = "WAITING"
    <2>1. ASSUME NEW id \in Ids, ~ old(id)
          PROVE  id > started
      <3>1. id \in Nat /\ started \in Nat
        BY <1>2, <1>5
      <3>2. ~ (id <= started)
        BY <2>1
      <3> HIDE DEF old
      <3> QED
        BY <3>1, <3>2
    <2> QED
      BY <2>1 DEF Inv, NotStarted
  <1>8. Queued' = Queued /\ Held' = Held /\ Offers' = Offers
    BY <1>3 DEF Offers, Queued, Items, Held
  <1>9. \A id \in Queued : old(id)
    BY <1>1, ItemFacts DEF Queued, Inv
  <1>10. \A u \in Threads : item[u] # None => u # t /\ old(item[u]) /\ ItemEvent(u)' = ItemEvent(u)
    BY <1>1, <1>2 DEF Inv, HandsFit, Typed, ItemEvent
  <1>11. \A id \in Held : old(id)
    BY <1>10, CmlEventsAssumption DEF Held
  <1>12. \A id \in Offers : old(id)
    BY <1>9, <1>11 DEF Offers
  <1>13. \A id \in AllWaiters : old(id)
    BY WaiterFacts
  <1>14. \A u \in Threads : u # t => op[u] \in 0..started
    BY <1>1 DEF Typed
  <1>15. "stopped" # where /\ where \notin {"retry", "next"}
    OBVIOUS
  <1> HIDE DEF old, simple, events
  <1>16. QueuesFit(queue)'
    <2> SUFFICES ASSUME NEW d \in Dirs, NEW c \in Chans
                 PROVE  OffersOf(queue[d][c], Event(d, c))'
      BY <1>1, <1>2, <1>3 DEF QueuesFit, Inv
    <2> DEFINE s == queue[d][c]
    <2>1. OffersOf(s, Event(d, c)) /\ \A id \in ToSet(s) : old(id)
      BY <1>1, <1>9, ItemFacts DEF QueuesFit, Inv, Queued
    <2>2. queue'[d][c] = s
      BY <1>3
    <2> HIDE DEF s
    <2>3. \A i \in DOMAIN s : old(s[i])
      BY <2>1 DEF ToSet
    <2>4. \A i \in DOMAIN s : s[i] <= started' /\ events(s[i]) = EventsOf(s[i]) /\ (simple(s[i]) <=> Simple(s[i]))
      BY <1>5, <1>6, <2>3 DEF old
    <2>5. \A i \in DOMAIN s : s[i] <= started' /\ Event(d, c) \in events(s[i])
      BY <2>1, <2>4 DEF OffersOf
    <2>6. \A i, j \in DOMAIN s : s[i] = s[j] /\ simple(s[i]) => i = j
      BY <2>1, <2>4 DEF OffersOf
    <2> QED
      BY <2>2, <2>5, <2>6 DEF OffersOf, Simple, EventsOf, simple, events
  <1>17. HandsFit'
    <2>1. \A u \in Threads : item[u] # None =>
            /\ item[u] <= started' /\ ItemEvent(u)' \in events(item[u])
            /\ simple(item[u]) => item[u] \notin Queued'
      BY <1>5, <1>6, <1>8, <1>10 DEF Inv, HandsFit, old
    <2>2. \A u, v \in Threads : u # v /\ item[u] = item[v] /\ item[u] # None => ~ simple(item[u])
      BY <1>6, <1>10 DEF Inv, HandsFit
    <2> QED
      BY <1>3, <2>1, <2>2 DEF HandsFit, Simple, EventsOf, simple, events
  <1>18. OffersOpen'
    <2>1. \A id \in Offers : simple(id) => resumed[id] = 0
      BY <1>6, <1>12 DEF Inv, OffersOpen
    <2> QED
      BY <1>3, <1>8, <2>1 DEF OffersOpen, Simple, simple
  <1>19. WaitersOpen'
    <2>1. \A id \in AllWaiters : id <= started' /\ WaitEvent \in events(id) /\ (simple(id) => resumed[id] = 0)
      BY <1>5, <1>6, <1>13 DEF Inv, WaitersOpen, old
    <2> QED
      BY <1>3, <2>1 DEF WaitersOpen, Simple, EventsOf, simple, events
  <1>20. NotOffered'
    <2> SUFFICES ASSUME NEW u \in Threads, pc'[u] \in Working
                 PROVE  /\ op'[u] \notin AllWaiters
                        /\ simple(op'[u]) => op'[u] \notin Offers /\ resumed[op'[u]] = 0
      BY <1>3, <1>8 DEF NotOffered, Simple, simple
    <2>1. CASE u = t
      <3>1. ~ old(op'[u]) /\ op'[u] \in Ids
        BY <1>2, <2>1 DEF old
      <3> QED
        BY <1>7, <1>12, <1>13, <3>1
    <2>2. CASE u # t
      <3>1. pc[u] \in Working /\ op'[u] = op[u]
        BY <1>2, <1>4, <2>2
      <3>2. old(op[u])
        BY <1>1, <3>1, WorkFacts DEF old
      <3>3. op[u] \notin AllWaiters /\ (Simple(op[u]) => op[u] \notin Offers /\ resumed[op[u]] = 0)
        BY <3>1 DEF Inv, NotOffered
      <3> QED
        BY <1>6, <3>1, <3>2, <3>3
    <2> QED
      BY <2>1, <2>2
  <1>21. NotStarted'
    <2>1. \A id \in Ids : id > started' => ~ old(id)
      BY <1>2, <1>5 DEF old
    <2> QED
      BY <1>3, <1>7, <2>1 DEF NotStarted
  <1>22. OnceUnlessChoice'
    <2>1. \A id \in Ids : simple(id) => resumed[id] <= 1
      BY <1>6, <1>7 DEF Inv, OnceUnlessChoice
    <2> QED
      BY <1>3, <2>1 DEF OnceUnlessChoice, Simple, simple
  <1>23. Flags'
    <2>1. \A id \in Ids : simple(id) /\ resumed[id] = 0 => state[id] # "SYNCHED"
      BY <1>6, <1>7 DEF Inv, Flags
    <2>2. \A id \in Ids : what'[id].kind = "plain" /\ resumed[id] = 0 => state[id] = "WAITING"
      BY <1>6, <1>7 DEF Inv, Flags
    <2>3. \A u \in Threads : pc'[u] \in {"retry", "next"} => what'[item[u]].kind # "plain"
      <3> TAKE u \in Threads
      <3> HAVE pc'[u] \in {"retry", "next"}
      <3>1. u # t /\ pc[u] \in {"retry", "next"}
        BY <1>4, <1>15
      <3>2. item[u] # None /\ what[item[u]].kind # "plain"
        BY <1>1, <3>1 DEF Inv, Flags, Control, Controlled, Holding
      <3> QED
        BY <1>6, <1>10, <3>2
    <2> QED
      BY <1>3, <2>1, <2>2, <2>3 DEF Flags, Simple, simple
  <1>24. NoMatchLeft'
    <2> SUFFICES ASSUME NEW s \in Offers, NEW r \in Offers, simple(s), simple(r), NEW c \in Chans,
                        Event("send", c) \in events(s), Event("recv", c) \in events(r)
                 PROVE  FALSE
      BY <1>8 DEF NoMatchLeft, Fit, Simple, EventsOf, simple, events
    <2>1. Simple(s) /\ Simple(r) /\ events(s) = EventsOf(s) /\ events(r) = EventsOf(r)
      BY <1>6, <1>12
    <2>2. Fit(s, r)
      BY <2>1 DEF Fit
    <2> QED
      BY <2>1, <2>2 DEF Inv, NoMatchLeft
  <1>25. Messages'
    <2>1. \A id \in Ids : \A m \in got[id] : m # None => resumed[m] > 0
      BY DEF Inv, Messages
    <2>2. \A id \in Ids : \A m \in got[id] : m \in Ids \union {None}
      BY <1>1 DEF Typed
    <2>3. \A id \in Ids : \A m \in got[id] : m # None => old(m)
      BY <1>7, <2>1, <2>2
    <2>4. \A s \in Ids : simple(s) => \A r1, r2 \in Ids : s \in got[r1] /\ s \in got[r2] => r1 = r2
      <3> SUFFICES ASSUME NEW s \in Ids, simple(s), NEW r1 \in Ids, NEW r2 \in Ids, s \in got[r1], s \in got[r2]
                   PROVE  r1 = r2
        OBVIOUS
      <3>1. s # None
        BY CmlEventsAssumption
      <3>2. Simple(s)
        BY <1>6, <2>3, <3>1
      <3> QED
        BY <3>2 DEF Inv, Messages
    <2>5. \A c \in Chans, r \in Ids :
            PlainOp(r, "recv", c)' =>
              \/ resumed[r] = 0 /\ got[r] = {}
              \/ /\ resumed[r] = 1
                 /\ \E s \in Ids : got[r] = {s} /\ Event("send", c) \in events(s)
      <3> SUFFICES ASSUME NEW c \in Chans, NEW r \in Ids, PlainOp(r, "recv", c)'
                   PROVE  \/ resumed[r] = 0 /\ got[r] = {}
                          \/ /\ resumed[r] = 1
                             /\ \E s \in Ids : got[r] = {s} /\ Event("send", c) \in events(s)
        OBVIOUS
      <3>1. CASE ~ old(r)
        BY <1>7, <3>1
      <3>2. CASE old(r)
        <4>1. PlainOp(r, "recv", c)
          BY <1>6, <3>2 DEF PlainOp
        <4>2. \/ resumed[r] = 0 /\ got[r] = {}
              \/ resumed[r] = 1 /\ \E s \in Ids : got[r] = {s} /\ Event("send", c) \in EventsOf(s)
          BY <4>1 DEF Inv, Messages
        <4>3. \A s \in Ids : got[r] = {s} => events(s) = EventsOf(s)
          BY <1>6, <2>3, CmlEventsAssumption
        <4> QED
          BY <4>2, <4>3
      <3> QED
        BY <3>1, <3>2
    <2> QED
      BY <1>3, <2>1, <2>4, <2>5 DEF Messages, Simple, EventsOf, simple, events
  <1>26. OfferKept'
    <2> SUFFICES ASSUME NEW u \in Threads,
                        pc'[u] = "stopped", what'[op'[u]].kind = "plain", resumed[op'[u]] = 0
                 PROVE  op'[u] \in Offers \union AllWaiters
      BY <1>3, <1>8 DEF OfferKept
    <2>1. u # t /\ pc[u] = "stopped" /\ op'[u] = op[u]
      BY <1>2, <1>4, <1>15
    <2>2. op[u] \in Ids
      BY <1>1, <2>1 DEF Control, Controlled
    <2>3. old(op[u])
      BY <1>2, <1>14, <2>1, <2>2 DEF old
    <2> QED
      BY <1>6, <2>1, <2>3 DEF Inv, OfferKept
  <1> QED
    BY <1>16, <1>17, <1>18, <1>19, <1>20, <1>21, <1>22, <1>23, <1>24, <1>25, <1>26 DEF Inv

LEMMA BeginChanKeeps ==
  ASSUME Inv, NEW t \in Threads, NEW o \in Ops, BeginChan(t, o)
  PROVE  Inv'
  <1> DEFINE where == IF o.kind = "plain" THEN "try" ELSE "poll"
  <1>1. Typed /\ Control
    BY DEF Inv
  <1>2. Typed' /\ Control'
    BY <1>1, BeginChanTypes
  <1>3. Begin(t, o) /\ GoTo(t, where) /\ UNCHANGED cvar
    BY DEF BeginChan
  <1>4. where \in {"try", "poll", "wake", "run"}
    OBVIOUS
  <1> HIDE DEF where
  <1>5. AllWaiters' = AllWaiters /\ WaitersApart'
    BY <1>3, SameWaiters DEF cvar
  <1> QED
    BY <1>2, <1>3, <1>4, <1>5, BeginKeeps

(* The list of waiters is handed to the signalling thread. *)
LEMMA BeginSignalKeeps ==
  ASSUME Inv, NEW t \in Threads, BeginSignal(t)
  PROVE  Inv'
  <1> DEFINE where == IF MoreToWake(waiting) THEN "wake" ELSE "run"
  <1>1. Typed /\ Control /\ WaitersApart
    BY DEF Inv
  <1>2. Typed' /\ Control'
    BY <1>1, BeginSignalTypes
  <1>3. /\ Begin(t, Signal) /\ GoTo(t, where) /\ waiting' = <<>> /\ toWake' = [toWake EXCEPT ![t] = waiting]
    BY DEF BeginSignal
  <1>4. where \in {"try", "poll", "wake", "run"}
    OBVIOUS
  <1> HIDE DEF where
  <1>5. toWake'[t] = waiting /\ \A u \in Threads : u # t => toWake'[u] = toWake[u]
    BY <1>1, <1>3 DEF Typed
  <1>6. toWake[t] = <<>>
    BY <1>1, <1>3, BeginTypes
  <1>7. ToSet(<<>>) = {} /\ IsInjective(<<>>)
    BY EmptyList
  <1>8. AllWaiters' = AllWaiters
    <2>1. AllWaiters' \subseteq AllWaiters
      <3>1. \A u \in Threads : ToSet(toWake'[u]) \subseteq ToSet(toWake[u]) \union ToSet(waiting)
        <4> TAKE u \in Threads
        <4>1. u = t \/ u # t
          OBVIOUS
        <4> QED
          BY <1>5, <4>1
      <3> QED
        BY <1>3, <1>7, <3>1 DEF AllWaiters
    <2>2. ToSet(waiting) \subseteq AllWaiters'
      BY <1>5 DEF AllWaiters
    <2>3. \A u \in Threads : ToSet(toWake[u]) \subseteq AllWaiters'
      <3> TAKE u \in Threads
      <3>1. CASE u = t
        BY <1>6, <1>7, <3>1
      <3>2. CASE u # t
        BY <1>5, <3>2 DEF AllWaiters
      <3> QED
        BY <3>1, <3>2
    <2>4. AllWaiters \subseteq AllWaiters'
      <3>1. AllWaiters = ToSet(waiting) \union UNION {ToSet(toWake[u]) : u \in Threads}
        BY DEF AllWaiters
      <3> HIDE DEF AllWaiters
      <3> QED
        BY <2>2, <2>3, <3>1
    <2> QED
      BY <2>1, <2>4
  <1>9. WaitersApart'
    <2>1. IsInjective(waiting') /\ ToSet(waiting') = {}
      BY <1>3, <1>7
    <2>2. \A u \in Threads : IsInjective(toWake'[u])
      <3> TAKE u \in Threads
      <3>1. u = t \/ u # t
        OBVIOUS
      <3> QED
        BY <1>1, <1>5, <3>1 DEF WaitersApart
    <2>3. \A u, v \in Threads : u # v => ToSet(toWake'[u]) \intersect ToSet(toWake'[v]) = {}
      <3> TAKE u, v \in Threads
      <3>1. CASE u # t /\ v # t
        BY <1>1, <1>5, <3>1 DEF WaitersApart
      <3>2. CASE u = t \/ v = t
        BY <1>1, <1>5, <3>2 DEF WaitersApart
      <3> QED
        BY <3>1, <3>2
    <2> QED
      BY <2>1, <2>2, <2>3 DEF WaitersApart
  <1>10. Signal \in Ops \union {Signal}
    OBVIOUS
  <1> QED
    BY <1>2, <1>3, <1>4, <1>8, <1>9, <1>10, BeginKeeps

----------------------------------------------------------------------------
(* The invariant. *)

LEMMA NextKeeps ==
  ASSUME Inv, Next
  PROVE  Inv'
  <1>1. PICK t \in Threads :
          \/ \E o \in Ops : BeginChan(t, o)
          \/ BeginSignal(t)
          \/ \E e \in ChanEvents :
               \/ Try(t, e) \/ Spin(t, e) \/ TryEmpty(t, e)
               \/ BlockEmpty(t, e) \/ BlockTake(t, e)
          \/ Poll(t) \/ Claim(t) \/ ClaimFails(t) \/ Match(t) \/ MatchFails(t) \/ RollBack(t)
          \/ TryWait(t) \/ BlockWait(t) \/ WakeWaiter(t)
    BY DEF Next
  <1> QED
    BY <1>1, BeginChanKeeps, BeginSignalKeeps, TryKeeps, SpinKeeps, TryEmptyKeeps, BlockEmptyKeeps,
       BlockTakeKeeps, PollKeeps, ClaimKeeps, ClaimFailsKeeps, MatchKeeps, MatchFailsKeeps,
       RollBackKeeps, WaitKeeps, WakeKeeps

LEMMA StutterKeeps ==
  ASSUME Inv, UNCHANGED vars
  PROVE  Inv'
  <1>1. UNCHANGED <<pc, started, what, op, todo, enabled, queue, lock, item, state, local, promoted,
                    forwarded, cvState, waiting, toWake, resumed, got>>
    BY DEF vars, chans, flagVars, cvar
  <1>2. Typed' /\ Control'
    BY <1>1 DEF Inv, Typed, Control, Controlled, AtWork, EventsOf, Simple
  <1>3. QueuesFit(queue)' /\ HandsFit'
    BY <1>1 DEF Inv, QueuesFit, OffersOf, HandsFit, ItemEvent, Queued, Items, EventsOf, Simple
  <1>4. OffersOpen' /\ WaitersApart' /\ WaitersOpen' /\ NotOffered' /\ NotStarted'
    <2>1. Offers' = Offers
      BY <1>1 DEF Offers, Queued, Held, Items
    <2>2. AllWaiters' = AllWaiters /\ WaitersApart'
      BY <1>1, SameWaiters
    <2> QED
      BY <1>1, <2>1, <2>2 DEF Inv, OffersOpen, WaitersOpen, NotOffered, NotStarted, EventsOf, Simple
  <1>5. OnceUnlessChoice' /\ Flags' /\ NoMatchLeft' /\ Messages' /\ OfferKept'
    BY <1>1 DEF Inv, OnceUnlessChoice, Flags, NoMatchLeft, Fit, Messages, PlainOp, OfferKept,
                Offers, Queued, Held, Items, AllWaiters, EventsOf, Simple
  <1> QED
    BY <1>2, <1>3, <1>4, <1>5 DEF Inv

LEMMA InitKeeps ==
  ASSUME Init
  PROVE  Inv
  <1>1. MaxOps \in Nat /\ None \notin Ids
    BY CmlEventsAssumption
  <1>2. /\ pc = [t \in Threads |-> "run"] /\ started = 0 /\ what = [id \in Ids |-> Signal]
        /\ op = [t \in Threads |-> 0]
        /\ todo = [t \in Threads |-> <<>>] /\ enabled = [t \in Threads |-> <<>>]
        /\ queue = [dir \in Dirs |-> [c \in Chans |-> <<>>]]
        /\ lock = [c \in Chans |-> None] /\ item = [t \in Threads |-> None]
        /\ state = [id \in Ids |-> "WAITING"] /\ local = [t \in Threads |-> "WAITING"]
        /\ promoted = {} /\ forwarded = {}
        /\ cvState = FALSE /\ waiting = <<>> /\ toWake = [t \in Threads |-> <<>>]
        /\ resumed = [id \in Ids |-> 0] /\ got = [id \in Ids |-> {}]
    BY DEF Init, Dirs
  <1>3. ToSet(<<>>) = {} /\ IsInjective(<<>>)
    BY EmptyList
  <1>4. Typed
    <2>1. <<>> \in Seq(Events) /\ <<>> \in Seq(Ids)
      OBVIOUS
    <2>2. /\ pc \in [Threads -> Places] /\ started \in 0..MaxOps /\ what \in [Ids -> Ops \union {Signal}]
          /\ state \in [Ids -> Statuses] /\ local \in [Threads -> {"WAITING", "CLAIMED"}]
          /\ resumed \in [Ids -> 0..2] /\ op \in [Threads -> 0..started]
      BY <1>1, <1>2 DEF Places, Statuses
    <2>3. queue \in [Dirs -> [Chans -> Seq(Ids)]]
      BY <1>2, <2>1
    <2>4. /\ todo \in [Threads -> Seq(Events)] /\ enabled \in [Threads -> Seq(Events)]
          /\ waiting \in Seq(Ids) /\ toWake \in [Threads -> Seq(Ids)]
      BY <1>2, <2>1
    <2> QED
      BY <1>2, <2>2, <2>3, <2>4 DEF Typed
  <1>5. Control
    BY <1>2 DEF Control, Controlled, Working, Synching, Holding
  <1>6. Offers = {} /\ AllWaiters = {}
    BY <1>1, <1>2, <1>3 DEF Offers, Queued, Held, Items, AllWaiters
  <1>7. QueuesFit(queue)
    BY <1>2 DEF QueuesFit, OffersOf
  <1>8. HandsFit
    BY <1>2 DEF HandsFit
  <1>9. WaitersApart
    BY <1>2, <1>3 DEF WaitersApart
  <1>10. OffersOpen /\ WaitersOpen /\ NoMatchLeft
    BY <1>6 DEF OffersOpen, WaitersOpen, NoMatchLeft
  <1>11. NotOffered /\ OfferKept
    BY <1>2 DEF NotOffered, OfferKept, Working, Synching
  <1>12. NotStarted /\ OnceUnlessChoice
    BY <1>2 DEF NotStarted, OnceUnlessChoice
  <1>13. Flags
    BY <1>2 DEF Flags
  <1>14. Messages
    BY <1>2 DEF Messages
  <1> QED
    BY <1>4, <1>5, <1>7, <1>8, <1>9, <1>10, <1>11, <1>12, <1>13, <1>14 DEF Inv

LEMMA Invariance == Spec => []Inv
  <1>1. Init => Inv
    BY InitKeeps
  <1>2. Inv /\ [Next]_vars => Inv'
    BY NextKeeps, StutterKeeps
  <1> QED
    BY <1>1, <1>2, PTL DEF Spec

(* Every variable has its type, and a thread that has taken an item holds   *)
(* the lock of the item's channel: nobody else changes the queues between  *)
(* dequeueing an item and matching it or putting it back.                  *)
THEOREM TypesCorrect == Spec => []TypeOK
  <1>1. Inv => TypeOK
    <2> SUFFICES ASSUME Typed, Control
                 PROVE  TypeOK
      BY DEF Inv
    <2>1. \A dir \in {"send", "recv"}, c \in Chans : queue[dir][c] \in Seq(Ids)
      BY DEF Typed, Dirs
    <2>2. local \in [Threads -> Statuses]
      BY DEF Typed, Statuses
    <2>3. \A t \in Threads : item[t] # None => lock[Head(todo[t]).ch] = op[t]
      BY DEF Control, Controlled
    <2> QED
      BY <2>1, <2>2, <2>3 DEF TypeOK, Typed
  <1> QED
    BY <1>1, Invariance, PTL

(* A send, a receive, a wait and a synchronisation on one event return at  *)
(* most once, whoever meets them on their channel: an offer is made once,  *)
(* and leaves the queues and the hands when its operation is resumed.      *)
THEOREM ReturnsOnce == Spec => []OnceUnlessChoice
  <1>1. Inv => OnceUnlessChoice
    BY DEF Inv
  <1> QED
    BY <1>1, Invariance, PTL

(* No send waits on a channel beside a receive that could have it: chan-send *)
(* and chan-recv look through the opposite queue before they leave an item. *)
THEOREM MatchesAreMade == Spec => []NoMissedMatch
  <1>1. Inv => NoMissedMatch
    <2> SUFFICES ASSUME Inv, NEW c \in Chans,
                        NEW s \in ToSet(queue["send"][c]), NEW r \in ToSet(queue["recv"][c]),
                        Simple(s), Simple(r)
                 PROVE  FALSE
      BY DEF NoMissedMatch
    <2>1. Typed /\ QueuesFit(queue) /\ "send" \in Dirs /\ "recv" \in Dirs
      BY DEF Inv, Dirs
    <2>2. s \in Offers /\ r \in Offers
      BY <2>1, ItemFacts DEF Offers, Queued
    <2>3. Event("send", c) \in EventsOf(s) /\ Event("recv", c) \in EventsOf(r)
      BY <2>1, ItemFacts
    <2> QED
      BY <2>2, <2>3 DEF Inv, NoMatchLeft, Fit
  <1> QED
    BY <1>1, Invariance, PTL

(* A receive that returned has one message, sent on its channel by a send  *)
(* that returns too, and the message of a send on one event goes to one    *)
(* receive.                                                                *)
THEOREM MessagesCorrect == Spec => []MessageIntegrity
  <1>1. Inv => MessageIntegrity
    <2> SUFFICES ASSUME Inv, NEW c \in Chans, NEW r \in Ids, PlainOp(r, "recv", c)
                 PROVE  /\ Cardinality(got[r]) = resumed[r]
                        /\ \A s \in got[r] :
                             /\ s \in Ids /\ resumed[s] > 0
                             /\ Event("send", c) \in ToSet(what[s].evts)
                             /\ Simple(s) => \A o \in Ids \ {r} : s \notin got[o]
      BY DEF MessageIntegrity
    <2>1. Messages
      BY DEF Inv
    <2>2. CASE resumed[r] = 0 /\ got[r] = {}
      BY <2>2, FS_EmptySet
    <2>3. CASE resumed[r] = 1 /\ \E s \in Ids : got[r] = {s} /\ Event("send", c) \in EventsOf(s)
      <3>1. PICK s \in Ids : got[r] = {s} /\ Event("send", c) \in EventsOf(s)
        BY <2>3
      <3>2. Cardinality(got[r]) = 1
        BY <3>1, FS_Singleton
      <3>3. s # None
        BY CmlEventsAssumption
      <3>4. resumed[s] > 0 /\ (Simple(s) => \A o \in Ids \ {r} : s \notin got[o])
        BY <2>1, <3>1, <3>3 DEF Messages
      <3> QED
        BY <2>3, <3>1, <3>2, <3>4 DEF EventsOf
    <2> QED
      BY <2>1, <2>2, <2>3 DEF Messages
  <1> QED
    BY <1>1, Invariance, PTL

(* A thread that stopped in chan-send, chan-recv or cvar-wait can be       *)
(* resumed until it is: what it left is never dropped with the stale items, *)
(* in a claim that is rolled back, or between the lists of cvar-signal.    *)
THEOREM StoppedCanBeResumed == Spec => []WaitersKept
  <1>1. Inv => WaitersKept
    <2> SUFFICES ASSUME Inv, NEW t \in Threads, pc[t] = "stopped", what[op[t]].kind = "plain",
                        resumed[op[t]] = 0, NEW e, e = Head(what[op[t]].evts)
                 PROVE  IF e = WaitEvent
                        THEN op[t] \in ToSet(waiting) \union UNION {ToSet(toWake[u]) : u \in Threads}
                        ELSE /\ state[op[t]] = "WAITING"
                             /\ \/ op[t] \in ToSet(queue[e.dir][e.ch])
                                \/ \E u \in Threads : item[u] = op[t]
      BY DEF WaitersKept
    <2>1. Typed /\ Control /\ QueuesFit(queue)
      BY DEF Inv
    <2>2. op[t] \in Ids
      BY <2>1 DEF Control, Controlled
    <2>3. Simple(op[t]) /\ EventsOf(op[t]) = {e} /\ e \in Events
      BY <2>1, <2>2, PlainIsSimple
    <2>4. op[t] \in Offers \union AllWaiters
      BY DEF Inv, OfferKept
    <2>5. CASE e = WaitEvent
      <3>1. op[t] \notin Offers
        BY <2>3, <2>5, OfferEvent, EventFacts
      <3> QED
        BY <2>4, <2>5, <3>1 DEF AllWaiters
    <2>6. CASE e # WaitEvent
      <3>1. op[t] \notin AllWaiters
        BY <2>3, <2>6, WaiterFacts
      <3>2. op[t] \in Offers
        BY <2>4, <3>1
      <3>3. state[op[t]] = "WAITING"
        BY <3>2, PlainOffers
      <3>4. e.dir \in Dirs /\ e.ch \in Chans /\ e = Event(e.dir, e.ch)
        BY <2>3, <2>6, EventFacts DEF Events
      <3>5. CASE op[t] \in Queued
        <4>1. op[t] \in ToSet(queue[e.dir][e.ch])
          BY <2>1, <2>2, <2>3, <3>4, <3>5, OneQueue DEF Queued
        <4> QED
          BY <2>6, <3>3, <4>1
      <3>6. CASE op[t] \in Held
        BY <2>6, <3>3, <3>6 DEF Held
      <3> QED
        BY <3>2, <3>5, <3>6 DEF Offers
    <2> QED
      BY <2>5, <2>6
  <1> QED
    BY <1>1, Invariance, PTL
=============================================================================
