---------------------------- MODULE WorkStealing ----------------------------
(***************************************************************************)
(* A work group of the work-stealing scheduler: the workers and thieves of *)
(* basis/scheduler/work-stealing.pml, and the futures of                   *)
(* basis/implicit-thread that run on it.                                   *)
(*                                                                         *)
(* Each vproc has a worker, which runs the threads of the deques of its    *)
(* vproc.  A worker without one sends a thief, a fiber, to the vproc of a  *)
(* victim and yields until the thief has put an answer into their cell.    *)
(*                                                                         *)
(* The threads are those of a program with futures.  A task is the main    *)
(* thread or the body of a future.  To call a future k pushes the rest of  *)
(* the calling task, the context of k, on the deque and goes on with the   *)
(* body of k; who ends the body takes the context back, if it is still     *)
(* there, and goes on with it.                                             *)
(*                                                                         *)
(* A step is one access to what vprocs share, or what a fiber does with    *)
(* its own vproc's deques while signals are masked.  The fibers of a vproc *)
(* change places where they yield or run with signals unmasked.            *)
(***************************************************************************)
EXTENDS WorkStealingDeque, Lists, SequencesExt

CONSTANTS
  VProcs,      \* the virtual processors, each with one worker
  MaxFutures,  \* bound: the futures of the program
  DequeSz,     \* DEFAULT_DEQUE_SZ
  NoDeque,     \* M_NIL in the place of a deque
  NoVProc      \* no victim

ASSUME WorkStealingAssumption ==
  /\ IsFiniteSet(VProcs) /\ VProcs # {}
  /\ NoVProc \notin VProcs
  /\ MaxFutures \in Nat
  /\ DequeSz \in Nat /\ DequeSz >= 2

Main == 0
NoTask == -1
Futures == 1..MaxFutures
Tasks == {Main} \union Futures

(* What a deque holds: the rest of a task, either as the context of the    *)
(* future it called, or captured when it was preempted or blocked.         *)
Thread(t, k) == [task |-> t, future |-> k]
Threads == [task : Tasks, future : Futures \union {NoTask}]

(* The tags of Manticore's values tell the two apart from pointers. *)
ASSUME NilAssumption ==
  /\ Nil \notin [task : Tasks \union {NoTask}, future : Futures \union {NoTask}]
  /\ NoDeque \notin DequeOf(Threads, DequeSz)

VARIABLES
  primary,     \* the primary deque of each vproc
  resumeDeques,\* its resume deques, the newest first until a collection
  pc,          \* where the worker is
  running,     \* the task that its vproc runs under it
  nTries,      \* the argument of lp in the idle loop
  victim,      \* the vproc whose thief has not answered yet: its cell is NONE
  ch,          \* what the last thief answered: a list of at most one thread
  idleFlags,
  nIdle,
  terminated,
  calledBy,    \* the task that called each future, NoTask before the call
  done,        \* the futures whose ivar has a value
  waiters,     \* the blocked list of each ivar
  mainState    \* "outside" the group, "begun", "started" or "left"

deques == <<primary, resumeDeques>>
group == <<idleFlags, nIdle, terminated>>
program == <<calledBy, done, waiters, mainState>>
worker == <<pc, running, nTries>>
vars == <<deques, worker, victim, ch, group, program>>

(* nIdle is ~1 until the main thread calls @work-group-started. *)
Init ==
  /\ primary = [v \in VProcs |-> NoDeque]
  /\ resumeDeques = [v \in VProcs |-> <<>>]
  /\ pc = [v \in VProcs |-> "init"]
  /\ running = [v \in VProcs |-> NoTask]
  /\ nTries = [v \in VProcs |-> 0]
  /\ victim = [v \in VProcs |-> NoVProc]
  /\ ch = [v \in VProcs |-> <<>>]
  /\ idleFlags = [v \in VProcs |-> FALSE]
  /\ nIdle = -1
  /\ terminated = FALSE
  /\ calledBy = [k \in Futures |-> NoTask]
  /\ done = {}
  /\ waiters = [k \in Futures |-> <<>>]
  /\ mainState = "outside"

NVProcs == Cardinality(VProcs)

(* Other fibers of v get their turn: the worker has yielded, it runs with  *)
(* signals unmasked, it has not started yet, or it has stopped.            *)
Released(v) ==
  pc[v] \in {"init", "preempted", "yield", "wait", "deactivate", "terminate", "setIdle",
             "asleep", "clearIdle", "activate", "stopped"}

GoTo(v, where) == pc' = [pc EXCEPT ![v] = where]

(* The task that v runs stops or is put away; schedLp gets control. *)
BackToWorker(v) ==
  /\ running' = [running EXCEPT ![v] = NoTask]
  /\ GoTo(v, "next")

----------------------------------------------------------------------------
(* The deques of a vproc. *)

Push(v, th) == primary' = [primary EXCEPT ![v] = PushNewEnd(@, th)]

Nonempty(ds) == {i \in DOMAIN ds : ~ IsEmpty(ds[i])}

(* M_ResumeDeques claims every nonempty resume deque.  It conses them up,  *)
(* so that the last one heads the list; callers look at the head only.     *)
ClaimNonempty(ds) == [i \in DOMAIN ds |-> IF IsEmpty(ds[i]) THEN ds[i] ELSE Claim(ds[i])]

HeadDeque(ds) == Max(Nonempty(ds))

(* The outcome of popping from the head of the resume deques, given what   *)
(* Pop(deque) returns, and of popping from the primary deque.              *)
FromResumeDeques(v, Pop(_)) ==
  LET i == HeadDeque(resumeDeques[v])
      popped == Pop(ClaimNonempty(resumeDeques[v])[i])
  IN  [elt |-> popped.elt,
       primary |-> primary[v],
       resumeDeques |-> [ClaimNonempty(resumeDeques[v]) EXCEPT ![i] = popped.deque]]

FromPrimary(v, Pop(_)) ==
  LET popped == Pop(primary[v])
  IN  [elt |-> popped.elt, primary |-> popped.deque, resumeDeques |-> resumeDeques[v]]

Nothing(v) == [elt |-> Nil, primary |-> primary[v], resumeDeques |-> resumeDeques[v]]

(* @try-pop-local-in-atomic *)
TryPopLocal(v) ==
  IF Nonempty(resumeDeques[v]) # {}
  THEN FromResumeDeques(v, PopNewEnd)
  ELSE FromPrimary(v, PopNewEnd)

(* @try-pop-remote-in-atomic: a thief leaves the last thread of a primary  *)
(* deque alone.                                                            *)
TryPopRemote(v) ==
  IF Nonempty(resumeDeques[v]) # {}
  THEN FromResumeDeques(v, PopOldEnd)
  ELSE IF primary[v] # NoDeque /\ Size(primary[v]) > 1
       THEN FromPrimary(v, PopOldEnd)
       ELSE Nothing(v)

(* @resume-task-on-new-deque, for a list of threads: each gets a deque.    *)
ResumeOnNewDeques(v, ths) ==
  resumeDeques' = [resumeDeques EXCEPT ![v] =
    [i \in DOMAIN ths |-> Release(PushNewEnd(NewDeque(DequeSz), ths[Len(ths) + 1 - i]))] \o @]

(* PruneDequeList, at each collection: frees the deques that are empty and *)
(* not claimed, and reverses the list.                                     *)
Prune(v) ==
  LET InUse(d) == ~ IsEmpty(d) \/ d.nClaimed # 0
      kept == SelectAt(resumeDeques[v], {i \in DOMAIN resumeDeques[v] : InUse(resumeDeques[v][i])})
  IN  /\ resumeDeques' = [resumeDeques EXCEPT ![v] = Reverse(kept)]
      /\ UNCHANGED <<primary, worker, victim, ch, group, program>>

----------------------------------------------------------------------------
(* The worker: schedLp and executeNextTask. *)

(* init: allocate the deques.  The secondary one is never used. *)
Start(v) ==
  /\ pc[v] = "init"
  /\ primary' = [primary EXCEPT ![v] = NewDeque(DequeSz)]
  /\ GoTo(v, "next")
  /\ UNCHANGED <<resumeDeques, running, nTries, victim, ch, group, program>>

RunNext(v) ==
  /\ pc[v] = "next"
  /\ ~ IsEmpty(primary[v])
  /\ LET popped == PopNewEnd(primary[v])
     IN  /\ primary' = [primary EXCEPT ![v] = popped.deque]
         /\ running' = [running EXCEPT ![v] = popped.elt.task]
  /\ GoTo(v, "run")
  /\ UNCHANGED <<resumeDeques, nTries, victim, ch, group, program>>

(* Faulty variant: resume deques are looked at before the primary one. *)
RunResumedFirst(v) ==
  /\ pc[v] = "next"
  /\ LET popped == TryPopLocal(v)
     IN  /\ popped.elt # Nil
         /\ primary' = [primary EXCEPT ![v] = PushNewEnd(popped.primary, popped.elt)]
         /\ resumeDeques' = [resumeDeques EXCEPT ![v] = popped.resumeDeques]
  /\ UNCHANGED <<worker, victim, ch, group, program>>

(* The primary deque is empty, and @add-list-in-atomic puts what            *)
(* @try-pop-local-in-atomic finds on it.                                    *)
RunResumed(v) ==
  /\ pc[v] = "next"
  /\ IsEmpty(primary[v])
  /\ LET popped == TryPopLocal(v)
     IN  /\ popped.elt # Nil
         /\ primary' = [primary EXCEPT ![v] = PushNewEnd(popped.primary, popped.elt)]
         /\ resumeDeques' = [resumeDeques EXCEPT ![v] = popped.resumeDeques]
  /\ UNCHANGED <<worker, victim, ch, group, program>>

RunDry(v) ==
  /\ pc[v] = "next"
  /\ IsEmpty(primary[v])
  /\ TryPopLocal(v).elt = Nil
  /\ nTries' = [nTries EXCEPT ![v] = 0]
  /\ GoTo(v, "yield")
  /\ UNCHANGED <<deques, running, victim, ch, group, program>>

(* The PREEMPT handler pushes the thread without looking for room, and     *)
(* yields.  In "preempted" other fibers of the vproc run.                  *)
Preempt(v) ==
  /\ pc[v] = "run"
  /\ Push(v, Thread(running[v], NoTask))
  /\ running' = [running EXCEPT ![v] = NoTask]
  /\ GoTo(v, "preempted")
  /\ UNCHANGED <<resumeDeques, nTries, victim, ch, group, program>>

YieldReturns(v) ==
  /\ pc[v] = "preempted"
  /\ GoTo(v, "next")
  /\ UNCHANGED <<deques, running, nTries, victim, ch, group, program>>

----------------------------------------------------------------------------
(* Idle workers and thieves. *)

FailedTry(v) ==
  /\ nTries' = [nTries EXCEPT ![v] = @ + 1]
  /\ GoTo(v, IF nTries[v] + 1 > NVProcs THEN "lastTry" ELSE "yield")

(* @try-steal-in-atomic, when chance makes the worker its own victim. *)
StealFromSelf(v) ==
  /\ pc[v] = "yield"
  /\ LET popped == TryPopLocal(v)
     IN  /\ resumeDeques' = [resumeDeques EXCEPT ![v] = popped.resumeDeques]
         /\ IF popped.elt = Nil
            THEN FailedTry(v) /\ UNCHANGED primary
            ELSE /\ primary' = [primary EXCEPT ![v] = PushNewEnd(popped.primary, popped.elt)]
                 /\ GoTo(v, "next")
                 /\ UNCHANGED nTries
  /\ UNCHANGED <<running, victim, ch, group, program>>

SkipIdleVictim(v, w) ==
  /\ pc[v] = "yield"
  /\ w # v
  /\ idleFlags[w]
  /\ FailedTry(v)
  /\ UNCHANGED <<deques, running, victim, ch, group, program>>

(* @thief-in-atomic: a new cell, and a thief to the landing pad of w. *)
SendThief(v, w) ==
  /\ pc[v] = "yield"
  /\ w # v
  /\ ~ idleFlags[w]
  /\ victim' = [victim EXCEPT ![v] = w]
  /\ ch' = [ch EXCEPT ![v] = <<>>]
  /\ GoTo(v, "wait")
  /\ UNCHANGED <<deques, running, nTries, group, program>>

(* Faulty variant: a thief that finds nothing leaves the cell as it is. *)
ThiefSilent(w, v) ==
  /\ victim[v] = w
  /\ Released(w)
  /\ LET popped == TryPopRemote(w)
     IN  /\ popped.elt # Nil
         /\ primary' = [primary EXCEPT ![w] = popped.primary]
         /\ resumeDeques' = [resumeDeques EXCEPT ![w] = popped.resumeDeques]
         /\ ch' = [ch EXCEPT ![v] = <<popped.elt>>]
  /\ victim' = [victim EXCEPT ![v] = NoVProc]
  /\ UNCHANGED <<worker, group, program>>

(* The thief of v gets its turn on w, runs with signals masked and stops. *)
Thief(w, v) ==
  /\ victim[v] = w
  /\ Released(w)
  /\ LET popped == TryPopRemote(w)
     IN  /\ primary' = [primary EXCEPT ![w] = popped.primary]
         /\ resumeDeques' = [resumeDeques EXCEPT ![w] = popped.resumeDeques]
         /\ ch' = [ch EXCEPT ![v] = IF popped.elt = Nil THEN <<>> ELSE <<popped.elt>>]
  /\ victim' = [victim EXCEPT ![v] = NoVProc]
  /\ UNCHANGED <<worker, group, program>>

(* wait: the cell is SOME list, which is put on the deque unless it is nil. *)
Answered(v) ==
  /\ pc[v] = "wait"
  /\ victim[v] = NoVProc
  /\ IF ch[v] = <<>>
     THEN FailedTry(v) /\ UNCHANGED primary
     ELSE Push(v, ch[v][1]) /\ GoTo(v, "next") /\ UNCHANGED nTries
  /\ ch' = [ch EXCEPT ![v] = <<>>]
  /\ UNCHANGED <<resumeDeques, running, victim, group, program>>

(* Faulty variant: the worker goes idle without the last look. *)
LastTryBlind(v) ==
  /\ pc[v] = "lastTry"
  /\ GoTo(v, "deactivate")
  /\ UNCHANGED <<deques, running, nTries, victim, ch, group, program>>

(* After nVProcs + 1 failures: a last look at the deque, where a thread    *)
(* that enters the group may have been put.                                *)
LastTry(v) ==
  /\ pc[v] = "lastTry"
  /\ GoTo(v, IF IsEmpty(primary[v]) THEN "deactivate" ELSE "next")
  /\ UNCHANGED <<deques, running, nTries, victim, ch, group, program>>

(* Faulty variant: the count is compared one too early. *)
DeactivateEarly(v) ==
  /\ pc[v] = "deactivate"
  /\ nIdle' = nIdle + 1
  /\ GoTo(v, IF nIdle' = NVProcs - 1 THEN "terminate" ELSE "setIdle")
  /\ UNCHANGED <<deques, running, nTries, victim, ch, idleFlags, terminated, program>>

(* setActive(false) *)
Deactivate(v) ==
  /\ pc[v] = "deactivate"
  /\ nIdle' = nIdle + 1
  /\ GoTo(v, IF nIdle = NVProcs - 1 THEN "terminate" ELSE "setIdle")
  /\ UNCHANGED <<deques, running, nTries, victim, ch, idleFlags, terminated, program>>

Terminate(v) ==
  /\ pc[v] = "terminate"
  /\ terminated' = TRUE
  /\ GoTo(v, "setIdle")
  /\ UNCHANGED <<deques, running, nTries, victim, ch, idleFlags, nIdle, program>>

SetIdle(v) ==
  /\ pc[v] = "setIdle"
  /\ idleFlags' = [idleFlags EXCEPT ![v] = TRUE]
  /\ GoTo(v, "asleep")
  /\ UNCHANGED <<deques, running, nTries, victim, ch, nIdle, terminated, program>>

(* Faulty variant: a worker stops only if all are idle just now. *)
WakeUpRecounting(v) ==
  /\ pc[v] = "asleep"
  /\ GoTo(v, IF terminated /\ nIdle = NVProcs THEN "stopped" ELSE "clearIdle")
  /\ UNCHANGED <<deques, running, nTries, victim, ch, group, program>>

(* After spinning or sleeping: isTerminated. *)
WakeUp(v) ==
  /\ pc[v] = "asleep"
  /\ GoTo(v, IF terminated THEN "stopped" ELSE "clearIdle")
  /\ UNCHANGED <<deques, running, nTries, victim, ch, group, program>>

ClearIdle(v) ==
  /\ pc[v] = "clearIdle"
  /\ idleFlags' = [idleFlags EXCEPT ![v] = FALSE]
  /\ GoTo(v, "activate")
  /\ UNCHANGED <<deques, running, nTries, victim, ch, nIdle, terminated, program>>

(* Faulty variant: the worker is still counted as idle. *)
ActivateUncounted(v) ==
  /\ pc[v] = "activate"
  /\ nTries' = [nTries EXCEPT ![v] = 0]
  /\ GoTo(v, "yield")
  /\ UNCHANGED <<deques, running, victim, ch, group, program>>

(* setActive(true), and the loop starts again. *)
Activate(v) ==
  /\ pc[v] = "activate"
  /\ nIdle' = nIdle - 1
  /\ nTries' = [nTries EXCEPT ![v] = 0]
  /\ GoTo(v, "yield")
  /\ UNCHANGED <<deques, running, victim, ch, idleFlags, terminated, program>>

----------------------------------------------------------------------------
(* Entering and leaving the group. *)

(* @work-group-begin, on the vproc whose top-level scheduler runs the main *)
(* thread: @migrate-to-top-level-sched has put it behind that vproc's      *)
(* worker, which has therefore allocated its deque.                        *)
Begin(v) ==
  /\ mainState = "outside"
  /\ Released(v) /\ pc[v] # "init"
  /\ ~ IsFull(primary[v])
  /\ Push(v, Thread(Main, NoTask))
  /\ mainState' = "begun"
  /\ UNCHANGED <<resumeDeques, worker, victim, ch, group, calledBy, done, waiters>>

(* @work-group-started, by the main thread once it runs under a worker. *)
WorkGroupStarted(v) ==
  /\ running[v] = Main
  /\ mainState = "begun"
  /\ nIdle' = nIdle + 1
  /\ mainState' = "started"
  /\ UNCHANGED <<deques, worker, victim, ch, idleFlags, terminated, calledBy, done, waiters>>

(* The main thread ends: @work-group-end. *)
EndMain(v) ==
  /\ running[v] = Main
  /\ mainState = "started"
  /\ BackToWorker(v)
  /\ mainState' = "left"
  /\ UNCHANGED <<deques, nTries, victim, ch, group, calledBy, done, waiters>>

----------------------------------------------------------------------------
(* Futures: multilisp-future.pml and implicit-thread-ivar.pml. *)

(* @future-no-cancelation up to the call of the body: @spawn-task pushes   *)
(* the context.  (On a full deque it raises Fail instead.)                 *)
CallFuture(v, k) ==
  /\ running[v] # NoTask /\ mainState # "begun"
  /\ calledBy[k] = NoTask /\ \A j \in 1..(k - 1) : calledBy[j] # NoTask
  /\ ~ IsFull(primary[v])
  /\ Push(v, Thread(running[v], k))
  /\ calledBy' = [calledBy EXCEPT ![k] = running[v]]
  /\ running' = [running EXCEPT ![v] = k]
  /\ UNCHANGED <<resumeDeques, pc, nTries, victim, ch, group, done, waiters, mainState>>

(* Of the others, t knows the futures it called and those its caller had   *)
(* before it called t.                                                     *)
Knows(t, k) ==
  \/ calledBy[k] = t
  \/ t \in Futures /\ k < t /\ calledBy[k] # NoTask /\ calledBy[k] = calledBy[t]

(* @get on an empty ivar: join the blocked list and stop.  The spin lock   *)
(* makes @put wait for those who saw the ivar empty.                       *)
TouchEmpty(v, k) ==
  /\ running[v] # NoTask /\ Knows(running[v], k)
  /\ k \notin done
  /\ waiters' = [waiters EXCEPT ![k] = <<Thread(running[v], NoTask)>> \o @]
  /\ BackToWorker(v)
  /\ UNCHANGED <<deques, nTries, victim, ch, group, calledBy, done, mainState>>

(* @put, and the threads on the blocked list are resumed on v. *)
Put(v, k) ==
  /\ done' = done \union {k}
  /\ waiters' = [waiters EXCEPT ![k] = <<>>]
  /\ ResumeOnNewDeques(v, waiters[k])

(* Faulty variant: the result of @remove-task is not tested. *)
EndBodyUntested(v) ==
  /\ running[v] \in Futures
  /\ primary' = [primary EXCEPT ![v] = PopNewEnd(@).deque]
  /\ done' = done \union {running[v]}
  /\ running' = [running EXCEPT ![v] = calledBy[running[v]]]
  /\ UNCHANGED <<resumeDeques, pc, nTries, victim, ch, group, calledBy, waiters, mainState>>

(* The body has its value: @remove-task.  With its own context it goes on  *)
(* (the fast clone: nobody has seen the ivar).  Otherwise it puts the      *)
(* value and stops; a thread of somebody else's would be dropped.          *)
EndBody(v) ==
  /\ running[v] \in Futures
  /\ LET k == running[v]
         popped == PopNewEnd(primary[v])
     IN  /\ primary' = [primary EXCEPT ![v] = popped.deque]
         /\ IF popped.elt = Thread(calledBy[k], k)
            THEN /\ done' = done \union {k}
                 /\ running' = [running EXCEPT ![v] = calledBy[k]]
                 /\ UNCHANGED <<resumeDeques, pc, waiters>>
            ELSE Put(v, k) /\ BackToWorker(v)
  /\ UNCHANGED <<nTries, victim, ch, group, calledBy, mainState>>

(* exh': the body raises an exception.  The context stays on the deque. *)
RaiseInBody(v) ==
  /\ running[v] \in Futures
  /\ Put(v, running[v])
  /\ BackToWorker(v)
  /\ UNCHANGED <<primary, nTries, victim, ch, group, calledBy, mainState>>

----------------------------------------------------------------------------
Schedule(v) ==
  \/ Start(v) \/ RunNext(v) \/ RunResumed(v) \/ RunDry(v) \/ YieldReturns(v)
  \/ Answered(v) \/ LastTry(v)
  \/ Deactivate(v) \/ Terminate(v) \/ SetIdle(v) \/ WakeUp(v) \/ ClearIdle(v) \/ Activate(v)

TrySteal(v) ==
  \/ StealFromSelf(v)
  \/ \E w \in VProcs : SkipIdleVictim(v, w) \/ SendThief(v, w)

EndTask(v) == WorkGroupStarted(v) \/ EndMain(v) \/ EndBody(v) \/ RaiseInBody(v)

Next ==
  \E v \in VProcs :
    \/ Schedule(v)
    \/ TrySteal(v)
    \/ \E w \in VProcs : Thief(w, v)
    \/ Preempt(v)
    \/ Prune(v)
    \/ Begin(v)
    \/ EndTask(v)
    \/ \E k \in Futures : CallFuture(v, k) \/ TouchEmpty(v, k)

Spec == Init /\ [][Next]_vars

(***************************************************************************)
(* A worker goes on by itself.  A fiber on a landing pad or on the queue   *)
(* of a vproc gets its turn (RoundRobin), if the vproc releases its worker *)
(* now and then, which the timer and the request of a signal bring about:  *)
(* thieves are strongly fair.  Tasks end: their code is finite, and they   *)
(* run whenever the scheduler lets them.                                   *)
(***************************************************************************)
Fairness ==
  \A v \in VProcs :
    /\ WF_vars(Schedule(v) \/ TrySteal(v))
    /\ SF_vars(\E w \in VProcs : Thief(w, v))
    /\ SF_vars(EndTask(v))

FairSpec == Spec /\ Fairness

----------------------------------------------------------------------------
(* Every variable keeps to its type; @check-deque is part of it, and a     *)
(* vproc runs a task exactly while its worker has dispatched one.          *)
TypeOK ==
  /\ primary \in [VProcs -> DequeOf(Threads, DequeSz) \union {NoDeque}]
  /\ resumeDeques \in [VProcs -> Seq(DequeOf(Threads, DequeSz))]
  /\ running \in [VProcs -> Tasks \union {NoTask}]
  /\ nTries \in [VProcs -> 0..(NVProcs + 1)]
  /\ victim \in [VProcs -> VProcs \union {NoVProc}]
  /\ ch \in [VProcs -> Seq(Threads)]
  /\ idleFlags \in [VProcs -> BOOLEAN]
  /\ nIdle \in -1..NVProcs
  /\ calledBy \in [Futures -> Tasks \union {NoTask}]
  /\ done \subseteq Futures
  /\ waiters \in [Futures -> Seq(Threads)]
  /\ \A v \in VProcs : running[v] # NoTask <=> pc[v] = "run"

Alive(t) ==
  IF t = Main THEN mainState \in {"begun", "started"} ELSE calledBy[t] # NoTask /\ t \notin done

PrimaryContents(v) == IF primary[v] = NoDeque THEN <<>> ELSE Contents(primary[v])

(* The places of t: under a worker, on a deque, in a thief's answer or on  *)
(* the blocked list of an ivar.                                            *)
Homes(t) ==
  LET At(place, ths) == {<<place, i>> : i \in {j \in DOMAIN ths : ths[j].task = t}}
      On(v) ==
        At(<<"runs", v>>, <<Thread(running[v], NoTask)>>)
          \union At(<<"primary", v>>, PrimaryContents(v))
          \union At(<<"answer", v>>, ch[v])
          \union (UNION {At(<<"resumed", v, i>>, Contents(resumeDeques[v][i])) :
                           i \in DOMAIN resumeDeques[v]})
  IN  (UNION {On(v) : v \in VProcs})
        \union (UNION {At(<<"blocked", k>>, waiters[k]) : k \in Futures})

(* A task that is not over is in one place: it runs, or it is on one deque, *)
(* in a thief's answer or on the blocked list of an ivar.  None is lost on  *)
(* the way, and no context is both stolen and taken back by the end of the  *)
(* body.                                                                    *)
OneHome == \A t \in Tasks : Cardinality(Homes(t)) = IF Alive(t) THEN 1 ELSE 0

(* @future-no-cancelation drops what @remove-task gives it unless it is    *)
(* its own context: whoever ends a body on a deque that is not empty finds *)
(* its context on top, through all preemptions, thefts and resumptions.    *)
ContextOnTop ==
  \A v \in VProcs :
    running[v] \in Futures /\ ~ IsEmpty(primary[v]) =>
      PopNewEnd(primary[v]).elt = Thread(calledBy[running[v]], running[v])

(* "when #0(nIdle) = nVProcs the work, the work group is finished"         *)
(* (work-stealing.pml:463): no task is left when the workers stop.         *)
FinishedWhenTerminated == terminated => \A t \in Tasks : ~ Alive(t)

(* A deque loses its newest thread or gets a newer one; its oldest thread  *)
(* goes to thieves only.  The others stay as they were, wherever the       *)
(* buffer wraps around.                                                    *)
DequeOrder ==
  [][\A v \in VProcs : primary[v]' # primary[v] =>
       LET before == PrimaryContents(v)
           after == PrimaryContents(v)'
       IN  \/ after = before
           \/ after # <<>> /\ before = SubSeq(after, 1, Len(after) - 1)
           \/ before # <<>> /\ after = SubSeq(before, 1, Len(before) - 1)
           \/ before # <<>> /\ after = Tail(before) /\ victim' # victim]_vars

(* A thief always brings an answer, also when two workers wait for each    *)
(* other's vproc, and when the victim idles, sleeps or has stopped.        *)
ThiefAnswers == \A v \in VProcs : pc[v] = "wait" ~> pc[v] # "wait"

(* No task is forgotten: not on a deque that nobody looks at, in the cell  *)
(* of a thief or on the blocked list of an ivar.                           *)
TasksEnd == <>[](\A t \in Tasks : ~ Alive(t))

(* Once the group is declared finished every worker stops, also one that   *)
(* was about to look for work.                                             *)
WorkersStop == terminated ~> \A v \in VProcs : pc[v] = "stopped"
=============================================================================
