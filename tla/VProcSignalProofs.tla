------------------------- MODULE VProcSignalProofs -------------------------
(* What holds of VProcSignal for any number of vprocs and signals. *)
EXTENDS VProcSignal, TLAPS

(* A vproc has a current fiber exactly while it executes one's code. *)
CurrentFiber ==
  \A v \in VProcs : cur[v] # NoFiber <=> pc[v] \in FiberSteps

(* Up to its push, a sender holds the signal it sends. *)
SenderHoldsSignal ==
  \A v \in VProcs : pc[v] \in {"sendLoad", "sendCAS"} => item[v] \in Signals

TypeInv == TypeOK /\ CurrentFiber /\ SenderHoldsSignal

LEMMA ToSetOfSeq ==
  ASSUME NEW S, NEW s \in Seq(S)
  PROVE  ToSet(s) \subseteq S
  BY DEF ToSet

LEMMA InitTypeInv == Init => TypeInv
  BY VProcSignalAssumption
     DEF Init, TypeInv, TypeOK, CurrentFiber, SenderHoldsSignal, Fibers,
         FiberSteps, SendSteps, SchedSteps, RecvSteps, SleepSteps

LEMMA PreemptTypeInv ==
  ASSUME TypeInv, NEW v \in VProcs, pc[v] \in FiberSteps,
         Preempt(v), limitZero' \in [VProcs -> BOOLEAN],
         UNCHANGED <<landingPad, sleepState, done, regs>>
  PROVE  TypeInv'
  <1>1. cur[v] \in Fibers
    BY DEF TypeInv, TypeOK, CurrentFiber
  <1>2. pc' = [pc EXCEPT ![v] = "poll"]
    BY DEF Preempt, Goto
  <1>3. TypeOK'
    BY <1>1, <1>2 DEF TypeInv, TypeOK, Preempt, SchedSteps, sleepState, regs
  <1>4. CurrentFiber'
    BY <1>2, VProcSignalAssumption
       DEF TypeInv, TypeOK, CurrentFiber, Preempt, FiberSteps, SendSteps
  <1>5. SenderHoldsSignal'
    BY <1>2 DEF TypeInv, TypeOK, SenderHoldsSignal, regs
  <1> QED
    BY <1>3, <1>4, <1>5 DEF TypeInv

LEMMA FiberStepsTypeInv ==
  ASSUME TypeInv, NEW v \in VProcs,
         AtomicBegin(v) \/ AtomicEnd(v) \/ Stop(v)
           \/ HeapCheck(v) \/ HeapExhausted(v) \/ Ping(v)
  PROVE  TypeInv'
  <1> USE VProcSignalAssumption
      DEF TypeInv, TypeOK, CurrentFiber, SenderHoldsSignal, Fibers, Goto,
          FiberSteps, SendSteps, SchedSteps, RecvSteps, SleepSteps,
          pads, sleepState, queues, regs
  <1>1. CASE AtomicBegin(v)
    BY <1>1 DEF AtomicBegin
  <1>2. CASE AtomicEnd(v) /\ sigPending[v]
    BY <1>2, PreemptTypeInv DEF AtomicEnd
  <1>3. CASE AtomicEnd(v) /\ ~ sigPending[v]
    <2>1. /\ pc[v] = "masked"
          /\ pc' = [pc EXCEPT ![v] = "thread"]
          /\ UNCHANGED <<pads, sleepState, sigPending, cur, ready, done, regs>>
      BY <1>3 DEF AtomicEnd
    <2>2. TypeOK'
      BY <1>3, <2>1
    <2>3. CurrentFiber'
      BY <1>3, <2>1
    <2>4. SenderHoldsSignal'
      BY <1>3, <2>1
    <2> QED
      BY <2>2, <2>3, <2>4
  <1>4. CASE Stop(v)
    <2>1. cur[v] \in Fibers
      BY <1>4 DEF Stop
    <2>2. TypeOK'
      BY <1>4, <2>1 DEF Stop
    <2>3. CurrentFiber'
      BY <1>4 DEF Stop
    <2>4. SenderHoldsSignal'
      BY <1>4 DEF Stop
    <2> QED
      BY <2>2, <2>3, <2>4
  <1>5. CASE HeapCheck(v) /\ pc[v] = "thread"
    BY <1>5, PreemptTypeInv DEF HeapCheck
  <1>6. CASE HeapCheck(v) /\ pc[v] # "thread"
    <2>1. /\ limitZero' = [limitZero EXCEPT ![v] = FALSE]
          /\ sigPending' = [sigPending EXCEPT ![v] = TRUE]
          /\ UNCHANGED <<pc, cur, ready, landingPad, sleepState, done, regs>>
      BY <1>6 DEF HeapCheck
    <2>2. TypeOK'
      BY <1>6, <2>1
    <2>3. CurrentFiber'
      BY <1>6, <2>1
    <2>4. SenderHoldsSignal'
      BY <1>6, <2>1
    <2> QED
      BY <2>2, <2>3, <2>4
  <1>7. CASE HeapExhausted(v)
    BY <1>7, PreemptTypeInv DEF HeapExhausted
  <1>8. CASE Ping(v)
    BY <1>8 DEF Ping
  <1> QED
    BY <1>1, <1>2, <1>3, <1>4, <1>5, <1>6, <1>7, <1>8

LEMMA SendStepsTypeInv ==
  ASSUME TypeInv, NEW v \in VProcs,
         \/ \E d \in VProcs, s \in Signals : SendBegin(v, d, s)
         \/ SendLoad(v) \/ SendCAS(v) \/ SendCheck(v) \/ SendWake(v) \/ SendPreempt(v)
  PROVE  TypeInv'
  <1> USE VProcSignalAssumption
      DEF TypeInv, TypeOK, CurrentFiber, SenderHoldsSignal, Fibers, Goto,
          FiberSteps, SendSteps, SchedSteps, RecvSteps, SleepSteps,
          pads, sleepState, queues, regs
  <1>1. CASE \E d \in VProcs, s \in Signals : SendBegin(v, d, s)
    BY <1>1 DEF SendBegin
  <1>2. CASE SendLoad(v)
    BY <1>2 DEF SendLoad
  <1>3. CASE SendCAS(v)
    <2>1. <<item[v]>> \o seen[v] \in Seq(Signals)
      BY <1>3 DEF SendCAS
    <2>2. CASE landingPad[dst[v]] = seen[v]
      <3>1. Push(v) /\ Forget(v)
        BY <1>3, <2>2 DEF SendCAS
      <3>2. landingPad' \in [VProcs -> Seq(Signals)]
        BY <2>1, <3>1 DEF Push
      <3>3. TypeOK'
        BY <1>3, <3>1, <3>2 DEF SendCAS, Push, Forget
      <3>4. CurrentFiber' /\ SenderHoldsSignal'
        BY <1>3, <3>1 DEF SendCAS, Push, Forget
      <3> QED
        BY <3>3, <3>4
    <2>3. CASE landingPad[dst[v]] # seen[v]
      <3>1. pc' = [pc EXCEPT ![v] = "sendLoad"] /\ UNCHANGED <<landingPad, item>> /\ Forget(v)
        BY <1>3, <2>3 DEF SendCAS
      <3> QED
        BY <1>3, <3>1 DEF SendCAS, Forget
    <2> QED
      BY <2>2, <2>3
  <1>4. CASE SendCheck(v)
    BY <1>4 DEF SendCheck
  <1>5. CASE SendWake(v)
    BY <1>5 DEF SendWake
  <1>6. CASE SendPreempt(v)
    BY <1>6 DEF SendPreempt
  <1> QED
    BY <1>1, <1>2, <1>3, <1>4, <1>5, <1>6

LEMMA SchedStepsTypeInv ==
  ASSUME TypeInv, NEW v \in VProcs,
         PollEmpty(v) \/ PollNonEmpty(v) \/ RecvLoad(v) \/ RecvCAS(v) \/ Dispatch(v)
  PROVE  TypeInv'
  <1> USE VProcSignalAssumption
      DEF TypeInv, TypeOK, CurrentFiber, SenderHoldsSignal, Fibers, Goto,
          FiberSteps, SendSteps, SchedSteps, RecvSteps, SleepSteps,
          pads, sleepState, queues, regs
  <1>1. CASE PollEmpty(v)
    BY <1>1 DEF PollEmpty
  <1>2. CASE PollNonEmpty(v)
    BY <1>2 DEF PollNonEmpty
  <1>3. CASE RecvLoad(v)
    BY <1>3 DEF RecvLoad
  <1>4. CASE RecvCAS(v)
    <2>1. ToSet(seen[v]) \subseteq Fibers
      BY ToSetOfSeq
    <2>2. CASE landingPad[v] = seen[v]
      <3>1. Take(v) /\ Forget(v)
        BY <1>4, <2>2 DEF RecvCAS
      <3>2. ready' \in [VProcs -> SUBSET Fibers]
        BY <2>1, <3>1 DEF Take
      <3>3. TypeOK'
        BY <1>4, <3>1, <3>2 DEF RecvCAS, Take, Forget
      <3>4. CurrentFiber' /\ SenderHoldsSignal'
        BY <1>4, <3>1 DEF RecvCAS, Take, Forget
      <3> QED
        BY <3>3, <3>4
    <2>3. CASE landingPad[v] # seen[v]
      <3>1. pc' = [pc EXCEPT ![v] = "recvLoad"] /\ UNCHANGED <<landingPad, ready>> /\ Forget(v)
        BY <1>4, <2>3 DEF RecvCAS
      <3>2. TypeOK'
        BY <1>4, <3>1 DEF RecvCAS, Forget
      <3>3. CurrentFiber'
        BY <1>4, <3>1 DEF RecvCAS, Forget
      <3>4. SenderHoldsSignal'
        BY <1>4, <3>1 DEF RecvCAS, Forget
      <3> QED
        BY <3>2, <3>3, <3>4
    <2> QED
      BY <2>2, <2>3
  <1>5. CASE Dispatch(v) /\ ready[v] = {}
    <2>1. /\ pc[v] = "dispatch"
          /\ pc' = [pc EXCEPT ![v] = "wait"]
          /\ UNCHANGED <<pads, sleepState, sigPending, cur, ready, done, regs>>
      BY <1>5 DEF Dispatch
    <2>2. TypeOK'
      BY <1>5, <2>1
    <2>3. CurrentFiber'
      BY <1>5, <2>1
    <2>4. SenderHoldsSignal'
      BY <1>5, <2>1
    <2> QED
      BY <2>2, <2>3, <2>4
  <1>6. CASE Dispatch(v) /\ ready[v] # {}
    <2>1. PICK f \in ready[v] :
            /\ cur' = [cur EXCEPT ![v] = f]
            /\ ready' = [ready EXCEPT ![v] = @ \ {f}]
            /\ pc' = [pc EXCEPT ![v] = "thread"]
      BY <1>6 DEF Dispatch
    <2>2. f \in Fibers
      BY <2>1
    <2> QED
      BY <1>6, <2>1, <2>2 DEF Dispatch
  <1> QED
    BY <1>1, <1>2, <1>3, <1>4, <1>5, <1>6

LEMMA SleepStepsTypeInv ==
  ASSUME TypeInv, NEW v \in VProcs,
         \/ SleepRequest(v) \/ SleepEnter(v) \/ SleepCheck(v) \/ SleepBlock(v)
         \/ Awoken(v) \/ SpuriousWakeup(v) \/ Timeout(v) \/ SleepExit(v)
  PROVE  TypeInv'
  <1> USE VProcSignalAssumption
      DEF TypeInv, TypeOK, CurrentFiber, SenderHoldsSignal, Fibers, Goto,
          FiberSteps, SendSteps, SchedSteps, RecvSteps, SleepSteps,
          pads, sleepState, queues, regs
  <1>1. CASE SleepRequest(v)
    BY <1>1 DEF SleepRequest
  <1>2. CASE SleepEnter(v)
    BY <1>2 DEF SleepEnter
  <1>3. CASE SleepCheck(v)
    BY <1>3 DEF SleepCheck
  <1>4. CASE SleepBlock(v)
    BY <1>4 DEF SleepBlock
  <1>5. CASE Awoken(v)
    BY <1>5 DEF Awoken
  <1>6. CASE SpuriousWakeup(v)
    BY <1>6 DEF SpuriousWakeup
  <1>7. CASE Timeout(v)
    BY <1>7 DEF Timeout
  <1>8. CASE SleepExit(v)
    <2>1. CASE started[v]
      <3>1. pc' = [pc EXCEPT ![v] = "wait"] /\ UNCHANGED ready
        BY <1>8, <2>1 DEF SleepExit
      <3>2. TypeOK'
        BY <1>8, <3>1 DEF SleepExit
      <3>3. CurrentFiber'
        BY <1>8, <3>1 DEF SleepExit
      <3>4. SenderHoldsSignal'
        BY <1>8, <3>1 DEF SleepExit
      <3> QED
        BY <3>2, <3>3, <3>4
    <2>2. CASE ~ started[v]
      <3>1. ready' \in [VProcs -> SUBSET Fibers]
        <4>1. ready' = [ready EXCEPT ![v] = ready[v] \union {v}]
          BY <1>8, <2>2 DEF SleepExit
        <4>2. ready[v] \union {v} \in SUBSET Fibers
          OBVIOUS
        <4> QED
          BY <4>1, <4>2
      <3>2. pc' = [pc EXCEPT ![v] = "poll"]
        BY <1>8, <2>2 DEF SleepExit
      <3>3. /\ sleeping' \in [VProcs -> BOOLEAN]
            /\ started' \in [VProcs -> BOOLEAN]
            /\ UNCHANGED <<pads, blocked, sigPending, cur, done, regs>>
        BY <1>8 DEF SleepExit
      <3>4. pc[v] = "sleepExit"
        BY <1>8 DEF SleepExit
      <3> QED
        BY <3>1, <3>2, <3>3, <3>4
    <2> QED
      BY <2>1, <2>2
  <1> QED
    BY <1>1, <1>2, <1>3, <1>4, <1>5, <1>6, <1>7, <1>8

LEMMA NextTypeInv == TypeInv /\ [Next]_vars => TypeInv'
  <1>1. TypeInv /\ UNCHANGED vars => TypeInv'
    BY DEF vars, pads, sleepState, queues, regs, TypeInv, TypeOK, CurrentFiber,
           SenderHoldsSignal
  <1>2. TypeInv /\ Next => TypeInv'
    BY FiberStepsTypeInv, SendStepsTypeInv, SchedStepsTypeInv, SleepStepsTypeInv
       DEF Next, Advance
  <1> QED
    BY <1>1, <1>2

(* Type correctness: the fields of every vproc keep their types; only a    *)
(* running fiber is ever preempted, so "no fiber" never reaches a queue.   *)
THEOREM TypeCorrect == Spec => []TypeOK
  <1>1. TypeInv => TypeOK
    BY DEF TypeInv
  <1> QED
    BY <1>1, InitTypeInv, NextTypeInv, PTL DEF Spec
-----------------------------------------------------------------------------
(* The preemption that goes with a signal. *)

Running == FiberSteps \union {"dispatch"}
Pushed == {"sendCheck", "sendWake", "sendPreempt"}

(***************************************************************************)
(* A step of v that takes nothing from what is owed to any vproc: the      *)
(* others keep their registers, pads only get emptied, and v, if it goes   *)
(* on to run fibers, keeps the request it had or has an empty pad.         *)
(***************************************************************************)
KeepsOwed(v) ==
  /\ \A w \in VProcs \ {v} :
       pc'[w] = pc[w] /\ sigPending'[w] = sigPending[w] /\ (limitZero[w] => limitZero'[w])
  /\ \A w \in VProcs : landingPad'[w] \in {landingPad[w], <<>>}
  /\ dst' = dst
  /\ pc[v] \in Pushed => pc'[v] \in Pushed
  /\ \/ pc'[v] \notin Running
     \/ landingPad'[v] = <<>>
     \/ sigPending'[v]
     \/ /\ pc[v] \in Running
        /\ limitZero[v] => limitZero'[v]
        /\ sigPending[v] => sigPending'[v]

LEMMA KeepsOwedPreserves ==
  ASSUME PreemptionOwed, NEW v \in VProcs, KeepsOwed(v)
  PROVE  PreemptionOwed'
  <1> SUFFICES ASSUME NEW w \in VProcs, pc'[w] \in Running, landingPad'[w] # <<>>
               PROVE  \/ limitZero'[w]
                      \/ sigPending'[w]
                      \/ \E u \in VProcs : dst'[u] = w /\ pc'[u] \in Pushed
    BY DEF PreemptionOwed, Running, Pushed
  <1>1. SUFFICES ASSUME ~ sigPending'[w]
                 PROVE  \/ limitZero'[w]
                        \/ \E u \in VProcs : dst'[u] = w /\ pc'[u] \in Pushed
    OBVIOUS
  <1>2. landingPad[w] # <<>> /\ pc[w] \in Running
    BY <1>1 DEF KeepsOwed
  <1>3. /\ limitZero[w] => limitZero'[w]
        /\ sigPending[w] => sigPending'[w]
    BY <1>1 DEF KeepsOwed
  <1>4. CASE limitZero[w]
    BY <1>3, <1>4
  <1>5. CASE \E u \in VProcs : dst[u] = w /\ pc[u] \in Pushed
    BY <1>5 DEF KeepsOwed
  <1> QED
    BY <1>1, <1>2, <1>3, <1>4, <1>5 DEF PreemptionOwed, Running, Pushed

LEMMA FiberStepsOwed ==
  ASSUME TypeInv, PreemptionOwed, NEW v \in VProcs,
         AtomicBegin(v) \/ AtomicEnd(v) \/ Stop(v)
           \/ HeapCheck(v) \/ HeapExhausted(v) \/ Ping(v)
  PROVE  PreemptionOwed'
  <1> SUFFICES KeepsOwed(v)
    BY KeepsOwedPreserves
  <1> USE DEF TypeInv, TypeOK, KeepsOwed, Running, Pushed, Goto, FiberSteps,
              SendSteps, pads, sleepState, queues, regs
  <1>1. CASE AtomicBegin(v)
    BY <1>1 DEF AtomicBegin
  <1>2. CASE AtomicEnd(v)
    BY <1>2 DEF AtomicEnd, Preempt
  <1>3. CASE Stop(v)
    BY <1>3 DEF Stop
  <1>4. CASE HeapCheck(v)
    BY <1>4 DEF HeapCheck, Preempt
  <1>5. CASE HeapExhausted(v)
    BY <1>5 DEF HeapExhausted, Preempt
  <1>6. CASE Ping(v)
    BY <1>6 DEF Ping
  <1> QED
    BY <1>1, <1>2, <1>3, <1>4, <1>5, <1>6

LEMMA SchedStepsOwed ==
  ASSUME TypeInv, PreemptionOwed, NEW v \in VProcs,
         PollEmpty(v) \/ PollNonEmpty(v) \/ RecvLoad(v) \/ RecvCAS(v) \/ Dispatch(v)
  PROVE  PreemptionOwed'
  <1> SUFFICES KeepsOwed(v)
    BY KeepsOwedPreserves
  <1> USE DEF TypeInv, TypeOK, KeepsOwed, Running, Pushed, Goto, FiberSteps,
              SendSteps, pads, sleepState, queues, regs
  <1>1. CASE PollEmpty(v)
    BY <1>1 DEF PollEmpty
  <1>2. CASE PollNonEmpty(v)
    BY <1>2 DEF PollNonEmpty
  <1>3. CASE RecvLoad(v)
    BY <1>3 DEF RecvLoad
  <1>4. CASE RecvCAS(v)
    BY <1>4 DEF RecvCAS, Take
  <1>5. CASE Dispatch(v)
    BY <1>5 DEF Dispatch
  <1> QED
    BY <1>1, <1>2, <1>3, <1>4, <1>5

LEMMA SleepStepsOwed ==
  ASSUME TypeInv, PreemptionOwed, NEW v \in VProcs,
         \/ SleepRequest(v) \/ SleepEnter(v) \/ SleepCheck(v) \/ SleepBlock(v)
         \/ Awoken(v) \/ SpuriousWakeup(v) \/ Timeout(v) \/ SleepExit(v)
  PROVE  PreemptionOwed'
  <1> SUFFICES KeepsOwed(v)
    BY KeepsOwedPreserves
  <1> USE DEF TypeInv, TypeOK, KeepsOwed, Running, Pushed, Goto, FiberSteps,
              SendSteps, pads, sleepState, queues, regs
  <1>1. CASE SleepRequest(v)
    BY <1>1 DEF SleepRequest
  <1>2. CASE SleepEnter(v)
    BY <1>2 DEF SleepEnter
  <1>3. CASE SleepCheck(v)
    BY <1>3 DEF SleepCheck
  <1>4. CASE SleepBlock(v)
    BY <1>4 DEF SleepBlock
  <1>5. CASE Awoken(v)
    BY <1>5 DEF Awoken
  <1>6. CASE SpuriousWakeup(v)
    BY <1>6 DEF SpuriousWakeup
  <1>7. CASE Timeout(v)
    BY <1>7 DEF Timeout
  <1>8. CASE SleepExit(v)
    BY <1>8 DEF SleepExit
  <1> QED
    BY <1>1, <1>2, <1>3, <1>4, <1>5, <1>6, <1>7, <1>8

LEMMA SendStepsOwed ==
  ASSUME TypeInv, PreemptionOwed, NEW v \in VProcs,
         \/ \E d \in VProcs, s \in Signals : SendBegin(v, d, s)
         \/ SendLoad(v) \/ SendCAS(v) \/ SendCheck(v) \/ SendWake(v) \/ SendPreempt(v)
  PROVE  PreemptionOwed'
  <1> USE DEF TypeInv, TypeOK, Running, Pushed, Goto, FiberSteps, SendSteps,
              pads, sleepState, queues, regs
  <1>1. CASE \E d \in VProcs, s \in Signals : SendBegin(v, d, s)
    <2>1. \A u \in VProcs : pc[u] \in Pushed => dst'[u] = dst[u] /\ pc'[u] = pc[u]
      BY <1>1 DEF SendBegin
    <2>2. UNCHANGED <<landingPad, limitZero, sigPending>>
      BY <1>1 DEF SendBegin
    <2>3. \A w \in VProcs : pc'[w] \in Running => pc[w] \in Running
      BY <1>1 DEF SendBegin
    <2> SUFFICES ASSUME NEW w \in VProcs, pc'[w] \in Running, landingPad'[w] # <<>>
                 PROVE  \/ limitZero'[w]
                        \/ sigPending'[w]
                        \/ \E u \in VProcs : dst'[u] = w /\ pc'[u] \in Pushed
      BY DEF PreemptionOwed
    <2>4. CASE \E u \in VProcs : dst[u] = w /\ pc[u] \in Pushed
      BY <2>1, <2>4
    <2>5. CASE limitZero[w] \/ sigPending[w]
      BY <2>2, <2>5
    <2> QED
      BY <2>2, <2>3, <2>4, <2>5 DEF PreemptionOwed
  <1>2. CASE SendCAS(v) /\ landingPad[dst[v]] = seen[v]
    <2>1. /\ pc[v] = "sendCAS"
          /\ pc' = [pc EXCEPT ![v] = "sendCheck"]
          /\ UNCHANGED <<limitZero, sigPending, dst>>
          /\ \A w \in VProcs : w # dst[v] => landingPad'[w] = landingPad[w]
      BY <1>2 DEF SendCAS, Push
    <2>2. \A u \in VProcs : pc[u] \in Pushed => pc'[u] = pc[u]
      BY <2>1
    <2>3. \A w \in VProcs : pc'[w] \in Running => pc[w] \in Running
      BY <2>1
    <2>4. dst'[v] = dst[v] /\ pc'[v] \in Pushed
      BY <2>1
    <2> QED
      BY <2>1, <2>2, <2>3, <2>4 DEF PreemptionOwed
  <1>3. CASE SendPreempt(v)
    <2>1. /\ pc[v] = "sendPreempt"
          /\ pc' = [pc EXCEPT ![v] = "masked"]
          /\ UNCHANGED <<landingPad, sigPending, dst>>
          /\ limitZero' = [limitZero EXCEPT ![dst[v]] = TRUE]
      BY <1>3 DEF SendPreempt
    <2>2. \A u \in VProcs \ {v} : pc'[u] = pc[u]
      BY <2>1
    <2>3. \A w \in VProcs : pc'[w] \in Running => pc[w] \in Running
      BY <2>1
    <2>4. limitZero'[dst[v]] /\ \A w \in VProcs : limitZero[w] => limitZero'[w]
      BY <2>1
    <2> QED
      BY <2>1, <2>2, <2>3, <2>4 DEF PreemptionOwed
  <1>4. CASE \/ SendLoad(v) \/ SendCheck(v) \/ SendWake(v)
             \/ SendCAS(v) /\ landingPad[dst[v]] # seen[v]
    <2>1. KeepsOwed(v)
      BY <1>4 DEF KeepsOwed, SendLoad, SendCheck, SendWake, SendCAS
    <2> QED
      BY <2>1, KeepsOwedPreserves
  <1> QED
    BY <1>1, <1>2, <1>3, <1>4

LEMMA NextOwed == TypeInv /\ PreemptionOwed /\ [Next]_vars => PreemptionOwed'
  <1>1. PreemptionOwed /\ UNCHANGED vars => PreemptionOwed'
    BY DEF vars, pads, sleepState, queues, regs, PreemptionOwed
  <1>2. TypeInv /\ PreemptionOwed /\ Next => PreemptionOwed'
    BY FiberStepsOwed, SendStepsOwed, SchedStepsOwed, SleepStepsOwed
       DEF Next, Advance
  <1> QED
    BY <1>1, <1>2

(* No preemption is lost: whatever the interleaving, a vproc that runs     *)
(* fibers with a signal on its pad has its limit pointer zeroed, has       *)
(* recorded the signal, or is about to be preempted by a sender.           *)
THEOREM PreemptionNotLost == Spec => []PreemptionOwed
  <1>1. Init => PreemptionOwed
    BY DEF Init, PreemptionOwed
  <1> QED
    BY <1>1, InitTypeInv, NextTypeInv, NextOwed, PTL DEF Spec

-----------------------------------------------------------------------------
(* The landing pad implements the mailbox. *)

(* A fiber that no vproc has received, and that is on no pad. *)
Unsent(s) ==
  /\ ~ Landed(s)
  /\ \A v \in VProcs : s \notin ToSet(landingPad[v])

(* What a vproc is about to push is nowhere else, so that it is pushed once. *)
SendsUnsent ==
  \A v \in VProcs :
    item[v] # NoFiber =>
      /\ Unsent(item[v])
      /\ \A u \in VProcs : u # v => item[u] # item[v]

(* A step that moves fibers only between the queues of one vproc. *)
KeepsLanded ==
  /\ landingPad' = landingPad
  /\ item' = item
  /\ \A s \in Signals : Landed(s)' <=> Landed(s)

LEMMA KeepsLandedIsStutter ==
  ASSUME TypeInv, SendsUnsent, KeepsLanded
  PROVE  SendsUnsent' /\ UNCHANGED MB!vars
  <1>1. \A v \in VProcs : item[v] # NoFiber => item[v] \in Signals
    BY DEF TypeInv, TypeOK
  <1>2. SendsUnsent'
    BY <1>1 DEF SendsUnsent, Unsent, KeepsLanded
  <1>3. {s \in Signals : Landed(s)}' = {s \in Signals : Landed(s)}
    BY DEF KeepsLanded
  <1> QED
    BY <1>2, <1>3 DEF MB!vars, KeepsLanded

LEMMA SignalsAreNot ==
  /\ NoFiber \notin Signals
  /\ \A v \in VProcs : v \notin Signals
  BY VProcSignalAssumption DEF Fibers

LEMMA PreemptKeepsLanded ==
  ASSUME TypeInv, NEW v \in VProcs, Preempt(v), UNCHANGED <<landingPad, done, item>>
  PROVE  KeepsLanded
  <1>1. /\ ready' = [ready EXCEPT ![v] = ready[v] \union {cur[v]}]
        /\ cur' = [cur EXCEPT ![v] = NoFiber]
    BY DEF Preempt
  <1>2. /\ \A u \in VProcs : ready'[u] = IF u = v THEN ready[v] \union {cur[v]} ELSE ready[u]
        /\ \A u \in VProcs : cur'[u] = IF u = v THEN NoFiber ELSE cur[u]
    BY <1>1 DEF TypeInv, TypeOK
  <1>3. ASSUME NEW s \in Signals
        PROVE  Landed(s)' <=> Landed(s)
    <2>1. s # NoFiber
      BY SignalsAreNot
    <2> QED
      BY <1>2, <2>1 DEF Landed
  <1> QED
    BY <1>3 DEF KeepsLanded

LEMMA FiberStepsMailbox ==
  ASSUME TypeInv, NEW v \in VProcs,
         AtomicBegin(v) \/ AtomicEnd(v) \/ Stop(v)
           \/ HeapCheck(v) \/ HeapExhausted(v) \/ Ping(v)
  PROVE  KeepsLanded
  <1> USE DEF pads, sleepState, queues, regs
  <1>1. CASE UNCHANGED <<landingPad, item, cur, ready, done>>
    BY <1>1 DEF KeepsLanded, Landed
  <1>2. CASE Preempt(v) /\ UNCHANGED <<landingPad, done, item>>
    BY <1>2, PreemptKeepsLanded
  <1>3. CASE Stop(v)
    <2>1. /\ done' = done \union {cur[v]} /\ cur' = [cur EXCEPT ![v] = NoFiber]
          /\ UNCHANGED <<landingPad, item, ready>>
      BY <1>3 DEF Stop
    <2>2. \A u \in VProcs : cur'[u] = IF u = v THEN NoFiber ELSE cur[u]
      BY <2>1 DEF TypeInv, TypeOK
    <2>3. ASSUME NEW s \in Signals
          PROVE  Landed(s)' <=> Landed(s)
      <3>1. s # NoFiber
        BY SignalsAreNot
      <3> QED
        BY <2>1, <2>2, <3>1 DEF Landed
    <2> QED
      BY <2>1, <2>3 DEF KeepsLanded
  <1> QED
    BY <1>1, <1>2, <1>3 DEF AtomicBegin, AtomicEnd, HeapCheck, HeapExhausted, Ping

LEMMA SleepStepsMailbox ==
  ASSUME TypeInv, NEW v \in VProcs,
         \/ SleepRequest(v) \/ SleepEnter(v) \/ SleepCheck(v) \/ SleepBlock(v)
         \/ Awoken(v) \/ SpuriousWakeup(v) \/ Timeout(v) \/ SleepExit(v)
  PROVE  KeepsLanded
  <1> USE DEF pads, sleepState, queues, regs
  <1>1. CASE UNCHANGED <<landingPad, item, cur, ready, done>>
    BY <1>1 DEF KeepsLanded, Landed
  <1>2. CASE SleepExit(v) /\ ~ started[v]
    <2>1. ready' = [ready EXCEPT ![v] = ready[v] \union {v}]
          /\ UNCHANGED <<landingPad, item, cur, done>>
      BY <1>2 DEF SleepExit
    <2>2. \A u \in VProcs : ready'[u] = IF u = v THEN ready[v] \union {v} ELSE ready[u]
      BY <2>1 DEF TypeInv, TypeOK
    <2>3. ASSUME NEW s \in Signals
          PROVE  Landed(s)' <=> Landed(s)
      <3>1. s # v
        BY SignalsAreNot
      <3> QED
        BY <2>1, <2>2, <3>1 DEF Landed
    <2> QED
      BY <2>1, <2>3 DEF KeepsLanded
  <1> QED
    BY <1>1, <1>2 DEF SleepRequest, SleepEnter, SleepCheck, SleepBlock, Awoken,
                      SpuriousWakeup, Timeout, SleepExit

LEMMA DispatchMailbox ==
  ASSUME TypeInv, NEW v \in VProcs, Dispatch(v)
  PROVE  KeepsLanded
  <1> USE DEF pads, sleepState, queues, regs
  <1>1. CASE ready[v] = {} /\ UNCHANGED <<cur, ready>>
    BY <1>1 DEF Dispatch, KeepsLanded, Landed
  <1>2. ASSUME NEW f \in ready[v], cur' = [cur EXCEPT ![v] = f],
               ready' = [ready EXCEPT ![v] = ready[v] \ {f}]
        PROVE  KeepsLanded
    <2>1. cur[v] = NoFiber
      BY DEF Dispatch, TypeInv, CurrentFiber, FiberSteps, SendSteps
    <2>2. /\ \A u \in VProcs : ready'[u] = IF u = v THEN ready[v] \ {f} ELSE ready[u]
          /\ \A u \in VProcs : cur'[u] = IF u = v THEN f ELSE cur[u]
      BY <1>2 DEF TypeInv, TypeOK
    <2>3. UNCHANGED <<landingPad, item, done>>
      BY DEF Dispatch
    <2>4. ASSUME NEW s \in Signals
          PROVE  Landed(s)' <=> Landed(s)
      <3>1. s # NoFiber
        BY SignalsAreNot
      <3> QED
        BY <1>2, <2>1, <2>2, <2>3, <3>1 DEF Landed
    <2> QED
      BY <2>3, <2>4 DEF KeepsLanded
  <1> QED
    BY <1>1, <1>2 DEF Dispatch

LEMMA PushedList ==
  ASSUME NEW t \in Signals, NEW s \in Seq(Signals)
  PROVE  ToSet(<<t>> \o s) = {t} \union ToSet(s)
  <1> DEFINE r == <<t>> \o s
  <1>1. /\ Len(s) \in Nat /\ DOMAIN s = 1..Len(s)
        /\ DOMAIN r = 1..(Len(s) + 1) /\ r[1] = t
        /\ \A i \in 1..Len(s) : r[i + 1] = s[i]
    OBVIOUS
  <1> HIDE DEF r
  <1>2. \A i \in 1..(Len(s) + 1) : i = 1 \/ (i - 1 \in 1..Len(s) /\ r[i] = s[i - 1])
    <2>1. ASSUME NEW i \in 1..(Len(s) + 1), i # 1
          PROVE  i - 1 \in 1..Len(s) /\ (i - 1) + 1 = i
      BY <1>1, <2>1
    <2> QED
      BY <1>1, <2>1
  <1>3. ToSet(r) \subseteq {t} \union ToSet(s)
    BY <1>1, <1>2 DEF ToSet
  <1>4. t \in ToSet(r)
    BY <1>1 DEF ToSet
  <1>5. ToSet(s) \subseteq ToSet(r)
    <2>1. \A i \in 1..Len(s) : i + 1 \in DOMAIN r
      BY <1>1
    <2> QED
      BY <1>1, <2>1 DEF ToSet
  <1> QED
    BY <1>3, <1>4, <1>5 DEF r

LEMMA SendBeginMailbox ==
  ASSUME TypeInv, SendsUnsent, NEW v \in VProcs, NEW d \in VProcs, NEW s \in Signals,
         SendBegin(v, d, s)
  PROVE  SendsUnsent' /\ UNCHANGED MB!vars
  <1>1. /\ Places(s) = {} /\ item' = [item EXCEPT ![v] = s]
        /\ UNCHANGED <<landingPad, cur, ready, done>>
    BY DEF SendBegin, pads, queues
  <1>2. \A u \in VProcs : item'[u] = IF u = v THEN s ELSE item[u]
    BY <1>1 DEF TypeInv, TypeOK
  <1>3. \A u \in VProcs : s \notin ToSet(landingPad[u])
    <2>1. \A u \in VProcs : s \in ToSet(landingPad[u]) => <<"pad", u>> \in Places(s)
      BY DEF Places
    <2> QED
      BY <1>1, <2>1
  <1>4. ~ Landed(s)
    <2>1. s \in done => <<"done", s>> \in Places(s)
      BY DEF Places
    <2>2. \A u \in VProcs : s \in ready[u] => <<"ready", u>> \in Places(s)
      BY DEF Places
    <2>3. \A u \in VProcs : cur[u] = s => <<"running", u>> \in Places(s)
      BY DEF Places
    <2> QED
      BY <1>1, <2>1, <2>2, <2>3 DEF Landed
  <1>5. \A u \in VProcs : item[u] # s
    <2>1. \A u \in VProcs : item[u] = s => <<"sending", u>> \in Places(s)
      BY DEF Places
    <2> QED
      BY <1>1, <2>1
  <1>6. \A f : Unsent(f)' <=> Unsent(f)
    BY <1>1 DEF Unsent, Landed
  <1>7. Unsent(s)
    BY <1>3, <1>4 DEF Unsent
  <1>8. SendsUnsent'
    BY <1>2, <1>5, <1>6, <1>7 DEF SendsUnsent
  <1>9. {f \in Signals : Landed(f)}' = {f \in Signals : Landed(f)}
    BY <1>1 DEF Landed
  <1> QED
    BY <1>1, <1>8, <1>9 DEF MB!vars

(* The CAS that succeeds puts the signal on the pad, before what was there. *)
LEMMA SendCASMailbox ==
  ASSUME TypeInv, SendsUnsent, NEW v \in VProcs, SendCAS(v)
  PROVE  SendsUnsent' /\ [MB!Next]_MB!vars
  <1>1. UNCHANGED <<cur, ready, done>>
    BY DEF SendCAS, queues
  <1>2. \A f : Landed(f)' <=> Landed(f)
    BY <1>1 DEF Landed
  <1>3. {f \in Signals : Landed(f)}' = {f \in Signals : Landed(f)}
    BY <1>2
  <1>4. CASE UNCHANGED <<landingPad, item>>
    <2>1. KeepsLanded
      BY <1>2, <1>4 DEF KeepsLanded
    <2> QED
      BY <2>1, KeepsLandedIsStutter
  <1>5. CASE landingPad[dst[v]] = seen[v] /\ Push(v)
    <2> DEFINE d == dst[v]
               s == item[v]
               pad == <<s>> \o landingPad[d]
    <2>1. d \in VProcs /\ s \in Signals /\ s # NoFiber /\ landingPad[d] \in Seq(Signals)
      BY SignalsAreNot DEF SendCAS, TypeInv, TypeOK, SenderHoldsSignal
    <2>2. landingPad' = [landingPad EXCEPT ![d] = pad] /\ item' = [item EXCEPT ![v] = NoFiber]
      BY <1>5 DEF Push
    <2>3. Unsent(s) /\ \A u \in VProcs : u # v => item[u] # s
      BY <2>1 DEF SendsUnsent
    <2>4. ToSet(pad) = {s} \union ToSet(landingPad[d])
      BY <2>1, PushedList
    <2> HIDE DEF d, s, pad
    <2>5. \A u \in VProcs : landingPad'[u] = IF u = d THEN pad ELSE landingPad[u]
      BY <2>1, <2>2 DEF TypeInv, TypeOK
    <2>6. \A u \in VProcs : item'[u] = IF u = v THEN NoFiber ELSE item[u]
      BY <2>2 DEF TypeInv, TypeOK
    <2>7. ASSUME NEW u \in VProcs, item'[u] # NoFiber
          PROVE  Unsent(item[u])' /\ u # v /\ item'[u] = item[u]
      <3>1. u # v /\ item'[u] = item[u] /\ item[u] # s /\ item[u] # NoFiber
        BY <2>3, <2>6, <2>7
      <3>2. Unsent(item[u])
        BY <3>1 DEF SendsUnsent
      <3>3. \A w \in VProcs : item[u] \notin ToSet(landingPad'[w])
        BY <2>4, <2>5, <3>1, <3>2 DEF Unsent
      <3>4. \A w \in VProcs : item'[u] \notin ToSet(landingPad'[w])
        BY <3>1, <3>3
      <3>5. ~ Landed(item[u])'
        BY <1>1, <3>1, <3>2 DEF Unsent, Landed
      <3> QED
        BY <3>1, <3>4, <3>5 DEF Unsent
    <2>8. SendsUnsent'
      <3>1. ASSUME NEW u \in VProcs, item'[u] # NoFiber
            PROVE  Unsent(item[u])' /\ \A w \in VProcs : w # u => item'[w] # item'[u]
        BY <2>6, <2>7, <3>1 DEF SendsUnsent
      <3> QED
        BY <3>1 DEF SendsUnsent
    <2>9. ~ MB!InSomeBox(s) /\ s \notin {f \in Signals : Landed(f)}
      BY <2>3 DEF Unsent, MB!InSomeBox, ToSet, MB!ToSet
    <2>10. MB!Send(d, s)
      BY <1>3, <2>2, <2>9 DEF MB!Send, pad
    <2> QED
      BY <2>1, <2>8, <2>10 DEF MB!Next
  <1> QED
    BY <1>4, <1>5 DEF SendCAS

(* The CAS that succeeds takes all that is on the pad. *)
LEMMA RecvCASMailbox ==
  ASSUME TypeInv, SendsUnsent, NEW v \in VProcs, RecvCAS(v)
  PROVE  SendsUnsent' /\ [MB!Next]_MB!vars
  <1>1. UNCHANGED <<cur, done, item>>
    BY DEF RecvCAS
  <1>2. CASE UNCHANGED <<landingPad, ready>>
    <2>1. KeepsLanded
      BY <1>1, <1>2 DEF KeepsLanded, Landed
    <2> QED
      BY <2>1, KeepsLandedIsStutter
  <1>3. CASE landingPad[v] = seen[v] /\ Take(v)
    <2>1. /\ landingPad' = [landingPad EXCEPT ![v] = <<>>]
          /\ ready' = [ready EXCEPT ![v] = ready[v] \union ToSet(landingPad[v])]
      BY <1>3 DEF Take
    <2>2. /\ \A u \in VProcs : landingPad'[u] = IF u = v THEN <<>> ELSE landingPad[u]
          /\ \A u \in VProcs :
               ready'[u] = IF u = v THEN ready[v] \union ToSet(landingPad[v]) ELSE ready[u]
      BY <2>1 DEF TypeInv, TypeOK
    <2>3. \A f : Landed(f)' <=> Landed(f) \/ f \in ToSet(landingPad[v])
      BY <1>1, <2>2 DEF Landed
    <2>4. ToSet(<<>>) = {}
      BY DEF ToSet
    <2>5. ASSUME NEW u \in VProcs, item[u] # NoFiber
          PROVE  Unsent(item[u])'
      <3>1. Unsent(item[u])
        BY <2>5 DEF SendsUnsent
      <3>2. ~ Landed(item[u])'
        BY <1>1, <2>2, <3>1 DEF Unsent, Landed
      <3>3. \A w \in VProcs : item[u] \notin ToSet(landingPad'[w])
        BY <2>2, <2>4, <3>1 DEF Unsent
      <3> QED
        BY <1>1, <3>2, <3>3 DEF Unsent
    <2>6. SendsUnsent'
      BY <1>1, <2>5 DEF SendsUnsent
    <2>7. ToSet(landingPad[v]) \subseteq Signals
      BY ToSetOfSeq DEF TypeInv, TypeOK
    <2>8. {f \in Signals : Landed(f)}'
            = {f \in Signals : Landed(f)} \union ToSet(landingPad[v])
      BY <2>3, <2>7
    <2>9. CASE landingPad[v] = <<>>
      <3>1. landingPad' = landingPad
        BY <2>1, <2>9 DEF TypeInv, TypeOK
      <3>2. {f \in Signals : Landed(f)}' = {f \in Signals : Landed(f)}
        BY <2>4, <2>8, <2>9
      <3> QED
        BY <2>6, <3>1, <3>2 DEF MB!vars
    <2>10. CASE landingPad[v] # <<>>
      <3>1. MB!TakeAll(v)
        BY <2>1, <2>8, <2>10 DEF MB!TakeAll, ToSet, MB!ToSet
      <3> QED
        BY <2>6, <3>1 DEF MB!Next
    <2> QED
      BY <2>9, <2>10
  <1> QED
    BY <1>2, <1>3 DEF RecvCAS

LEMMA NextMailbox ==
  ASSUME TypeInv, SendsUnsent, [Next]_vars
  PROVE  SendsUnsent' /\ [MB!Next]_MB!vars
  <1>1. ASSUME UNCHANGED <<landingPad, item, cur, ready, done>>
        PROVE  KeepsLanded
    BY <1>1 DEF KeepsLanded, Landed
  <1>2. CASE UNCHANGED vars
    BY <1>1, <1>2, KeepsLandedIsStutter DEF vars, pads, queues, regs
  <1>3. ASSUME NEW v \in VProcs,
               \/ AtomicBegin(v) \/ AtomicEnd(v) \/ Stop(v)
               \/ HeapCheck(v) \/ HeapExhausted(v) \/ Ping(v)
        PROVE  KeepsLanded
    BY <1>3, FiberStepsMailbox
  <1>4. ASSUME NEW v \in VProcs,
               \/ SleepRequest(v) \/ SleepEnter(v) \/ SleepCheck(v) \/ SleepBlock(v)
               \/ Awoken(v) \/ SpuriousWakeup(v) \/ Timeout(v) \/ SleepExit(v)
        PROVE  KeepsLanded
    BY <1>4, SleepStepsMailbox
  <1>5. ASSUME NEW v \in VProcs,
               \/ SendLoad(v) \/ SendCheck(v) \/ SendWake(v) \/ SendPreempt(v)
               \/ PollEmpty(v) \/ PollNonEmpty(v) \/ RecvLoad(v) \/ Dispatch(v)
        PROVE  KeepsLanded
    BY <1>1, <1>5, DispatchMailbox
       DEF SendLoad, SendCheck, SendWake, SendPreempt, PollEmpty, PollNonEmpty, RecvLoad,
           pads, queues, regs
  <1>6. ASSUME NEW v \in VProcs, SendCAS(v) \/ RecvCAS(v)
        PROVE  SendsUnsent' /\ [MB!Next]_MB!vars
    BY <1>6, SendCASMailbox, RecvCASMailbox
  <1>7. ASSUME NEW v \in VProcs, NEW d \in VProcs, NEW s \in Signals, SendBegin(v, d, s)
        PROVE  SendsUnsent' /\ [MB!Next]_MB!vars
    BY <1>7, SendBeginMailbox
  <1> QED
    BY <1>2, <1>3, <1>4, <1>5, <1>6, <1>7, KeepsLandedIsStutter DEF Next, Advance

(* The landing pad is a mailbox: however the loads and CASes of the senders *)
(* and the receiver interleave, a signal is pushed once, before what is on  *)
(* the pad, and is taken once, with all the others.                         *)
THEOREM LandingPadIsMailbox == Spec => ImplementsMailbox
  <1>1. Init => SendsUnsent /\ MB!Init
    <2> SUFFICES ASSUME Init
                 PROVE  SendsUnsent /\ MB!Init
      OBVIOUS
    <2>1. SendsUnsent
      BY DEF Init, SendsUnsent
    <2>2. \A s \in Signals : ~ Landed(s)
      BY SignalsAreNot, VProcSignalAssumption DEF Init, Landed
    <2>3. {s \in Signals : Landed(s)} = {}
      BY <2>2
    <2> QED
      BY <2>1, <2>3 DEF Init, MB!Init
  <1>2. TypeInv /\ SendsUnsent /\ [Next]_vars => SendsUnsent' /\ [MB!Next]_MB!vars
    BY NextMailbox
  <1> QED
    BY <1>1, <1>2, InitTypeInv, NextTypeInv, PTL DEF Spec, ImplementsMailbox, MB!Spec
=============================================================================
