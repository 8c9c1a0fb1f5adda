-------------------------- MODULE LifecycleProofs --------------------------
(***************************************************************************)
(* For any number of vprocs: startup never reads freed data or touches a   *)
(* vproc that is not set up, no vproc leaves before all have counted       *)
(* themselves down, and the layouts of Placement place them well.          *)
(***************************************************************************)
EXTENDS Lifecycle, FiniteSetTheorems, TLAPS

Parties == VProc \union {Main}
BeforeBarrier == {"none", "new"}

(* The two barriers and the flag initData tell the same story as the pc's. *)
StartupInv ==
  /\ main = "spawn" => nSpawned \in VProc /\ \A v \in VProc : v >= nSpawned => pc[v] = "none"
  /\ \A v \in VProc : v \in atInit <=> pc[v] \notin BeforeBarrier
  /\ \A v \in VProc : v \in started <=> pc[v] \notin BeforeBarrier
  /\ \A v \in VProc : pc[v] \notin BeforeBarrier \union {"initBarrier"} => atInit = Parties
  /\ main = "ping" => atInit = Parties
  /\ ~ initData => atInit = Parties

(* A vproc has been sent to its shutdown continuation exactly if it is in  *)
(* it, and the counter counts those that have counted themselves down.     *)
InShutdown(v) ==
  \/ pc[v] \in {"shutdown", "spin"} \union Exiting
  \/ pc[v] = "top" /\ resumeAt[v] \in {"shutdown", "spin"}

Counted == {v \in VProc : CountedDown(v)}

ShutdownInv ==
  /\ \A v \in VProc : pc[v] # "top" => resumeAt[v] = "program"
  /\ \A v \in VProc : shutdownPending[v] <=> InShutdown(v)
  /\ shutdownCnt = NumVProcs - Cardinality(Counted)
  /\ \A v \in VProc : pc[v] \in Exiting => Counted = VProc
  /\ atExit = {v \in VProc : pc[v] \in Exiting}
  /\ exited => atExit = VProc

Inv == TypeOK /\ StartupInv /\ ShutdownInv

-----------------------------------------------------------------------------
LEMMA VProcFacts ==
  /\ NumVProcs \in Nat \ {0}
  /\ 0 \in VProc /\ Main \notin VProc
  /\ IsFiniteSet(VProc) /\ Cardinality(VProc) = NumVProcs
  /\ IsFiniteSet(Parties) /\ Cardinality(Parties) = NumVProcs + 1
<1>1. NumVProcs \in Nat \ {0}
  BY PlacementAssumption
<1>2. 0 \in VProc /\ Main \notin VProc
  BY <1>1, SMT DEF VProc, Main
<1>3. 0 \in Int /\ NumVProcs - 1 \in Int /\ ~ (0 > NumVProcs - 1) /\ NumVProcs - 1 - 0 + 1 = NumVProcs
  BY <1>1, SMT
<1>4. IsFiniteSet(VProc) /\ Cardinality(VProc) = NumVProcs
  BY <1>3, FS_Interval, Zenon DEF VProc
<1>5. IsFiniteSet(Parties) /\ Cardinality(Parties) = NumVProcs + 1
  BY <1>2, <1>4, FS_AddElement DEF Parties
<1> QED
  BY <1>1, <1>2, <1>4, <1>5

(* Who passes a barrier knows that all have come. *)
LEMMA AllAtInit ==
  ASSUME TypeOK, InitBarrierOpen
  PROVE  atInit = Parties
<1>1. atInit \in SUBSET Parties
  BY DEF TypeOK, Parties
<1>2. Cardinality(Parties) = Cardinality(atInit)
  BY VProcFacts DEF InitBarrierOpen
<1> QED
  BY <1>1, <1>2, VProcFacts, FS_Subset

LEMMA AllAtExit ==
  ASSUME TypeOK, ShutdownBarrierOpen
  PROVE  atExit = VProc
<1>1. atExit \in SUBSET VProc
  BY DEF TypeOK
<1>2. Cardinality(VProc) = Cardinality(atExit)
  BY VProcFacts DEF ShutdownBarrierOpen
<1> QED
  BY <1>1, <1>2, VProcFacts, FS_Subset

LEMMA CountedFacts ==
  /\ Counted \in SUBSET VProc
  /\ IsFiniteSet(Counted) /\ Cardinality(Counted) \in 0 .. NumVProcs
  /\ Cardinality(Counted) = NumVProcs => Counted = VProc
<1>1. Counted \in SUBSET VProc
  BY DEF Counted
<1>2. IsFiniteSet(Counted) /\ Cardinality(Counted) <= NumVProcs
      /\ (Cardinality(Counted) = NumVProcs => Counted = VProc)
  BY <1>1, VProcFacts, FS_Subset
<1>3. Cardinality(Counted) \in Nat
  BY <1>2, FS_CardinalityType
<1> QED
  BY <1>1, <1>2, <1>3, VProcFacts, SMT

LEMMA InitInv == Init => Inv
<1> SUFFICES ASSUME Init PROVE Inv
  OBVIOUS
<1>1. TypeOK
  <2>1. nSpawned \in 0 .. NumVProcs /\ shutdownCnt \in 0 .. NumVProcs /\ dst \in VProc
    BY VProcFacts, SMT DEF Init
  <2>2. /\ initFn \in [VProc -> {"none", "MainVProc", "IdleVProc"}]
        /\ pc \in [VProc -> Places] /\ resumeAt \in [VProc -> Compiled]
    BY DEF Init, Places, Waiting, Compiled
  <2>3. /\ pad \in [VProc -> BOOLEAN] /\ sleeping \in [VProc -> BOOLEAN]
        /\ limitZero \in [VProc -> BOOLEAN] /\ shutdownPending \in [VProc -> BOOLEAN]
    BY Zenon DEF Init
  <2>4. \A v \in VProc : ~ pad[v] /\ ~ limitZero[v]
    BY DEF Init
  <2> QED
    BY <2>1, <2>2, <2>3, <2>4 DEF Init, TypeOK
<1>2. StartupInv
  BY VProcFacts, SMT DEF Init, StartupInv, BeforeBarrier
<1>3. ShutdownInv
  <2>1. Counted = {}
    BY DEF Init, Counted, CountedDown, Exiting
  <2>2. Cardinality(Counted) = 0
    BY <2>1, FS_EmptySet
  <2>3. \A v \in VProc : ~ InShutdown(v) /\ pc[v] \notin Exiting
    BY DEF Init, InShutdown, Exiting
  <2> QED
    BY <2>2, <2>3, VProcFacts, SMT DEF Init, ShutdownInv
<1> QED
  BY <1>1, <1>2, <1>3 DEF Inv

-----------------------------------------------------------------------------
(* Most steps leave the counting alone, ...                                *)
KeepsShutdown ==
  /\ UNCHANGED <<shutdownPending, shutdownCnt, atExit, exited>>
  /\ \A u \in VProc :
       /\ pc'[u] # "top" => resumeAt'[u] = "program"
       /\ InShutdown(u)' <=> InShutdown(u)
       /\ CountedDown(u)' <=> CountedDown(u)
       /\ pc'[u] \in Exiting <=> pc[u] \in Exiting

LEMMA ShutdownKept ==
  ASSUME ShutdownInv, KeepsShutdown
  PROVE  ShutdownInv'
<1>1. Counted' = Counted
  BY DEF Counted, KeepsShutdown
<1>2. {v \in VProc : pc'[v] \in Exiting} = {v \in VProc : pc[v] \in Exiting}
  BY DEF KeepsShutdown
<1> QED
  BY <1>1, <1>2 DEF ShutdownInv, KeepsShutdown

(* ... and most happen after the startup.                                  *)
KeepsStartup ==
  /\ UNCHANGED <<main, nSpawned, initData, started, atInit>>
  /\ \A u \in VProc :
       \/ pc'[u] = pc[u]
       \/ atInit = Parties /\ pc[u] \notin BeforeBarrier /\ pc'[u] \notin BeforeBarrier

LEMMA StartupKept ==
  ASSUME StartupInv, KeepsStartup
  PROVE  StartupInv'
<1>1. \A u \in VProc : pc'[u] \notin BeforeBarrier <=> pc[u] \notin BeforeBarrier
  BY DEF KeepsStartup
<1>2. \A u \in VProc : pc[u] = "none" => pc'[u] = "none"
  BY DEF KeepsStartup, BeforeBarrier
<1> QED
  BY <1>1, <1>2 DEF StartupInv, KeepsStartup

(* A vproc past InitBarrier has company: all vprocs are set up. *)
LEMMA AllStarted ==
  ASSUME StartupInv, atInit = Parties
  PROVE  VProc \subseteq started
  BY DEF StartupInv, Parties

-----------------------------------------------------------------------------
(* Startup *)

LEMMA SpawnInv ==
  ASSUME Inv, Spawn
  PROVE  Inv'
<1>1. nSpawned \in VProc /\ pc[nSpawned] = "none" /\ pc \in [VProc -> Places]
  BY VProcFacts, SMT DEF Inv, TypeOK, StartupInv, Spawn, VProc
<1>2. nSpawned' \in 0 .. NumVProcs
  BY <1>1, VProcFacts, SMT DEF Spawn, VProc
<1>3. TypeOK'
  <2>1. pc' \in [VProc -> Places] /\ main' \in {"spawn", "initBarrier", "ping"}
    BY <1>1 DEF Spawn, GoTo, Places, Waiting
  <2>2. atInit' \subseteq VProc \union {Main}
    BY DEF Inv, TypeOK, Spawn
  <2> QED
    BY <1>2, <2>1, <2>2 DEF Inv, TypeOK, Spawn, signals, shutdown
<1>4. StartupInv'
  <2>1. main' = "spawn" => nSpawned' \in VProc
    BY <1>1, VProcFacts, SMT DEF Spawn, VProc
  <2>2. main' = "spawn" => \A u \in VProc : u >= nSpawned' => pc'[u] = "none"
    BY <1>1, VProcFacts, SMT DEF Inv, TypeOK, StartupInv, Spawn, GoTo, VProc
  <2>3. \A u \in VProc : /\ pc'[u] \in BeforeBarrier <=> pc[u] \in BeforeBarrier
                         /\ u \in atInit' <=> u \in atInit
                         /\ pc'[u] # pc[u] => pc'[u] \in BeforeBarrier
    BY <1>1, VProcFacts DEF Spawn, GoTo, BeforeBarrier
  <2>4. atInit = Parties => atInit' = Parties
    BY DEF Spawn, Parties
  <2>5. started' = started /\ initData' = initData /\ main' # "ping"
    BY DEF Spawn
  <2> QED
    BY <2>1, <2>2, <2>3, <2>4, <2>5 DEF Inv, StartupInv
<1>5. KeepsShutdown
  BY <1>1 DEF Inv, ShutdownInv, KeepsShutdown, Spawn, GoTo, InShutdown, CountedDown, Exiting, shutdown
<1> QED
  BY <1>3, <1>4, <1>5, ShutdownKept DEF Inv

LEMMA NewVProcInv ==
  ASSUME Inv, NEW v \in VProc, NewVProc(v)
  PROVE  Inv'
<1>1. initData
  BY DEF Inv, StartupInv, NewVProc, BeforeBarrier, Parties
<1>2. TypeOK'
  BY <1>1, SMT DEF Inv, TypeOK, NewVProc, InitFn, GoTo, Places, Waiting, layout, signals, shutdown
<1>3. StartupInv'
  <2>1. pc \in [VProc -> Places]
    BY DEF Inv, TypeOK
  <2> QED
    BY <2>1, VProcFacts, SMT DEF Inv, StartupInv, NewVProc, GoTo, BeforeBarrier, Parties
<1>4. KeepsShutdown
  <2>1. pc \in [VProc -> Places]
    BY DEF Inv, TypeOK
  <2> QED
    BY <2>1 DEF Inv, ShutdownInv, KeepsShutdown, NewVProc, GoTo, InShutdown, CountedDown, Exiting,
                shutdown
<1> QED
  BY <1>2, <1>3, <1>4, ShutdownKept DEF Inv

LEMMA FreeInitDataInv ==
  ASSUME Inv, FreeInitData
  PROVE  Inv'
<1>1. atInit = Parties
  BY AllAtInit DEF Inv, FreeInitData
<1>2. TypeOK'
  BY DEF Inv, TypeOK, FreeInitData, layout, signals, shutdown
<1>3. StartupInv'
  BY <1>1 DEF Inv, StartupInv, FreeInitData
<1>4. KeepsShutdown
  BY DEF Inv, ShutdownInv, KeepsShutdown, FreeInitData, InShutdown, CountedDown, shutdown
<1> QED
  BY <1>2, <1>3, <1>4, ShutdownKept DEF Inv
-----------------------------------------------------------------------------
(* After the startup *)

(* A vproc that is past InitBarrier: all are set up. *)
LEMMA Past ==
  ASSUME Inv, NEW v \in VProc, pc[v] \notin BeforeBarrier, pc[v] # "initBarrier"
  PROVE  atInit = Parties /\ VProc \subseteq started
<1>1. atInit = Parties
  BY DEF Inv, StartupInv
<1> QED
  BY <1>1, AllStarted DEF Inv

(* Steps that move v alone, from one place past InitBarrier to another, and *)
(* touch neither the startup nor the counting.                             *)
LEMMA MoveInv ==
  ASSUME Inv, NEW v \in VProc, atInit = Parties, pc[v] \notin BeforeBarrier,
         NEW w \in Places \ BeforeBarrier, pc' = [pc EXCEPT ![v] = w],
         UNCHANGED <<main, startup, shutdownPending, shutdownCnt, atExit, exited>>
  PROVE  KeepsStartup /\ pc' \in [VProc -> Places]
<1>1. pc \in [VProc -> Places]
  BY DEF Inv, TypeOK
<1> QED
  BY <1>1 DEF KeepsStartup, startup

LEMMA RunInitFnInv ==
  ASSUME Inv, NEW v \in VProc, RunInitFn(v)
  PROVE  Inv'
<1>1. atInit = Parties
  BY AllAtInit DEF Inv, RunInitFn
<1>2. pc \in [VProc -> Places]
  BY DEF Inv, TypeOK
<1> DEFINE w == IF initFn[v] = "MainVProc" THEN "top" ELSE "idle"
<1>3. w \in Places \ BeforeBarrier /\ pc' = [pc EXCEPT ![v] = w]
  BY DEF RunInitFn, GoTo, Places, Waiting, BeforeBarrier
<1>4. KeepsStartup /\ pc' \in [VProc -> Places]
  BY <1>1, <1>3, MoveInv DEF RunInitFn, BeforeBarrier, shutdown
<1>5. TypeOK'
  BY <1>4 DEF Inv, TypeOK, RunInitFn, startup, signals, shutdown
<1>6. KeepsShutdown
  BY <1>2, <1>3 DEF Inv, ShutdownInv, KeepsShutdown, RunInitFn, InShutdown, CountedDown, Exiting, shutdown
<1> QED
  BY <1>4, <1>5, <1>6, StartupKept, ShutdownKept DEF Inv

LEMMA SleepInv ==
  ASSUME Inv, NEW v \in VProc, SleepEnter(v) \/ SleepTest(v) \/ SleepBlock(v) \/ SleepExit(v)
  PROVE  Inv'
<1>1. atInit = Parties
  BY Past DEF SleepEnter, SleepTest, SleepBlock, SleepExit, BeforeBarrier
<1>2. pc \in [VProc -> Places] /\ pc[v] \in {"idle", "test", "wait", "nanosleep"}
  BY DEF Inv, TypeOK, SleepEnter, SleepTest, SleepBlock, SleepExit
<1>3. PICK w \in {"test", "top", "wait", "blocked"} : pc' = [pc EXCEPT ![v] = w]
  BY DEF SleepEnter, SleepTest, SleepBlock, SleepExit, GoTo
<1>4. UNCHANGED <<main, startup, resumeAt, pad, limitZero, dst, shutdown>>
  BY DEF SleepEnter, SleepTest, SleepBlock, SleepExit, signals
<1>5. KeepsStartup /\ pc' \in [VProc -> Places]
  <2>1. w \in Places \ BeforeBarrier
    BY DEF Places, Waiting, BeforeBarrier
  <2> QED
    BY <1>1, <1>2, <1>3, <1>4, <2>1, MoveInv DEF BeforeBarrier, shutdown
<1>6. sleeping' \in [VProc -> BOOLEAN]
  BY DEF Inv, TypeOK, SleepEnter, SleepTest, SleepBlock, SleepExit, signals
<1>7. TypeOK'
  BY <1>4, <1>5, <1>6 DEF Inv, TypeOK, startup, shutdown
<1>8. KeepsShutdown
  BY <1>2, <1>3, <1>4
     DEF Inv, ShutdownInv, KeepsShutdown, InShutdown, CountedDown, Exiting, shutdown
<1> QED
  BY <1>5, <1>7, <1>8, StartupKept, ShutdownKept DEF Inv

LEMMA TopInv ==
  ASSUME Inv, NEW v \in VProc, Top(v)
  PROVE  Inv'
<1>1. atInit = Parties
  BY Past DEF Top, BeforeBarrier
<1>2. pc \in [VProc -> Places] /\ pc[v] = "top" /\ resumeAt \in [VProc -> Compiled]
      /\ shutdownPending \in [VProc -> BOOLEAN]
  BY DEF Inv, TypeOK, Top
<1>3. PICK w \in Compiled : pc' = [pc EXCEPT ![v] = w]
  BY <1>2 DEF Top, GoTo, Compiled
<1>4. KeepsStartup /\ pc' \in [VProc -> Places]
  <2>1. w \in Places \ BeforeBarrier
    BY DEF Places, Compiled, BeforeBarrier
  <2>2. UNCHANGED <<main, startup>>
    BY DEF Top
  <2> QED
    BY <1>1, <1>2, <1>3, <2>1, <2>2 DEF KeepsStartup, BeforeBarrier, startup
<1>5. TypeOK'
  <2>1. resumeAt' \in [VProc -> Compiled] /\ shutdownPending' \in [VProc -> BOOLEAN]
    BY <1>2 DEF Top, Compiled
  <2> QED
    BY <1>4, <2>1 DEF Inv, TypeOK, Top, startup, signals
<1>6. ShutdownInv'
  <2>1. CASE MustShutDown(v)
    <3>1. pc' = [pc EXCEPT ![v] = "shutdown"] /\ shutdownPending' = [shutdownPending EXCEPT ![v] = TRUE]
          /\ resumeAt' = [resumeAt EXCEPT ![v] = "program"]
      BY <2>1 DEF Top, GoTo
    <3>2. ~ shutdownPending[v]
      BY <2>1 DEF MustShutDown
    <3>3. \A u \in VProc : CountedDown(u)' <=> CountedDown(u)
      BY <1>2, <3>1, <3>2 DEF CountedDown, Exiting
    <3>4. \A u \in VProc : pc'[u] \in Exiting <=> pc[u] \in Exiting
      BY <1>2, <3>1 DEF Exiting
    <3>5. \A u \in VProc : shutdownPending'[u] <=> InShutdown(u)'
      BY <1>2, <3>1 DEF Inv, ShutdownInv, InShutdown, Exiting
    <3>6. \A u \in VProc : pc'[u] # "top" => resumeAt'[u] = "program"
      BY <1>2, <3>1 DEF Inv, ShutdownInv
    <3>7. Counted' = Counted /\ {u \in VProc : pc'[u] \in Exiting} = {u \in VProc : pc[u] \in Exiting}
      BY <3>3, <3>4 DEF Counted
    <3> QED
      BY <3>4, <3>5, <3>6, <3>7 DEF Inv, ShutdownInv, Top
  <2>2. CASE ~ MustShutDown(v)
    <3>1. /\ pc' = [pc EXCEPT ![v] = resumeAt[v]] /\ resumeAt' = [resumeAt EXCEPT ![v] = "program"]
          /\ resumeAt[v] \in Compiled
          /\ UNCHANGED <<shutdownPending, shutdownCnt, atExit, exited>>
      BY <1>2, <2>2 DEF Top, GoTo
    <3>2. resumeAt[v] = "spin" => shutdownPending[v]
      BY <1>2 DEF Inv, ShutdownInv, InShutdown
    <3>3. KeepsShutdown
      BY <1>2, <3>1, <3>2 DEF Inv, ShutdownInv, KeepsShutdown, InShutdown, CountedDown, Compiled, Exiting
    <3> QED
      BY <3>3, ShutdownKept DEF Inv
  <2> QED
    BY <2>1, <2>2
<1> QED
  BY <1>4, <1>5, <1>6, StartupKept DEF Inv

LEMMA HeapCheckInv ==
  ASSUME Inv, NEW v \in VProc, HeapCheck(v)
  PROVE  Inv'
<1>1. atInit = Parties
  BY Past DEF HeapCheck, Compiled, BeforeBarrier
<1>2. pc \in [VProc -> Places] /\ pc[v] \in Compiled /\ resumeAt \in [VProc -> Compiled]
  BY DEF Inv, TypeOK, HeapCheck
<1>3. pc' = [pc EXCEPT ![v] = "top"] /\ resumeAt' = [resumeAt EXCEPT ![v] = pc[v]]
      /\ UNCHANGED <<main, startup, pad, sleeping, dst, shutdown>>
  BY DEF HeapCheck, GoTo
<1>4. KeepsStartup /\ pc' \in [VProc -> Places]
  <2>1. "top" \in Places \ BeforeBarrier /\ pc[v] \notin BeforeBarrier
    BY <1>2 DEF Places, Compiled, BeforeBarrier
  <2> QED
    BY <1>1, <1>3, <2>1, MoveInv DEF shutdown
<1>5. TypeOK'
  <2>1. resumeAt' \in [VProc -> Compiled]
    BY <1>2, <1>3
  <2>2. limitZero' \in [VProc -> BOOLEAN] /\ \A u \in VProc : limitZero'[u] => limitZero[u]
    BY DEF Inv, TypeOK, HeapCheck
  <2> QED
    BY <1>3, <1>4, <2>1, <2>2 DEF Inv, TypeOK, startup, shutdown
<1>6. KeepsShutdown
  <2>1. pc[v] = "spin" => shutdownPending[v]
    BY DEF Inv, ShutdownInv, InShutdown
  <2> QED
    BY <1>2, <1>3, <2>1
       DEF Inv, ShutdownInv, KeepsShutdown, InShutdown, CountedDown, Compiled, Exiting, shutdown
<1> QED
  BY <1>4, <1>5, <1>6, StartupKept, ShutdownKept DEF Inv

LEMMA SleepRequestInv ==
  ASSUME Inv, NEW v \in VProc, SleepRequest(v)
  PROVE  Inv'
<1>1. atInit = Parties
  BY Past DEF SleepRequest, BeforeBarrier
<1>2. pc \in [VProc -> Places] /\ pc[v] = "program" /\ pc' = [pc EXCEPT ![v] = "nanosleep"]
      /\ UNCHANGED <<main, startup, resumeAt, pad, dst, shutdown>>
  BY DEF Inv, TypeOK, SleepRequest, GoTo
<1>3. KeepsStartup /\ pc' \in [VProc -> Places]
  <2>1. "nanosleep" \in Places \ BeforeBarrier /\ pc[v] \notin BeforeBarrier
    BY <1>2 DEF Places, BeforeBarrier
  <2> QED
    BY <1>1, <1>2, <2>1, MoveInv DEF shutdown
<1>4. TypeOK'
  <2>1. /\ limitZero' \in [VProc -> BOOLEAN] /\ \A u \in VProc : limitZero'[u] => limitZero[u]
        /\ sleeping' \in [VProc -> BOOLEAN]
    BY DEF Inv, TypeOK, SleepRequest
  <2> QED
    BY <1>2, <1>3, <2>1 DEF Inv, TypeOK, startup, shutdown
<1>5. KeepsShutdown
  BY <1>2 DEF Inv, ShutdownInv, KeepsShutdown, InShutdown, CountedDown, Exiting, shutdown
<1> QED
  BY <1>3, <1>4, <1>5, StartupKept, ShutdownKept DEF Inv

LEMMA ProgramSignalInv ==
  ASSUME Inv, NEW v \in VProc, NEW d \in VProc, ProgramSignal(v, d)
  PROVE  Inv'
<1>1. atInit = Parties /\ VProc \subseteq started
  BY Past DEF ProgramSignal, BeforeBarrier
<1>2. pc \in [VProc -> Places]
      /\ UNCHANGED <<main, startup, resumeAt, sleeping, dst, shutdown>>
  BY DEF Inv, TypeOK, ProgramSignal
<1>3. \A u \in VProc : pc'[u] # pc[u] => pc[u] = "blocked" /\ pc'[u] = "test"
  BY <1>2 DEF ProgramSignal
<1>4. pc' \in [VProc -> Places]
  BY <1>2 DEF ProgramSignal, Places, Waiting
<1>5. KeepsStartup
  BY <1>1, <1>2, <1>3 DEF KeepsStartup, BeforeBarrier, startup
<1>6. TypeOK'
  <2>1. pad' \in [VProc -> BOOLEAN] /\ limitZero' \in [VProc -> BOOLEAN]
    BY DEF Inv, TypeOK, ProgramSignal
  <2>2. VProc \subseteq started'
    BY <1>1, <1>2 DEF startup
  <2> QED
    BY <1>2, <1>4, <2>1, <2>2 DEF Inv, TypeOK, startup, shutdown
<1>7. KeepsShutdown
  BY <1>2, <1>3 DEF Inv, ShutdownInv, KeepsShutdown, InShutdown, CountedDown, Exiting, shutdown
<1> QED
  BY <1>5, <1>6, <1>7, StartupKept, ShutdownKept DEF Inv

LEMMA PingInv ==
  ASSUME Inv, NEW v \in VProc, Ping(v)
  PROVE  Inv'
<1>1. VProc \subseteq started
  BY AllStarted DEF Inv, StartupInv, Ping
<1>2. UNCHANGED <<main, startup, pc, resumeAt, pad, sleeping, dst, shutdown>>
  BY DEF Ping
<1>3. TypeOK'
  <2>1. limitZero' \in [VProc -> BOOLEAN]
    BY DEF Inv, TypeOK, Ping
  <2> QED
    BY <1>1, <1>2, <2>1 DEF Inv, TypeOK, startup, shutdown
<1>4. KeepsStartup
  BY <1>2 DEF KeepsStartup, startup
<1>5. KeepsShutdown
  BY <1>2 DEF Inv, ShutdownInv, KeepsShutdown, InShutdown, CountedDown, shutdown
<1> QED
  BY <1>3, <1>4, <1>5, StartupKept, ShutdownKept DEF Inv

-----------------------------------------------------------------------------
(* Shutdown *)

LEMMA ReturnInv ==
  ASSUME Inv, NEW v \in VProc, Return(v)
  PROVE  Inv'
<1>1. atInit = Parties
  BY Past DEF Return, BeforeBarrier
<1>2. pc \in [VProc -> Places] /\ pc[v] = "program" /\ pc' = [pc EXCEPT ![v] = "push"]
      /\ UNCHANGED <<main, startup, resumeAt, pad, sleeping, shutdownPending, shutdownCnt, atExit,
                     exited>>
  BY DEF Inv, TypeOK, Return, GoTo
<1>3. KeepsStartup /\ pc' \in [VProc -> Places]
  <2>1. "push" \in Places \ BeforeBarrier /\ pc[v] \notin BeforeBarrier
    BY <1>2 DEF Places, BeforeBarrier
  <2> QED
    BY <1>1, <1>2, <2>1, MoveInv
<1>4. TypeOK'
  <2>1. /\ limitZero' \in [VProc -> BOOLEAN] /\ \A u \in VProc : limitZero'[u] => limitZero[u]
        /\ dst' \in VProc /\ ShutdownFlg' \in BOOLEAN
    BY VProcFacts DEF Inv, TypeOK, Return
  <2> QED
    BY <1>2, <1>3, <2>1 DEF Inv, TypeOK, startup
<1>5. KeepsShutdown
  BY <1>2 DEF Inv, ShutdownInv, KeepsShutdown, InShutdown, CountedDown, Exiting
<1> QED
  BY <1>3, <1>4, <1>5, StartupKept, ShutdownKept DEF Inv

LEMMA PushInv ==
  ASSUME Inv, NEW v \in VProc, Push(v)
  PROVE  Inv'
<1>1. atInit = Parties /\ VProc \subseteq started
  BY Past DEF Push, BeforeBarrier
<1>2. pc \in [VProc -> Places] /\ pc[v] = "push" /\ pc' = [pc EXCEPT ![v] = "wake"]
      /\ UNCHANGED <<main, startup, resumeAt, sleeping, limitZero, dst, shutdown>>
  BY DEF Inv, TypeOK, Push, GoTo
<1>3. KeepsStartup /\ pc' \in [VProc -> Places]
  <2>1. "wake" \in Places \ BeforeBarrier /\ pc[v] \notin BeforeBarrier
    BY <1>2 DEF Places, BeforeBarrier
  <2> QED
    BY <1>1, <1>2, <2>1, MoveInv DEF shutdown
<1>4. TypeOK'
  <2>1. pad' \in [VProc -> BOOLEAN]
    BY DEF Inv, TypeOK, Push
  <2> QED
    BY <1>1, <1>2, <1>3, <2>1 DEF Inv, TypeOK, startup, shutdown
<1>5. KeepsShutdown
  BY <1>2 DEF Inv, ShutdownInv, KeepsShutdown, InShutdown, CountedDown, Exiting, shutdown
<1> QED
  BY <1>3, <1>4, <1>5, StartupKept, ShutdownKept DEF Inv

LEMMA WakeInv ==
  ASSUME Inv, NEW v \in VProc, Wake(v)
  PROVE  Inv'
<1>1. atInit = Parties
  BY Past DEF Wake, BeforeBarrier
<1>2. pc \in [VProc -> Places] /\ pc[v] = "wake" /\ dst \in VProc
      /\ UNCHANGED <<main, startup, resumeAt, signals, shutdown>>
  BY DEF Inv, TypeOK, Wake
<1>3. \A u \in VProc : \/ pc'[u] = pc[u]
                       \/ pc[u] = "blocked" /\ pc'[u] = "test"
                       \/ pc[u] = "wake" /\ pc'[u] = "preempt"
  BY <1>2 DEF Wake
<1>4. pc' \in [VProc -> Places]
  <2>1. {"test", "preempt"} \subseteq Places
    BY DEF Places, Waiting
  <2>2. pc' \in [VProc -> Places \union {"test", "preempt"}]
    BY <1>2, <1>3, <2>1 DEF Wake
  <2> QED
    BY <2>1, <2>2
<1>5. KeepsStartup
  BY <1>1, <1>2, <1>3 DEF KeepsStartup, BeforeBarrier, startup
<1>6. TypeOK'
  BY <1>2, <1>4 DEF Inv, TypeOK, startup, signals, shutdown
<1>7. KeepsShutdown
  BY <1>2, <1>3 DEF Inv, ShutdownInv, KeepsShutdown, InShutdown, CountedDown, Exiting, shutdown
<1> QED
  BY <1>5, <1>6, <1>7, StartupKept, ShutdownKept DEF Inv

LEMMA PreemptInv ==
  ASSUME Inv, NEW v \in VProc, Preempt(v)
  PROVE  Inv'
<1>1. atInit = Parties /\ VProc \subseteq started
  BY Past DEF Preempt, BeforeBarrier
<1>2. pc \in [VProc -> Places] /\ pc[v] = "preempt"
      /\ UNCHANGED <<main, startup, resumeAt, pad, sleeping, shutdown>>
  BY DEF Inv, TypeOK, Preempt
<1>3. PICK w \in {"top", "push"} : pc' = [pc EXCEPT ![v] = w]
  BY DEF Preempt, GoTo
<1>4. KeepsStartup /\ pc' \in [VProc -> Places]
  <2>1. w \in Places \ BeforeBarrier /\ pc[v] \notin BeforeBarrier
    BY <1>2 DEF Places, BeforeBarrier
  <2> QED
    BY <1>1, <1>2, <1>3, <2>1, MoveInv DEF shutdown
<1>5. TypeOK'
  <2>1. limitZero' \in [VProc -> BOOLEAN]
    BY DEF Inv, TypeOK, Preempt
  <2>2. dst' \in VProc
    BY VProcFacts, SMT DEF Inv, TypeOK, Preempt, VProc
  <2> QED
    BY <1>1, <1>2, <1>4, <2>1, <2>2 DEF Inv, TypeOK, startup, shutdown
<1>6. KeepsShutdown
  <2>1. resumeAt[v] = "program"
    BY <1>2 DEF Inv, ShutdownInv
  <2> QED
    BY <1>2, <1>3, <2>1
       DEF Inv, ShutdownInv, KeepsShutdown, InShutdown, CountedDown, Exiting, shutdown
<1> QED
  BY <1>4, <1>5, <1>6, StartupKept, ShutdownKept DEF Inv

(* The counter is the number of vprocs that have not come: it stays        *)
(* positive until the last one.                                            *)
LEMMA CountDownInv ==
  ASSUME Inv, NEW v \in VProc, CountDown(v)
  PROVE  Inv'
<1>1. atInit = Parties
  BY Past DEF CountDown, BeforeBarrier
<1>2. /\ pc \in [VProc -> Places] /\ pc[v] = "shutdown" /\ pc' = [pc EXCEPT ![v] = "spin"]
      /\ shutdownCnt' = shutdownCnt - 1
      /\ UNCHANGED <<main, startup, resumeAt, signals, ShutdownFlg, shutdownPending, atExit, exited>>
  BY DEF Inv, TypeOK, CountDown, GoTo
<1>3. KeepsStartup /\ pc' \in [VProc -> Places]
  <2>1. "spin" \in Places \ BeforeBarrier /\ pc[v] \notin BeforeBarrier
    BY <1>2 DEF Places, Compiled, BeforeBarrier
  <2> QED
    BY <1>1, <1>2, <2>1 DEF KeepsStartup, startup
<1>4. v \notin Counted /\ Counted' = Counted \union {v}
  BY <1>2 DEF Counted, CountedDown, Exiting
<1>5. IsFiniteSet(Counted) /\ Cardinality(Counted') = Cardinality(Counted) + 1
  BY <1>4, CountedFacts, FS_AddElement
<1>6. Cardinality(Counted) \in 0 .. NumVProcs - 1
  <2>1. Cardinality(Counted) # NumVProcs
    BY <1>4, CountedFacts
  <2> QED
    BY <2>1, CountedFacts, VProcFacts, SMT
<1>7. shutdownCnt' \in 0 .. NumVProcs /\ shutdownCnt' = NumVProcs - Cardinality(Counted')
  BY <1>2, <1>5, <1>6, VProcFacts, SMT DEF Inv, ShutdownInv
<1>8. TypeOK'
  BY <1>2, <1>3, <1>7 DEF Inv, TypeOK, startup, signals
<1>9. ShutdownInv'
  <2>1. \A u \in VProc : pc[u] \notin Exiting
    BY <1>4 DEF Inv, ShutdownInv
  <2>2. \A u \in VProc : pc'[u] \notin Exiting
    BY <1>2, <2>1 DEF Exiting
  <2>3. \A u \in VProc : shutdownPending'[u] <=> InShutdown(u)'
    BY <1>2 DEF Inv, ShutdownInv, InShutdown, Exiting
  <2>4. \A u \in VProc : pc'[u] # "top" => resumeAt'[u] = "program"
    BY <1>2 DEF Inv, ShutdownInv
  <2>5. atExit = {} /\ {u \in VProc : pc'[u] \in Exiting} = {}
    BY <2>1, <2>2 DEF Inv, ShutdownInv
  <2>6. atExit' = {u \in VProc : pc'[u] \in Exiting} /\ (exited' => atExit' = VProc)
    BY <1>2, <2>5 DEF Inv, ShutdownInv
  <2> QED
    BY <1>7, <2>2, <2>3, <2>4, <2>6 DEF ShutdownInv
<1> QED
  BY <1>3, <1>8, <1>9, StartupKept DEF Inv

(* Zero means that all have come. *)
LEMMA VProcExitInv ==
  ASSUME Inv, NEW v \in VProc, VProcExit(v)
  PROVE  Inv'
<1>1. atInit = Parties
  BY Past DEF VProcExit, BeforeBarrier
<1>2. /\ pc \in [VProc -> Places] /\ pc[v] = "spin" /\ pc' = [pc EXCEPT ![v] = "exitBarrier"]
      /\ atExit' = atExit \union {v}
      /\ UNCHANGED <<main, startup, resumeAt, signals, ShutdownFlg, shutdownPending, shutdownCnt,
                     exited>>
  BY DEF Inv, TypeOK, VProcExit, GoTo
<1>3. KeepsStartup /\ pc' \in [VProc -> Places]
  <2>1. "exitBarrier" \in Places \ BeforeBarrier /\ pc[v] \notin BeforeBarrier
    BY <1>2 DEF Places, Exiting, BeforeBarrier
  <2> QED
    BY <1>1, <1>2, <2>1 DEF KeepsStartup, startup
<1>4. Counted = VProc
  <2>1. Cardinality(Counted) = NumVProcs
    BY CountedFacts, VProcFacts, SMT DEF Inv, ShutdownInv, VProcExit
  <2> QED
    BY <2>1, CountedFacts
<1>5. Counted' = Counted
  BY <1>2 DEF Counted, CountedDown, Exiting
<1>6. TypeOK'
  BY <1>2, <1>3 DEF Inv, TypeOK, startup, signals
<1>7. ShutdownInv'
  <2>1. \A u \in VProc : shutdownPending'[u] <=> InShutdown(u)'
    BY <1>2 DEF Inv, ShutdownInv, InShutdown, Exiting
  <2>2. \A u \in VProc : pc'[u] # "top" => resumeAt'[u] = "program"
    BY <1>2 DEF Inv, ShutdownInv
  <2>3. {u \in VProc : pc'[u] \in Exiting} = {u \in VProc : pc[u] \in Exiting} \union {v}
    BY <1>2 DEF Exiting
  <2>4. atExit' = {u \in VProc : pc'[u] \in Exiting} /\ (exited' => atExit' = VProc)
    BY <1>2, <2>3 DEF Inv, ShutdownInv
  <2> QED
    BY <1>2, <1>4, <1>5, <2>1, <2>2, <2>4 DEF Inv, ShutdownInv
<1> QED
  BY <1>3, <1>6, <1>7, StartupKept DEF Inv

LEMMA LeaveInv ==
  ASSUME Inv, NEW v \in VProc, Leave(v)
  PROVE  Inv'
<1>1. atInit = Parties /\ atExit = VProc
  BY Past, AllAtExit DEF Inv, Leave, BeforeBarrier
<1>2. /\ pc \in [VProc -> Places] /\ pc[v] = "exitBarrier" /\ pc' = [pc EXCEPT ![v] = "gone"]
      /\ exited' \in BOOLEAN
      /\ UNCHANGED <<main, startup, resumeAt, signals, ShutdownFlg, shutdownPending, shutdownCnt,
                     atExit>>
  BY DEF Inv, TypeOK, Leave, GoTo
<1>3. KeepsStartup /\ pc' \in [VProc -> Places]
  <2>1. "gone" \in Places \ BeforeBarrier /\ pc[v] \notin BeforeBarrier
    BY <1>2 DEF Places, Exiting, BeforeBarrier
  <2> QED
    BY <1>1, <1>2, <2>1 DEF KeepsStartup, startup
<1>4. TypeOK'
  BY <1>2, <1>3 DEF Inv, TypeOK, startup, signals
<1>5. ShutdownInv'
  <2>1. \A u \in VProc : /\ InShutdown(u)' <=> InShutdown(u)
                         /\ CountedDown(u)' <=> CountedDown(u)
                         /\ pc'[u] \in Exiting <=> pc[u] \in Exiting
    BY <1>2 DEF InShutdown, CountedDown, Exiting
  <2>2. Counted' = Counted /\ {u \in VProc : pc'[u] \in Exiting} = {u \in VProc : pc[u] \in Exiting}
    BY <2>1 DEF Counted
  <2>3. \A u \in VProc : pc'[u] # "top" => resumeAt'[u] = "program"
    BY <1>2 DEF Inv, ShutdownInv
  <2> QED
    BY <1>1, <1>2, <2>1, <2>2, <2>3 DEF Inv, ShutdownInv
<1> QED
  BY <1>3, <1>4, <1>5, StartupKept DEF Inv

-----------------------------------------------------------------------------
LEMMA NextInv == Inv /\ [Next]_vars => Inv'
<1> SUFFICES ASSUME Inv, [Next]_vars PROVE Inv'
  OBVIOUS
<1>1. CASE MainThread
  BY <1>1, SpawnInv, FreeInitDataInv DEF MainThread
<1>2. ASSUME NEW v \in VProc, Go(v) PROVE Inv'
  BY <1>2, NewVProcInv, RunInitFnInv, SleepInv, TopInv, PushInv, WakeInv, PreemptInv, CountDownInv,
     VProcExitInv, LeaveInv DEF Go
<1>3. ASSUME NEW v \in VProc, HeapCheck(v) \/ Ping(v) PROVE Inv'
  BY <1>3, HeapCheckInv, PingInv
<1>4. ASSUME NEW v \in VProc, Program(v) PROVE Inv'
  BY <1>4, SleepRequestInv, ReturnInv, ProgramSignalInv DEF Program
<1>5. CASE UNCHANGED vars
  <2>1. UNCHANGED vars
    BY <1>5
  <2>2. TypeOK'
    BY <2>1 DEF Inv, TypeOK, vars, startup, layout, signals, shutdown
  <2>3. KeepsStartup /\ KeepsShutdown
    BY <2>1 DEF Inv, ShutdownInv, KeepsStartup, KeepsShutdown, InShutdown, CountedDown, vars, startup,
                shutdown
  <2> QED
    BY <2>2, <2>3, StartupKept, ShutdownKept DEF Inv
<1> QED
  BY <1>1, <1>2, <1>3, <1>4, <1>5 DEF Next

LEMMA InvFacts == Inv => TypeOK /\ ShutdownIsFinal
<1> SUFFICES ASSUME Inv PROVE ShutdownIsFinal
  BY DEF Inv
<1>1. \A v \in VProc : pc[v] \in Exiting => \A u \in VProc : CountedDown(u)
  BY DEF Inv, ShutdownInv, Counted
<1>2. exited => \A v \in VProc : pc[v] \in Exiting
  BY DEF Inv, ShutdownInv
<1> QED
  BY <1>1, <1>2 DEF ShutdownIsFinal

(* A vproc reads its InitData_t before the main thread frees it, nobody    *)
(* signals or preempts a vproc that has not been set up, and the counter   *)
(* of the shutdown never goes below zero.                                  *)
THEOREM LifecycleTypeCorrect == Spec => []TypeOK
<1>1. Inv /\ [Next]_vars => Inv'
  BY NextInv
<1>2. Inv => TypeOK
  BY InvFacts
<1> QED
  BY InitInv, <1>1, <1>2, PTL DEF Spec

(* No vproc passes ShutdownBarrier, and the process does not end, while    *)
(* another vproc may still run the program or send it a signal.            *)
THEOREM ShutdownFinal == Spec => []ShutdownIsFinal
<1>1. Inv /\ [Next]_vars => Inv'
  BY NextInv
<1>2. Inv => ShutdownIsFinal
  BY InvFacts
<1> QED
  BY InitInv, <1>1, <1>2, PTL DEF Spec

-----------------------------------------------------------------------------
(* Where vprocs are: the fields of a location come apart again as long as  *)
(* each fits in its eight bits, and the layouts are numberings.            *)

LEMMA DivideBy ==
  ASSUME NEW a \in Nat, NEW b \in Nat \ {0}
  PROVE  /\ a \div b \in Nat /\ a % b \in 0 .. b - 1
         /\ a = b * (a \div b) + (a % b)
BY Z3

LEMMA Multiples ==
  ASSUME NEW b \in Nat, NEW p \in Nat, NEW q \in Nat, q < p
  PROVE  b * q + b <= b * p
<1>1. PICK d \in Nat : p = q + 1 + d
  <2>1. p - q - 1 \in Nat /\ p = q + 1 + (p - q - 1)
    OBVIOUS
  <2> QED
    BY <2>1
<1>2. b * p = b * q + b + b * d /\ b * d \in Nat
  BY <1>1
<1> QED
  BY <1>2

LEMMA DivideOnce ==
  ASSUME NEW b \in Nat \ {0}, NEW q \in Nat, NEW r \in 0 .. b - 1, NEW p \in Nat,
         NEW s \in 0 .. b - 1, b * q + r = b * p + s
  PROVE  q = p /\ r = s
<1>1. b * q \in Nat /\ b * p \in Nat
  OBVIOUS
<1>2. CASE q < p
  <2>1. b * q + b <= b * p
    BY <1>2, Multiples
  <2> QED
    BY <1>1, <2>1
<1>3. CASE p < q
  <2>1. b * p + b <= b * q
    BY <1>3, Multiples
  <2> QED
    BY <1>1, <2>1
<1>4. CASE q = p
  BY <1>1, <1>4
<1> QED
  BY <1>2, <1>3, <1>4

(* The quotient and the remainder of a number that is given by them. *)
LEMMA Divided ==
  ASSUME NEW b \in Nat \ {0}, NEW q \in Nat, NEW r \in 0 .. b - 1
  PROVE  (b * q + r) \div b = q /\ (b * q + r) % b = r
<1> DEFINE a == b * q + r
<1>1. a \in Nat
  OBVIOUS
<1>2. a \div b \in Nat /\ a % b \in 0 .. b - 1 /\ b * q + r = b * (a \div b) + (a % b)
  BY <1>1, DivideBy
<1> HIDE DEF a
<1>3. q = a \div b /\ r = a % b
  BY <1>2, DivideOnce
<1> QED
  BY <1>3 DEF a

(* A number below a product has a quotient below the other factor. *)
LEMMA QuotientBelow ==
  ASSUME NEW b \in Nat \ {0}, NEW n \in Nat, NEW a \in Nat, a < b * n
  PROVE  a \div b < n
<1>1. a \div b \in Nat /\ a % b \in 0 .. b - 1 /\ a = b * (a \div b) + (a % b)
  BY DivideBy
<1>2. CASE n < a \div b
  <2>1. b * n + b <= b * (a \div b)
    BY <1>1, <1>2, Multiples
  <2>2. b * n \in Nat /\ b * (a \div b) \in Nat
    BY <1>1
  <2> QED
    BY <1>1, <2>1, <2>2
<1>3. CASE n = a \div b
  BY <1>1, <1>3
<1> QED
  BY <1>1, <1>2, <1>3

MachineOK(m) ==
  /\ m.NumHWNodes \in Nat \ {0}
  /\ m.NumCoresPerNode \in Nat \ {0} /\ m.NumThdsPerCore \in Nat \ {0}

(* The cores of the machine and the threads of a core have numbers of      *)
(* eight bits.                                                             *)
FitsBytes(m) == NumHWCores(m) <= 256 /\ m.NumThdsPerCore <= 256

(* A hardware thread's node, core and thread in the machine's numbering. *)
LEMMA LocationParts ==
  ASSUME NEW m, MachineOK(m), FitsBytes(m),
         NEW nd \in 0 .. m.NumHWNodes - 1, NEW core \in 0 .. m.NumCoresPerNode - 1,
         NEW thd \in 0 .. m.NumThdsPerCore - 1
  PROVE  /\ LocationNode(Location(nd, core, thd)) = nd
         /\ LogicalId(m, Location(nd, core, thd)) =
              m.NumThdsPerCore * (m.NumCoresPerNode * nd + core) + thd
         /\ m.NumCoresPerNode * nd + core \in 0 .. NumHWCores(m) - 1
         /\ LogicalId(m, Location(nd, core, thd)) \in 0 .. NumHWThreads(m) - 1
<1> DEFINE N == m.NumHWNodes
           C == m.NumCoresPerNode
           T == m.NumThdsPerCore
           l == Location(nd, core, thd)
<1>1. N \in Nat \ {0} /\ C \in Nat \ {0} /\ T \in Nat \ {0} /\ NumHWCores(m) = C * N
  BY DEF MachineOK, NumHWCores
<1>2. C * N <= 256 /\ T <= 256
  BY <1>1 DEF FitsBytes
<1>3. NumHWThreads(m) = T * (C * N)
  BY <1>1 DEF NumHWThreads
<1>4. nd \in 0 .. N - 1 /\ core \in 0 .. C - 1 /\ thd \in 0 .. T - 1
  OBVIOUS
<1>5. LogicalId(m, l) = ((LocationNode(l) * C + (l \div 256)) % 256) * T + (l % 256)
  BY DEF LogicalId
<1> HIDE DEF N, C, T
<1>6. C * nd + core \in 0 .. C * N - 1
  <2>1. C * nd + C <= C * N
    BY <1>1, <1>4, Multiples
  <2>2. C * nd \in Nat
    BY <1>1, <1>4
  <2> QED
    BY <1>1, <1>4, <2>1, <2>2
<1>7. C <= 256
  <2>1. CASE N = 1
    BY <1>1, <1>2, <2>1
  <2>2. CASE 1 < N
    <3>1. C * 1 + C <= C * N
      BY <1>1, <2>2, Multiples
    <3> QED
      BY <1>1, <1>2, <3>1
  <2> QED
    BY <1>1, <2>1, <2>2
<1>8. nd \in Nat /\ core \in 0 .. 255 /\ thd \in 0 .. 255
  BY <1>1, <1>2, <1>4, <1>7
<1>9. l = (nd * 256 + core) * 256 + thd
  BY DEF Location
<1> HIDE DEF l
<1>10. l \div 65536 = nd /\ l \div 256 = nd * 256 + core /\ l % 256 = thd
  BY <1>8, <1>9
<1>11. (nd * C + (nd * 256 + core)) % 256 = C * nd + core
  <2>1. nd * C + (nd * 256 + core) = 256 * nd + (C * nd + core)
    BY <1>1, <1>8
  <2>2. C * nd + core \in 0 .. 256 - 1
    BY <1>1, <1>2, <1>6
  <2>3. (256 * nd + (C * nd + core)) % 256 = C * nd + core
    <3>1. 256 \in Nat \ {0} /\ nd \in Nat
      BY <1>8
    <3> DEFINE c == C * nd + core
    <3>2. c \in 0 .. 256 - 1
      BY <2>2
    <3> HIDE DEF c
    <3>3. (256 * nd + c) % 256 = c
      BY <3>1, <3>2
    <3> QED
      BY <3>3 DEF c
  <2> QED
    BY <2>1, <2>3
<1>12. LocationNode(l) = nd
  BY <1>10 DEF LocationNode
<1>13. LogicalId(m, l) = T * (C * nd + core) + thd
  <2>1. LogicalId(m, l) = (C * nd + core) * T + thd
    BY <1>5, <1>10, <1>11, <1>12
  <2> QED
    BY <1>1, <1>6, <2>1
<1>14. T * (C * nd + core) + thd \in 0 .. T * (C * N) - 1
  <2> DEFINE c == C * nd + core
  <2>1. c \in Nat /\ C * N \in Nat /\ c < C * N
    BY <1>1, <1>6
  <2> HIDE DEF c
  <2>2. T * c + T <= T * (C * N)
    BY <1>1, <2>1, Multiples
  <2>3. T * c \in Nat /\ T * (C * N) \in Nat
    BY <1>1, <2>1
  <2>4. T * c + thd \in 0 .. T * (C * N) - 1
    BY <1>1, <1>4, <2>2, <2>3
  <2> QED
    BY <2>4 DEF c
<1> QED
  BY <1>1, <1>3, <1>6, <1>12, <1>13, <1>14 DEF l, C, T, N

(* The array of DiscoverTopology is in the order of the logical numbers. *)
LEMMA LocationsInOrder ==
  ASSUME NEW m, MachineOK(m), FitsBytes(m), NEW i \in 0 .. NumHWThreads(m) - 1
  PROVE  LogicalId(m, Locations(m, i)) = i
<1> DEFINE N == m.NumHWNodes
           C == m.NumCoresPerNode
           T == m.NumThdsPerCore
           core == i \div T
<1>1. N \in Nat \ {0} /\ C \in Nat \ {0} /\ T \in Nat \ {0} /\ C * N \in Nat
  BY DEF MachineOK
<1>2. i \in Nat /\ i < T * (C * N)
  BY <1>1 DEF NumHWThreads, NumHWCores
<1>3. core \in Nat /\ i % T \in 0 .. T - 1 /\ i = T * core + (i % T)
  BY <1>1, <1>2, DivideBy
<1>4. core < C * N
  BY <1>1, <1>2, QuotientBelow
<1> HIDE DEF core
<1>5. core \div C \in Nat /\ core % C \in 0 .. C - 1 /\ core = C * (core \div C) + (core % C)
  BY <1>1, <1>3, DivideBy
<1>6. core \div C < N
  BY <1>1, <1>3, <1>4, QuotientBelow
<1>7. core \div C \in 0 .. N - 1
  BY <1>1, <1>5, <1>6
<1>8. LogicalId(m, Location(core \div C, core % C, i % T)) = T * (C * (core \div C) + (core % C)) + (i % T)
  BY <1>3, <1>5, <1>7, LocationParts
<1> QED
  BY <1>3, <1>5, <1>8 DEF core, Locations

(* Spreading the vprocs gives each its node, core and thread, ... *)
LEMMA SpreadParts ==
  ASSUME NEW m, MachineOK(m), FitsBytes(m), NEW i \in 0 .. NumHWThreads(m) - 1
  PROVE  /\ LocationNode(Spread(m, i)) = i % m.NumHWNodes
         /\ LogicalId(m, Spread(m, i)) \in 0 .. NumHWThreads(m) - 1
         /\ LogicalId(m, Spread(m, i)) =
              m.NumThdsPerCore * (m.NumCoresPerNode * (i % m.NumHWNodes)
                                  + ((i \div m.NumHWNodes) % m.NumCoresPerNode))
              + ((i \div m.NumHWNodes) \div m.NumCoresPerNode)
         /\ i % m.NumHWNodes \in 0 .. m.NumHWNodes - 1
         /\ (i \div m.NumHWNodes) % m.NumCoresPerNode \in 0 .. m.NumCoresPerNode - 1
         /\ (i \div m.NumHWNodes) \div m.NumCoresPerNode \in 0 .. m.NumThdsPerCore - 1
         /\ i = m.NumHWNodes * (m.NumCoresPerNode * ((i \div m.NumHWNodes) \div m.NumCoresPerNode)
                                + ((i \div m.NumHWNodes) % m.NumCoresPerNode))
                + (i % m.NumHWNodes)
<1> DEFINE N == m.NumHWNodes
           C == m.NumCoresPerNode
           T == m.NumThdsPerCore
           round == i \div N
<1>1. N \in Nat \ {0} /\ C \in Nat \ {0} /\ T \in Nat \ {0} /\ C * T \in Nat
  BY DEF MachineOK
<1>2. i \in Nat /\ i < N * (C * T)
  <2>1. NumHWThreads(m) = N * (C * T)
    BY <1>1 DEF NumHWThreads, NumHWCores
  <2>2. N * (C * T) \in Nat
    BY <1>1
  <2> HIDE DEF N, C, T
  <2> QED
    BY <2>1, <2>2
<1>3. round \in Nat /\ i % N \in 0 .. N - 1 /\ i = N * round + (i % N)
  BY <1>1, <1>2, DivideBy
<1>4. round < C * T
  BY <1>1, <1>2, QuotientBelow
<1>5. Spread(m, i) = Location(i % N, round % C, round \div C)
  BY DEF Spread
<1> HIDE DEF round
<1>6. round \div C \in Nat /\ round % C \in 0 .. C - 1 /\ round = C * (round \div C) + (round % C)
  BY <1>1, <1>3, DivideBy
<1>7. round \div C \in 0 .. T - 1
  <2>1. round \div C < T
    BY <1>1, <1>3, <1>4, QuotientBelow
  <2> QED
    BY <1>1, <1>6, <2>1
<1>8. /\ LocationNode(Spread(m, i)) = i % N
      /\ LogicalId(m, Spread(m, i)) = T * (C * (i % N) + (round % C)) + (round \div C)
      /\ LogicalId(m, Spread(m, i)) \in 0 .. NumHWThreads(m) - 1
  BY <1>3, <1>5, <1>6, <1>7, LocationParts
<1>9. i = N * (C * (round \div C) + (round % C)) + (i % N)
  BY <1>3, <1>6
<1> QED
  BY <1>3, <1>6, <1>7, <1>8, <1>9 DEF round

(* ... a different hardware thread from all others ... *)
LEMMA SpreadApart ==
  ASSUME NEW m, MachineOK(m), FitsBytes(m),
         NEW i \in 0 .. NumHWThreads(m) - 1, NEW j \in 0 .. NumHWThreads(m) - 1,
         LogicalId(m, Spread(m, i)) = LogicalId(m, Spread(m, j))
  PROVE  i = j
<1> DEFINE N == m.NumHWNodes
           C == m.NumCoresPerNode
           T == m.NumThdsPerCore
           nd(k) == k % N
           core(k) == (k \div N) % C
           thd(k) == (k \div N) \div C
<1>1. N \in Nat \ {0} /\ C \in Nat \ {0} /\ T \in Nat \ {0}
  BY DEF MachineOK
<1>2. ASSUME NEW k \in {i, j}
      PROVE  /\ LogicalId(m, Spread(m, k)) = T * (C * nd(k) + core(k)) + thd(k)
             /\ nd(k) \in 0 .. N - 1 /\ core(k) \in 0 .. C - 1 /\ thd(k) \in 0 .. T - 1
             /\ k = N * (C * thd(k) + core(k)) + nd(k)
  <2>1. k \in 0 .. NumHWThreads(m) - 1
    OBVIOUS
  <2> QED
    BY <2>1, SpreadParts
<1> HIDE DEF N, C, T, nd, core, thd
<1>3. /\ nd(i) \in Nat /\ core(i) \in 0 .. C - 1 /\ thd(i) \in 0 .. T - 1
      /\ nd(j) \in Nat /\ core(j) \in 0 .. C - 1 /\ thd(j) \in 0 .. T - 1
  BY <1>1, <1>2
<1> DEFINE rank(k) == C * nd(k) + core(k)
<1>4. rank(i) \in Nat /\ rank(j) \in Nat
  BY <1>1, <1>3
<1>5. T * rank(i) + thd(i) = T * rank(j) + thd(j)
  BY <1>2
<1> HIDE DEF rank
<1>6. rank(i) = rank(j) /\ thd(i) = thd(j)
  <2>1. (T * rank(i) + thd(i)) \div T = rank(i) /\ (T * rank(i) + thd(i)) % T = thd(i)
    BY <1>1, <1>3, <1>4, Divided
  <2>2. (T * rank(j) + thd(j)) \div T = rank(j) /\ (T * rank(j) + thd(j)) % T = thd(j)
    BY <1>1, <1>3, <1>4, Divided
  <2> QED
    BY <1>5, <2>1, <2>2, Zenon
<1>7. nd(i) = nd(j) /\ core(i) = core(j)
  <2>1. rank(i) \div C = nd(i) /\ rank(i) % C = core(i)
    BY <1>1, <1>3, Divided DEF rank
  <2>2. rank(j) \div C = nd(j) /\ rank(j) % C = core(j)
    BY <1>1, <1>3, Divided DEF rank
  <2> QED
    BY <1>6, <2>1, <2>2, Zenon
<1>8. i = N * (C * thd(i) + core(i)) + nd(i) /\ j = N * (C * thd(j) + core(j)) + nd(j)
  BY <1>2
<1> QED
  BY <1>6, <1>7, <1>8, Zenon

(* ... and every node the same number, or one more. *)
LEMMA SpreadEvenly ==
  ASSUME NEW N \in Nat \ {0}, NEW n1 \in 0 .. N - 1, NEW n2 \in 0 .. N - 1
  PROVE  Cardinality({v \in VProc : v % N = n1}) <= Cardinality({v \in VProc : v % N = n2}) + 1
<1> DEFINE On(n) == {v \in VProc : v % N = n}
           Others == On(n1) \ {n1}
           partner(v) == v - N - n1 + n2
<1>1. NumVProcs \in Nat \ {0} /\ VProc = 0 .. NumVProcs - 1 /\ IsFiniteSet(VProc)
  BY PlacementAssumption, FS_Interval DEF VProc
<1>2. \A n : IsFiniteSet(On(n))
  BY <1>1, FS_Subset
<1>3. IsFiniteSet(Others)
  <2> HIDE DEF On
  <2> QED
    BY <1>2, FS_RemoveElement
<1>4. ASSUME NEW v \in Others PROVE partner(v) \in On(n2)
  <2>1. v \in Nat /\ v < NumVProcs /\ v % N = n1 /\ v # n1
    BY <1>1
  <2> DEFINE q == v \div N
  <2>2. q \in Nat /\ v = N * q + n1
    BY <2>1, DivideBy
  <2> HIDE DEF q
  <2>3. q # 0
    BY <2>1, <2>2
  <2>4. PICK p \in Nat : q = p + 1
    <3>1. q - 1 \in Nat /\ q = (q - 1) + 1
      BY <2>2, <2>3
    <3> QED
      BY <3>1
  <2>5. N * q = N * p + N /\ N * p \in Nat
    BY <2>4
  <2>6. partner(v) = N * p + n2
    BY <2>1, <2>2, <2>5
  <2>7. (N * p + n2) % N = n2
    BY <2>4, Divided
  <2>8. N * p + n2 \in VProc
    BY <1>1, <2>1, <2>2, <2>5
  <2> QED
    BY <2>6, <2>7, <2>8
<1>5. [v \in Others |-> partner(v)] \in Injection(Others, On(n2))
  <2> DEFINE f == [v \in Others |-> partner(v)]
  <2>1. f \in [Others -> On(n2)]
    BY <1>4
  <2>2. ASSUME NEW v \in Others, NEW w \in Others, f[v] = f[w] PROVE v = w
    <3>1. v \in Nat /\ w \in Nat /\ v - N - n1 + n2 = w - N - n1 + n2
      BY <1>1, <2>2
    <3> QED
      BY <3>1
  <2> QED
    BY <2>1, <2>2 DEF Injection, IsInjective
<1>6. Cardinality(Others) <= Cardinality(On(n2))
  <2> HIDE DEF partner, Others, On
  <2> QED
    BY <1>2, <1>5, FS_Injection
<1>7. Cardinality(On(n1)) <= Cardinality(Others) + 1
  <2>1. Cardinality(On(n1)) \in Nat /\ Cardinality(Others) \in Nat
    BY <1>2, <1>3, FS_CardinalityType
  <2>2. Cardinality(Others) = IF n1 \in On(n1) THEN Cardinality(On(n1)) - 1 ELSE Cardinality(On(n1))
    <3> HIDE DEF On
    <3> QED
      BY <1>2, FS_RemoveElement
  <2> HIDE DEF Others, On
  <2> QED
    BY <2>1, <2>2
<1>8. /\ Cardinality(On(n1)) \in Nat /\ Cardinality(On(n2)) \in Nat
      /\ Cardinality(Others) \in Nat
  BY <1>2, <1>3, FS_CardinalityType
<1> HIDE DEF Others
<1>9. Cardinality(On(n1)) <= Cardinality(On(n2)) + 1
  <2> HIDE DEF On
  <2> QED
    BY <1>6, <1>7, <1>8
<1> QED
  BY <1>9

(* The layout that HeapInit and VProcInit make. *)
LEMMA PlaceWell ==
  ASSUME NEW m, NEW d \in BOOLEAN, MachineOK(m), FitsBytes(m)
  PROVE  WellPlaced(m, d, [v \in VProc |-> Place(m, d, v)])
<1> DEFINE place == [v \in VProc |-> Place(m, d, v)]
           size == NumHWThreads(m)
           id(v) == LogicalId(m, place[v])
<1>1. NumVProcs \in Nat \ {0} /\ VProc = 0 .. NumVProcs - 1
  BY PlacementAssumption DEF VProc
<1>2. size \in Nat \ {0}
  <2>1. /\ m.NumHWNodes \in Nat \ {0} /\ m.NumCoresPerNode \in Nat \ {0}
        /\ m.NumThdsPerCore \in Nat \ {0}
    BY DEF MachineOK
  <2>2. ASSUME NEW a \in Nat \ {0}, NEW b \in Nat \ {0} PROVE a * b \in Nat \ {0}
    OBVIOUS
  <2>3. NumHWCores(m) \in Nat \ {0}
    BY <2>1, <2>2 DEF NumHWCores
  <2> QED
    BY <2>1, <2>2, <2>3 DEF NumHWThreads
<1>3. CASE IsDense(m, d)
  <2>1. ASSUME NEW v \in VProc
        PROVE  /\ id(v) \in 0 .. size - 1
               /\ NumVProcs <= size => id(v) = v
    <3>1. v \in Nat /\ v % size \in 0 .. size - 1
      <4>1. v \in Nat
        BY <1>1
      <4> HIDE DEF size
      <4> QED
        BY <1>2, <4>1, DivideBy
    <3>2. place[v] = Locations(m, v % size)
      BY <1>3 DEF Place
    <3>3. id(v) = v % size
      BY <3>1, <3>2, LocationsInOrder
    <3>4. NumVProcs <= size => v % size = v
      <4> SUFFICES ASSUME NumVProcs <= size PROVE v % size = v
        OBVIOUS
      <4>1. v \in 0 .. size - 1
        BY <1>1, <1>2
      <4> HIDE DEF size
      <4>2. (size * 0 + v) % size = v
        BY <1>2, <4>1, Divided
      <4>3. size * 0 + v = v
        BY <1>2, <3>1
      <4> QED
        BY <4>2, <4>3
    <3> QED
      BY <3>1, <3>3, <3>4
  <2>2. NumVProcs <= size => \A v, w \in VProc : id(v) = id(w) => v = w
    <3> HIDE DEF id
    <3> QED
      BY <2>1
  <2> QED
    BY <1>3, <2>1, <2>2 DEF WellPlaced
<1>4. CASE ~ IsDense(m, d)
  <2>1. VProc \subseteq 0 .. size - 1
    <3>1. ~ NumVProcs >= size
      BY <1>4 DEF IsDense
    <3> HIDE DEF size
    <3> QED
      BY <1>1, <1>2, <3>1
  <2>2. \A v \in VProc : place[v] = Spread(m, v)
    BY <1>4 DEF Place
  <2>3. \A v \in VProc : id(v) \in 0 .. size - 1 /\ LocationNode(place[v]) = v % m.NumHWNodes
    BY <2>1, <2>2, SpreadParts
  <2>4. \A v, w \in VProc : id(v) = id(w) => v = w
    BY <2>1, <2>2, SpreadApart
  <2>5. ASSUME NEW n1 \in 0 .. m.NumHWNodes - 1, NEW n2 \in 0 .. m.NumHWNodes - 1
        PROVE  VProcsOn(place, n1) <= VProcsOn(place, n2) + 1
    <3>1. m.NumHWNodes \in Nat \ {0}
      BY DEF MachineOK
    <3>2. \A n : {v \in VProc : LocationNode(place[v]) = n} = {v \in VProc : v % m.NumHWNodes = n}
      BY <2>3
    <3>3. \A n : VProcsOn(place, n) = Cardinality({v \in VProc : v % m.NumHWNodes = n})
      BY <3>2 DEF VProcsOn
    <3> QED
      BY <3>1, <3>3, SpreadEvenly
  <2> QED
    BY <2>3, <2>4, <2>5 DEF WellPlaced
<1> QED
  BY <1>3, <1>4

(* No step moves a vproc. *)
LEMMA LayoutFixed == [Next]_vars => UNCHANGED layout
<1> SUFFICES ASSUME [Next]_vars PROVE UNCHANGED layout
  OBVIOUS
<1>1. CASE MainThread
  BY <1>1 DEF MainThread, Spawn, FreeInitData
<1>2. ASSUME NEW v \in VProc, Go(v) PROVE UNCHANGED layout
  <2>1. CASE \/ NewVProc(v) \/ RunInitFn(v)
             \/ SleepEnter(v) \/ SleepTest(v) \/ SleepBlock(v) \/ SleepExit(v)
    BY <2>1 DEF NewVProc, RunInitFn, SleepEnter, SleepTest, SleepBlock, SleepExit, startup
  <2>2. CASE \/ Top(v) \/ Push(v) \/ Wake(v) \/ Preempt(v)
             \/ CountDown(v) \/ VProcExit(v) \/ Leave(v)
    BY <2>2 DEF Top, Push, Wake, Preempt, CountDown, VProcExit, Leave, startup
  <2> QED
    BY <1>2, <2>1, <2>2 DEF Go
<1>3. ASSUME NEW v \in VProc, HeapCheck(v) \/ Program(v) \/ Ping(v) PROVE UNCHANGED layout
  BY <1>3 DEF HeapCheck, Program, SleepRequest, Return, ProgramSignal, Ping, startup
<1>4. CASE UNCHANGED vars
  BY <1>4 DEF vars, startup
<1> QED
  BY <1>1, <1>2, <1>3, <1>4 DEF Next

(* On every machine whose cores, of all nodes together, and threads of a   *)
(* core can be numbered in eight bits, and for any number of vprocs, each  *)
(* is pinned to a hardware thread that exists, no two to the same one as   *)
(* long as there are enough, and nodes get equal shares unless the layout  *)
(* is dense.  All cores together, because LogicalId masks its sum.         *)
THEOREM VProcsWellPlaced ==
  ASSUME \A l \in Layouts : FitsBytes(l.machine)
  PROVE  Spec => []LocationsOK
<1>1. Init => LocationsOK
  <2> SUFFICES ASSUME Init PROVE LocationsOK
    OBVIOUS
  <2>1. PICK l \in Layouts : machine = l.machine /\ dense = l.dense
    BY DEF Init
  <2>2. MachineOK(machine) /\ dense \in BOOLEAN /\ FitsBytes(machine)
    BY <2>1, LifecycleAssumption DEF MachineOK
  <2>3. loc = [v \in VProc |-> Place(machine, dense, v)]
    BY DEF Init
  <2> QED
    BY <2>2, <2>3, PlaceWell DEF LocationsOK
<1>2. LocationsOK /\ [Next]_vars => LocationsOK'
  BY LayoutFixed, Zenon DEF layout, LocationsOK, WellPlaced, VProcsOn
<1> QED
  BY <1>1, <1>2, PTL DEF Spec
=============================================================================
