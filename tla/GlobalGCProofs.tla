--------------------------- MODULE GlobalGCProofs ---------------------------
(***************************************************************************)
(* What holds of GlobalGC for any number of vprocs, nodes and chunks.      *)
(*                                                                         *)
(* ControlInv says which vprocs can be where together, and what the        *)
(* barriers have counted; from it alone follows that the world is stopped. *)
(* HeapInv adds where the chunks are (OwnChunks, Places, EmptyLists), when *)
(* the scan of a node is over (Waiting, Detection) and what has been       *)
(* scanned by then (Scanned), and that to-space is counted (Sized).        *)
(***************************************************************************)
EXTENDS GlobalGC, FiniteSetTheorems, TLAPS

At(L) == {v \in VProcs : pc[v] \in L}

(* Leaving followerWait is the last thing done under the handshake. *)
Gathering == {"run", "lock", "interrupt", "leaderWait", "followerWait", "barrier2"}
Ready == {"interrupt", "leaderWait", "followerWait"}
SettingUp == {"followerWait", "setup"}
SetUp == {"barrier0", "barrier2"} \union Copiers
Copied == {"barrier1", "barrier2"}
Between == {"run", "lock"} \union Copied

(* While the leader gathers the others, stragglers may still be on their    *)
(* way out of the last collection.                                         *)
ControlGathering ==
  /\ \A v \in VProcs : pc[v] \in Gathering
  /\ \A v \in VProcs : pc[v] \in {"interrupt", "leaderWait"} <=> v = leader
  /\ nReady = Cardinality(At(Ready))
  /\ At({"barrier2"}) # {} => nWaiting[3] = NumVProcs

(* From "go" to the leader's end of the collection. *)
ControlCollecting ==
  /\ \A v \in VProcs : pc[v] \in SettingUp \union SetUp
  /\ nWaiting[1] = Cardinality(At(SetUp))
  /\ nWaiting[2] = Cardinality(At(Copied))
  /\ nWaiting[3] = Cardinality(At({"barrier2"}))
  /\ At(Copiers \union {"barrier2"}) # {} => At(SettingUp) = {}
  /\ At({"barrier2"}) # {} => At(Copied) = VProcs
  /\ pc[leader] # "barrier2"

ControlBetween ==
  /\ \A v \in VProcs : pc[v] \in Between
  /\ At({"barrier1"}) # {} =>
       /\ At(Copied) = VProcs
       /\ nWaiting[2] = NumVProcs
       /\ nWaiting[3] = Cardinality(At({"barrier2"}))
       /\ pc[leader] = "barrier2"
  /\ At({"barrier1"}) = {} /\ At({"barrier2"}) # {} => nWaiting[3] = NumVProcs

Control ==
  /\ inProgress /\ ~ allReady => ControlGathering
  /\ inProgress /\ allReady => ControlCollecting
  /\ ~ inProgress => ControlBetween


ControlTypes ==
  /\ pc \in [VProcs -> {"run", "barrier2"} \union Entering \union Copiers]
  /\ globalGCPending \in [VProcs -> BOOLEAN]
  /\ inProgress \in BOOLEAN
  /\ allReady \in BOOLEAN
  /\ nReady \in 0..NumVProcs
  /\ leader \in VProcs
  /\ toInterrupt \subseteq VProcs
  /\ blocked \subseteq VProcs
  /\ nWaiting \in [1..3 -> 0..NumVProcs]

Collecting == inProgress /\ allReady

ControlInv == ControlTypes /\ Control

(* The variables that Control is about. *)
controlVars == <<pc, inProgress, allReady, nReady, leader, nWaiting>>

(* Counting vprocs. *)
LEMMA Counts ==
  ASSUME NEW S \in SUBSET VProcs
  PROVE  /\ NumVProcs \in Nat
         /\ Cardinality(S) \in 0..NumVProcs
         /\ Cardinality(S) = NumVProcs <=> S = VProcs
         /\ Cardinality(S) = 0 <=> S = {}
  <1>1. IsFiniteSet(VProcs)
    BY ToSpaceAssumption
  <1>2. IsFiniteSet(S) /\ Cardinality(S) <= NumVProcs
        /\ (NumVProcs = Cardinality(S) => VProcs = S)
    BY <1>1, FS_Subset DEF NumVProcs
  <1>3. Cardinality(S) \in Nat /\ NumVProcs \in Nat
    BY <1>1, <1>2, FS_CardinalityType DEF NumVProcs
  <1>4. Cardinality(S) = 0 <=> S = {}
    BY <1>2, FS_EmptySet
  <1> QED
    BY <1>2, <1>3, <1>4 DEF NumVProcs

(* A vproc goes from one place to another. *)
LEMMA Moves ==
  ASSUME NEW v \in VProcs, NEW l, NEW L,
         pc \in [VProcs -> {"run", "barrier2"} \union Entering \union Copiers],
         Goto(v, l)
  PROVE  /\ At(L)' = IF l \in L THEN At(L) \union {v} ELSE At(L) \ {v}
         /\ Cardinality(At(L)') =
              IF l \in L
                THEN IF pc[v] \in L THEN Cardinality(At(L)) ELSE Cardinality(At(L)) + 1
                ELSE IF pc[v] \in L THEN Cardinality(At(L)) - 1 ELSE Cardinality(At(L))
  <1>1. At(L)' = IF l \in L THEN At(L) \union {v} ELSE At(L) \ {v}
    BY DEF At, Goto
  <1>2. v \in At(L) <=> pc[v] \in L
    BY DEF At
  <1>3. IsFiniteSet(At(L))
    BY ToSpaceAssumption, FS_Subset, At(L) \in SUBSET VProcs DEF At
  <1>4. CASE l \in L
    <2>1. Cardinality(At(L) \cup {v}) =
            IF v \in At(L) THEN Cardinality(At(L)) ELSE Cardinality(At(L)) + 1
      BY <1>3, FS_AddElement
    <2> QED
      BY <1>1, <1>2, <1>4, <2>1
  <1>5. CASE l \notin L
    <2>1. Cardinality(At(L) \ {v}) =
            IF v \in At(L) THEN Cardinality(At(L)) - 1 ELSE Cardinality(At(L))
      BY <1>3, FS_RemoveElement
    <2> QED
      BY <1>1, <1>2, <1>5, <2>1
  <1> QED
    BY <1>4, <1>5

LEMMA ControlInit == Init => ControlInv
  <1> SUFFICES ASSUME Init
               PROVE  ControlInv
    OBVIOUS
  <1>1. NumVProcs \in Nat
    BY Counts
  <1>2. leader \in VProcs
    BY GlobalGCAssumption DEF Init
  <1>3. nWaiting \in [1..3 -> 0..NumVProcs]
    BY <1>1 DEF Init
  <1>4. ControlTypes
    <2>1. pc \in [VProcs -> {"run", "barrier2"} \union Entering \union Copiers]
      BY DEF Init
    <2>2. globalGCPending \in [VProcs -> BOOLEAN]
      BY DEF Init
    <2>3. nReady \in 0..NumVProcs
      BY <1>1 DEF Init
    <2> QED
      BY <1>2, <1>3, <2>1, <2>2, <2>3 DEF Init, ControlTypes
  <1>5. At({"barrier1"}) = {} /\ At({"barrier2"}) = {}
    BY DEF Init, At
  <1> QED
    BY <1>4, <1>5 DEF Init, ControlInv, Control, ControlBetween, Between

----------------------------------------------------------------------------
(* Steps that leave everybody where it is, and steps within the scan. *)
LEMMA ControlSame ==
  ASSUME ControlInv, ControlTypes', UNCHANGED controlVars
  PROVE  ControlInv'
  <1>1. \A L : At(L)' = At(L)
    BY DEF At, controlVars
  <1>2. ControlGathering => ControlGathering'
    BY <1>1 DEF ControlGathering, controlVars
  <1>3. ControlCollecting => ControlCollecting'
    BY <1>1 DEF ControlCollecting, controlVars
  <1>4. ControlBetween => ControlBetween'
    BY <1>1 DEF ControlBetween, controlVars
  <1> QED
    BY <1>2, <1>3, <1>4 DEF ControlInv, Control, controlVars

Active == Copiers \ {"barrier1"}

LEMMA ControlActive ==
  ASSUME ControlInv, ControlTypes', NEW v \in VProcs, NEW l \in Active,
         pc[v] \in Active, Goto(v, l),
         UNCHANGED <<inProgress, allReady, nReady, leader, nWaiting>>
  PROVE  ControlInv'
  <1>1. pc[v] \in Copiers /\ pc[v] \notin Gathering \union Between
    BY DEF Active, Copiers, Gathering, Between, Copied
  <1>2. inProgress /\ allReady /\ ControlCollecting
    BY <1>1 DEF ControlInv, ControlTypes, Control, ControlGathering, ControlBetween
  <1>3. \A L \in {SetUp, Copied, Copiers \union {"barrier2"}, SettingUp, {"barrier2"}} :
          pc[v] \in L <=> l \in L
    BY DEF Active, Copiers, Copied, SetUp, SettingUp
  <1>4. \A L \in {SetUp, Copied, Copiers \union {"barrier2"}, SettingUp, {"barrier2"}} :
          At(L)' = At(L)
    BY <1>3 DEF At, Goto, ControlInv, ControlTypes
  <1>5. \A u \in VProcs : pc'[u] \in SettingUp \union SetUp
    BY <1>2 DEF ControlInv, ControlTypes, ControlCollecting, Goto, SetUp, Active
  <1>6. pc'[leader] # "barrier2"
    BY <1>2 DEF ControlInv, ControlTypes, ControlCollecting, Goto, Active, Copiers
  <1>7. ControlCollecting'
    BY <1>2, <1>4, <1>5, <1>6 DEF ControlCollecting
  <1> QED
    BY <1>2, <1>7 DEF ControlInv, Control

LEMMA ControlEnter ==
  ASSUME ControlInv, NEW v \in VProcs, Enter(v)
  PROVE  ControlInv'
  <1> USE DEF ControlInv, ControlTypes
  <1>1. pc[v] = "run" /\ Goto(v, "lock") /\ UNCHANGED <<handshake, nWaiting>>
    BY DEF Enter
  <1>2. ControlTypes'
    BY <1>1 DEF Goto, Enter, Entering, handshake
  <1>3. \A L : {"run", "lock"} \cap L = {} => At(L)' = At(L)
    BY <1>1 DEF At, Goto
  <1>4. CASE inProgress /\ ~ allReady
    <2>1. At(Ready)' = At(Ready) /\ At({"barrier2"})' = At({"barrier2"})
      BY <1>3 DEF Ready
    <2>2. \A u \in VProcs : pc'[u] \in Gathering
      BY <1>1, <1>4 DEF Control, ControlGathering, Goto, Gathering
    <2>3. \A u \in VProcs : pc'[u] \in {"interrupt", "leaderWait"} <=> u = leader
      BY <1>1, <1>4 DEF Control, ControlGathering, Goto
    <2> QED
      BY <1>1, <1>2, <1>4, <2>1, <2>2, <2>3 DEF Control, ControlGathering, handshake
  <1>5. CASE inProgress /\ allReady
    BY <1>1, <1>5 DEF Control, ControlCollecting, SettingUp, SetUp, Copiers
  <1>6. CASE ~ inProgress
    <2>1. At(Copied)' = At(Copied) /\ At({"barrier1"})' = At({"barrier1"})
          /\ At({"barrier2"})' = At({"barrier2"})
      BY <1>3 DEF Copied
    <2>2. \A u \in VProcs : pc'[u] \in Between
      BY <1>1, <1>6 DEF Control, ControlBetween, Goto, Between
    <2>3. pc[leader] = "barrier2" => pc'[leader] = "barrier2"
      BY <1>1 DEF Goto
    <2> QED
      BY <1>1, <1>2, <1>6, <2>1, <2>2, <2>3 DEF Control, ControlBetween, handshake
  <1> QED
    BY <1>4, <1>5, <1>6

LEMMA ControlLead ==
  ASSUME ControlInv, NEW v \in VProcs, Lead(v)
  PROVE  ControlInv'
  <1> USE DEF ControlInv, ControlTypes
  <1>1. ControlBetween /\ pc[v] = "lock" /\ Goto(v, "interrupt")
    BY DEF Lead, Control
  <1>2. inProgress' = TRUE /\ allReady' = FALSE /\ nReady' = 1 /\ leader' = v /\ nWaiting' = nWaiting
    BY DEF Lead
  <1>3. At({"barrier1"}) = {}
    BY <1>1 DEF ControlBetween, At, Copied
  <1>4. At({"barrier2"})' = At({"barrier2"})
    BY <1>1 DEF At, Goto
  <1>5. Cardinality(At(Ready)') = 1
    <2>1. At(Ready)' = {v}
      BY <1>1 DEF ControlBetween, At, Goto, Ready, Between, Copied
    <2> QED
      BY <2>1, FS_Singleton
  <1>6. \A u \in VProcs : pc'[u] \in Gathering
    BY <1>1, <1>3 DEF ControlBetween, Goto, Gathering, Between, Copied, At
  <1>7. \A u \in VProcs : pc'[u] \in {"interrupt", "leaderWait"} <=> u = v
    BY <1>1 DEF ControlBetween, Goto, Between, Copied
  <1>8. ControlGathering'
    BY <1>1, <1>2, <1>3, <1>4, <1>5, <1>6, <1>7 DEF ControlGathering, ControlBetween
  <1>9. ControlTypes'
    <2>1. pc' \in [VProcs -> {"run", "barrier2"} \union Entering \union Copiers]
      BY <1>1 DEF Goto, Entering
    <2>2. NumVProcs \in Nat /\ NumVProcs # 0
      BY Counts, VProcs \in SUBSET VProcs, GlobalGCAssumption DEF NumVProcs
    <2>3. nReady' \in 0..NumVProcs
      BY <1>2, <2>2
    <2> QED
      BY <2>1, <2>3 DEF Lead
  <1> QED
    BY <1>2, <1>8, <1>9 DEF Control

LEMMA ControlLeaderWait ==
  ASSUME ControlInv, NEW v \in VProcs, LeaderWait(v)
  PROVE  ControlInv'
  <1> USE DEF ControlInv, ControlTypes
  <1>1. pc[v] \in {"interrupt", "leaderWait"}
    BY DEF LeaderWait
  <1>2. inProgress /\ ~ allReady /\ ControlGathering /\ v = leader
    BY <1>1 DEF Control, ControlGathering, ControlCollecting, ControlBetween, SettingUp, SetUp,
                Copiers, Between, Copied
  <1>3. inProgress' = inProgress /\ nReady' = nReady /\ leader' = leader
        /\ UNCHANGED <<globalGCPending, toInterrupt>>
    BY DEF LeaderWait
  <1>4. CASE Await(v)
    <2>1. Goto(v, "leaderWait") /\ allReady' = allReady /\ nWaiting' = nWaiting
      BY <1>4 DEF Await
    <2>2. At(Ready)' = At(Ready) /\ At({"barrier2"})' = At({"barrier2"})
      BY <1>1, <2>1 DEF At, Goto, Ready
    <2>3. \A u \in VProcs : pc'[u] \in Gathering
      BY <1>2, <2>1 DEF ControlGathering, Goto, Gathering
    <2>4. \A u \in VProcs : pc'[u] \in {"interrupt", "leaderWait"} <=> u = leader
      BY <1>2, <2>1 DEF ControlGathering, Goto
    <2>5. ControlGathering'
      BY <1>2, <1>3, <2>1, <2>2, <2>3, <2>4 DEF ControlGathering
    <2>6. ControlTypes'
      BY <1>3, <1>4, <2>1 DEF Await, Goto, Entering
    <2> QED
      BY <1>2, <1>3, <2>1, <2>5, <2>6 DEF Control
  <1>5. CASE Go(v)
    <2>1. Goto(v, "setup") /\ allReady' = TRUE /\ nWaiting' = <<0, 0, 0>>
      BY <1>5 DEF Go, BarrierInit
    <2>2. At(Ready) = VProcs
      <3>1. At(Ready) \in SUBSET VProcs
        BY DEF At
      <3>2. Cardinality(At(Ready)) = NumVProcs
        BY <1>2, <1>5 DEF Go, AllHere, ControlGathering
      <3> QED
        BY <3>1, <3>2, Counts
    <2>3. \A u \in VProcs : pc'[u] = IF u = v THEN "setup" ELSE "followerWait"
      BY <1>2, <2>1, <2>2 DEF At, Ready, ControlGathering, Goto
    <2>4. At(SetUp)' = {} /\ At(Copied)' = {} /\ At({"barrier2"})' = {}
          /\ At(Copiers \union {"barrier2"})' = {}
      BY <2>3 DEF At, SetUp, Copied, Copiers
    <2>5. Cardinality({}) = 0
      BY FS_EmptySet
    <2>6. ControlCollecting'
      BY <1>2, <1>3, <2>1, <2>3, <2>4, <2>5 DEF ControlCollecting, SettingUp
    <2>7. ControlTypes'
      <3>1. NumVProcs \in Nat
        BY Counts
      <3>2. nWaiting' \in [1..3 -> 0..NumVProcs]
        BY <2>1, <3>1
      <3>3. pc' \in [VProcs -> {"run", "barrier2"} \union Entering \union Copiers]
        BY <2>1 DEF Goto, Entering
      <3> QED
        BY <1>3, <1>5, <2>1, <3>2, <3>3 DEF Go
    <2> QED
      BY <1>2, <1>3, <2>1, <2>6, <2>7 DEF Control
  <1> QED
    BY <1>4, <1>5 DEF LeaderWait

LEMMA ControlFollow ==
  ASSUME ControlInv, NEW v \in VProcs, Follow(v)
  PROVE  ControlInv'
  <1> USE DEF ControlInv, ControlTypes
  <1>1. pc[v] = "lock" /\ inProgress /\ nReady' = nReady + 1
        /\ UNCHANGED <<globalGCPending, inProgress, allReady, leader, toInterrupt, nWaiting>>
    BY DEF Follow
  <1>2. ~ allReady /\ ControlGathering
    BY <1>1 DEF Control, ControlCollecting, SettingUp, SetUp, Copiers
  <1>3. Goto(v, "followerWait") /\ blocked' = WakeLeader(nReady + 1) \union {v}
    BY <1>2 DEF Follow, FollowerAwaits
  <1>4. Cardinality(At(Ready)') = nReady'
    BY <1>1, <1>2, <1>3, Moves DEF ControlGathering, Ready
  <1>5. nReady' \in 0..NumVProcs
    BY <1>4, Counts, At(Ready)' \in SUBSET VProcs DEF At
  <1>6. At({"barrier2"})' = At({"barrier2"})
    BY <1>1, <1>3 DEF At, Goto
  <1>7. \A u \in VProcs : pc'[u] \in Gathering
    BY <1>2, <1>3 DEF ControlGathering, Goto, Gathering
  <1>8. \A u \in VProcs : pc'[u] \in {"interrupt", "leaderWait"} <=> u = leader
    BY <1>1, <1>2, <1>3 DEF ControlGathering, Goto
  <1>9. ControlTypes'
    BY <1>1, <1>3, <1>5 DEF Goto, Entering, WakeLeader
  <1> QED
    BY <1>1, <1>2, <1>4, <1>6, <1>7, <1>8, <1>9 DEF Control, ControlGathering

LEMMA ControlFollowerWait ==
  ASSUME ControlInv, NEW v \in VProcs, FollowerWait(v)
  PROVE  ControlInv'
  <1> USE DEF ControlInv, ControlTypes
  <1>1. pc[v] = "followerWait"
        /\ UNCHANGED <<globalGCPending, inProgress, allReady, nReady, leader, toInterrupt, nWaiting>>
    BY DEF FollowerWait
  <1>2. inProgress
    BY <1>1 DEF Control, ControlBetween, Between, Copied
  <1>3. CASE allReady
    <2>1. Goto(v, "setup") /\ blocked' = blocked
      BY <1>3 DEF FollowerWait, FollowerAwaits
    <2>2. ControlCollecting
      BY <1>2, <1>3 DEF Control
    <2>3. \A L \in {SetUp, Copied, Copiers \union {"barrier2"}, SettingUp, {"barrier2"}} :
            At(L)' = At(L)
      BY <1>1, <2>1 DEF At, Goto, SetUp, Copied, Copiers, SettingUp
    <2>4. \A u \in VProcs : pc'[u] \in SettingUp \union SetUp
      BY <2>1, <2>2 DEF ControlCollecting, Goto, SettingUp
    <2>5. pc'[leader] # "barrier2"
      BY <2>1, <2>2 DEF ControlCollecting, Goto
    <2>6. ControlCollecting'
      BY <1>1, <2>2, <2>3, <2>4, <2>5 DEF ControlCollecting
    <2>7. ControlTypes'
      BY <1>1, <2>1 DEF Goto, Entering
    <2> QED
      BY <1>1, <1>2, <1>3, <2>6, <2>7 DEF Control
  <1>4. CASE ~ allReady
    <2>1. Goto(v, "followerWait") /\ blocked' = blocked \union {v}
      BY <1>4 DEF FollowerWait, FollowerAwaits
    <2>2. pc' = pc
      BY <1>1, <2>1 DEF Goto
    <2> QED
      BY <1>1, <2>1, <2>2, ControlSame DEF controlVars
  <1> QED
    BY <1>3, <1>4

(* Where a vproc is tells the phase of the collection. *)
LEMMA Phases ==
  ASSUME ControlInv, NEW v \in VProcs
  PROVE  /\ pc[v] \in {"setup", "barrier0"} \union Active => Collecting /\ ControlCollecting
         /\ pc[v] = "barrier1" => \/ Collecting /\ ControlCollecting
                                  \/ ~ inProgress /\ ControlBetween
         /\ pc[v] = "run" => ~ Collecting
  <1> USE DEF ControlInv, ControlTypes, Control, Collecting
  <1>1. ~ inProgress => ControlBetween
    OBVIOUS
  <1>2. inProgress /\ ~ allReady => ControlGathering
    OBVIOUS
  <1>3. inProgress /\ allReady => ControlCollecting
    OBVIOUS
  <1>4. ControlBetween => pc[v] \notin {"setup", "barrier0"} \union Active
    BY DEF ControlBetween, Between, Copied, Active, Copiers
  <1>5. ControlGathering => pc[v] \notin {"setup", "barrier0"} \union Copiers
    BY DEF ControlGathering, Gathering, Copiers
  <1>6. ControlCollecting => pc[v] # "run"
    BY DEF ControlCollecting, SettingUp, SetUp, Copiers
  <1> QED
    BY <1>1, <1>2, <1>3, <1>4, <1>5, <1>6 DEF Active, Copiers

LEMMA ControlSetup ==
  ASSUME ControlInv, NEW v \in VProcs, Setup(v)
  PROVE  ControlInv'
  <1> USE DEF ControlInv, ControlTypes
  <1>1. pc[v] = "setup" /\ Goto(v, "barrier0") /\ nWaiting' = [nWaiting EXCEPT ![1] = @ + 1]
        /\ UNCHANGED <<flags>>
    BY DEF Setup, Arrive
  <1>2. inProgress /\ allReady /\ ControlCollecting
    BY <1>1, Phases DEF Collecting
  <1>3. v \in At(SettingUp)
    BY <1>1 DEF At, SettingUp
  <1>4. At(Copiers \union {"barrier2"}) = {} /\ At({"barrier2"}) = {}
    BY <1>2, <1>3 DEF ControlCollecting, At
  <1>5. At(Copiers \union {"barrier2"})' = {} /\ At({"barrier2"})' = {} /\ At(Copied)' = At(Copied)
    BY <1>1, <1>4 DEF At, Goto, Copiers, Copied
  <1>6. Cardinality(At(SetUp)') = nWaiting[1] + 1
    <2>1. "barrier0" \in SetUp /\ pc[v] \notin SetUp
      BY <1>1 DEF SetUp, Copiers
    <2>2. Cardinality(At(SetUp)') = Cardinality(At(SetUp)) + 1
      BY <1>1, <2>1, Moves
    <2> QED
      BY <1>2, <2>2 DEF ControlCollecting
  <1>7. Cardinality(At(SetUp)') \in 0..NumVProcs
    BY Counts, At(SetUp)' \in SUBSET VProcs DEF At
  <1>8. \A u \in VProcs : pc'[u] \in SettingUp \union SetUp
    BY <1>1, <1>2 DEF ControlCollecting, Goto, SetUp
  <1>9. pc'[leader] # "barrier2"
    BY <1>1, <1>2 DEF ControlCollecting, Goto
  <1>10. nWaiting' \in [1..3 -> 0..NumVProcs] /\ nWaiting'[1] = nWaiting[1] + 1
         /\ nWaiting'[2] = nWaiting[2] /\ nWaiting'[3] = nWaiting[3]
    BY <1>1, <1>6, <1>7
  <1>11. ControlTypes'
    BY <1>1, <1>10 DEF Goto, Entering, flags, handshake
  <1>12. leader' = leader /\ inProgress' = inProgress /\ allReady' = allReady
    BY <1>1 DEF flags, handshake
  <1>13. ControlCollecting'
    BY <1>2, <1>4, <1>5, <1>6, <1>8, <1>9, <1>10, <1>12 DEF ControlCollecting
  <1> QED
    BY <1>2, <1>11, <1>12, <1>13 DEF Control

LEMMA ControlStartCopying ==
  ASSUME ControlInv, NEW v \in VProcs, StartCopying(v)
  PROVE  ControlInv' /\ Collecting /\ At(SettingUp) = {}
  <1> USE DEF ControlInv, ControlTypes
  <1>1. pc[v] = "barrier0" /\ Goto(v, "roots") /\ nWaiting' = nWaiting /\ nWaiting[1] >= NumVProcs
        /\ UNCHANGED <<flags>>
    BY DEF StartCopying, Open
  <1>2. inProgress /\ allReady /\ ControlCollecting
    BY <1>1, Phases DEF Collecting
  <1>3. At(SetUp) = VProcs
    <2>1. Cardinality(At(SetUp)) >= NumVProcs
      BY <1>1, <1>2 DEF ControlCollecting
    <2>2. At(SetUp) \in SUBSET VProcs
      BY DEF At
    <2> QED
      BY <2>1, <2>2, Counts
  <1>4. At(SettingUp) = {} /\ At(SettingUp)' = {}
    BY <1>1, <1>3 DEF At, SettingUp, SetUp, Copiers, Goto
  <1>5. At(SetUp)' = At(SetUp) /\ At(Copied)' = At(Copied) /\ At({"barrier2"})' = At({"barrier2"})
    BY <1>1 DEF At, Goto, SetUp, Copied, Copiers
  <1>6. At({"barrier2"}) = {}
    BY <1>1, <1>2 DEF ControlCollecting, At, Copied
  <1>7. \A u \in VProcs : pc'[u] \in SettingUp \union SetUp
    BY <1>1, <1>2 DEF ControlCollecting, Goto, SetUp, Copiers
  <1>8. pc'[leader] # "barrier2"
    BY <1>1, <1>2 DEF ControlCollecting, Goto
  <1>9. ControlTypes'
    BY <1>1 DEF Goto, Copiers, flags, handshake
  <1>10. leader' = leader /\ inProgress' = inProgress /\ allReady' = allReady
    BY <1>1 DEF flags, handshake
  <1>11. ControlCollecting'
    BY <1>1, <1>2, <1>4, <1>5, <1>6, <1>7, <1>8, <1>10 DEF ControlCollecting
  <1> QED
    BY <1>2, <1>4, <1>9, <1>10, <1>11 DEF Control, Collecting

LEMMA ControlDoneCopying ==
  ASSUME ControlInv, NEW v \in VProcs, DoneCopying(v)
  PROVE  ControlInv'
  <1> USE DEF ControlInv, ControlTypes
  <1>1. pc[v] = "finished" /\ Goto(v, "barrier1") /\ nWaiting' = [nWaiting EXCEPT ![2] = @ + 1]
        /\ UNCHANGED <<flags>>
    BY DEF DoneCopying, Arrive
  <1>2. inProgress /\ allReady /\ ControlCollecting
    BY <1>1, Phases DEF Collecting, Active, Copiers
  <1>3. At(SettingUp) = {} /\ At(SettingUp)' = {}
    BY <1>1, <1>2 DEF ControlCollecting, At, Copiers, SettingUp, Goto
  <1>4. At({"barrier2"}) = {} /\ At({"barrier2"})' = {} /\ At(SetUp)' = At(SetUp)
    BY <1>1, <1>2 DEF ControlCollecting, At, Goto, Copied, SetUp, Copiers
  <1>5. Cardinality(At(Copied)') = nWaiting[2] + 1
    BY <1>1, <1>2, Moves DEF ControlCollecting, Copied
  <1>6. Cardinality(At(Copied)') \in 0..NumVProcs
    BY Counts, At(Copied)' \in SUBSET VProcs DEF At
  <1>7. nWaiting' \in [1..3 -> 0..NumVProcs] /\ nWaiting'[1] = nWaiting[1]
        /\ nWaiting'[2] = nWaiting[2] + 1 /\ nWaiting'[3] = nWaiting[3]
    BY <1>1, <1>5, <1>6
  <1>8. \A u \in VProcs : pc'[u] \in SettingUp \union SetUp
    BY <1>1, <1>2 DEF ControlCollecting, Goto, SetUp, Copiers
  <1>9. pc'[leader] # "barrier2"
    BY <1>1, <1>2 DEF ControlCollecting, Goto
  <1>10. ControlTypes'
    BY <1>1, <1>7 DEF Goto, Copiers, flags, handshake
  <1>11. leader' = leader /\ inProgress' = inProgress /\ allReady' = allReady
    BY <1>1 DEF flags, handshake
  <1>12. ControlCollecting'
    BY <1>2, <1>3, <1>4, <1>5, <1>7, <1>8, <1>9, <1>11 DEF ControlCollecting
  <1> QED
    BY <1>2, <1>10, <1>11, <1>12 DEF Control

(* Whoever leaves the barrier after copying knows that all have copied. *)
LEMMA AllCopied ==
  ASSUME ControlInv, NEW v \in VProcs, AfterCopying(v)
  PROVE  At(Copied) = VProcs /\ pc[v] = "barrier1"
  <1> USE DEF ControlInv, ControlTypes
  <1>1. pc[v] = "barrier1" /\ nWaiting[2] >= NumVProcs
    BY DEF AfterCopying, Open
  <1>2. CASE ControlCollecting
    <2>1. Cardinality(At(Copied)) >= NumVProcs
      BY <1>1, <1>2 DEF ControlCollecting
    <2>2. At(Copied) \in SUBSET VProcs
      BY DEF At
    <2> QED
      BY <1>1, <2>1, <2>2, Counts
  <1>3. CASE ControlBetween
    BY <1>1, <1>3 DEF ControlBetween, At
  <1> QED
    BY <1>1, <1>2, <1>3, Phases

LEMMA ControlAfterCopying ==
  ASSUME ControlInv, NEW v \in VProcs, AfterCopying(v)
  PROVE  ControlInv'
  <1> USE DEF ControlInv, ControlTypes
  <1>1. pc[v] = "barrier1" /\ Goto(v, "barrier2") /\ nWaiting' = [nWaiting EXCEPT ![3] = @ + 1]
        /\ globalGCPending' = globalGCPending
    BY DEF AfterCopying, Arrive
  <1>2. At(Copied) = VProcs
    BY AllCopied
  <1>3. At(Copied)' = VProcs /\ At({"barrier2"})' \in SUBSET VProcs
    BY <1>1, <1>2 DEF At, Goto, Copied
  <1>4. nWaiting[3] = Cardinality(At({"barrier2"}))
    BY <1>1, Phases DEF ControlCollecting, ControlBetween, At
  <1>5. Cardinality(At({"barrier2"})') = nWaiting[3] + 1
    BY <1>1, <1>4, Moves
  <1>6. Cardinality(At({"barrier2"})') \in 0..NumVProcs
    BY <1>3, Counts
  <1>7. nWaiting' \in [1..3 -> 0..NumVProcs] /\ nWaiting'[1] = nWaiting[1]
        /\ nWaiting'[2] = nWaiting[2] /\ nWaiting'[3] = nWaiting[3] + 1
    BY <1>1, <1>5, <1>6
  <1>8. pc' \in [VProcs -> {"run", "barrier2"} \union Entering \union Copiers]
    BY <1>1 DEF Goto
  <1>9. At({"barrier1"})' = {} => Cardinality(At({"barrier2"})') = NumVProcs
    <2>1. At({"barrier1"})' = {} => At({"barrier2"})' = VProcs
      BY <1>3 DEF At, Copied
    <2> QED
      BY <2>1 DEF NumVProcs
  <1>10. \A u \in VProcs : pc'[u] \in Between /\ pc'[u] \in SettingUp \union SetUp
    BY <1>3 DEF At, Between, Copied, SetUp, Copiers
  <1>11. leader' = leader /\ UNCHANGED <<allReady, nReady, toInterrupt, blocked>>
    BY DEF AfterCopying, Reclaim, handshake
  <1>12. ControlTypes'
    <2>1. inProgress' \in BOOLEAN
      BY DEF AfterCopying, Reclaim, handshake
    <2> QED
      BY <1>1, <1>7, <1>8, <1>11, <2>1
  <1>13. CASE ~ inProgress'
    <2>1. nWaiting[2] = NumVProcs /\ pc'[leader] = "barrier2"
      <3>1. CASE Collecting /\ ControlCollecting
        <4>1. nWaiting[2] = NumVProcs
          BY <1>2, <3>1 DEF ControlCollecting, NumVProcs
        <4>2. v = leader
          BY <1>13, <3>1 DEF AfterCopying, handshake, Collecting
        <4> QED
          BY <1>1, <4>1, <4>2 DEF Goto
      <3>2. CASE ~ inProgress /\ ControlBetween
        BY <1>1, <3>2 DEF ControlBetween, At, Goto
      <3> QED
        BY <1>1, <3>1, <3>2, Phases
    <2>2. ControlBetween'
      BY <1>3, <1>5, <1>7, <1>9, <1>10, <1>11, <2>1 DEF ControlBetween
    <2> QED
      BY <1>12, <1>13, <2>2 DEF Control
  <1>14. CASE inProgress'
    <2>1. inProgress /\ allReady /\ ControlCollecting
      <3>1. inProgress
        BY <1>14 DEF AfterCopying, Reclaim, handshake
      <3> QED
        BY <1>1, <3>1, Phases DEF Collecting
    <2>2. v # leader
      BY <1>14 DEF AfterCopying, Reclaim
    <2>3. pc'[leader] # "barrier2"
      BY <1>1, <2>1, <2>2 DEF ControlCollecting, Goto
    <2>4. At(SettingUp)' = {}
      BY <1>3 DEF At, SettingUp, Copied
    <2>5. At(SetUp)' = At(SetUp) /\ At(Copied)' = At(Copied)
      BY <1>1 DEF At, Goto, SetUp, Copied, Copiers
    <2>6. ControlCollecting'
      BY <1>3, <1>5, <1>7, <1>10, <1>11, <2>1, <2>3, <2>4, <2>5 DEF ControlCollecting
    <2> QED
      BY <1>11, <1>12, <1>14, <2>1, <2>6 DEF Control
  <1> QED
    BY <1>12, <1>13, <1>14

LEMMA ControlResume ==
  ASSUME ControlInv, NEW v \in VProcs, Resume(v)
  PROVE  ControlInv' /\ ~ Collecting /\ At(Copiers) = {}
  <1> USE DEF ControlInv, ControlTypes
  <1>1. pc[v] = "barrier2" /\ Goto(v, "run") /\ nWaiting' = nWaiting /\ nWaiting[3] >= NumVProcs
        /\ UNCHANGED <<flags>>
    BY DEF Resume, Open
  <1>2. At({"barrier2"}) \in SUBSET VProcs /\ v \in At({"barrier2"})
    BY <1>1 DEF At
  <1>3. ~ Collecting
    <2> SUFFICES ASSUME Collecting
                 PROVE  FALSE
      OBVIOUS
    <2>1. ControlCollecting
      BY DEF Control, Collecting
    <2>2. Cardinality(At({"barrier2"})) >= NumVProcs
      BY <1>1, <2>1 DEF ControlCollecting
    <2>3. At({"barrier2"}) = VProcs
      BY <1>2, <2>2, Counts
    <2> QED
      BY <2>1, <2>3 DEF ControlCollecting, At
  <1>4. ~ inProgress => At({"barrier1"}) = {}
    <2> SUFFICES ASSUME ~ inProgress, At({"barrier1"}) # {}
                 PROVE  FALSE
      OBVIOUS
    <2>1. Cardinality(At({"barrier2"})) >= NumVProcs
      BY <1>1 DEF Control, ControlBetween
    <2>2. At({"barrier2"}) = VProcs
      BY <1>2, <2>1, Counts
    <2> QED
      BY <2>2 DEF At
  <1>5. At(Copiers) = {}
    <2>1. CASE inProgress /\ ~ allReady
      BY <2>1 DEF Control, ControlGathering, Gathering, At, Copiers
    <2>2. CASE ~ inProgress
      BY <1>4, <2>2 DEF Control, ControlBetween, Between, Copied, At, Copiers
    <2> QED
      BY <1>3, <2>1, <2>2 DEF Collecting
  <1>6. At(Ready)' = At(Ready) /\ At({"barrier1"})' = At({"barrier1"})
        /\ (At({"barrier2"})' # {} => At({"barrier2"}) # {})
    BY <1>1 DEF At, Goto, Ready
  <1>7. leader' = leader /\ nReady' = nReady /\ inProgress' = inProgress /\ allReady' = allReady
    BY <1>1 DEF flags, handshake
  <1>8. ControlTypes'
    BY <1>1 DEF Goto, flags, handshake
  <1>9. CASE inProgress /\ ~ allReady
    <2>1. ControlGathering
      BY <1>9 DEF Control
    <2>2. \A u \in VProcs : pc'[u] \in Gathering
      BY <1>1, <2>1 DEF ControlGathering, Goto, Gathering
    <2>3. \A u \in VProcs : pc'[u] \in {"interrupt", "leaderWait"} <=> u = leader
      BY <1>1, <2>1 DEF ControlGathering, Goto
    <2>4. ControlGathering'
      BY <1>1, <1>6, <1>7, <2>1, <2>2, <2>3 DEF ControlGathering
    <2> QED
      BY <1>3, <1>5, <1>7, <1>8, <1>9, <2>4 DEF Control
  <1>10. CASE ~ inProgress
    <2>1. ControlBetween
      BY <1>10 DEF Control
    <2>2. \A u \in VProcs : pc'[u] \in Between
      BY <1>1, <2>1 DEF ControlBetween, Goto, Between
    <2>3. ControlBetween'
      BY <1>1, <1>4, <1>6, <1>7, <1>10, <2>1, <2>2 DEF ControlBetween
    <2> QED
      BY <1>3, <1>5, <1>7, <1>8, <1>10, <2>3 DEF Control
  <1> QED
    BY <1>3, <1>9, <1>10 DEF Collecting

(* Every step of the scan stays within it. *)
LEMMA ScanStays ==
  ASSUME ControlTypes, NEW v \in VProcs, Scan(v)
  PROVE  /\ pc[v] \in Active
         /\ pc' = pc \/ \E l \in Active : Goto(v, l)
  <1> USE DEF Active, Copiers, ControlTypes
  <1>1. CASE Forward(v)
    BY <1>1 DEF Forward
  <1>2. CASE RootsDone(v)
    BY <1>2 DEF RootsDone, Push
  <1>3. CASE SignalScanWait(v)
    BY <1>3 DEF SignalScanWait
  <1>4. ASSUME NEW others, NextChunk(v, others)
        PROVE  \E l \in Active : Goto(v, l)
    BY <1>4 DEF NextChunk, StartScan
  <1>5. CASE GetNextScanChunk(v)
    BY <1>4, <1>5 DEF GetNextScanChunk
  <1>6. CASE BroadcastScanWait(v)
    BY <1>6 DEF BroadcastScanWait
  <1>7. CASE WakeScanWait(v)
    BY <1>4, <1>7 DEF WakeScanWait
  <1>8. CASE ScanObject(v)
    BY <1>8 DEF ScanObject
  <1>9. CASE ScanMore(v)
    BY <1>9 DEF ScanMore, AtTop
  <1>10. CASE ScanDone(v)
    BY <1>10 DEF ScanDone, Push, AtTop
  <1> QED
    BY <1>1, <1>2, <1>3, <1>5, <1>6, <1>7, <1>8, <1>9, <1>10 DEF Scan

LEMMA ControlCopying ==
  ASSUME ControlInv, NEW v \in VProcs, Copying(v)
  PROVE  ControlInv'
  <1>1. UNCHANGED <<flags, nWaiting>> /\ Scan(v)
    BY DEF Copying
  <1>2. pc' = pc \/ \E l \in Active : Goto(v, l)
    BY <1>1, ScanStays DEF ControlInv
  <1>3. pc[v] \in Active
    BY <1>1, ScanStays DEF ControlInv
  <1>4. ControlTypes'
    BY <1>1, <1>2 DEF ControlInv, ControlTypes, flags, handshake, Goto, Active
  <1>5. CASE pc' = pc
    BY <1>1, <1>4, <1>5, ControlSame DEF controlVars, flags, handshake
  <1>6. CASE \E l \in Active : Goto(v, l)
    BY <1>1, <1>3, <1>4, <1>6, ControlActive DEF flags, handshake
  <1> QED
    BY <1>2, <1>5, <1>6

LEMMA ControlStep == ControlInv /\ [Next]_vars => ControlInv'
  <1> SUFFICES ASSUME ControlInv, [Next]_vars
               PROVE  ControlInv'
    OBVIOUS
  <1> USE DEF ControlInv, ControlTypes
  <1>1. CASE UNCHANGED vars
    BY <1>1, ControlSame DEF vars, flags, handshake, controlVars
  <1>2. ASSUME NEW v \in VProcs, NewChunk(v)
        PROVE  ControlInv'
    BY <1>2, ControlSame DEF NewChunk, flags, handshake, controlVars
  <1>3. ASSUME NEW v \in VProcs, NEW u \in VProcs, Interrupt(v, u)
        PROVE  ControlInv'
    BY <1>3, ControlSame DEF Interrupt, controlVars
  <1>4. ASSUME NEW v \in VProcs, Spurious(v)
        PROVE  ControlInv'
    BY <1>4, ControlSame DEF Spurious, SpuriousWakeup, flags, handshake, controlVars
  <1>5. ASSUME NEW v \in VProcs, SpuriousReturn(v)
        PROVE  ControlInv'
    BY <1>5, ControlSame DEF SpuriousReturn, controlVars
  <1>6. ASSUME NEW v \in VProcs, Collect(v)
        PROVE  ControlInv'
    BY <1>3, <1>6, ControlLead, ControlLeaderWait, ControlFollow, ControlFollowerWait,
       ControlSetup, ControlStartCopying, ControlCopying, ControlDoneCopying,
       ControlAfterCopying, ControlResume
       DEF Collect
  <1> QED
    BY <1>1, <1>2, <1>4, <1>5, <1>6, ControlEnter DEF Next

(* Which vprocs StartGlobalGC (global-gc.c:163-370) lets be where together. *)
THEOREM ControlCorrect == Spec => []ControlInv
  BY ControlInit, ControlStep, PTL DEF Spec

----------------------------------------------------------------------------
(* The world is stopped. *)

LEMMA StatusOf ==
  ASSUME ControlTypes, NEW v \in VProcs
  PROVE  /\ WorldStatus[v] = "running" <=> pc[v] = "run"
         /\ WorldStatus[v] = "stopped" <=> pc[v] \in Entering
         /\ WorldStatus[v] = "copying" <=> pc[v] \in Copiers
         /\ WorldStatus[v] = "finished" <=> pc[v] = "barrier2"
  BY DEF WorldStatus, StatusAt, ControlTypes, Entering, Copiers

LEMMA StatusMoves ==
  ASSUME ControlTypes, NEW v \in VProcs, NEW l, Goto(v, l)
  PROVE  WorldStatus' = [WorldStatus EXCEPT ![v] = StatusAt(l)]
  BY DEF WorldStatus, ControlTypes, Goto

(* Steps by which no vproc changes its status. *)
LEMMA StatusSame ==
  ASSUME ControlTypes, NEW v \in VProcs, NEW l, Goto(v, l),
         \/ pc[v] \in Entering /\ l \in Entering
         \/ pc[v] \in Copiers /\ l \in Copiers
  PROVE  WorldStatus' = WorldStatus
  <1>1. StatusAt(pc[v]) = StatusAt(l)
    BY DEF StatusAt, Entering, Copiers
  <1> QED
    BY <1>1, StatusMoves DEF WorldStatus

LEMMA WorldStep == ControlInv /\ [Next]_vars => [World!Next]_WorldStatus
  <1> SUFFICES ASSUME ControlInv, [Next]_vars
               PROVE  World!Next \/ WorldStatus' = WorldStatus
    OBVIOUS
  <1> USE DEF ControlInv
  <1>1. ASSUME pc' = pc
        PROVE  WorldStatus' = WorldStatus
    BY <1>1 DEF WorldStatus
  <1>2. CASE UNCHANGED vars
    BY <1>1, <1>2 DEF vars
  <1>3. ASSUME NEW v \in VProcs, NewChunk(v) \/ Spurious(v) \/ SpuriousReturn(v)
        PROVE  WorldStatus' = WorldStatus
    BY <1>1, <1>3 DEF NewChunk, Spurious, SpuriousWakeup, SpuriousReturn
  <1>4. ASSUME NEW v \in VProcs, Enter(v)
        PROVE  World!Next
    <2>1. pc[v] = "run" /\ Goto(v, "lock") /\ StatusAt("lock") = "stopped"
      BY <1>4 DEF Enter, StatusAt, Entering, Copiers
    <2>2. World!Stop(v)
      BY <2>1, StatusOf, StatusMoves DEF World!Stop, World!States
    <2> QED
      BY <2>2 DEF World!Next
  <1>5. ASSUME NEW v \in VProcs, Collect(v)
        PROVE  World!Next \/ WorldStatus' = WorldStatus
    <2>1. CASE Lead(v) \/ LeaderWait(v) \/ Follow(v) \/ FollowerWait(v) \/ Setup(v)
      <3>1. /\ pc[v] \in Entering
            /\ \E l \in Entering : Goto(v, l)
        BY <2>1 DEF Lead, LeaderWait, Await, Go, Follow, FollowerWait, FollowerAwaits, Setup, Entering
      <3> QED
        BY <3>1, StatusSame
    <2>2. CASE \E u \in VProcs : Interrupt(v, u)
      BY <1>1, <2>2 DEF Interrupt
    <2>3. CASE StartCopying(v)
      <3>1. ControlCollecting /\ At(SettingUp) = {}
        BY <2>3, ControlStartCopying DEF Control, Collecting
      <3>2. pc[v] = "barrier0" /\ Goto(v, "roots") /\ StatusAt("roots") = "copying"
        BY <2>3 DEF StartCopying, StatusAt, Entering, Copiers
      <3>3. At({"barrier2"}) = {}
        BY <3>1, <3>2 DEF ControlCollecting, At, Copied
      <3>4. \A u \in VProcs : pc[u] \in Entering \union Copiers
        BY <3>1, <3>3 DEF ControlCollecting, At, SetUp, Entering, Copiers
      <3>5. World!Copy(v)
        BY <3>2, <3>4, StatusOf, StatusMoves DEF World!Copy, World!States, Entering, Copiers
      <3> QED
        BY <3>5 DEF World!Next
    <2>4. CASE Copying(v)
      BY <1>1, <2>4, ScanStays, StatusSame DEF Copying, Active
    <2>5. CASE DoneCopying(v)
      BY <2>5, StatusSame DEF DoneCopying, Copiers
    <2>6. CASE AfterCopying(v)
      <3>1. pc[v] = "barrier1" /\ Goto(v, "barrier2") /\ StatusAt("barrier2") = "finished"
        BY <2>6 DEF AfterCopying, StatusAt, Entering, Copiers
      <3>2. \A u \in VProcs : pc[u] \in Copiers \union {"barrier2"}
        BY <2>6, AllCopied DEF At, Copied, Copiers
      <3>3. World!Finish(v)
        BY <3>1, <3>2, StatusOf, StatusMoves DEF World!Finish, World!States, Entering, Copiers
      <3> QED
        BY <3>3 DEF World!Next
    <2>7. CASE Resume(v)
      <3>1. pc[v] = "barrier2" /\ Goto(v, "run") /\ StatusAt("run") = "running"
        BY <2>7 DEF Resume, StatusAt, Entering, Copiers
      <3>2. \A u \in VProcs : pc[u] \notin Copiers
        BY <2>7, ControlResume DEF At
      <3>3. World!Continue(v)
        BY <3>1, <3>2, StatusOf, StatusMoves DEF World!Continue, World!States
      <3> QED
        BY <3>3 DEF World!Next
    <2> QED
      BY <1>5, <2>1, <2>2, <2>3, <2>4, <2>5, <2>6, <2>7 DEF Collect
  <1> QED
    BY <1>2, <1>3, <1>4, <1>5 DEF Next

LEMMA WorldInit == Init => World!Init
  BY DEF Init, World!Init, WorldStatus, StatusAt, Entering, Copiers

(* The handshake and the barriers of StartGlobalGC (global-gc.c:179-360)    *)
(* stop the world while objects are copied, however many vprocs there are. *)
THEOREM StopsTheWorld == Spec => ImplementsStopTheWorld
  BY ControlCorrect, WorldInit, WorldStep, PTL DEF Spec, ImplementsStopTheWorld, World!Spec

----------------------------------------------------------------------------
(* The heap.  Where a vproc is tells what it has of its own. *)

HeapTypes ==
  /\ sts \in [Chunks -> {"unmapped", "free", "to", "from"}]
  /\ own \in [VProcs -> Seq(Chunks)]
  /\ unscannedTo \in [Nodes -> SUBSET Chunks]
  /\ scannedTo \in [Nodes -> SUBSET Chunks]
  /\ fromSpace \in [Nodes -> SUBSET Chunks]
  /\ freeChunks \in [Nodes -> SUBSET Chunks]
  /\ numWaiting \in [Nodes -> 0..NumVProcs]
  /\ completed \in [Nodes -> BOOLEAN]
  /\ scanBlocked \subseteq VProcs
  /\ copied \in [Chunks -> 0..ChunkObjs]
  /\ scanned \in [Chunks -> 0..ChunkObjs]
  /\ scanChunk \in [VProcs -> Chunks \union {NoChunk}]
  /\ scanTop \in [VProcs -> 0..ChunkObjs]
  /\ toSpaceSz \in Nat
  /\ toSpaceLimit \in Nat

NoDup(s) == \A i, j \in 1..Len(s) : s[i] = s[j] => i = j

OwnChunks ==
  \A v \in VProcs :
    /\ NoDup(own[v])
    /\ pc[v] = "barrier0" => own[v] = <<>>
    /\ pc[v] \in {"roots", "scan"} => own[v] # <<>>
    /\ pc[v] \notin {"barrier0", "roots", "scan"} => Len(own[v]) = 1
    /\ scanChunk[v] # NoChunk <=> pc[v] = "scan"

(* The detection of the scan's end: a node's scan is not over as long as one *)
(* of its vprocs may still copy or scan.                                   *)
ScanWaiting(n) == {v \in VProcs : NodeOf[v] = n /\ pc[v] = "scanWait"}

Waiting == \A n \in Nodes : numWaiting[n] = Cardinality(ScanWaiting(n))

MayScan == {"barrier0", "roots", "signal", "next", "scan"}
ScanOver == {"broadcast", "finished", "barrier1", "barrier2"}

AllScanned(c) == scanned[c] = copied[c]

Detection ==
  Collecting =>
    \A v \in VProcs :
      /\ pc[v] \in MayScan => ~ completed[NodeOf[v]]
      /\ pc[v] \in ScanOver => completed[NodeOf[v]]
      /\ completed[NodeOf[v]] /\ pc[v] \in ScanOver \union {"scanWait"} =>
           unscannedTo[NodeOf[v]] = {}

(* What has been put on a scanned list, or left as the allocation chunk of  *)
(* a vproc that found nothing to scan, has been scanned.                   *)
Scanned ==
  /\ \A n \in Nodes : \A c \in scannedTo[n] : AllScanned(c)
  /\ Collecting =>
       \A v \in VProcs : pc[v] \in ScanOver \union {"scanWait"} => AllScanned(Alloc(v))

(* Every chunk the system has given is in one place. *)
Held(v) == {c \in Chunks : c \in ToSet(own[v]) \union {scanChunk[v]}}

Statuses ==
  /\ \A n \in Nodes, c \in Chunks :
       /\ c \in fromSpace[n] => sts[c] = "from"
       /\ c \in freeChunks[n] => sts[c] = "free"
       /\ c \in unscannedTo[n] \union scannedTo[n] => sts[c] = "to"
  /\ \A v \in VProcs, c \in Chunks : c \in Held(v) => sts[c] = "to"

OnePlace ==
  /\ \A n, m \in Nodes : n # m =>
       /\ fromSpace[n] \intersect fromSpace[m] = {}
       /\ freeChunks[n] \intersect freeChunks[m] = {}
       /\ unscannedTo[n] \intersect unscannedTo[m] = {}
       /\ scannedTo[n] \intersect scannedTo[m] = {}
  /\ \A n, m \in Nodes : unscannedTo[n] \intersect scannedTo[m] = {}
  /\ \A u, v \in VProcs : u # v => Held(u) \intersect Held(v) = {}
  /\ \A v \in VProcs, n \in Nodes : Held(v) \intersect (unscannedTo[n] \union scannedTo[n]) = {}

SomePlace ==
  \A c \in Chunks :
    /\ sts[c] = "from" => \E n \in Nodes : c \in fromSpace[n]
    /\ sts[c] = "free" => \E n \in Nodes : c \in freeChunks[n]
    /\ sts[c] = "to" => \/ \E n \in Nodes : c \in unscannedTo[n] \union scannedTo[n]
                        \/ \E v \in VProcs : c \in Held(v)

(* Scanned lists fill while objects are copied and not before, and only a   *)
(* node with vprocs has anything to scan.                                  *)
Started == Collecting /\ At(Copiers \union {"barrier2"}) # {}

EmptyLists ==
  /\ \A n \in Nodes : (\A v \in VProcs : NodeOf[v] # n) => unscannedTo[n] = {} /\ scannedTo[n] = {}
  /\ ~ Started => \A n \in Nodes : scannedTo[n] = {}
  /\ ~ Started => \A v \in VProcs : pc[v] = "barrier0" => unscannedTo[NodeOf[v]] = {}

(* From the leader's reset to the last setup nothing counts as to-space. *)
Settling == Collecting /\ At(SettingUp) # {}

ToChunks == {c \in Chunks : sts[c] = "to"}

Sized == toSpaceSz = IF Settling THEN 0 ELSE Cardinality(ToChunks)

Places == Statuses /\ OnePlace /\ SomePlace

HeapInv ==
  /\ HeapTypes /\ OwnChunks /\ Waiting /\ Detection /\ Scanned /\ Places /\ EmptyLists /\ Sized

----------------------------------------------------------------------------
(* Lists of chunks. *)

LEMMA OneChunk ==
  ASSUME NEW c \in Chunks
  PROVE  /\ <<c>> \in Seq(Chunks)
         /\ Len(<<c>>) = 1
         /\ ToSet(<<c>>) = {c}
         /\ Last(<<c>>) = c
         /\ NoDup(<<c>>)
  BY DEF ToSet, Last, NoDup

LEMMA NoChunks ==
  /\ <<>> \in Seq(Chunks)
  /\ ToSet(<<>>) = {}
  /\ NoDup(<<>>)
  BY DEF ToSet, NoDup

LEMMA MoreChunks ==
  ASSUME NEW s \in Seq(Chunks), NEW c \in Chunks, c \notin ToSet(s), NoDup(s)
  PROVE  /\ Append(s, c) \in Seq(Chunks)
         /\ Append(s, c) # <<>>
         /\ ToSet(Append(s, c)) = ToSet(s) \union {c}
         /\ Last(Append(s, c)) = c
         /\ NoDup(Append(s, c))
  BY DEF ToSet, Last, NoDup

LEMMA LastChunk ==
  ASSUME NEW s \in Seq(Chunks), s # <<>>, NoDup(s)
  PROVE  /\ Last(s) \in Chunks
         /\ ToSet(s) \subseteq Chunks
         /\ ToSet(s) = ToSet(Front(s)) \union {Last(s)}
         /\ Last(s) \notin ToSet(Front(s))
         /\ Len(s) = 1 => ToSet(s) = {Last(s)}
  <1>1. Len(s) \in Nat \ {0} /\ Last(s) = s[Len(s)] /\ DOMAIN s = 1..Len(s)
    BY DEF Last
  <1>2. Last(s) \in Chunks /\ ToSet(s) \subseteq Chunks
    BY <1>1 DEF ToSet
  <1>3. Front(s) \in Seq(Chunks) /\ Len(Front(s)) = Len(s) - 1
        /\ \A i \in 1..Len(s) - 1 : Front(s)[i] = s[i]
    BY <1>1 DEF Front
  <1>4. ToSet(Front(s)) = {s[i] : i \in 1..Len(s) - 1}
    BY <1>1, <1>3 DEF ToSet
  <1>5. ToSet(s) = {s[i] : i \in 1..Len(s)}
    BY <1>1 DEF ToSet
  <1>6. 1..Len(s) = (1..Len(s) - 1) \union {Len(s)}
    BY <1>1
  <1>7. ToSet(s) = ToSet(Front(s)) \union {Last(s)}
    BY <1>1, <1>4, <1>5, <1>6
  <1>8. Last(s) \notin ToSet(Front(s))
    BY <1>1, <1>4 DEF NoDup
  <1>9. Len(s) = 1 => ToSet(s) = {Last(s)}
    BY <1>1, <1>5
  <1> QED
    BY <1>2, <1>7, <1>8, <1>9

----------------------------------------------------------------------------
LEMMA HeapInitInv == Init => HeapInv
  <1> SUFFICES ASSUME Init
               PROVE  HeapInv
    OBVIOUS
  <1> DEFINE f == CHOOSE g \in FirstChunks : TRUE
  <1>1. f \in [VProcs -> Chunks] /\ \A u, v \in VProcs : u # v => f[u] # f[v]
    BY GlobalGCAssumption DEF FirstChunks
  <1>2. HeapInit(f)
    BY DEF Init
  <1> HIDE DEF f
  <1>3. pc = [v \in VProcs |-> "run"] /\ ~ inProgress /\ toSpaceLimit = BaseHeapSz
    BY DEF Init
  <1>4. NumVProcs \in Nat
    BY Counts
  <1>5. \A v \in VProcs : own[v] = <<f[v]>> /\ f[v] \in Chunks /\ scanChunk[v] = NoChunk
    BY <1>1, <1>2 DEF HeapInit
  <1>6. own \in [VProcs -> Seq(Chunks)]
    BY <1>1, <1>2 DEF HeapInit
  <1>7. HeapTypes
    BY <1>2, <1>3, <1>4, <1>6, ToSpaceAssumption, GlobalGCAssumption DEF HeapTypes, HeapInit, NumVProcs
  <1>8. OwnChunks
    BY <1>3, <1>5, OneChunk DEF OwnChunks
  <1>9. Waiting
    <2>1. \A n : ScanWaiting(n) = {}
      BY <1>3 DEF ScanWaiting
    <2> QED
      BY <1>2, <2>1, FS_EmptySet DEF Waiting, HeapInit
  <1>10. Detection
    BY <1>3 DEF Detection, Collecting
  <1>11. Scanned
    BY <1>2, <1>3 DEF Scanned, HeapInit, Collecting
  <1>12. \A v \in VProcs : Held(v) = {f[v]}
    BY <1>5, OneChunk, ToSpaceAssumption DEF Held
  <1>13. \A c \in Chunks : sts[c] = IF \E v \in VProcs : c = f[v] THEN "to" ELSE "unmapped"
    BY <1>1, <1>2 DEF HeapInit
  <1>14. \A n \in Nodes : unscannedTo[n] = {} /\ scannedTo[n] = {} /\ fromSpace[n] = {}
                          /\ freeChunks[n] = {}
    BY <1>2 DEF HeapInit
  <1>15. Places
    BY <1>1, <1>12, <1>13, <1>14 DEF Places, Statuses, OnePlace, SomePlace
  <1>16. EmptyLists
    BY <1>3, <1>14, ToSpaceAssumption DEF EmptyLists
  <1>17. Sized
    <2>1. ~ Settling
      BY <1>3 DEF Settling, Collecting
    <2>2. f \in Bijection(VProcs, ToChunks)
      BY <1>1, <1>13 DEF ToChunks, Bijection, Injection, Surjection, IsInjective
    <2>3. Cardinality(ToChunks) = Cardinality(VProcs)
      BY <2>2, ToSpaceAssumption, FS_Bijection DEF ExistsBijection
    <2> QED
      BY <1>2, <2>1, <2>3 DEF Sized, HeapInit
  <1> QED
    BY <1>7, <1>8, <1>9, <1>10, <1>11, <1>15, <1>16, <1>17 DEF HeapInv

(* Steps that leave the heap and its scan alone. *)
Outside == {"run", "lock", "interrupt", "leaderWait", "followerWait", "setup"}

LEMMA HeapSame ==
  ASSUME HeapInv, ControlTypes, toSpaceLimit' \in Nat, UNCHANGED <<heapVars, detection, scan>>,
         NEW v \in VProcs, NEW l, Goto(v, l),
         \/ pc[v] = l
         \/ pc[v] \in Outside \union {"barrier2"} /\ l \in Outside
         \/ pc[v] \in ScanOver /\ l \in ScanOver,
         Collecting' <=> Collecting, Started' <=> Started, Settling' <=> Settling,
         Collecting => (pc[v] \in Outside <=> l \in Outside)
  PROVE  HeapInv'
  <1> USE DEF HeapInv, ControlTypes
  <1> USE DEF heapVars, lists, detection, scan
  <1>1. HeapTypes'
    BY DEF HeapTypes
  <1>2. \A u \in VProcs : pc'[u] = IF u = v THEN l ELSE pc[u]
    BY DEF Goto
  <1>3. OwnChunks'
    BY <1>2 DEF OwnChunks, Outside, ScanOver
  <1>4. Waiting'
    <2>1. \A n : ScanWaiting(n)' = ScanWaiting(n)
      BY <1>2 DEF ScanWaiting, Outside, ScanOver
    <2> QED
      BY <2>1 DEF Waiting
  <1>5. Detection'
    BY <1>2 DEF Detection, MayScan, ScanOver, Outside
  <1>6. Scanned'
    BY <1>2 DEF Scanned, ScanOver, Outside, AllScanned, Alloc
  <1>7. Places'
    BY DEF Places, Statuses, OnePlace, SomePlace, Held
  <1>8. EmptyLists'
    <2>1. \A u \in VProcs : pc'[u] = "barrier0" => pc[u] = "barrier0"
      BY <1>2 DEF Outside, ScanOver
    <2> QED
      BY <2>1 DEF EmptyLists
  <1>9. Sized'
    BY DEF Sized, ToChunks
  <1> QED
    BY <1>1, <1>3, <1>4, <1>5, <1>6, <1>7, <1>8, <1>9

(* The handshake up to "go". *)
LEMMA NotCollecting ==
  ASSUME ~ Collecting, ~ Collecting'
  PROVE  (Collecting' <=> Collecting) /\ (Started' <=> Started) /\ (Settling' <=> Settling)
  BY DEF Started, Settling

LEMMA HeapHandshake ==
  ASSUME HeapInv, ControlInv, ControlInv', NEW v \in VProcs,
         Enter(v) \/ Lead(v) \/ Follow(v) \/ FollowerWait(v) \/ (\E u \in VProcs : Interrupt(v, u))
           \/ SpuriousReturn(v)
  PROVE  HeapInv'
  <1> USE DEF ControlInv
  <1>0. toSpaceLimit \in Nat /\ pc \in [VProcs -> {"run", "barrier2"} \union Entering \union Copiers]
    BY DEF HeapInv, HeapTypes, ControlTypes
  <1>1. CASE Enter(v)
    <2>1. pc[v] = "run" /\ Goto(v, "lock") /\ UNCHANGED <<heapVars, detection, scan, handshake, toSpaceLimit>>
      BY <1>1 DEF Enter
    <2>2. ~ Collecting /\ ~ Collecting'
      BY <2>1, Phases DEF Collecting, handshake
    <2> QED
      BY <1>0, <2>1, <2>2, NotCollecting, HeapSame DEF Outside
  <1>2. CASE Lead(v)
    <2>1. pc[v] = "lock" /\ Goto(v, "interrupt") /\ UNCHANGED <<heapVars, detection, scan, toSpaceLimit>>
      BY <1>2 DEF Lead
    <2>2. ~ Collecting /\ ~ Collecting'
      BY <1>2 DEF Lead, Collecting
    <2> QED
      BY <1>0, <2>1, <2>2, NotCollecting, HeapSame DEF Outside
  <1>3. CASE Follow(v)
    <2>1. pc[v] = "lock" /\ UNCHANGED <<heapVars, detection, scan, toSpaceLimit, inProgress, allReady>>
      BY <1>3 DEF Follow
    <2>2. ~ Collecting /\ ~ Collecting'
      BY <2>1 DEF Control, ControlCollecting, SettingUp, SetUp, Copiers, Collecting
    <2>3. Goto(v, "followerWait")
      BY <1>3, <2>2 DEF Follow, FollowerAwaits, Collecting
    <2> QED
      BY <1>0, <2>1, <2>2, <2>3, NotCollecting, HeapSame DEF Outside
  <1>4. CASE FollowerWait(v)
    <2>1. pc[v] = "followerWait"
          /\ UNCHANGED <<heapVars, detection, scan, toSpaceLimit, inProgress, allReady>>
      BY <1>4 DEF FollowerWait
    <2>2. PICK l \in {"followerWait", "setup"} : Goto(v, l)
      BY <1>4 DEF FollowerWait, FollowerAwaits
    <2>3. Collecting' <=> Collecting
      BY <2>1 DEF Collecting
    <2>4. At(Copiers \union {"barrier2"})' = At(Copiers \union {"barrier2"})
          /\ At(SettingUp)' = At(SettingUp)
      BY <1>0, <2>1, <2>2 DEF At, Goto, Copiers, SettingUp
    <2>5. (Started' <=> Started) /\ (Settling' <=> Settling)
      BY <2>3, <2>4 DEF Started, Settling
    <2> QED
      BY <1>0, <2>1, <2>2, <2>3, <2>5, HeapSame DEF Outside
  <1>5. CASE (\E u \in VProcs : Interrupt(v, u)) \/ SpuriousReturn(v)
    <2>1. UNCHANGED <<heapVars, detection, scan, toSpaceLimit, inProgress, allReady, pc>>
      BY <1>5 DEF Interrupt, SpuriousReturn
    <2>2. Goto(v, pc[v])
      BY <1>0, <2>1 DEF Goto
    <2>3. (Collecting' <=> Collecting) /\ (Started' <=> Started) /\ (Settling' <=> Settling)
      BY <2>1 DEF Collecting, Started, Settling, At
    <2> QED
      BY <1>0, <2>1, <2>2, <2>3, HeapSame
  <1> QED
    BY <1>1, <1>2, <1>3, <1>4, <1>5

LEMMA HeapLeaderWait ==
  ASSUME HeapInv, ControlInv, ControlInv', NEW v \in VProcs, LeaderWait(v)
  PROVE  HeapInv'
  <1> USE DEF ControlInv
  <1>0. toSpaceLimit \in Nat /\ pc \in [VProcs -> {"run", "barrier2"} \union Entering \union Copiers]
    BY DEF HeapInv, HeapTypes, ControlTypes
  <1>1. pc[v] \in {"interrupt", "leaderWait"} /\ inProgress' = inProgress
        /\ UNCHANGED <<sts, own, lists, copied, scanned, detection, scan, toSpaceLimit>>
    BY DEF LeaderWait
  <1>2. inProgress /\ ~ allReady /\ ControlGathering /\ v = leader
    BY <1>1 DEF Control, ControlGathering, ControlCollecting, ControlBetween, SettingUp, SetUp,
                Copiers, Between, Copied
  <1>3. CASE Await(v)
    <2>1. Goto(v, "leaderWait") /\ UNCHANGED heapVars
      BY <1>1, <1>3 DEF Await, heapVars
    <2>2. ~ Collecting /\ ~ Collecting'
      BY <1>2, <1>3 DEF Await, Collecting
    <2> QED
      BY <1>0, <1>1, <2>1, <2>2, NotCollecting, HeapSame DEF Outside
  <1>4. CASE Go(v)
    <2>1. Goto(v, "setup") /\ toSpaceSz' = 0 /\ Collecting' /\ ~ Collecting
      BY <1>1, <1>2, <1>4 DEF Go, Collecting
    <2>2. At(Ready) = VProcs
      <3>1. At(Ready) \in SUBSET VProcs
        BY DEF At
      <3>2. Cardinality(At(Ready)) = NumVProcs
        BY <1>2, <1>4 DEF Go, AllHere, ControlGathering
      <3> QED
        BY <3>1, <3>2, Counts
    <2>3. \A u \in VProcs : pc'[u] = IF u = v THEN "setup" ELSE "followerWait"
      BY <1>0, <1>2, <2>1, <2>2 DEF At, Ready, ControlGathering, Goto
    <2>4. \A u \in VProcs : pc[u] \in {"interrupt", "leaderWait", "followerWait"}
      BY <2>2 DEF At, Ready
    <2>5. ~ Started /\ ~ Started' /\ Settling'
      BY <2>1, <2>3 DEF Started, Settling, At, Copiers, SettingUp
    <2> USE DEF HeapInv, lists, detection, scan
    <2>6. HeapTypes'
      BY <1>0, <1>1, <2>1 DEF HeapTypes
    <2>7. OwnChunks'
      BY <1>1, <2>3, <2>4 DEF OwnChunks
    <2>8. Waiting'
      <3>1. \A n : ScanWaiting(n)' = ScanWaiting(n)
        BY <2>3, <2>4 DEF ScanWaiting
      <3> QED
        BY <1>1, <3>1 DEF Waiting
    <2>9. Detection'
      BY <2>3 DEF Detection, MayScan, ScanOver
    <2>10. Scanned'
      BY <1>1, <2>3 DEF Scanned, ScanOver, AllScanned
    <2>11. Places'
      BY <1>1 DEF Places, Statuses, OnePlace, SomePlace, Held
    <2>12. EmptyLists'
      BY <1>1, <2>3, <2>5 DEF EmptyLists
    <2>13. Sized'
      BY <2>1, <2>5 DEF Sized
    <2> QED
      BY <2>6, <2>7, <2>8, <2>9, <2>10, <2>11, <2>12, <2>13
  <1> QED
    BY <1>3, <1>4 DEF LeaderWait

(* The two barriers at the end. *)
LEMMA HeapBarriers ==
  ASSUME HeapInv, ControlInv, ControlInv', NEW v \in VProcs,
         DoneCopying(v) \/ (AfterCopying(v) /\ v # leader) \/ Resume(v)
  PROVE  HeapInv'
  <1> USE DEF ControlInv
  <1>0. toSpaceLimit \in Nat /\ pc \in [VProcs -> {"run", "barrier2"} \union Entering \union Copiers]
    BY DEF HeapInv, HeapTypes, ControlTypes
  <1>1. CASE DoneCopying(v)
    <2>1. pc[v] = "finished" /\ Goto(v, "barrier1")
          /\ UNCHANGED <<heapVars, detection, scan, toSpaceLimit, inProgress, allReady>>
      BY <1>1 DEF DoneCopying, flags, handshake
    <2>2. Collecting /\ Collecting' /\ ControlCollecting /\ ControlCollecting'
      BY <2>1, Phases DEF Active, Copiers, Collecting, Control
    <2>3. v \in At(Copiers \union {"barrier2"}) /\ v \in At(Copiers \union {"barrier2"})'
      BY <1>0, <2>1 DEF At, Goto, Copiers
    <2>4. Started /\ Started' /\ ~ Settling /\ ~ Settling'
      BY <2>2, <2>3 DEF Started, Settling, ControlCollecting
    <2> QED
      BY <1>0, <2>1, <2>2, <2>4, HeapSame DEF Outside, ScanOver
  <1>2. CASE AfterCopying(v) /\ v # leader
    <2>1. pc[v] = "barrier1" /\ Goto(v, "barrier2")
          /\ UNCHANGED <<heapVars, detection, scan, toSpaceLimit, inProgress, allReady>>
      BY <1>2 DEF AfterCopying, handshake
    <2>2. Collecting' <=> Collecting
      BY <2>1 DEF Collecting
    <2>3. At(SettingUp) = {} /\ At(SettingUp)' = {}
      BY <1>0, <1>2, <2>1, AllCopied DEF At, Goto, Copied, SettingUp
    <2>4. v \in At(Copiers \union {"barrier2"}) /\ v \in At(Copiers \union {"barrier2"})'
      BY <1>0, <2>1 DEF At, Goto, Copiers
    <2>5. (Started' <=> Started) /\ (Settling' <=> Settling)
      BY <2>2, <2>3, <2>4 DEF Started, Settling
    <2> QED
      BY <1>0, <2>1, <2>2, <2>5, HeapSame DEF Outside, ScanOver
  <1>3. CASE Resume(v)
    <2>1. pc[v] = "barrier2" /\ Goto(v, "run")
          /\ UNCHANGED <<heapVars, detection, scan, toSpaceLimit, inProgress, allReady>>
      BY <1>3 DEF Resume, flags, handshake
    <2>2. ~ Collecting /\ ~ Collecting'
      BY <1>3, <2>1, ControlResume DEF Collecting
    <2> QED
      BY <1>0, <2>1, <2>2, NotCollecting, HeapSame DEF Outside
  <1> QED
    BY <1>1, <1>2, <1>3

LEMMA LimitType ==
  ASSUME toSpaceSz \in Nat
  PROVE  NewLimit \in Nat
  <1>1. NumVProcs \in Nat
    BY Counts
  <1>2. HeapScaleNum * toSpaceSz \in Nat /\ NumVProcs * PerVProcSz \in Nat
    BY <1>1, GlobalGCAssumption
  <1>3. \A k \in Nat, d \in Nat \ {0} : k \div d \in Nat
    OBVIOUS
  <1>4. (HeapScaleNum * toSpaceSz) \div HeapScaleDenom \in Nat
    BY <1>2, <1>3, GlobalGCAssumption
  <1> QED
    BY <1>2, <1>4 DEF NewLimit, Larger

(* When the leader gives from-space back, no chunk is left unscanned. *)
LEMMA ReclaimReady ==
  ASSUME HeapInv, ControlInv, AfterCopying(leader)
  PROVE  /\ Collecting
         /\ \A n \in Nodes : unscannedTo[n] = {}
         /\ \A u \in VProcs : pc[u] \in Copied
  <1> USE DEF ControlInv
  <1>1. leader \in VProcs
    BY DEF ControlTypes
  <1>2. pc[leader] = "barrier1" /\ \A u \in VProcs : pc[u] \in Copied
    BY <1>1, AllCopied DEF At
  <1>3. Collecting
    BY <1>1, <1>2, Phases DEF ControlBetween, At
  <1>4. \A u \in VProcs : unscannedTo[NodeOf[u]] = {}
    BY <1>2, <1>3 DEF HeapInv, Detection, Copied, ScanOver
  <1>5. \A n \in Nodes : unscannedTo[n] = {}
    BY <1>4 DEF HeapInv, EmptyLists
  <1> QED
    BY <1>2, <1>3, <1>5

LEMMA HeapReclaim ==
  ASSUME HeapInv, ControlInv, ControlInv', AfterCopying(leader)
  PROVE  HeapInv'
  <1> USE DEF ControlInv
  <1>1. leader \in VProcs /\ pc \in [VProcs -> {"run", "barrier2"} \union Entering \union Copiers]
    BY DEF ControlTypes
  <1>2. Goto(leader, "barrier2") /\ Reclaim(leader) /\ UNCHANGED <<detection, scan>>
    BY DEF AfterCopying
  <1>3. Collecting /\ (\A n \in Nodes : unscannedTo[n] = {}) /\ \A u \in VProcs : pc[u] \in Copied
    BY ReclaimReady
  <1>4. \A u \in VProcs : pc'[u] \in Copied
    BY <1>1, <1>2, <1>3 DEF Goto, Copied
  <1>5. ~ Collecting' /\ ~ Started' /\ ~ Settling' /\ ~ Settling
    BY <1>2, <1>3 DEF Reclaim, Collecting, Started, Settling, At, Copied, SettingUp
  <1> USE DEF HeapInv
  <1>6. HeapTypes'
    BY <1>2, LimitType, ToSpaceAssumption DEF HeapTypes, Reclaim, detection, scan
  <1>7. \A n \in Nodes : /\ freeChunks'[n] = freeChunks[n] \union fromSpace[n]
                         /\ unscannedTo'[n] = scannedTo[n]
                         /\ scannedTo'[n] = {}
                         /\ fromSpace'[n] = {}
    BY <1>2 DEF Reclaim, HeapTypes
  <1>8. \A c \in Chunks : sts'[c] = IF \E n \in Nodes : c \in fromSpace[n] THEN "free" ELSE sts[c]
    BY <1>2 DEF Reclaim
  <1>9. own' = own /\ scanChunk' = scanChunk /\ toSpaceSz' = toSpaceSz /\ numWaiting' = numWaiting
        /\ \A u \in VProcs : Held(u)' = Held(u)
    BY <1>2 DEF Reclaim, scan, detection, Held
  <1>10. OwnChunks'
    BY <1>3, <1>4, <1>9 DEF OwnChunks, Copied
  <1>11. Waiting'
    <2>1. \A n : ScanWaiting(n)' = {} /\ ScanWaiting(n) = {}
      BY <1>3, <1>4 DEF ScanWaiting, Copied
    <2> QED
      BY <1>9, <2>1 DEF Waiting
  <1>12. Detection' /\ Scanned'
    BY <1>5, <1>7 DEF Detection, Scanned
  <1>13. Statuses'
    BY <1>7, <1>8, <1>9 DEF Places, Statuses
  <1>14. OnePlace'
    <2>1. \A n, m \in Nodes : freeChunks[n] \intersect fromSpace[m] = {}
      BY DEF Places, Statuses, HeapTypes
    <2> QED
      BY <1>7, <1>9, <2>1 DEF Places, OnePlace
  <1>15. SomePlace'
    BY <1>3, <1>7, <1>8, <1>9 DEF Places, SomePlace
  <1>16. EmptyLists'
    BY <1>4, <1>7, <1>5 DEF EmptyLists, Copied
  <1>17. Sized'
    <2>1. ToChunks' = ToChunks
      BY <1>8 DEF ToChunks, Places, Statuses
    <2> QED
      BY <1>5, <1>9, <2>1 DEF Sized
  <1> QED
    BY <1>6, <1>10, <1>11, <1>12, <1>13, <1>14, <1>15, <1>16, <1>17 DEF Places

(* A chunk for to-space was nowhere in it. *)
LEMMA Fresh ==
  ASSUME HeapInv, NEW v \in VProcs, NEW c \in Chunks, AllocToSpaceChunk(v, c)
  PROVE  /\ sts[c] \in {"unmapped", "free"}
         /\ sts' = [sts EXCEPT ![c] = "to"]
         /\ freeChunks' = [freeChunks EXCEPT ![NodeOf[v]] = @ \ {c}]
         /\ \A n \in Nodes : c \notin freeChunks'[n]
         /\ \A n \in Nodes : c \notin unscannedTo[n] \union scannedTo[n] \union fromSpace[n]
         /\ \A u \in VProcs : c \notin Held(u)
         /\ toSpaceSz' = toSpaceSz + 1
         /\ Cardinality(ToChunks') = Cardinality(ToChunks) + 1
  <1> USE DEF HeapInv, HeapTypes
  <1>1. sts' = [sts EXCEPT ![c] = "to"]
        /\ freeChunks' = [freeChunks EXCEPT ![NodeOf[v]] = @ \ {c}]
        /\ toSpaceSz' = toSpaceSz + 1
    BY DEF AllocToSpaceChunk
  <1>2. NodeOf[v] \in Nodes
    BY ToSpaceAssumption
  <1>3. \/ c \in freeChunks[NodeOf[v]] /\ sts[c] = "free"
        \/ sts[c] = "unmapped"
    <2>1. c \in FreshChunk(NodeOf[v])
      BY DEF AllocToSpaceChunk
    <2>2. \A S : (CHOOSE x \in S : TRUE) = c => S = {} \/ c \in S
      OBVIOUS
    <2>3. c \in freeChunks[NodeOf[v]] \/ c \in {d \in Chunks : sts[d] = "unmapped"}
      BY <2>1, <2>2 DEF FreshChunk
    <2> QED
      BY <1>2, <2>3 DEF Places, Statuses
  <1>4. \A n \in Nodes : c \notin freeChunks'[n]
    BY <1>1, <1>2, <1>3 DEF Places, Statuses, OnePlace
  <1>5. /\ \A n \in Nodes : c \notin unscannedTo[n] \union scannedTo[n] \union fromSpace[n]
        /\ \A u \in VProcs : c \notin Held(u)
    BY <1>3 DEF Places, Statuses
  <1>6. ToChunks' = ToChunks \union {c} /\ c \notin ToChunks
    BY <1>1, <1>3 DEF ToChunks
  <1>7. IsFiniteSet(ToChunks)
    BY ToSpaceAssumption, FS_Subset, ToChunks \in SUBSET Chunks DEF ToChunks
  <1>8. Cardinality(ToChunks \union {c}) = Cardinality(ToChunks) + 1
    BY <1>6, <1>7, FS_AddElement
  <1> QED
    BY <1>1, <1>3, <1>4, <1>5, <1>6, <1>8

LEMMA OneOwn ==
  ASSUME NEW s \in Seq(Chunks), Len(s) = 1
  PROVE  /\ s # <<>> /\ NoDup(s)
         /\ Last(s) \in Chunks
         /\ ToSet(s) = {Last(s)}
  <1>1. s # <<>>
    <2>1. Len(<<>>) = 0
      OBVIOUS
    <2>2. s = <<>> => Len(s) = 0
      BY <2>1, Zenon
    <2> QED
      BY <2>2
  <1>2. NoDup(s)
    <2>1. \A i \in 1..1 : i = 1
      OBVIOUS
    <2> QED
      BY <2>1 DEF NoDup
  <1> QED
    BY <1>1, <1>2, LastChunk

(* What is to-space on a vproc and its node is distributed anew among the   *)
(* vproc and the node's two lists, with what comes from the free list or   *)
(* from the operating system.                                              *)
LEMMA Redistribute ==
  ASSUME Places, HeapTypes, HeapTypes', NEW v \in VProcs, NEW F \in SUBSET Chunks,
         \A c \in F : sts[c] \in {"unmapped", "free"},
         \A c \in Chunks : sts'[c] = IF c \in F THEN "to" ELSE sts[c],
         fromSpace' = fromSpace,
         \A n \in Nodes : freeChunks'[n] = freeChunks[n] \ F,
         \A n \in Nodes : n # NodeOf[v] =>
           unscannedTo'[n] = unscannedTo[n] /\ scannedTo'[n] = scannedTo[n],
         \A u \in VProcs : u # v => Held(u)' = Held(u),
         Held(v)' \union unscannedTo'[NodeOf[v]] \union scannedTo'[NodeOf[v]]
           = Held(v) \union unscannedTo[NodeOf[v]] \union scannedTo[NodeOf[v]] \union F,
         Held(v)' \intersect (unscannedTo'[NodeOf[v]] \union scannedTo'[NodeOf[v]]) = {},
         unscannedTo'[NodeOf[v]] \intersect scannedTo'[NodeOf[v]] = {}
  PROVE  Places'
  <1> DEFINE k == NodeOf[v]
             Before == Held(v) \union unscannedTo[k] \union scannedTo[k]
  <1>1. k \in Nodes
    BY ToSpaceAssumption
  <1> HIDE DEF k
  <1>2. Held(v)' \subseteq Before \union F /\ unscannedTo'[k] \subseteq Before \union F
        /\ scannedTo'[k] \subseteq Before \union F
    BY DEF k
  <1>3. Before \subseteq Chunks /\ \A c \in Before : sts[c] = "to"
    BY <1>1 DEF Places, Statuses, HeapTypes, Held
  <1>4. \A c \in Before \union F : sts'[c] = "to"
    BY <1>3
  <1>5. \A c \in Before \union F :
          /\ \A n \in Nodes : n # k => c \notin unscannedTo[n] \union scannedTo[n]
          /\ \A u \in VProcs : u # v => c \notin Held(u)
    <2>1. \A c \in F : /\ \A n \in Nodes : c \notin unscannedTo[n] \union scannedTo[n]
                       /\ \A u \in VProcs : c \notin Held(u)
      BY DEF Places, Statuses
    <2>2. \A c \in Before :
            /\ \A n \in Nodes : n # k => c \notin unscannedTo[n] \union scannedTo[n]
            /\ \A u \in VProcs : u # v => c \notin Held(u)
      BY <1>1 DEF Places, OnePlace
    <2> QED
      BY <2>1, <2>2
  <1> HIDE DEF Before
  <1>6. Statuses'
    <2>1. ASSUME NEW n \in Nodes, NEW c \in Chunks
          PROVE  /\ c \in fromSpace'[n] => sts'[c] = "from"
                 /\ c \in freeChunks'[n] => sts'[c] = "free"
                 /\ c \in unscannedTo'[n] \union scannedTo'[n] => sts'[c] = "to"
      <3>1. c \in fromSpace'[n] => sts'[c] = "from"
        BY DEF Places, Statuses
      <3>2. c \in freeChunks'[n] => sts'[c] = "free"
        BY DEF Places, Statuses
      <3>3. CASE n = k
        BY <1>2, <1>4, <3>1, <3>2, <3>3
      <3>4. CASE n # k
        <4>1. unscannedTo'[n] = unscannedTo[n] /\ scannedTo'[n] = scannedTo[n]
          BY <3>4 DEF k
        <4>2. c \in unscannedTo'[n] \union scannedTo'[n] => sts[c] = "to"
          BY <4>1 DEF Places, Statuses
        <4> QED
          BY <3>1, <3>2, <4>2
      <3> QED
        BY <3>3, <3>4
    <2>2. ASSUME NEW u \in VProcs, NEW c \in Chunks, c \in Held(u)'
          PROVE  sts'[c] = "to"
      <3>1. CASE u = v
        BY <1>2, <1>4, <2>2, <3>1
      <3>2. CASE u # v
        BY <2>2, <3>2 DEF Places, Statuses
      <3> QED
        BY <3>1, <3>2
    <2> QED
      BY <2>1, <2>2 DEF Statuses
  <1>7. OnePlace'
    <2> USE DEF Places, OnePlace
    <2>1. \A n, m \in Nodes : n # m =>
            /\ fromSpace'[n] \intersect fromSpace'[m] = {}
            /\ freeChunks'[n] \intersect freeChunks'[m] = {}
      OBVIOUS
    <2>2. ASSUME NEW n \in Nodes, n # k
          PROVE  /\ unscannedTo'[n] = unscannedTo[n] /\ scannedTo'[n] = scannedTo[n]
                 /\ unscannedTo'[n] \intersect (Before \union F) = {}
                 /\ scannedTo'[n] \intersect (Before \union F) = {}
      BY <1>5, <2>2 DEF k
    <2>3. \A n, m \in Nodes : n # m =>
            /\ unscannedTo'[n] \intersect unscannedTo'[m] = {}
            /\ scannedTo'[n] \intersect scannedTo'[m] = {}
      BY <1>2, <2>2
    <2>4. unscannedTo'[k] \intersect scannedTo'[k] = {}
      BY DEF k
    <2>5. \A n, m \in Nodes : unscannedTo'[n] \intersect scannedTo'[m] = {}
      BY <1>2, <2>2, <2>4
    <2>6. ASSUME NEW u \in VProcs, u # v
          PROVE  Held(u)' = Held(u) /\ Held(u)' \intersect (Before \union F) = {}
      BY <1>5, <2>6
    <2>7. \A u, w \in VProcs : u # w => Held(u)' \intersect Held(w)' = {}
      BY <1>2, <2>6
    <2>8. Held(v)' \intersect (unscannedTo'[k] \union scannedTo'[k]) = {}
      BY DEF k
    <2>9. \A u \in VProcs, n \in Nodes :
            Held(u)' \intersect (unscannedTo'[n] \union scannedTo'[n]) = {}
      BY <1>2, <2>2, <2>6, <2>8
    <2> QED
      BY <2>1, <2>3, <2>5, <2>7, <2>9
  <1>8. SomePlace'
    <2> SUFFICES ASSUME NEW c \in Chunks
                 PROVE  /\ sts'[c] = "from" => \E n \in Nodes : c \in fromSpace'[n]
                        /\ sts'[c] = "free" => \E n \in Nodes : c \in freeChunks'[n]
                        /\ sts'[c] = "to" =>
                             \/ \E n \in Nodes : c \in unscannedTo'[n] \union scannedTo'[n]
                             \/ \E u \in VProcs : c \in Held(u)'
      BY DEF SomePlace
    <2>1. CASE c \in Before \union F
      <3>1. c \in Held(v)' \union unscannedTo'[k] \union scannedTo'[k]
        BY <2>1 DEF Before, k
      <3> QED
        BY <1>1, <1>4, <2>1, <3>1
    <2>2. CASE c \notin Before \union F
      <3>1. sts'[c] = sts[c] /\ \A n \in Nodes : c \in freeChunks[n] => c \in freeChunks'[n]
        BY <2>2
      <3>2. \A n \in Nodes : c \in unscannedTo[n] \union scannedTo[n] =>
              c \in unscannedTo'[n] \union scannedTo'[n]
        BY <2>2 DEF Before, k
      <3>3. \A u \in VProcs : c \in Held(u) => c \in Held(u)'
        BY <2>2 DEF Before
      <3> QED
        BY <3>1, <3>2, <3>3 DEF Places, SomePlace
    <2> QED
      BY <2>1, <2>2
  <1> QED
    BY <1>6, <1>7, <1>8 DEF Places

LEMMA HeapNewChunk ==
  ASSUME HeapInv, ControlInv, ControlInv', NEW v \in VProcs, NewChunk(v)
  PROVE  HeapInv'
  <1>1. PICK c \in Chunks : AllocToSpaceChunk(v, c) /\ own' = [own EXCEPT ![v] = <<c>>]
    BY DEF NewChunk
  <1>2. pc[v] = "run" /\ UNCHANGED <<scannedTo, fromSpace, copied, scanned, detection, scan, pc,
                                     flags, toSpaceLimit>>
        /\ unscannedTo' = [unscannedTo EXCEPT ![NodeOf[v]] = @ \union {Alloc(v)}]
    BY DEF NewChunk
  <1>3. ~ Collecting /\ ~ Collecting' /\ ~ Settling /\ ~ Settling' /\ ~ Started
    BY <1>2, Phases DEF Collecting, flags, handshake, Settling, Started
  <1>4. NodeOf[v] \in Nodes
    BY ToSpaceAssumption
  <1>5. /\ sts[c] \in {"unmapped", "free"}
        /\ sts' = [sts EXCEPT ![c] = "to"]
        /\ freeChunks' = [freeChunks EXCEPT ![NodeOf[v]] = @ \ {c}]
        /\ \A n \in Nodes : c \notin freeChunks'[n]
        /\ \A n \in Nodes : c \notin unscannedTo[n] \union scannedTo[n] \union fromSpace[n]
        /\ \A u \in VProcs : c \notin Held(u)
        /\ toSpaceSz' = toSpaceSz + 1
        /\ Cardinality(ToChunks') = Cardinality(ToChunks) + 1
    BY <1>1, Fresh
  <1> DEFINE a == Alloc(v)
  <1> USE DEF HeapInv
  <1>6. a \in Chunks /\ ToSet(own[v]) = {a} /\ scanChunk[v] = NoChunk
    <2>1. own[v] \in Seq(Chunks) /\ Len(own[v]) = 1
      BY <1>2 DEF OwnChunks, HeapTypes
    <2> QED
      BY <1>2, <2>1, OneOwn DEF Alloc, OwnChunks
  <1>7. Held(v) = {a}
    BY <1>6, ToSpaceAssumption DEF Held
  <1>8. \A u \in VProcs : own'[u] = IF u = v THEN <<c>> ELSE own[u]
    BY <1>1 DEF HeapTypes
  <1>9. \A u \in VProcs : Held(u)' = IF u = v THEN {c} ELSE Held(u)
    BY <1>2, <1>6, <1>8, OneChunk, ToSpaceAssumption DEF Held, scan
  <1> HIDE DEF a
  <1>10. \A n \in Nodes : unscannedTo'[n] = IF n = NodeOf[v] THEN unscannedTo[n] \union {a}
                                            ELSE unscannedTo[n]
    BY <1>2, <1>4 DEF HeapTypes, a
  <1>11. HeapTypes'
    <2>1. own' \in [VProcs -> Seq(Chunks)]
      BY <1>1, OneChunk DEF HeapTypes
    <2>2. unscannedTo' \in [Nodes -> SUBSET Chunks]
      BY <1>2, <1>6 DEF HeapTypes, a
    <2>3. sts' \in [Chunks -> {"unmapped", "free", "to", "from"}]
      BY <1>5 DEF HeapTypes
    <2>4. freeChunks' \in [Nodes -> SUBSET Chunks]
      BY <1>5 DEF HeapTypes
    <2>5. toSpaceSz' \in Nat
      BY <1>5 DEF HeapTypes
    <2> QED
      BY <1>2, <2>1, <2>2, <2>3, <2>4, <2>5 DEF HeapTypes, detection, scan
  <1>12. OwnChunks'
    BY <1>2, <1>8, OneChunk DEF OwnChunks, scan
  <1>13. Waiting'
    BY <1>2 DEF Waiting, ScanWaiting, detection
  <1>14. Detection' /\ Scanned'
    BY <1>2, <1>3 DEF Detection, Scanned, AllScanned
  <1>15. Places'
    <2> DEFINE k == NodeOf[v]
    <2>1. unscannedTo'[k] = unscannedTo[k] \union {a} /\ scannedTo' = scannedTo
          /\ \A n \in Nodes : n # k => unscannedTo'[n] = unscannedTo[n]
      BY <1>2, <1>4, <1>10
    <2>2. a \notin unscannedTo[k] \union scannedTo[k] /\ unscannedTo[k] \intersect scannedTo[k] = {}
      BY <1>4, <1>7 DEF Places, OnePlace
    <2>3. c \notin unscannedTo[k] \union scannedTo[k] /\ a # c
      BY <1>4, <1>5, <1>7
    <2>4. \A d \in Chunks : sts'[d] = IF d \in {c} THEN "to" ELSE sts[d]
      BY <1>5 DEF HeapTypes
    <2>5. \A n \in Nodes : freeChunks'[n] = freeChunks[n] \ {c}
      BY <1>5 DEF HeapTypes
    <2>6. Held(v)' = {c} /\ Held(v) = {a} /\ \A u \in VProcs : u # v => Held(u)' = Held(u)
      BY <1>7, <1>9
    <2>7. Held(v)' \union unscannedTo'[k] \union scannedTo'[k]
            = Held(v) \union unscannedTo[k] \union scannedTo[k] \union {c}
      BY <2>1, <2>6
    <2>8. Held(v)' \intersect (unscannedTo'[k] \union scannedTo'[k]) = {}
          /\ unscannedTo'[k] \intersect scannedTo'[k] = {}
      BY <2>1, <2>2, <2>3, <2>6
    <2> QED
      BY <1>2, <1>5, <1>11, <2>1, <2>4, <2>5, <2>6, <2>7, <2>8, Redistribute
  <1>16. EmptyLists'
    BY <1>2, <1>3, <1>10, Phases DEF EmptyLists
  <1>17. Sized'
    BY <1>3, <1>5 DEF Sized
  <1> QED
    BY <1>11, <1>12, <1>13, <1>14, <1>15, <1>16, <1>17

(* Before a collection has copied anything. *)
LEMMA HeapSetup ==
  ASSUME HeapInv, ControlInv, ControlInv', NEW v \in VProcs, Setup(v)
  PROVE  HeapInv'
  <1> USE DEF ControlInv, HeapInv
  <1> DEFINE k == NodeOf[v]
             old == ToSet(own[v]) \union unscannedTo[k]
  <1>1. pc[v] = "setup" /\ Goto(v, "barrier0") /\ completed' = [completed EXCEPT ![k] = FALSE]
        /\ ConvertToSpaceChunks(k, old) /\ unscannedTo' = [unscannedTo EXCEPT ![k] = {}]
        /\ own' = [own EXCEPT ![v] = <<>>]
        /\ UNCHANGED <<scannedTo, freeChunks, copied, scanned, toSpaceSz, numWaiting, scanBlocked,
                       scan, inProgress, allReady, toSpaceLimit>>
    BY DEF Setup, TakeUnscanned, flags, handshake
  <1>2. Collecting /\ Collecting' /\ ControlCollecting /\ ControlCollecting'
    BY <1>1, Phases DEF Collecting, Control
  <1>3. k \in Nodes
    BY ToSpaceAssumption
  <1>4. pc \in [VProcs -> {"run", "barrier2"} \union Entering \union Copiers]
        /\ \A u \in VProcs : pc'[u] = IF u = v THEN "barrier0" ELSE pc[u]
    BY <1>1 DEF ControlTypes, Goto
  <1>5. Settling /\ ~ Started
    <2>1. v \in At(SettingUp)
      BY <1>1 DEF At, SettingUp
    <2> QED
      BY <1>2, <2>1 DEF Settling, Started, ControlCollecting
  <1>6. \A u \in VProcs : pc[u] \in {"followerWait", "setup", "barrier0"}
                          /\ pc'[u] \in {"followerWait", "setup", "barrier0"}
    BY <1>2, <1>4, <1>5 DEF Started, At, ControlCollecting, SettingUp, SetUp
  <1>7. ~ Started'
    BY <1>6 DEF Started, At, Copiers
  <1>8. own[v] \in Seq(Chunks) /\ ToSet(own[v]) \subseteq Chunks /\ Held(v) = ToSet(own[v])
    <2>1. own[v] \in Seq(Chunks) /\ Len(own[v]) = 1 /\ scanChunk[v] = NoChunk
      BY <1>1 DEF OwnChunks, HeapTypes
    <2>2. ToSet(own[v]) \subseteq Chunks
      BY <2>1, OneOwn
    <2> QED
      BY <2>1, <2>2, ToSpaceAssumption DEF Held
  <1>9. old = Held(v) \union unscannedTo[k] /\ old \subseteq Chunks
    BY <1>3, <1>8 DEF HeapTypes
  <1> HIDE DEF old, k
  <1>10. \A u \in VProcs : own'[u] = IF u = v THEN <<>> ELSE own[u]
    BY <1>1 DEF HeapTypes
  <1>11. \A u \in VProcs : Held(u)' = IF u = v THEN {} ELSE Held(u)
    BY <1>1, <1>6, <1>10, NoChunks, ToSpaceAssumption DEF Held, scan, OwnChunks
  <1>12. \A n \in Nodes : /\ unscannedTo'[n] = IF n = k THEN {} ELSE unscannedTo[n]
                          /\ fromSpace'[n] = IF n = k THEN fromSpace[n] \union old ELSE fromSpace[n]
                          /\ completed'[n] = IF n = k THEN FALSE ELSE completed[n]
                          /\ scannedTo[n] = {} /\ scannedTo'[n] = {}
    BY <1>1, <1>3, <1>5 DEF HeapTypes, ConvertToSpaceChunks, EmptyLists
  <1>13. \A c \in Chunks : sts'[c] = IF c \in old THEN "from" ELSE sts[c]
    BY <1>1 DEF ConvertToSpaceChunks
  <1>14. HeapTypes'
    <2>1. own' \in [VProcs -> Seq(Chunks)]
      BY <1>1, NoChunks DEF HeapTypes
    <2>2. sts' \in [Chunks -> {"unmapped", "free", "to", "from"}]
      BY <1>1 DEF HeapTypes, ConvertToSpaceChunks
    <2>3. fromSpace' \in [Nodes -> SUBSET Chunks]
      BY <1>1, <1>3, <1>9 DEF HeapTypes, ConvertToSpaceChunks
    <2>4. unscannedTo' \in [Nodes -> SUBSET Chunks] /\ completed' \in [Nodes -> BOOLEAN]
      BY <1>1 DEF HeapTypes
    <2> QED
      BY <1>1, <2>1, <2>2, <2>3, <2>4 DEF HeapTypes, scan
  <1>15. OwnChunks'
    BY <1>1, <1>4, <1>6, <1>10, NoChunks DEF OwnChunks, scan
  <1>16. Waiting'
    <2>1. \A n : ScanWaiting(n)' = {} /\ ScanWaiting(n) = {}
      BY <1>6 DEF ScanWaiting
    <2> QED
      BY <1>1, <2>1 DEF Waiting
  <1>17. Detection'
    <2>1. ASSUME NEW u \in VProcs, pc'[u] = "barrier0"
          PROVE  ~ completed'[NodeOf[u]]
      <3>1. NodeOf[u] \in Nodes
        BY ToSpaceAssumption
      <3>2. CASE NodeOf[u] = k
        BY <1>3, <1>12, <3>2
      <3>3. CASE NodeOf[u] # k
        <4>1. pc[u] = "barrier0"
          BY <1>4, <2>1, <3>3 DEF k
        <4>2. ~ completed[NodeOf[u]]
          BY <1>2, <4>1 DEF Detection, MayScan
        <4> QED
          BY <1>12, <3>1, <3>3, <4>2
      <3> QED
        BY <3>2, <3>3
    <2> QED
      BY <1>6, <2>1 DEF Detection, MayScan, ScanOver
  <1>18. Scanned'
    BY <1>6, <1>12 DEF Scanned, ScanOver
  <1>19. \A c \in old : sts[c] = "to"
    BY <1>3, <1>9 DEF Places, Statuses
  <1>20. Statuses'
    <2>1. ASSUME NEW n \in Nodes, NEW c \in Chunks
          PROVE  /\ c \in fromSpace'[n] => sts'[c] = "from"
                 /\ c \in freeChunks'[n] => sts'[c] = "free"
      <3>1. c \in fromSpace'[n] => c \in old \/ sts[c] = "from"
        BY <1>12 DEF Places, Statuses
      <3>2. c \in freeChunks'[n] => sts[c] = "free" /\ c \notin old
        BY <1>1, <1>19 DEF Places, Statuses
      <3> QED
        BY <1>13, <3>1, <3>2
    <2>2. ASSUME NEW n \in Nodes, NEW c \in Chunks, c \in unscannedTo'[n]
          PROVE  sts'[c] = "to"
      <3>1. c \in unscannedTo[n] /\ n # k
        BY <1>12, <2>2
      <3>2. c \notin unscannedTo[k] /\ c \notin Held(v)
        BY <1>3, <3>1 DEF Places, OnePlace
      <3> QED
        BY <1>9, <1>13, <3>1, <3>2 DEF Places, Statuses
    <2>3. ASSUME NEW u \in VProcs, NEW c \in Chunks, c \in Held(u)'
          PROVE  sts'[c] = "to"
      <3>1. c \in Held(u) /\ u # v
        BY <1>11, <2>3
      <3>2. c \notin unscannedTo[k] /\ c \notin Held(v)
        BY <1>3, <3>1 DEF Places, OnePlace
      <3> QED
        BY <1>9, <1>13, <3>1, <3>2 DEF Places, Statuses
    <2> QED
      BY <1>12, <2>1, <2>2, <2>3 DEF Statuses
  <1>21. OnePlace'
    <2> USE DEF Places, OnePlace
    <2>1. \A n \in Nodes : fromSpace[n] \intersect old = {}
      BY <1>9, <1>19 DEF Statuses
    <2>2. \A n, m \in Nodes : n # m => fromSpace'[n] \intersect fromSpace'[m] = {}
      BY <1>12, <2>1
    <2>3. \A n, m \in Nodes : n # m => /\ freeChunks'[n] \intersect freeChunks'[m] = {}
                                     /\ unscannedTo'[n] \intersect unscannedTo'[m] = {}
      BY <1>1, <1>12
    <2>4. \A u, w \in VProcs : u # w => Held(u)' \intersect Held(w)' = {}
      BY <1>11
    <2>5. \A u \in VProcs, n \in Nodes : Held(u)' \intersect unscannedTo'[n] = {}
      BY <1>11, <1>12
    <2> QED
      BY <1>12, <2>2, <2>3, <2>4, <2>5
  <1>22. SomePlace'
    <2> SUFFICES ASSUME NEW c \in Chunks
                 PROVE  /\ sts'[c] = "from" => \E n \in Nodes : c \in fromSpace'[n]
                        /\ sts'[c] = "free" => \E n \in Nodes : c \in freeChunks'[n]
                        /\ sts'[c] = "to" =>
                             \/ \E n \in Nodes : c \in unscannedTo'[n] \union scannedTo'[n]
                             \/ \E u \in VProcs : c \in Held(u)'
      BY DEF SomePlace
    <2>1. CASE c \in old
      BY <1>3, <1>12, <1>13, <2>1
    <2>2. CASE c \notin old
      <3>1. sts'[c] = sts[c] /\ c \notin unscannedTo[k] /\ c \notin Held(v)
        BY <1>9, <1>13, <2>2
      <3>2. \A n \in Nodes : /\ c \in fromSpace[n] => c \in fromSpace'[n]
                             /\ c \in unscannedTo[n] => c \in unscannedTo'[n]
        BY <1>12, <3>1
      <3>3. \A u \in VProcs : c \in Held(u) => c \in Held(u)'
        BY <1>11, <3>1
      <3> QED
        BY <1>1, <1>12, <3>1, <3>2, <3>3 DEF Places, SomePlace
    <2> QED
      BY <2>1, <2>2
  <1>23. EmptyLists'
    <2>1. \A n \in Nodes : (\A u \in VProcs : NodeOf[u] # n) => unscannedTo'[n] = {}
      BY <1>12 DEF EmptyLists
    <2>2. \A u \in VProcs : pc'[u] = "barrier0" => unscannedTo'[NodeOf[u]] = {}
      BY <1>4, <1>5, <1>12, ToSpaceAssumption DEF EmptyLists, k
    <2> QED
      BY <1>12, <2>1, <2>2 DEF EmptyLists
  <1>24. Sized'
    <2>1. toSpaceSz' = 0
      BY <1>1, <1>5 DEF Sized
    <2>2. CASE ~ Settling'
      <3>1. \A u \in VProcs : pc'[u] = "barrier0"
        BY <1>2, <1>6, <2>2 DEF Settling, At, SettingUp
      <3>2. \A u \in VProcs : Held(u)' = {}
        BY <1>14, <1>15, <3>1, NoChunks, ToSpaceAssumption DEF OwnChunks, Held
      <3>3. \A n \in Nodes : unscannedTo'[n] = {} /\ scannedTo'[n] = {}
        BY <1>7, <1>23, <3>1 DEF EmptyLists
      <3>4. ToChunks' = {}
        BY <1>22, <3>2, <3>3 DEF ToChunks, SomePlace
      <3> QED
        BY <2>1, <2>2, <3>4, FS_EmptySet DEF Sized
    <2> QED
      BY <2>1, <2>2 DEF Sized
  <1> QED
    BY <1>14, <1>15, <1>16, <1>17, <1>18, <1>20, <1>21, <1>22, <1>23, <1>24 DEF Places

LEMMA HeapStartCopying ==
  ASSUME HeapInv, ControlInv, ControlInv', NEW v \in VProcs, StartCopying(v)
  PROVE  HeapInv'
  <1> USE DEF ControlInv, HeapInv
  <1>1. PICK c \in Chunks : AllocToSpaceChunk(v, c) /\ own' = [own EXCEPT ![v] = <<c>>]
    BY DEF StartCopying
  <1>2. pc[v] = "barrier0" /\ Goto(v, "roots")
        /\ UNCHANGED <<unscannedTo, scannedTo, fromSpace, copied, scanned, detection, scan,
                       inProgress, allReady, toSpaceLimit>>
    BY DEF StartCopying, flags, handshake
  <1>3. Collecting /\ Collecting' /\ At(SettingUp) = {}
    BY <1>2, ControlStartCopying DEF Collecting
  <1>4. pc \in [VProcs -> {"run", "barrier2"} \union Entering \union Copiers]
        /\ \A u \in VProcs : pc'[u] = IF u = v THEN "roots" ELSE pc[u]
    BY <1>2 DEF ControlTypes, Goto
  <1>5. Started' /\ ~ Settling /\ ~ Settling'
    <2>1. v \in At(Copiers \union {"barrier2"})' /\ At(SettingUp)' = {}
      BY <1>3, <1>4 DEF At, Copiers, SettingUp
    <2> QED
      BY <1>3, <2>1 DEF Started, Settling
  <1>6. /\ sts[c] \in {"unmapped", "free"}
        /\ sts' = [sts EXCEPT ![c] = "to"]
        /\ freeChunks' = [freeChunks EXCEPT ![NodeOf[v]] = @ \ {c}]
        /\ \A n \in Nodes : c \notin freeChunks'[n]
        /\ \A n \in Nodes : c \notin unscannedTo[n] \union scannedTo[n] \union fromSpace[n]
        /\ toSpaceSz' = toSpaceSz + 1
        /\ Cardinality(ToChunks') = Cardinality(ToChunks) + 1
    BY <1>1, Fresh
  <1>7. \A u \in VProcs : own'[u] = IF u = v THEN <<c>> ELSE own[u]
    BY <1>1 DEF HeapTypes
  <1>8. Held(v) = {} /\ \A u \in VProcs : Held(u)' = IF u = v THEN {c} ELSE Held(u)
    BY <1>2, <1>7, OneChunk, NoChunks, ToSpaceAssumption DEF Held, scan, OwnChunks
  <1>9. HeapTypes'
    <2>1. own' \in [VProcs -> Seq(Chunks)]
      BY <1>1, OneChunk DEF HeapTypes
    <2>2. sts' \in [Chunks -> {"unmapped", "free", "to", "from"}]
      BY <1>6 DEF HeapTypes
    <2>3. freeChunks' \in [Nodes -> SUBSET Chunks]
      BY <1>6 DEF HeapTypes
    <2>4. toSpaceSz' \in Nat
      BY <1>6 DEF HeapTypes
    <2> QED
      BY <1>2, <2>1, <2>2, <2>3, <2>4 DEF HeapTypes, detection, scan
  <1>10. OwnChunks'
    <2>1. <<c>> # <<>>
      OBVIOUS
    <2> QED
      BY <1>2, <1>4, <1>7, <2>1, OneChunk DEF OwnChunks, scan
  <1>11. Waiting'
    <2>1. \A n : ScanWaiting(n)' = ScanWaiting(n)
      BY <1>2, <1>4 DEF ScanWaiting
    <2> QED
      BY <1>2, <2>1 DEF Waiting, detection
  <1>12. Detection'
    BY <1>2, <1>3, <1>4 DEF Detection, MayScan, ScanOver, detection
  <1>13. Scanned'
    BY <1>2, <1>3, <1>4, <1>7 DEF Scanned, ScanOver, AllScanned, Alloc
  <1>14. Places'
    <2>1. NodeOf[v] \in Nodes
      BY ToSpaceAssumption
    <2>2. unscannedTo[NodeOf[v]] \intersect scannedTo[NodeOf[v]] = {}
      BY <2>1 DEF Places, OnePlace
    <2>3. \A d \in Chunks : sts'[d] = IF d \in {c} THEN "to" ELSE sts[d]
      BY <1>6 DEF HeapTypes
    <2>4. \A n \in Nodes : freeChunks'[n] = freeChunks[n] \ {c}
      BY <1>6 DEF HeapTypes
    <2>5. Held(v)' = {c} /\ Held(v) = {} /\ \A u \in VProcs : u # v => Held(u)' = Held(u)
      BY <1>8
    <2>6. unscannedTo' = unscannedTo /\ scannedTo' = scannedTo /\ fromSpace' = fromSpace
      BY <1>2
    <2>7. Held(v)' \union unscannedTo'[NodeOf[v]] \union scannedTo'[NodeOf[v]]
            = Held(v) \union unscannedTo[NodeOf[v]] \union scannedTo[NodeOf[v]] \union {c}
      BY <2>5, <2>6
    <2>8. Held(v)' \intersect (unscannedTo'[NodeOf[v]] \union scannedTo'[NodeOf[v]]) = {}
          /\ unscannedTo'[NodeOf[v]] \intersect scannedTo'[NodeOf[v]] = {}
      BY <1>6, <2>1, <2>2, <2>5, <2>6
    <2> QED
      BY <1>6, <1>9, <2>3, <2>4, <2>5, <2>6, <2>7, <2>8, Redistribute
  <1>15. EmptyLists'
    BY <1>2, <1>5 DEF EmptyLists
  <1>16. Sized'
    BY <1>5, <1>6 DEF Sized
  <1> QED
    BY <1>9, <1>10, <1>11, <1>12, <1>13, <1>14, <1>15, <1>16

----------------------------------------------------------------------------
(* The scan. *)

LEMMA ScanPhase ==
  ASSUME ControlInv, NEW v \in VProcs, Copying(v)
  PROVE  /\ Collecting /\ Collecting' /\ Started /\ Started' /\ ~ Settling /\ ~ Settling'
         /\ toSpaceLimit' = toSpaceLimit
  <1>1. Scan(v) /\ toSpaceLimit' = toSpaceLimit /\ UNCHANGED <<inProgress, allReady>>
    BY DEF Copying, flags, handshake
  <1>2. pc[v] \in Active /\ pc'[v] \in Active
    BY <1>1, ScanStays DEF ControlInv, ControlTypes, Goto
  <1>3. Collecting /\ Collecting' /\ ControlCollecting
    BY <1>1, <1>2, Phases DEF Collecting
  <1>4. ControlCollecting'
    BY <1>3, ControlCopying DEF ControlInv, Control, Collecting
  <1>5. v \in At(Copiers \union {"barrier2"}) /\ v \in At(Copiers \union {"barrier2"})'
    BY <1>2 DEF At, Active
  <1> QED
    BY <1>1, <1>3, <1>4, <1>5 DEF ControlCollecting, Started, Settling

(* The allocation chunk is one that the vproc holds. *)
LEMMA AllocHeld ==
  ASSUME HeapTypes, OwnChunks, NEW v \in VProcs, pc[v] # "barrier0"
  PROVE  /\ own[v] \in Seq(Chunks) /\ own[v] # <<>> /\ NoDup(own[v])
         /\ Alloc(v) \in Chunks
         /\ ToSet(own[v]) = ToSet(Front(own[v])) \union {Alloc(v)}
         /\ Alloc(v) \notin ToSet(Front(own[v]))
         /\ ToSet(own[v]) \subseteq Chunks
         /\ Held(v) = ToSet(own[v]) \union ({scanChunk[v]} \ {NoChunk})
         /\ pc[v] \notin {"roots", "scan"} => Held(v) = {Alloc(v)}
  <1>1. own[v] \in Seq(Chunks) /\ NoDup(own[v])
    BY DEF HeapTypes, OwnChunks
  <1>2. own[v] # <<>>
    BY <1>1, OneOwn DEF OwnChunks
  <1>3. /\ Alloc(v) \in Chunks
        /\ ToSet(own[v]) = ToSet(Front(own[v])) \union {Alloc(v)}
        /\ Alloc(v) \notin ToSet(Front(own[v]))
        /\ ToSet(own[v]) \subseteq Chunks
    BY <1>1, <1>2, LastChunk DEF Alloc
  <1>4. Held(v) = ToSet(own[v]) \union ({scanChunk[v]} \ {NoChunk})
    BY <1>3, ToSpaceAssumption DEF Held, HeapTypes
  <1>5. pc[v] \notin {"roots", "scan"} => ToSet(own[v]) = {Alloc(v)} /\ scanChunk[v] = NoChunk
    BY <1>1, OneOwn DEF OwnChunks, Alloc
  <1> QED
    BY <1>1, <1>2, <1>3, <1>4, <1>5

(* What one vproc holds, no other one counts as scanned. *)
LEMMA NotOthers ==
  ASSUME HeapInv, NEW v \in VProcs, NEW c \in Held(v)
  PROVE  /\ \A n \in Nodes : c \notin scannedTo[n]
         /\ \A u \in VProcs : u # v /\ pc[u] # "barrier0" => Alloc(u) # c
  <1> USE DEF HeapInv
  <1>1. \A n \in Nodes : c \notin scannedTo[n]
    BY DEF Places, OnePlace
  <1>2. ASSUME NEW u \in VProcs, u # v, pc[u] # "barrier0"
        PROVE  Alloc(u) # c
    <2>1. Alloc(u) \in Held(u)
      BY <1>2, AllocHeld
    <2> QED
      BY <1>2, <2>1 DEF Places, OnePlace
  <1> QED
    BY <1>1, <1>2

LEMMA HeapScanWaitSignals ==
  ASSUME HeapInv, ControlInv, NEW v \in VProcs,
         \/ Copying(v) /\ (SignalScanWait(v) \/ BroadcastScanWait(v))
         \/ Spurious(v)
  PROVE  HeapInv'
  <1> USE DEF ControlInv, HeapInv
  <1>1. UNCHANGED <<heapVars, numWaiting, completed, scan, toSpaceLimit, inProgress, allReady>>
        /\ scanBlocked' \subseteq scanBlocked
    BY DEF Copying, Spurious, SignalScanWait, BroadcastScanWait, SpuriousWakeup, flags, handshake
  <1>2. PICK l : /\ \A u \in VProcs : pc'[u] = IF u = v THEN l ELSE pc[u]
                 /\ \/ pc[v] = l
                    \/ pc[v] = "signal" /\ l = "next"
                    \/ pc[v] = "broadcast" /\ l = "finished"
    BY DEF Spurious, SignalScanWait, BroadcastScanWait, SpuriousWakeup, Goto, ControlTypes
  <1>3. Collecting' = Collecting /\ (Started' <=> Started) /\ (Settling' <=> Settling)
    <2>1. Collecting' = Collecting
      BY <1>1 DEF Collecting
    <2>2. At(Copiers \union {"barrier2"})' = At(Copiers \union {"barrier2"})
          /\ At(SettingUp)' = At(SettingUp)
      BY <1>2 DEF At, Copiers, SettingUp
    <2> QED
      BY <2>1, <2>2 DEF Started, Settling
  <1>4. HeapTypes'
    BY <1>1 DEF HeapTypes, heapVars, lists, scan
  <1>5. OwnChunks'
    BY <1>1, <1>2 DEF OwnChunks, heapVars, scan
  <1>6. Waiting'
    <2>1. \A n : ScanWaiting(n)' = ScanWaiting(n)
      BY <1>2 DEF ScanWaiting
    <2> QED
      BY <1>1, <2>1 DEF Waiting
  <1>7. Detection'
    BY <1>1, <1>2, <1>3 DEF Detection, MayScan, ScanOver, heapVars, lists
  <1>8. Scanned'
    BY <1>1, <1>2, <1>3 DEF Scanned, ScanOver, AllScanned, Alloc, heapVars, lists
  <1>9. Places'
    BY <1>1 DEF Places, Statuses, OnePlace, SomePlace, Held, heapVars, lists, scan
  <1>10. EmptyLists'
    BY <1>1, <1>2, <1>3 DEF EmptyLists, heapVars, lists
  <1>11. Sized'
    BY <1>1, <1>3 DEF Sized, ToChunks, heapVars
  <1> QED
    BY <1>4, <1>5, <1>6, <1>7, <1>8, <1>9, <1>10, <1>11

LEMMA HeapScanObject ==
  ASSUME HeapInv, ControlInv, NEW v \in VProcs, Copying(v), ScanObject(v) \/ ScanMore(v)
  PROVE  HeapInv'
  <1> USE DEF ControlInv, HeapInv
  <1> DEFINE c == scanChunk[v]
  <1>1. pc[v] = "scan" /\ UNCHANGED <<sts, own, lists, copied, toSpaceSz, detection, scanChunk, pc>>
    BY DEF ScanObject, ScanMore, AtTop, heapVars, scan
  <1>2. c \in Chunks /\ c \in Held(v)
    BY <1>1, ToSpaceAssumption DEF OwnChunks, HeapTypes, Held
  <1>3. Collecting /\ Collecting' /\ Started /\ Started' /\ ~ Settling /\ ~ Settling'
        /\ toSpaceLimit' = toSpaceLimit
    BY ScanPhase
  <1>4. /\ scanned' \in [Chunks -> 0..ChunkObjs]
        /\ scanTop' \in [VProcs -> 0..ChunkObjs]
        /\ \A d \in Chunks : d # c => scanned'[d] = scanned[d]
    <2>1. CASE ScanObject(v)
      <3>1. scanned' = [scanned EXCEPT ![c] = @ + 1] /\ scanned[c] < scanTop[v] /\ scanTop' = scanTop
        BY <2>1 DEF ScanObject, scan
      <3>2. scanned[c] + 1 \in 0..ChunkObjs
        BY <1>2, <3>1, ToSpaceAssumption DEF HeapTypes
      <3> QED
        BY <3>1, <3>2 DEF HeapTypes
    <2>2. CASE ScanMore(v)
      <3>1. scanTop' = [scanTop EXCEPT ![v] = copied[c]] /\ scanned' = scanned
        BY <2>2 DEF ScanMore, heapVars
      <3> QED
        BY <1>2, <3>1 DEF HeapTypes
    <2> QED
      BY <2>1, <2>2
  <1> HIDE DEF c
  <1>5. HeapTypes'
    BY <1>1, <1>3, <1>4 DEF HeapTypes, lists, detection
  <1>6. OwnChunks' /\ Waiting' /\ Detection' /\ Places'
    BY <1>1, <1>3
       DEF OwnChunks, Waiting, ScanWaiting, Detection, Places, Statuses, OnePlace, SomePlace, Held,
           lists, detection
  <1>7. Scanned'
    <2>1. \A d \in Chunks : d # c => (AllScanned(d)' <=> AllScanned(d))
      BY <1>1, <1>4 DEF AllScanned
    <2>2. \A n \in Nodes : \A d \in scannedTo[n] : AllScanned(d)'
      BY <1>2, <2>1, NotOthers DEF Scanned, HeapTypes
    <2>3. ASSUME NEW u \in VProcs, pc[u] \in ScanOver \union {"scanWait"}
          PROVE  AllScanned(Alloc(u))'
      <3>1. u # v /\ pc[u] # "barrier0"
        BY <1>1, <2>3 DEF ScanOver
      <3>2. Alloc(u) \in Chunks /\ Alloc(u) # c /\ Alloc(u)' = Alloc(u)
        BY <1>1, <1>2, <3>1, AllocHeld, NotOthers DEF Alloc
      <3> QED
        BY <1>3, <1>4, <1>1, <2>3, <3>2 DEF Scanned, AllScanned
    <2> QED
      BY <1>1, <2>2, <2>3 DEF Scanned, lists
  <1>8. EmptyLists'
    BY <1>1, <1>3 DEF EmptyLists, lists
  <1>9. Sized'
    BY <1>1, <1>3 DEF Sized, ToChunks
  <1> QED
    BY <1>5, <1>6, <1>7, <1>8, <1>9

(* What is copied goes to the end of the vproc's own chunks. *)
LEMMA HeapForward ==
  ASSUME HeapInv, ControlInv, NEW v \in VProcs, Copying(v), Forward(v)
  PROVE  HeapInv'
  <1> USE DEF ControlInv, HeapInv
  <1>1. pc[v] \in {"roots", "scan"}
        /\ UNCHANGED <<unscannedTo, scannedTo, fromSpace, scanned, detection, scan, pc>>
    BY DEF Forward
  <1>2. Collecting /\ Collecting' /\ Started /\ Started' /\ ~ Settling /\ ~ Settling'
        /\ toSpaceLimit' = toSpaceLimit
    BY ScanPhase
  <1>3. /\ own[v] \in Seq(Chunks) /\ own[v] # <<>> /\ NoDup(own[v])
        /\ Alloc(v) \in Chunks /\ Alloc(v) \in Held(v)
        /\ Held(v) = ToSet(own[v]) \union ({scanChunk[v]} \ {NoChunk})
    BY <1>1, AllocHeld
  <1>4. Waiting' /\ Detection'
    BY <1>1, <1>2 DEF Waiting, ScanWaiting, Detection, detection
  <1>5. EmptyLists'
    BY <1>1, <1>2 DEF EmptyLists
  <1>6. \A u \in VProcs : pc[u] \in ScanOver \union {"scanWait"} => u # v /\ pc[u] # "barrier0"
    BY <1>1 DEF ScanOver
  <1>7. CASE copied[Alloc(v)] < ChunkObjs /\ UNCHANGED <<sts, freeChunks, toSpaceSz, own>>
             /\ copied' = [copied EXCEPT ![Alloc(v)] = @ + 1]
    <2>1. HeapTypes'
      <3>1. copied' \in [Chunks -> 0..ChunkObjs]
        BY <1>3, <1>7, ToSpaceAssumption DEF HeapTypes
      <3> QED
        BY <1>1, <1>2, <1>7, <3>1 DEF HeapTypes, detection, scan
    <2>2. OwnChunks' /\ Places'
      BY <1>1, <1>7 DEF OwnChunks, Places, Statuses, OnePlace, SomePlace, Held, scan
    <2>3. \A d \in Chunks : d # Alloc(v) => (AllScanned(d)' <=> AllScanned(d))
      BY <1>1, <1>7 DEF AllScanned, HeapTypes
    <2>4. \A n \in Nodes : \A d \in scannedTo[n] : AllScanned(d)'
      BY <1>3, <2>3, NotOthers DEF Scanned, HeapTypes
    <2>5. ASSUME NEW u \in VProcs, pc[u] \in ScanOver \union {"scanWait"}
          PROVE  AllScanned(Alloc(u))'
      <3>1. Alloc(u) \in Chunks /\ Alloc(u) # Alloc(v) /\ Alloc(u)' = Alloc(u)
        BY <1>3, <1>6, <1>7, <2>5, AllocHeld, NotOthers DEF Alloc
      <3> QED
        BY <1>1, <1>2, <1>7, <2>5, <3>1 DEF Scanned, AllScanned, HeapTypes
    <2>6. Scanned'
      BY <1>1, <2>4, <2>5 DEF Scanned
    <2>7. Sized'
      BY <1>2, <1>7 DEF Sized, ToChunks
    <2> QED
      BY <1>4, <1>5, <2>1, <2>2, <2>6, <2>7
  <1>8. ASSUME NEW c \in Chunks, NEW won \in 0..1, AllocToSpaceChunk(v, c),
               own' = [own EXCEPT ![v] = Append(@, c)], copied' = [copied EXCEPT ![c] = won]
        PROVE  HeapInv'
    <2>1. /\ sts[c] \in {"unmapped", "free"}
          /\ sts' = [sts EXCEPT ![c] = "to"]
          /\ freeChunks' = [freeChunks EXCEPT ![NodeOf[v]] = @ \ {c}]
          /\ \A n \in Nodes : c \notin freeChunks'[n]
          /\ \A n \in Nodes : c \notin unscannedTo[n] \union scannedTo[n] \union fromSpace[n]
          /\ \A u \in VProcs : c \notin Held(u)
          /\ toSpaceSz' = toSpaceSz + 1
          /\ Cardinality(ToChunks') = Cardinality(ToChunks) + 1
      BY <1>8, Fresh
    <2>2. \A u \in VProcs : own'[u] = IF u = v THEN Append(own[v], c) ELSE own[u]
      BY <1>8 DEF HeapTypes
    <2>3. c \notin ToSet(own[v])
      BY <1>3, <2>1
    <2>4. /\ Append(own[v], c) \in Seq(Chunks)
          /\ Append(own[v], c) # <<>>
          /\ ToSet(Append(own[v], c)) = ToSet(own[v]) \union {c}
          /\ NoDup(Append(own[v], c))
      BY <1>3, <2>3, MoreChunks
    <2>5. \A u \in VProcs : Held(u)' = IF u = v THEN Held(v) \union {c} ELSE Held(u)
      BY <1>1, <2>2, <2>4 DEF Held, scan
    <2>6. HeapTypes'
      <3>1. own' \in [VProcs -> Seq(Chunks)]
        BY <1>8, <2>4 DEF HeapTypes
      <3>2. sts' \in [Chunks -> {"unmapped", "free", "to", "from"}]
        BY <2>1 DEF HeapTypes
      <3>3. freeChunks' \in [Nodes -> SUBSET Chunks]
        BY <2>1 DEF HeapTypes
      <3>4. toSpaceSz' \in Nat
        BY <2>1 DEF HeapTypes
      <3>5. won \in 0..ChunkObjs
        BY ToSpaceAssumption
      <3>6. copied' \in [Chunks -> 0..ChunkObjs]
        BY <1>8, <3>5 DEF HeapTypes
      <3> QED
        BY <1>1, <1>2, <3>1, <3>2, <3>3, <3>4, <3>6 DEF HeapTypes, detection, scan
    <2>7. OwnChunks'
      <3>1. ASSUME NEW u \in VProcs, u # v
            PROVE  own'[u] = own[u] /\ pc'[u] = pc[u] /\ scanChunk'[u] = scanChunk[u]
        BY <1>1, <2>2, <3>1 DEF scan
      <3>2. own'[v] = Append(own[v], c) /\ pc'[v] = pc[v] /\ scanChunk'[v] = scanChunk[v]
        BY <1>1, <2>2 DEF scan
      <3> QED
        BY <1>1, <2>4, <3>1, <3>2 DEF OwnChunks
    <2>8. Places'
      <3> DEFINE k == NodeOf[v]
      <3>1. k \in Nodes
        BY ToSpaceAssumption
      <3>2. \A d \in Chunks : sts'[d] = IF d \in {c} THEN "to" ELSE sts[d]
        BY <2>1 DEF HeapTypes
      <3>3. \A n \in Nodes : freeChunks'[n] = freeChunks[n] \ {c}
        BY <2>1 DEF HeapTypes
      <3>4. Held(v)' = Held(v) \union {c} /\ \A u \in VProcs : u # v => Held(u)' = Held(u)
        BY <2>5
      <3>5. unscannedTo' = unscannedTo /\ scannedTo' = scannedTo /\ fromSpace' = fromSpace
        BY <1>1
      <3>6. Held(v)' \union unscannedTo'[k] \union scannedTo'[k]
              = Held(v) \union unscannedTo[k] \union scannedTo[k] \union {c}
        BY <3>4, <3>5
      <3>7. Held(v) \intersect (unscannedTo[k] \union scannedTo[k]) = {}
            /\ unscannedTo[k] \intersect scannedTo[k] = {}
            /\ c \notin unscannedTo[k] \union scannedTo[k]
        BY <2>1, <3>1 DEF Places, OnePlace
      <3>8. Held(v)' \intersect (unscannedTo'[k] \union scannedTo'[k]) = {}
            /\ unscannedTo'[k] \intersect scannedTo'[k] = {}
        BY <3>4, <3>5, <3>7
      <3>9. {c} \in SUBSET Chunks /\ \A d \in {c} : sts[d] \in {"unmapped", "free"}
        BY <2>1
      <3> QED
        BY <2>6, <3>2, <3>3, <3>4, <3>5, <3>6, <3>8, <3>9, Redistribute
    <2>9. Scanned'
      <3>1. \A d \in Chunks : d # c => (AllScanned(d)' <=> AllScanned(d))
        BY <1>1, <1>8 DEF AllScanned, HeapTypes
      <3>2. \A n \in Nodes : \A d \in scannedTo[n] : AllScanned(d)'
        BY <2>1, <3>1 DEF Scanned, HeapTypes
      <3>3. ASSUME NEW u \in VProcs, pc[u] \in ScanOver \union {"scanWait"}
            PROVE  AllScanned(Alloc(u))'
        <4>1. Alloc(u) \in Chunks /\ Alloc(u) \in Held(u) /\ Alloc(u)' = Alloc(u)
          BY <1>6, <2>2, <3>3, AllocHeld DEF Alloc
        <4>2. Alloc(u) # c /\ AllScanned(Alloc(u))
          BY <1>2, <2>1, <3>3, <4>1 DEF Scanned
        <4> QED
          BY <1>1, <1>8, <4>1, <4>2 DEF AllScanned, HeapTypes
      <3> QED
        BY <1>1, <3>2, <3>3 DEF Scanned
    <2>10. Sized'
      BY <1>2, <2>1 DEF Sized
    <2> QED
      BY <1>4, <1>5, <2>6, <2>7, <2>8, <2>9, <2>10
  <1> QED
    BY <1>7, <1>8 DEF Forward

(* RootsDone and ScanDone: the vproc keeps its allocation chunk, c has been *)
(* scanned unless it is that one, and the others are for anyone.           *)
LEMMA HeapPush ==
  ASSUME HeapInv, ControlInv, NEW v \in VProcs, Copying(v), pc[v] \in {"roots", "scan"},
         Push(v, Pushed(v) \ {scanChunk[v]}),
         scannedTo' = [scannedTo EXCEPT ![NodeOf[v]] =
                         @ \union (({scanChunk[v]} \ {NoChunk}) \ {Alloc(v)})],
         scanChunk' = [scanChunk EXCEPT ![v] = NoChunk],
         scanTop' \in [VProcs -> 0..ChunkObjs],
         scanChunk[v] # NoChunk => AllScanned(scanChunk[v]),
         UNCHANGED <<sts, fromSpace, freeChunks, copied, scanned, toSpaceSz, detection>>
  PROVE  HeapInv'
  <1> USE DEF ControlInv, HeapInv
  <1> DEFINE k == NodeOf[v]
             c == scanChunk[v]
             a == Alloc(v)
             done == ({c} \ {NoChunk}) \ {a}
             others == Pushed(v) \ {c}
  <1>1. k \in Nodes
    BY ToSpaceAssumption
  <1>2. Collecting /\ Collecting' /\ Started /\ Started' /\ ~ Settling /\ ~ Settling'
        /\ toSpaceLimit' = toSpaceLimit
    BY ScanPhase
  <1>3. /\ a \in Chunks
        /\ ToSet(own[v]) = Pushed(v) \union {a}
        /\ a \notin Pushed(v)
        /\ ToSet(own[v]) \subseteq Chunks
        /\ Held(v) = ToSet(own[v]) \union ({c} \ {NoChunk})
        /\ c \in Chunks \union {NoChunk}
    BY AllocHeld DEF Pushed, HeapTypes
  <1>4. own' = [own EXCEPT ![v] = <<a>>]
        /\ unscannedTo' = [unscannedTo EXCEPT ![k] = @ \union others]
        /\ Goto(v, IF others = {} THEN "next" ELSE "signal")
    BY DEF Push
  <1>5. Held(v) = {a} \union done \union others /\ a \notin done \union others
        /\ done \intersect others = {}
    BY <1>3, ToSpaceAssumption
  <1>6. \A d \in done : AllScanned(d)
    OBVIOUS
  <1>7. done \subseteq Chunks /\ others \subseteq Chunks
    BY <1>3
  <1>8. scannedTo' = [scannedTo EXCEPT ![k] = @ \union done]
    OBVIOUS
  <1>9. scanChunk' = [scanChunk EXCEPT ![v] = NoChunk]
    OBVIOUS
  <1> HIDE DEF done, others, a, c, k
  <1>10. PICK l \in {"next", "signal"} : \A u \in VProcs : pc'[u] = IF u = v THEN l ELSE pc[u]
    BY <1>4 DEF Goto, ControlTypes
  <1>11. \A u \in VProcs : /\ own'[u] = IF u = v THEN <<a>> ELSE own[u]
                           /\ scanChunk'[u] = IF u = v THEN NoChunk ELSE scanChunk[u]
    BY <1>4, <1>9 DEF HeapTypes
  <1>12. Held(v)' = {a} /\ \A u \in VProcs : u # v => Held(u)' = Held(u)
    BY <1>3, <1>11, OneChunk, ToSpaceAssumption DEF Held
  <1>13. \A n \in Nodes :
           /\ unscannedTo'[n] = IF n = k THEN unscannedTo[n] \union others ELSE unscannedTo[n]
           /\ scannedTo'[n] = IF n = k THEN scannedTo[n] \union done ELSE scannedTo[n]
    BY <1>1, <1>4, <1>8 DEF HeapTypes
  <1>14. HeapTypes'
    <2>1. own' \in [VProcs -> Seq(Chunks)]
      BY <1>3, <1>4, OneChunk DEF HeapTypes
    <2>2. unscannedTo' \in [Nodes -> SUBSET Chunks]
      BY <1>4, <1>7 DEF HeapTypes
    <2>3. scannedTo' \in [Nodes -> SUBSET Chunks]
      <3>1. \A n \in Nodes : scannedTo'[n] \in SUBSET Chunks
        BY <1>7, <1>13 DEF HeapTypes
      <3>2. scannedTo' = [n \in Nodes |-> scannedTo'[n]]
        BY <1>8, Zenon DEF HeapTypes
      <3> QED
        BY <3>1, <3>2, Zenon
    <2>4. scanChunk' \in [VProcs -> Chunks \union {NoChunk}]
      BY <1>9 DEF HeapTypes
    <2> QED
      BY <1>2, <2>1, <2>2, <2>3, <2>4 DEF HeapTypes, detection
  <1>15. OwnChunks'
    BY <1>3, <1>10, <1>11, OneChunk DEF OwnChunks
  <1>16. Waiting'
    <2>1. \A n : ScanWaiting(n)' = ScanWaiting(n)
      BY <1>10 DEF ScanWaiting
    <2> QED
      BY <2>1 DEF Waiting, detection
  <1>17. ~ completed[k]
    BY <1>2 DEF Detection, MayScan, k
  <1>18. Detection'
    <2>1. completed' = completed
      BY DEF detection
    <2>2. ASSUME NEW u \in VProcs, completed[NodeOf[u]], pc'[u] \in ScanOver \union {"scanWait"}
          PROVE  unscannedTo'[NodeOf[u]] = {}
      <3>1. u # v /\ NodeOf[u] # k /\ NodeOf[u] \in Nodes
        BY <1>10, <1>17, <2>2, ToSpaceAssumption DEF k
      <3> QED
        BY <1>2, <1>10, <1>13, <2>2, <3>1 DEF Detection
    <2>3. \A u \in VProcs : /\ pc'[u] \in MayScan => ~ completed[NodeOf[u]]
                            /\ pc'[u] \in ScanOver => completed[NodeOf[u]]
      BY <1>2, <1>10, <1>17 DEF Detection, MayScan, ScanOver, k
    <2> QED
      BY <2>1, <2>2, <2>3 DEF Detection
  <1>19. Scanned'
    <2>1. \A d : AllScanned(d)' <=> AllScanned(d)
      BY DEF AllScanned
    <2>2. \A n \in Nodes : \A d \in scannedTo'[n] : AllScanned(d)
      BY <1>6, <1>13 DEF Scanned
    <2>3. \A u \in VProcs : pc'[u] \in ScanOver \union {"scanWait"} =>
            /\ pc[u] \in ScanOver \union {"scanWait"}
            /\ Alloc(u)' = Alloc(u)
      BY <1>10, <1>11 DEF Alloc, ScanOver
    <2> QED
      BY <1>2, <2>1, <2>2, <2>3 DEF Scanned
  <1>20. Places'
    <2>1. unscannedTo'[k] = unscannedTo[k] \union others /\ scannedTo'[k] = scannedTo[k] \union done
          /\ \A n \in Nodes : n # k => unscannedTo'[n] = unscannedTo[n] /\ scannedTo'[n] = scannedTo[n]
      BY <1>1, <1>13
    <2>2. Held(v) \intersect (unscannedTo[k] \union scannedTo[k]) = {}
          /\ unscannedTo[k] \intersect scannedTo[k] = {}
      BY <1>1 DEF Places, OnePlace
    <2>3. Held(v)' \union unscannedTo'[k] \union scannedTo'[k]
            = Held(v) \union unscannedTo[k] \union scannedTo[k] \union {}
      BY <1>5, <1>12, <2>1
    <2>4. Held(v)' \intersect (unscannedTo'[k] \union scannedTo'[k]) = {}
          /\ unscannedTo'[k] \intersect scannedTo'[k] = {}
      BY <1>5, <1>12, <2>1, <2>2
    <2>5. \A n \in Nodes : freeChunks'[n] = freeChunks[n] \ {}
      OBVIOUS
    <2>6. \A d \in Chunks : sts'[d] = IF d \in {} THEN "to" ELSE sts[d]
      OBVIOUS
    <2>7. {} \in SUBSET Chunks /\ \A d \in {} : sts[d] \in {"unmapped", "free"}
      OBVIOUS
    <2>8. Places /\ HeapTypes /\ fromSpace' = fromSpace
      OBVIOUS
    <2>9. \A u \in VProcs : u # v => Held(u)' = Held(u)
      BY <1>12
    <2> HIDE DEF HeapInv, ControlInv
    <2> QED
      BY <1>14, <2>1, <2>3, <2>4, <2>5, <2>6, <2>7, <2>8, <2>9, Redistribute DEF k
  <1>21. EmptyLists'
    BY <1>1, <1>2, <1>13 DEF EmptyLists, k
  <1>22. Sized'
    BY <1>2 DEF Sized, ToChunks
  <1> QED
    BY <1>14, <1>15, <1>16, <1>18, <1>19, <1>20, <1>21, <1>22

LEMMA HeapRootsDone ==
  ASSUME HeapInv, ControlInv, NEW v \in VProcs, Copying(v), RootsDone(v)
  PROVE  HeapInv'
  <1> USE DEF ControlInv, HeapInv
  <1>1. pc[v] = "roots" /\ Push(v, Pushed(v))
        /\ UNCHANGED <<sts, scannedTo, fromSpace, freeChunks, copied, scanned, toSpaceSz, detection,
                       scanChunk, scanTop>>
    BY DEF RootsDone, scan
  <1>2. scanChunk[v] = NoChunk
    BY <1>1 DEF OwnChunks
  <1>3. NoChunk \notin Pushed(v)
    BY <1>1, AllocHeld, ToSpaceAssumption DEF Pushed
  <1>4. Push(v, Pushed(v) \ {scanChunk[v]})
    <2>1. Pushed(v) \ {scanChunk[v]} = Pushed(v)
      BY <1>2, <1>3
    <2> QED
      BY <1>1, <2>1
  <1>5. scannedTo' = [scannedTo EXCEPT ![NodeOf[v]] =
                        @ \union (({scanChunk[v]} \ {NoChunk}) \ {Alloc(v)})]
    BY <1>1, <1>2 DEF HeapTypes
  <1>6. scanChunk' = [scanChunk EXCEPT ![v] = NoChunk]
    BY <1>1, <1>2 DEF HeapTypes
  <1>7. scanTop' \in [VProcs -> 0..ChunkObjs]
    BY <1>1 DEF HeapTypes
  <1> QED
    BY <1>1, <1>2, <1>4, <1>5, <1>6, <1>7, HeapPush

LEMMA HeapScanDone ==
  ASSUME HeapInv, ControlInv, NEW v \in VProcs, Copying(v), ScanDone(v)
  PROVE  HeapInv'
  <1> USE DEF ControlInv, HeapInv
  <1>1. pc[v] = "scan" /\ AllScanned(scanChunk[v])
    BY DEF ScanDone, AtTop, FinalTop, AllScanned
  <1>2. scanChunk[v] # NoChunk
    BY <1>1 DEF OwnChunks
  <1>3. scannedTo' = [scannedTo EXCEPT ![NodeOf[v]] =
                        @ \union (({scanChunk[v]} \ {NoChunk}) \ {Alloc(v)})]
    <2>1. {scanChunk[v]} \ {NoChunk} = {scanChunk[v]}
      BY <1>2
    <2> QED
      BY <2>1 DEF ScanDone
  <1>4. scanTop' \in [VProcs -> 0..ChunkObjs]
    BY ToSpaceAssumption DEF ScanDone, HeapTypes
  <1>5. Push(v, Pushed(v) \ {scanChunk[v]}) /\ scanChunk' = [scanChunk EXCEPT ![v] = NoChunk]
        /\ UNCHANGED <<sts, fromSpace, freeChunks, copied, scanned, toSpaceSz, detection>>
    BY DEF ScanDone
  <1> QED
    BY <1>1, <1>3, <1>4, <1>5, HeapPush

(* The vprocs of v's node that wait besides v, when numWaiting has been set *)
(* back by those that wait no longer.                                      *)
OthersWaiting(v) == ScanWaiting(NodeOf[v]) \ {v}

LEMMA PeersCount ==
  ASSUME NEW v \in VProcs
  PROVE  /\ Cardinality(OthersWaiting(v)) \in 0..NumVProcs
         /\ Cardinality(OthersWaiting(v) \union {v}) = Cardinality(OthersWaiting(v)) + 1
         /\ Cardinality(OthersWaiting(v)) + 1 \in 0..NumVProcs
         /\ Cardinality(OthersWaiting(v)) + 1 = Cardinality(Peers(v)) =>
              \A u \in VProcs : NodeOf[u] = NodeOf[v] /\ u # v => pc[u] = "scanWait"
  <1> DEFINE W == OthersWaiting(v)
  <1>1. W \in SUBSET VProcs /\ W \union {v} \in SUBSET VProcs /\ v \notin W
    BY DEF OthersWaiting, ScanWaiting
  <1>2. IsFiniteSet(W)
    BY <1>1, FS_Subset, ToSpaceAssumption
  <1>3. Cardinality(W \union {v}) = Cardinality(W) + 1
    BY <1>1, <1>2, FS_AddElement
  <1>4. Cardinality(W) \in 0..NumVProcs /\ Cardinality(W) + 1 \in 0..NumVProcs
    BY <1>1, <1>3, Counts
  <1>5. IsFiniteSet(Peers(v)) /\ W \union {v} \in SUBSET Peers(v)
    BY FS_Subset, ToSpaceAssumption, Peers(v) \in SUBSET VProcs
       DEF Peers, OthersWaiting, ScanWaiting
  <1>6. ASSUME Cardinality(W) + 1 = Cardinality(Peers(v))
        PROVE  Peers(v) = W \union {v}
    BY <1>3, <1>5, <1>6, FS_Subset
  <1>7. Peers(v) = W \union {v} =>
          \A u \in VProcs : NodeOf[u] = NodeOf[v] /\ u # v => pc[u] = "scanWait"
    BY DEF OthersWaiting, ScanWaiting, Peers
  <1> QED
    BY <1>3, <1>4, <1>6, <1>7

(* One round of GetNextScanChunk. *)
LEMMA HeapNextChunk ==
  ASSUME HeapInv, ControlInv, NEW v \in VProcs, Copying(v), pc[v] \in {"next", "scanWait"},
         ~ completed[NodeOf[v]],
         NextChunk(v, Cardinality(OthersWaiting(v))),
         UNCHANGED <<sts, own, scannedTo, fromSpace, freeChunks, copied, scanned, toSpaceSz>>
  PROVE  HeapInv'
  <1> USE DEF ControlInv, HeapInv
  <1> DEFINE k == NodeOf[v]
             w == Cardinality(OthersWaiting(v))
             a == Alloc(v)
  <1>1. k \in Nodes
    BY ToSpaceAssumption
  <1>2. Collecting /\ Collecting' /\ Started /\ Started' /\ ~ Settling /\ ~ Settling'
        /\ toSpaceLimit' = toSpaceLimit
    BY ScanPhase
  <1>3. a \in Chunks /\ Held(v) = {a} /\ Len(own[v]) = 1 /\ own[v] # <<>> /\ scanChunk[v] = NoChunk
    BY AllocHeld DEF OwnChunks
  <1>4. /\ w \in 0..NumVProcs /\ w + 1 \in 0..NumVProcs
        /\ Cardinality(OthersWaiting(v) \union {v}) = w + 1
        /\ w + 1 = Cardinality(Peers(v)) =>
             \A u \in VProcs : NodeOf[u] = k /\ u # v => pc[u] = "scanWait"
    BY PeersCount
  <1>5. \A d : AllScanned(d)' <=> AllScanned(d)
    BY DEF AllScanned
  <1>6. /\ \A u \in VProcs : Alloc(u)' = Alloc(u)
        /\ \A n \in Nodes : \A d \in scannedTo'[n] : AllScanned(d)'
    BY <1>5 DEF Alloc, Scanned
  <1>7. NothingToScan(v) => AllScanned(a)
    BY DEF NothingToScan, AllScanned
  <1>8. Sized'
    BY <1>2 DEF Sized, ToChunks
  <1> HIDE DEF k, w, a
  <1>9. ASSUME NEW c \in Chunks, unscannedTo' \in [Nodes -> SUBSET Chunks], StartScan(v, c),
               numWaiting' = [numWaiting EXCEPT ![k] = w], UNCHANGED <<completed, scanBlocked>>,
               \A n \in Nodes : unscannedTo'[n] = IF n = k THEN unscannedTo[n] \ {c} ELSE unscannedTo[n],
               c = a \/ c \in unscannedTo[k]
        PROVE  HeapInv'
    <2>1. \A u \in VProcs : /\ pc'[u] = IF u = v THEN "scan" ELSE pc[u]
                            /\ scanChunk'[u] = IF u = v THEN c ELSE scanChunk[u]
      BY <1>9 DEF StartScan, Goto, ControlTypes, HeapTypes
    <2>2. HeapTypes'
      <3>1. scanChunk' \in [VProcs -> Chunks \union {NoChunk}] /\ scanTop' \in [VProcs -> 0..ChunkObjs]
        BY <1>9 DEF StartScan, HeapTypes
      <3>2. numWaiting' \in [Nodes -> 0..NumVProcs]
        BY <1>4, <1>9 DEF HeapTypes
      <3> QED
        BY <1>2, <1>9, <3>1, <3>2 DEF HeapTypes
    <2>3. OwnChunks'
      BY <1>3, <2>1, ToSpaceAssumption DEF OwnChunks
    <2>4. Waiting'
      <3>1. \A n \in Nodes : ScanWaiting(n)' = IF n = k THEN OthersWaiting(v) ELSE ScanWaiting(n)
        BY <2>1 DEF ScanWaiting, OthersWaiting, k
      <3> QED
        BY <1>9, <3>1 DEF Waiting, HeapTypes, w
    <2>5. Detection'
      BY <1>2, <1>9, <2>1, ToSpaceAssumption DEF Detection, MayScan, ScanOver, k
    <2>6. Scanned'
      BY <1>2, <1>5, <1>6, <2>1 DEF Scanned, ScanOver
    <2>7. Places'
      <3>1. \A u \in VProcs : Held(u)' = IF u = v THEN {a, c} ELSE Held(u)
        BY <1>3, <2>1, ToSpaceAssumption DEF Held
      <3>2. Held(v) \intersect (unscannedTo[k] \union scannedTo[k]) = {}
            /\ unscannedTo[k] \intersect scannedTo[k] = {}
        BY <1>1 DEF Places, OnePlace
      <3>3. unscannedTo'[k] = unscannedTo[k] \ {c} /\ scannedTo'[k] = scannedTo[k]
            /\ \A n \in Nodes : n # k =>
                 unscannedTo'[n] = unscannedTo[n] /\ scannedTo'[n] = scannedTo[n]
        BY <1>1, <1>9
      <3>4. Held(v)' \union unscannedTo'[k] \union scannedTo'[k]
              = Held(v) \union unscannedTo[k] \union scannedTo[k] \union {}
        BY <1>3, <1>9, <3>1, <3>3
      <3>5. Held(v)' \intersect (unscannedTo'[k] \union scannedTo'[k]) = {}
            /\ unscannedTo'[k] \intersect scannedTo'[k] = {}
        BY <1>3, <1>9, <3>1, <3>2, <3>3
      <3>6. \A n \in Nodes : freeChunks'[n] = freeChunks[n] \ {}
        OBVIOUS
      <3>7. \A d \in Chunks : sts'[d] = IF d \in {} THEN "to" ELSE sts[d]
        OBVIOUS
      <3>8. {} \in SUBSET Chunks /\ \A d \in {} : sts[d] \in {"unmapped", "free"}
        OBVIOUS
      <3>9. fromSpace' = fromSpace /\ \A u \in VProcs : u # v => Held(u)' = Held(u)
        BY <3>1
      <3> QED
        BY <2>2, <3>3, <3>4, <3>5, <3>6, <3>7, <3>8, <3>9, Redistribute DEF k
    <2>8. EmptyLists'
      BY <1>2, <1>9 DEF EmptyLists
    <2> QED
      BY <1>8, <2>2, <2>3, <2>4, <2>5, <2>6, <2>7, <2>8
  <1>10. ASSUME NEW l \in {"broadcast", "scanWait"}, Goto(v, l), NothingToScan(v),
                UNCHANGED <<unscannedTo, scan>>, scanBlocked' \subseteq VProcs,
                completed' = IF l = "broadcast" THEN [completed EXCEPT ![k] = TRUE] ELSE completed,
                numWaiting' = [numWaiting EXCEPT ![k] = IF l = "scanWait" THEN w + 1 ELSE w],
                l = "broadcast" => w + 1 = Cardinality(Peers(v))
         PROVE  HeapInv'
    <2>1. \A u \in VProcs : pc'[u] = IF u = v THEN l ELSE pc[u]
      BY <1>10 DEF Goto, ControlTypes
    <2>2. HeapTypes'
      <3>1. numWaiting' \in [Nodes -> 0..NumVProcs]
        BY <1>4, <1>10 DEF HeapTypes
      <3>2. completed' \in [Nodes -> BOOLEAN]
        BY <1>10 DEF HeapTypes
      <3> QED
        BY <1>2, <1>10, <3>1, <3>2 DEF HeapTypes, scan
    <2>3. OwnChunks'
      BY <1>3, <1>10, <2>1 DEF OwnChunks, scan
    <2>4. Waiting'
      <3>1. \A n \in Nodes : ScanWaiting(n)' =
              IF n = k THEN IF l = "scanWait" THEN OthersWaiting(v) \union {v} ELSE OthersWaiting(v)
                       ELSE ScanWaiting(n)
        BY <2>1 DEF ScanWaiting, OthersWaiting, k
      <3> QED
        BY <1>4, <1>10, <3>1 DEF Waiting, HeapTypes, w
    <2>5. unscannedTo[k] = {} /\ AllScanned(a)
      BY <1>7, <1>10 DEF NothingToScan, k
    <2>6. Detection'
      <3>1. ASSUME NEW u \in VProcs, NodeOf[u] = k
            PROVE  /\ pc'[u] \in MayScan => ~ completed'[k]
                   /\ pc'[u] \in ScanOver => completed'[k]
                   /\ unscannedTo'[k] = {}
        <4>1. CASE l = "broadcast"
          BY <1>1, <1>4, <1>10, <2>1, <2>5, <3>1, <4>1 DEF MayScan, HeapTypes
        <4>2. CASE l = "scanWait"
          BY <1>2, <1>10, <2>1, <2>5, <3>1, <4>2 DEF Detection, MayScan, ScanOver, k
        <4> QED
          BY <4>1, <4>2
      <3>2. ASSUME NEW u \in VProcs, NodeOf[u] # k
            PROVE  pc'[u] = pc[u] /\ completed'[NodeOf[u]] = completed[NodeOf[u]]
                   /\ unscannedTo'[NodeOf[u]] = unscannedTo[NodeOf[u]]
        BY <1>10, <2>1, <3>2, ToSpaceAssumption DEF HeapTypes, k
      <3> QED
        BY <1>2, <3>1, <3>2 DEF Detection
    <2>7. Scanned'
      BY <1>2, <1>5, <1>6, <2>1, <2>5 DEF Scanned, ScanOver, a
    <2>8. Places'
      BY <1>10 DEF Places, Statuses, OnePlace, SomePlace, Held, scan
    <2>9. EmptyLists'
      BY <1>2, <1>10 DEF EmptyLists
    <2> QED
      BY <1>8, <2>2, <2>3, <2>4, <2>6, <2>7, <2>8, <2>9
  <1>11. CASE \E c \in unscannedTo[k] :
                /\ unscannedTo' = [unscannedTo EXCEPT ![k] = @ \ {c}]
                /\ StartScan(v, c)
                /\ numWaiting' = [numWaiting EXCEPT ![k] = w]
                /\ UNCHANGED <<completed, scanBlocked>>
    <2>1. PICK c \in unscannedTo[k] :
                /\ unscannedTo' = [unscannedTo EXCEPT ![k] = @ \ {c}]
                /\ StartScan(v, c)
                /\ numWaiting' = [numWaiting EXCEPT ![k] = w]
                /\ UNCHANGED <<completed, scanBlocked>>
      BY <1>11
    <2>2. c \in Chunks /\ unscannedTo' \in [Nodes -> SUBSET Chunks]
          /\ \A n \in Nodes : unscannedTo'[n] = IF n = k THEN unscannedTo[n] \ {c} ELSE unscannedTo[n]
      BY <1>1, <2>1 DEF HeapTypes
    <2> QED
      BY <1>9, <2>1, <2>2
  <1>12. CASE /\ StartScan(v, a)
              /\ numWaiting' = [numWaiting EXCEPT ![k] = w]
              /\ UNCHANGED <<unscannedTo, completed, scanBlocked>>
    <2>1. a \notin unscannedTo[k]
      BY <1>1, <1>3 DEF Places, OnePlace
    <2>2. unscannedTo' \in [Nodes -> SUBSET Chunks]
          /\ \A n \in Nodes : unscannedTo'[n] = IF n = k THEN unscannedTo[n] \ {a} ELSE unscannedTo[n]
      BY <1>12, <2>1 DEF HeapTypes
    <2> QED
      BY <1>3, <1>9, <1>12, <2>2
  <1>13. CASE /\ NothingToScan(v) /\ w + 1 = Cardinality(Peers(v))
              /\ completed' = [completed EXCEPT ![k] = TRUE]
              /\ numWaiting' = [numWaiting EXCEPT ![k] = w]
              /\ Goto(v, "broadcast")
              /\ UNCHANGED <<unscannedTo, scanBlocked, scan>>
    <2>1. scanBlocked' \subseteq VProcs
      BY <1>13 DEF HeapTypes
    <2> QED
      BY <1>10, <1>13, <2>1
  <1>14. CASE /\ NothingToScan(v)
              /\ Goto(v, "scanWait")
              /\ numWaiting' = [numWaiting EXCEPT ![k] = w + 1]
              /\ scanBlocked' = scanBlocked \union {v}
              /\ UNCHANGED <<unscannedTo, completed, scan>>
    <2>1. scanBlocked' \subseteq VProcs
      BY <1>14 DEF HeapTypes
    <2> QED
      BY <1>10, <1>14, <2>1
  <1> QED
    BY <1>11, <1>12, <1>13, <1>14 DEF NextChunk, k, w, a

LEMMA HeapGetNext ==
  ASSUME HeapInv, ControlInv, NEW v \in VProcs, Copying(v), GetNextScanChunk(v)
  PROVE  HeapInv'
  <1>1. pc[v] = "next" /\ NextChunk(v, numWaiting[NodeOf[v]])
        /\ UNCHANGED <<sts, own, scannedTo, fromSpace, freeChunks, copied, scanned, toSpaceSz>>
    BY DEF GetNextScanChunk
  <1>2. ~ completed[NodeOf[v]]
    BY <1>1, ScanPhase DEF HeapInv, Detection, MayScan
  <1>3. ScanWaiting(NodeOf[v]) = OthersWaiting(v)
    BY <1>1 DEF ScanWaiting, OthersWaiting
  <1>4. numWaiting[NodeOf[v]] = Cardinality(OthersWaiting(v))
    BY <1>3, ToSpaceAssumption DEF HeapInv, Waiting
  <1> QED
    BY <1>1, <1>2, <1>4, HeapNextChunk

LEMMA HeapWakeScanWait ==
  ASSUME HeapInv, ControlInv, NEW v \in VProcs, Copying(v), WakeScanWait(v)
  PROVE  HeapInv'
  <1> USE DEF HeapInv, ControlInv
  <1> DEFINE k == NodeOf[v]
             w == Cardinality(OthersWaiting(v))
  <1>1. pc[v] = "scanWait"
        /\ UNCHANGED <<sts, own, scannedTo, fromSpace, freeChunks, copied, scanned, toSpaceSz>>
    BY DEF WakeScanWait
  <1>2. k \in Nodes
    BY ToSpaceAssumption
  <1>3. w \in 0..NumVProcs /\ numWaiting[k] = w + 1
    <2>1. ScanWaiting(k) = OthersWaiting(v) \union {v}
      BY <1>1 DEF ScanWaiting, OthersWaiting
    <2> QED
      BY <1>2, <2>1, PeersCount DEF Waiting
  <1>4. numWaiting[k] - 1 = w
    BY <1>3
  <1> HIDE DEF w
  <1>5. CASE ~ completed[k] /\ NextChunk(v, w)
    BY <1>1, <1>5, HeapNextChunk DEF w
  <1>6. CASE /\ completed[k]
             /\ numWaiting' = [numWaiting EXCEPT ![k] = w]
             /\ Goto(v, "finished")
             /\ UNCHANGED <<unscannedTo, completed, scanBlocked, scan>>
    <2>1. Collecting /\ Collecting' /\ Started /\ Started' /\ ~ Settling /\ ~ Settling'
          /\ toSpaceLimit' = toSpaceLimit
      BY ScanPhase
    <2>2. \A u \in VProcs : pc'[u] = IF u = v THEN "finished" ELSE pc[u]
      BY <1>6 DEF Goto, ControlTypes
    <2>3. HeapTypes'
      <3>1. numWaiting' \in [Nodes -> 0..NumVProcs]
        BY <1>3, <1>6 DEF HeapTypes
      <3> QED
        BY <1>1, <1>6, <2>1, <3>1 DEF HeapTypes, scan
    <2>4. OwnChunks'
      BY <1>1, <1>6, <2>2 DEF OwnChunks, scan
    <2>5. Waiting'
      <3>1. \A n \in Nodes : ScanWaiting(n)' = IF n = k THEN OthersWaiting(v) ELSE ScanWaiting(n)
        BY <2>2 DEF ScanWaiting, OthersWaiting
      <3> QED
        BY <1>6, <3>1 DEF Waiting, HeapTypes, w
    <2>6. Detection'
      BY <1>1, <1>6, <2>1, <2>2 DEF Detection, MayScan, ScanOver
    <2>7. Scanned'
      BY <1>1, <2>1, <2>2 DEF Scanned, ScanOver, AllScanned, Alloc
    <2>8. Places'
      BY <1>1, <1>6 DEF Places, Statuses, OnePlace, SomePlace, Held, scan
    <2>9. EmptyLists'
      BY <1>1, <1>6, <2>1 DEF EmptyLists
    <2>10. Sized'
      BY <1>1, <2>1 DEF Sized, ToChunks
    <2> QED
      BY <2>3, <2>4, <2>5, <2>6, <2>7, <2>8, <2>9, <2>10
  <1> QED
    BY <1>4, <1>5, <1>6 DEF WakeScanWait

LEMMA HeapStep == HeapInv /\ ControlInv /\ [Next]_vars => HeapInv'
  <1> SUFFICES ASSUME HeapInv, ControlInv, [Next]_vars
               PROVE  HeapInv'
    OBVIOUS
  <1>1. ControlInv'
    BY ControlStep
  <1>2. CASE UNCHANGED vars
    <2> USE <1>2 DEF vars, heapVars, lists, detection, scan, flags, handshake, HeapInv
    <2>1. Collecting' = Collecting /\ (\A L : At(L)' = At(L))
      BY DEF Collecting, At
    <2>2. HeapTypes' /\ OwnChunks' /\ Waiting' /\ Places'
      BY DEF HeapTypes, OwnChunks, Waiting, ScanWaiting, Places, Statuses, OnePlace, SomePlace, Held
    <2>3. Detection' /\ Scanned'
      BY <2>1 DEF Detection, Scanned, AllScanned, Alloc
    <2>4. EmptyLists' /\ Sized'
      BY <2>1 DEF EmptyLists, Sized, Started, Settling, ToChunks
    <2> QED
      BY <2>2, <2>3, <2>4
  <1>3. ASSUME NEW v \in VProcs, Copying(v)
        PROVE  HeapInv'
    BY <1>3, HeapForward, HeapRootsDone, HeapScanWaitSignals, HeapGetNext, HeapWakeScanWait,
       HeapScanObject, HeapScanDone
       DEF Copying, Scan
  <1>4. ASSUME NEW v \in VProcs, AfterCopying(v)
        PROVE  HeapInv'
    BY <1>1, <1>4, HeapBarriers, HeapReclaim
  <1>5. ASSUME NEW v \in VProcs, Collect(v)
        PROVE  HeapInv'
    BY <1>1, <1>3, <1>4, <1>5, HeapHandshake, HeapLeaderWait, HeapSetup, HeapStartCopying,
       HeapBarriers
       DEF Collect
  <1> QED
    BY <1>1, <1>2, <1>5, HeapNewChunk, HeapHandshake, HeapScanWaitSignals DEF Next

(* Where the chunks of the global heap are and how far they are scanned:    *)
(* StartGlobalGC (global-gc.c:163-370), ScanGlobalToSpace and              *)
(* GetNextScanChunk (global-gc.c:463-620), PushToSpaceChunks (major-gc.c:73).*)
THEOREM HeapCorrect == Spec => [](HeapInv /\ ControlInv)
  <1>1. Init => HeapInv /\ ControlInv
    BY HeapInitInv, ControlInit
  <1>2. HeapInv /\ ControlInv /\ [Next]_vars => (HeapInv /\ ControlInv)'
    BY HeapStep, ControlStep
  <1> QED
    BY <1>1, <1>2, PTL DEF Spec

(* Types of the variables that the steps of StartGlobalGC (global-gc.c:163) *)
(* and of the scan change: the counts of the barriers and of the waiting   *)
(* vprocs never leave their range.                                         *)
THEOREM TypesCorrect == Spec => []TypeOK
  <1>1. HeapInv /\ ControlInv => TypeOK
    BY DEF HeapInv, ControlInv, HeapTypes, ControlTypes, TypeOK
  <1> QED
    BY <1>1, HeapCorrect, PTL

(* ToSpaceSz (global-gc.c:217, heap.c:182) is the size of to-space.         *)
THEOREM SizesCorrect == Spec => []SizeIsCounted
  <1>1. HeapInv /\ ControlInv => SizeIsCounted
    BY DEF HeapInv, Sized, Settling, Collecting, At, SettingUp, SizeIsCounted, ToChunks
  <1> QED
    BY <1>1, HeapCorrect, PTL

(* The ways for c to have a home. *)
LEMMA HomeOf ==
  ASSUME NEW c \in Chunks, NEW place
  PROVE  place \in Homes(c) <=>
           \/ \E n \in Nodes : c \in fromSpace[n] /\ place = <<"from", n>>
           \/ \E n \in Nodes : c \in freeChunks[n] /\ place = <<"free", n>>
           \/ \E n \in Nodes : c \in unscannedTo[n] /\ place = <<"to", <<n, "unscanned">>>>
           \/ \E n \in Nodes : c \in scannedTo[n] /\ place = <<"to", <<n, "scanned">>>>
           \/ \E v \in VProcs : c \in Held(v) /\ place = <<"to", v>>
  BY Zenon DEF Homes, Held

LEMMA HomeStatus ==
  ASSUME Places, NEW c \in Chunks, NEW place \in Homes(c)
  PROVE  place[1] = sts[c]
  <1>1. CASE \E n \in Nodes : c \in fromSpace[n] /\ place = <<"from", n>>
    BY <1>1 DEF Places, Statuses
  <1>2. CASE \E n \in Nodes : c \in freeChunks[n] /\ place = <<"free", n>>
    BY <1>2 DEF Places, Statuses
  <1>3. CASE \E n \in Nodes : c \in unscannedTo[n] /\ place = <<"to", <<n, "unscanned">>>>
    BY <1>3 DEF Places, Statuses
  <1>4. CASE \E n \in Nodes : c \in scannedTo[n] /\ place = <<"to", <<n, "scanned">>>>
    BY <1>4 DEF Places, Statuses
  <1>5. CASE \E v \in VProcs : c \in Held(v) /\ place = <<"to", v>>
    BY <1>5 DEF Places, Statuses
  <1> QED
    BY <1>1, <1>2, <1>3, <1>4, <1>5, HomeOf

LEMMA HomeUnique ==
  ASSUME Places, NEW c \in Chunks, NEW p \in Homes(c), NEW q \in Homes(c)
  PROVE  p = q
  <1>1. p[1] = sts[c] /\ q[1] = sts[c]
    BY HomeStatus
  <1> USE DEF Places, OnePlace
  <1>2. CASE \E n \in Nodes : c \in fromSpace[n] /\ p = <<"from", n>>
    BY <1>1, <1>2, HomeOf
  <1>3. CASE \E n \in Nodes : c \in freeChunks[n] /\ p = <<"free", n>>
    BY <1>1, <1>3, HomeOf
  <1>4. CASE \E n \in Nodes : c \in unscannedTo[n] /\ p = <<"to", <<n, "unscanned">>>>
    BY <1>1, <1>4, HomeOf
  <1>5. CASE \E n \in Nodes : c \in scannedTo[n] /\ p = <<"to", <<n, "scanned">>>>
    BY <1>1, <1>5, HomeOf
  <1>6. CASE \E v \in VProcs : c \in Held(v) /\ p = <<"to", v>>
    BY <1>1, <1>6, HomeOf
  <1> QED
    BY <1>2, <1>3, <1>4, <1>5, <1>6, HomeOf

(* Each chunk of the global heap is in one place, whichever list, lock or   *)
(* vproc it has gone through (global-gc.c:235-260, 312-336, 463-599,       *)
(* major-gc.c:80), and has the status isFromSpacePtr expects of it there.  *)
THEOREM HomesCorrect == Spec => []ChunkHome
  <1>1. HeapInv => ChunkHome
    <2> SUFFICES ASSUME HeapInv, NEW c \in Chunks
                 PROVE  IF sts[c] = "unmapped" THEN Homes(c) = {}
                        ELSE \E place \in Homes(c) : Homes(c) = {place} /\ place[1] = sts[c]
      BY DEF ChunkHome
    <2>1. sts[c] \in {"unmapped", "free", "to", "from"} /\ Places
      BY DEF HeapInv, HeapTypes
    <2>2. CASE sts[c] = "unmapped"
      <3>1. \A place \in Homes(c) : FALSE
        BY <2>1, <2>2, HomeOf DEF Places, Statuses
      <3> QED
        BY <2>2, <3>1
    <2>3. CASE sts[c] # "unmapped"
      <3>1. \/ \E n \in Nodes : \/ c \in fromSpace[n] \/ c \in freeChunks[n]
                               \/ c \in unscannedTo[n] \/ c \in scannedTo[n]
            \/ \E v \in VProcs : c \in Held(v)
        BY <2>1, <2>3 DEF Places, SomePlace
      <3>2. \E place : place \in Homes(c)
        BY <3>1, HomeOf
      <3> QED
        BY <2>1, <2>3, <3>2, HomeStatus, HomeUnique
    <2> QED
      BY <2>2, <2>3
  <1> QED
    BY <1>1, HeapCorrect, PTL

(* Only the leader turns from-space into free chunks. *)
LEMMA FreedByLeader ==
  ASSUME ControlInv, [Next]_vars, NEW c \in Chunks, sts[c] = "from", sts'[c] = "free"
  PROVE  AfterCopying(leader)
  <1>1. ASSUME sts' = sts
        PROVE  FALSE
    BY <1>1
  <1>2. ASSUME NEW v \in VProcs, NEW k, AllocToSpaceChunk(v, k)
        PROVE  FALSE
    BY <1>2 DEF AllocToSpaceChunk
  <1>3. ASSUME NEW v \in VProcs, Setup(v)
        PROVE  FALSE
    BY <1>3 DEF Setup, ConvertToSpaceChunks
  <1>4. ASSUME NEW v \in VProcs, AfterCopying(v)
        PROVE  AfterCopying(leader)
    BY <1>1, <1>4 DEF AfterCopying, heapVars
  <1>5. ASSUME NEW v \in VProcs, Scan(v)
        PROVE  FALSE
    <2>1. CASE Forward(v)
      BY <1>1, <1>2, <2>1 DEF Forward
    <2>2. CASE RootsDone(v) \/ SignalScanWait(v) \/ BroadcastScanWait(v)
      BY <1>1, <2>2 DEF RootsDone, SignalScanWait, BroadcastScanWait, heapVars
    <2>3. CASE GetNextScanChunk(v) \/ WakeScanWait(v)
      BY <1>1, <2>3 DEF GetNextScanChunk, WakeScanWait
    <2>4. CASE ScanObject(v) \/ ScanMore(v) \/ ScanDone(v)
      BY <1>1, <2>4 DEF ScanObject, ScanMore, ScanDone, heapVars
    <2> QED
      BY <1>5, <2>1, <2>2, <2>3, <2>4 DEF Scan
  <1>6. ASSUME NEW v \in VProcs, Collect(v)
        PROVE  AfterCopying(leader)
    <2>1. CASE Lead(v) \/ Follow(v) \/ FollowerWait(v) \/ \E u \in VProcs : Interrupt(v, u)
      BY <1>1, <2>1 DEF Lead, Follow, FollowerWait, Interrupt, heapVars
    <2>2. CASE LeaderWait(v) \/ DoneCopying(v) \/ Resume(v)
      BY <1>1, <2>2 DEF LeaderWait, DoneCopying, Resume, heapVars
    <2>3. CASE StartCopying(v)
      BY <1>2, <2>3 DEF StartCopying
    <2>4. CASE Copying(v)
      BY <1>5, <2>4 DEF Copying
    <2> QED
      BY <1>3, <1>4, <1>6, <2>1, <2>2, <2>3, <2>4 DEF Collect
  <1>7. ASSUME NEW v \in VProcs, NewChunk(v)
        PROVE  FALSE
    BY <1>2, <1>7 DEF NewChunk
  <1>8. ASSUME NEW v \in VProcs, Enter(v) \/ Spurious(v) \/ SpuriousReturn(v)
        PROVE  FALSE
    BY <1>1, <1>8 DEF Enter, Spurious, SpuriousWakeup, SpuriousReturn, heapVars
  <1>9. ~ UNCHANGED vars
    BY <1>1 DEF vars, heapVars
  <1> QED
    BY <1>6, <1>7, <1>8, <1>9 DEF Next

(* When it does, all that is in to-space has been scanned. *)
LEMMA ScannedAtReclaim ==
  ASSUME HeapInv, ControlInv, AfterCopying(leader), NEW c \in Chunks, sts[c] = "to"
  PROVE  scanned[c] = copied[c]
  <1> USE DEF HeapInv
  <1>1. /\ Collecting
        /\ \A n \in Nodes : unscannedTo[n] = {}
        /\ \A u \in VProcs : pc[u] \in Copied
    BY ReclaimReady
  <1>2. CASE \E n \in Nodes : c \in scannedTo[n]
    BY <1>2 DEF Scanned, AllScanned
  <1>3. CASE \E v \in VProcs : c \in Held(v)
    <2>1. PICK v \in VProcs : c \in Held(v)
      BY <1>3
    <2>2. pc[v] \in ScanOver /\ pc[v] \notin {"roots", "scan", "barrier0"}
      BY <1>1 DEF Copied, ScanOver
    <2>3. c = Alloc(v)
      BY <2>1, <2>2, AllocHeld
    <2>4. AllScanned(Alloc(v))
      BY <1>1, <2>2 DEF Scanned
    <2> QED
      BY <2>3, <2>4 DEF AllScanned
  <1> QED
    BY <1>1, <1>2, <1>3 DEF Places, SomePlace

(* The leader gives from-space back (global-gc.c:312) only when every object *)
(* in to-space has been scanned, on all nodes: no pointer into it is left. *)
THEOREM ReclaimsScanned == Spec => ReclaimedWhenScanned
  <1>1. HeapInv /\ ControlInv /\ [Next]_vars =>
          [(\E c \in Chunks : sts[c] = "from" /\ sts'[c] = "free") =>
             \A c \in Chunks : sts[c] = "to" => scanned[c] = copied[c]]_vars
    BY FreedByLeader, ScannedAtReclaim
  <1> QED
    BY <1>1, HeapCorrect, PTL DEF Spec, ReclaimedWhenScanned
=============================================================================
