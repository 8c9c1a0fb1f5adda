----------------------------- MODULE Placement -----------------------------
(***************************************************************************)
(* The hardware threads of the machine and the layout of vprocs on them:   *)
(* DiscoverTopology, and the part of VProcInit that assigns locations      *)
(* when the command line does not list processors.                         *)
(*                                                                         *)
(* Nodes, cores of a node, threads of a core and vprocs count from 0.      *)
(***************************************************************************)
EXTENDS Integers, FiniteSets

CONSTANT NumVProcs

ASSUME PlacementAssumption == NumVProcs \in Nat \ {0}

VProc == 0 .. NumVProcs - 1

Machine(nodes, coresPerNode, thdsPerCore) ==
  [NumHWNodes |-> nodes, NumCoresPerNode |-> coresPerNode, NumThdsPerCore |-> thdsPerCore]

NumHWCores(m) == m.NumHWNodes * m.NumCoresPerNode
NumHWThreads(m) == NumHWCores(m) * m.NumThdsPerCore

(* A Location_t is a word of three bit fields, of 8 bits for the thread    *)
(* and for the core.                                                       *)
Location(nd, core, thd) == (nd * 256 + core) * 256 + thd
LocationNode(loc) == loc \div 65536

(* LogicalId masks the sum, since + binds tighter than &. *)
LogicalId(m, loc) ==
  ((LocationNode(loc) * m.NumCoresPerNode + loc \div 256) % 256) * m.NumThdsPerCore + (loc % 256)

(* The array of DiscoverTopology: threads first, then cores, then nodes. *)
Locations(m, i) ==
  LET core == i \div m.NumThdsPerCore
  IN  Location(core \div m.NumCoresPerNode, core % m.NumCoresPerNode, i % m.NumThdsPerCore)

(* Faulty variant: the core is not set back to the first one. *)
SpreadOverCores(m, i) == Location(i % m.NumHWNodes, i \div m.NumHWNodes, 0)

(* One vproc to a node, then one to a core, then to the other threads. *)
Spread(m, i) ==
  LET round == i \div m.NumHWNodes
  IN  Location(i % m.NumHWNodes, round % m.NumCoresPerNode, round \div m.NumCoresPerNode)

IsDense(m, dense) == NumVProcs >= NumHWThreads(m) \/ dense

Place(m, dense, i) ==
  IF IsDense(m, dense) THEN Locations(m, i % NumHWThreads(m)) ELSE Spread(m, i)

-----------------------------------------------------------------------------
VProcsOn(loc, nd) == Cardinality({v \in VProc : LocationNode(loc[v]) = nd})

(* Every vproc is pinned to a hardware thread of the machine, no two to    *)
(* the same one as long as there are enough, and the layout that is not    *)
(* dense gives every node the same number of vprocs, or one more.          *)
WellPlaced(m, dense, loc) ==
  /\ \A v \in VProc : LogicalId(m, loc[v]) \in 0 .. NumHWThreads(m) - 1
  /\ NumVProcs <= NumHWThreads(m) =>
       \A v, w \in VProc : LogicalId(m, loc[v]) = LogicalId(m, loc[w]) => v = w
  /\ ~ IsDense(m, dense) =>
       \A n1, n2 \in 0 .. m.NumHWNodes - 1 : VProcsOn(loc, n1) <= VProcsOn(loc, n2) + 1
=============================================================================
