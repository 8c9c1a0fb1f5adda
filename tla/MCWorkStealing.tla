-------------------------- MODULE MCWorkStealing --------------------------
(* WorkStealing with symmetric vprocs: the main thread may enter the group *)
(* on any of them.                                                         *)
EXTENDS WorkStealing

Symmetry == Permutations(VProcs)
=============================================================================
