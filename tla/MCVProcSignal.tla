-------------------------- MODULE MCVProcSignal --------------------------
(* VProcSignal for TLC: the vprocs other than the lead are interchangeable, *)
(* and so are the signals.  Only runs without liveness use the symmetry.    *)
EXTENDS VProcSignal, TLC

Symmetry == Permutations(VProcs \ {Lead}) \union Permutations(Signals)
=============================================================================
