----------------------------- MODULE MCGlobalGC -----------------------------
(* Two vprocs of one node, or a third one on a second node. *)
EXTENDS GlobalGC

CONSTANTS v1, v2, v3, n1, n2

OneNode == [v \in {v1, v2} |-> n1]
TwoNodes == [v \in {v1, v2, v3} |-> IF v = v3 THEN n2 ELSE n1]

SameNode == Permutations({v1, v2})
=============================================================================
