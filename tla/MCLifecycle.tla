---------------------------- MODULE MCLifecycle ----------------------------
(* Layouts of three vprocs: two on one node and one on another, two on one *)
(* core and one on another, and dense.                                     *)
EXTENDS Lifecycle

Layout(m, d) == [machine |-> m, dense |-> d]

SomeLayouts ==
  {Layout(Machine(2, 2, 1), FALSE), Layout(Machine(1, 2, 2), FALSE),
   Layout(Machine(2, 2, 2), TRUE)}
=============================================================================
