---------------------------- MODULE MCLocalHeap ----------------------------
(* Objects of no field and of two fields. *)
EXTENDS LocalHeap

EmptyOrPair == {0, 2}
Uniform == {"GlobalAllocUniform"}
NonUniform == {"GlobalAllocNonUniform"}
=============================================================================
