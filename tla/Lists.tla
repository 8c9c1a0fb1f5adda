------------------------------- MODULE Lists -------------------------------
(* Parts of lists. *)
EXTENDS FiniteSets, Integers, Sequences

(* The elements of s at the positions in I, in order. *)
Rank(I, i) == Cardinality({j \in I : j <= i})
Position(I, k) == CHOOSE i \in I : Rank(I, i) = k
SelectAt(s, I) == [k \in 1..Cardinality(I) |-> s[Position(I, k)]]
=============================================================================
