---------------------------- MODULE ObjectGraph ----------------------------
(***************************************************************************)
(* What a program may expect of memory: objects that refer to each other,  *)
(* and roots.  There are no addresses, regions or chunks, and all that a   *)
(* collection does is to forget objects that no root leads to.             *)
(***************************************************************************)
EXTENDS Naturals, SequencesExt

CONSTANTS
  Roots,  \* how many values the program keeps, the latest ones
  Ids,    \* the objects
  Nil,    \* a value that is not a pointer
  MaxLen  \* the most fields an object has (bound)

VARIABLES
  root,   \* the values of the program, the latest first
  graph   \* the fields of each object there is

vars == <<root, graph>>

Value == ToSet(root) \union {Nil}

Latest(v) == <<v>> \o Front(root)

Init == root = [r \in 1 .. Roots |-> Nil] /\ graph = <<>>

(* A new object, with values at hand in its fields. *)
New(x) ==
  /\ x \in Ids \ DOMAIN graph
  /\ root' = Latest(x)
  /\ \E n \in 0 .. MaxLen : \E fields \in [1 .. n -> Value] :
       graph' = [y \in DOMAIN graph \union {x} |-> IF y = x THEN fields ELSE graph[y]]

(* A field of one of its objects becomes a value of the program. *)
Read(r, i) ==
  /\ root[r] # Nil
  /\ i \in DOMAIN graph[root[r]]
  /\ root' = Latest(graph[root[r]][i])
  /\ UNCHANGED graph

(* Some objects go, none of them in a root or in an object that stays. *)
Collect ==
  /\ UNCHANGED root
  /\ LET kept == DOMAIN graph'
     IN  /\ kept \subseteq DOMAIN graph
         /\ ToSet(root) \subseteq kept \union {Nil}
         /\ \A x \in kept : \A i \in DOMAIN graph[x] : graph[x][i] \in kept \union {Nil}
         /\ graph' = [x \in kept |-> graph[x]]

Next ==
  \/ \E x \in Ids : New(x)
  \/ \E r \in 1 .. Roots, i \in 1 .. MaxLen : Read(r, i)
  \/ Collect

Spec == Init /\ [][Next]_vars
=============================================================================
