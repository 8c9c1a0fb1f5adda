------------------------------ MODULE Mailbox ------------------------------
(***************************************************************************)
(* What a vproc's landing pad promises, apart from how it is programmed:   *)
(* any vproc may put a signal on the pad of another one, the newest signal *)
(* first, and only the owner empties the pad, taking everything on it at   *)
(* once.  A signal is sent once and taken once.                            *)
(*                                                                         *)
(* VProcSignal implements this with compare-and-swap loops.                *)
(***************************************************************************)
EXTENDS SequencesExt

CONSTANTS
  VProcs,    \* the virtual processors
  Signals    \* the fibers that are sent from vproc to vproc

VARIABLES
  box,       \* box[v] is the pad of v, newest signal first
  taken      \* the signals their destination has taken

vars == <<box, taken>>

InSomeBox(s) == \E v \in VProcs : s \in ToSet(box[v])

Init ==
  /\ box = [v \in VProcs |-> <<>>]
  /\ taken = {}

Send(v, s) ==
  /\ s \notin taken /\ ~ InSomeBox(s)
  /\ box' = [box EXCEPT ![v] = <<s>> \o @]
  /\ UNCHANGED taken

TakeAll(v) ==
  /\ box[v] # <<>>
  /\ box' = [box EXCEPT ![v] = <<>>]
  /\ taken' = taken \union ToSet(box[v])

Next ==
  \E v \in VProcs :
    \/ \E s \in Signals : Send(v, s)
    \/ TakeAll(v)

Spec == Init /\ [][Next]_vars
=============================================================================
