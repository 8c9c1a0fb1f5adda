--------------------------- MODULE StopTheWorld ---------------------------
(***************************************************************************)
(* What a global collection promises the vprocs: from-space is copied only *)
(* when every vproc has stopped and given up its chunks, and no vproc      *)
(* continues before all have finished copying.                             *)
(***************************************************************************)
CONSTANT VProcs
VARIABLE status  \* of a vproc: running, stopped, copying or finished

States(v, S) == status[v] \in S

Init == status = [v \in VProcs |-> "running"]

(* Enter StartGlobalGC. *)
Stop(v) ==
  /\ status[v] = "running"
  /\ status' = [status EXCEPT ![v] = "stopped"]

(* Nobody runs, and nobody is still on its way out of the last collection. *)
Copy(v) ==
  /\ status[v] = "stopped"
  /\ \A u \in VProcs : States(u, {"stopped", "copying"})
  /\ status' = [status EXCEPT ![v] = "copying"]

Finish(v) ==
  /\ status[v] = "copying"
  /\ \A u \in VProcs : States(u, {"copying", "finished"})
  /\ status' = [status EXCEPT ![v] = "finished"]

(* One that has continued may already have stopped for the next one. *)
Continue(v) ==
  /\ status[v] = "finished"
  /\ \A u \in VProcs : ~ States(u, {"copying"})
  /\ status' = [status EXCEPT ![v] = "running"]

Next == \E v \in VProcs : Stop(v) \/ Copy(v) \/ Finish(v) \/ Continue(v)

Spec == Init /\ [][Next]_status
=============================================================================
