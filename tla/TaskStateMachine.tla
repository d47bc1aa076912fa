--------------------------- MODULE TaskStateMachine ---------------------------
(***************************************************************************)
(* What the control plane promises of a task's state: the machine of       *)
(* docs/AGENT_API.md, "State Machine"                                      *)
(*                                                                         *)
(*     pending -> running -> completed | failed | timeout                  *)
(*                                                                         *)
(* with the one edge the rollback of CreateTask adds, pending -> failed.   *)
(***************************************************************************)
CONSTANT Tasks

VARIABLE taskState

Absent == "absent"

Init == taskState = [t \in Tasks |-> Absent]

Move(t, from, to) ==
  /\ taskState[t] \in from
  /\ \E s \in to : taskState' = [taskState EXCEPT ![t] = s]

Submit(t)   == Move(t, {Absent}, {"pending"})
Start(t)    == Move(t, {"pending"}, {"running"})
Finish(t)   == Move(t, {"running"}, {"completed", "failed", "timeout"})
Rollback(t) == Move(t, {"pending"}, {"failed"})

Next == \E t \in Tasks : Submit(t) \/ Start(t) \/ Finish(t) \/ Rollback(t)

Spec == Init /\ [][Next]_taskState
=============================================================================
