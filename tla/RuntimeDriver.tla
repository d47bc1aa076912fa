---------------------------- MODULE RuntimeDriver ----------------------------
(***************************************************************************)
(* What Dispatch of a runtime driver owes the scheduler, which writes      *)
(* running after a handle and rolls the task back after an error           *)
(* (internal/runtime/runtime.go, interface Runtime): an agent is started   *)
(* at most once, never after an error, and one that was started by a call  *)
(* that ended in an error does not stay.                                   *)
(***************************************************************************)
CONSTANTS Tasks

VARIABLES call,  \* the call of Dispatch for each task
          agent  \* its agent

vars == <<call, agent>>

Init ==
  /\ call = [t \in Tasks |-> "none"]
  /\ agent = [t \in Tasks |-> "none"]

Advance(t, from, to) ==
  /\ call[t] = from
  /\ call' = [call EXCEPT ![t] = to]
  /\ UNCHANGED agent

Call(t)         == Advance(t, "none", "pending")
ReturnHandle(t) == agent[t] # "none" /\ Advance(t, "pending", "handle")
ReturnError(t)  == Advance(t, "pending", "error")

Start(t) ==
  /\ call[t] \in {"pending", "handle"}
  /\ agent[t] = "none"
  /\ agent' = [agent EXCEPT ![t] = "running"]
  /\ UNCHANGED call

End(t) ==
  /\ agent[t] = "running"
  /\ agent' = [agent EXCEPT ![t] = "gone"]
  /\ UNCHANGED call

Next == \E t \in Tasks :
  Call(t) \/ ReturnHandle(t) \/ ReturnError(t) \/ Start(t) \/ End(t)

\* The agent of a failed call ends.
Spec ==
  /\ Init
  /\ [][Next]_vars
  /\ \A t \in Tasks : WF_vars(call[t] = "error" /\ End(t))
=============================================================================
