----------------------------- MODULE LocalDriver -----------------------------
(***************************************************************************)
(* internal/runtime/local/local.go: Dispatch starts a process per task and *)
(* a goroutine that waits for it.  Calls run concurrently, each on the     *)
(* context of the HTTP request that creates the task; the count of active  *)
(* processes is an atomic that is read at the start of a call and raised   *)
(* after the process has started.                                          *)
(*                                                                         *)
(* This is one life of the server.  Its end cuts the calls and the         *)
(* goroutines where they are; processes and directories stay.  The next    *)
(* one starts from Init for tasks of its own, and knows nothing of them.   *)
(***************************************************************************)
EXTENDS Integers, FiniteSets

CONSTANTS Tasks,           \* each is dispatched at most once
          MaxConcurrency,  \* maxConcurrency, 10 in the code
          Callers          \* bound on the calls of Dispatch in progress

ASSUME BoundsAssumption ==
  /\ MaxConcurrency \in Nat \ {0}
  /\ Callers \in Nat \ {0}

VARIABLES server,   \* whether the server's process is up
          pc,       \* control of Dispatch for each task
          ctx,      \* whether the request's context is done
          process,  \* the process started for the task
          monitor,  \* control of the goroutine that waits for it
          dir,      \* whether the task's temporary directory exists
          active,   \* Runtime.active
          handles   \* keys of Runtime.handles

vars == <<server, pc, ctx, process, monitor, dir, active, handles>>

\* Past the capacity check, and not yet counted.
Uncounted == {"mkdir", "write", "start", "count"}
InProgress == Uncounted \cup {"check", "put"}

TypeOK ==
  /\ server \in {"up", "down"}
  /\ pc \in [Tasks -> InProgress \cup {"idle", "handle", "error"}]
  /\ ctx \in [Tasks -> {"live", "done"}]
  /\ process \in [Tasks -> {"none", "running", "exited", "killed"}]
  /\ monitor \in [Tasks -> {"none", "wait", "uncount", "forget", "clean", "done"}]
  /\ dir \in [Tasks -> BOOLEAN]
  /\ active \in Nat
  /\ handles \subseteq Tasks

Init ==
  /\ server = "up"
  /\ pc = [t \in Tasks |-> "idle"]
  /\ ctx = [t \in Tasks |-> "live"]
  /\ process = [t \in Tasks |-> "none"]
  /\ monitor = [t \in Tasks |-> "none"]
  /\ dir = [t \in Tasks |-> FALSE]
  /\ active = 0
  /\ handles = {}

\* What the server's process does.
Serving == server = "up" /\ UNCHANGED server

Goto(t, from, to) ==
  /\ Serving
  /\ pc[t] = from
  /\ pc' = [pc EXCEPT ![t] = to]

-----------------------------------------------------------------------------
(* Dispatch.                                                                *)

Call(t) ==
  /\ Cardinality({u \in Tasks : pc[u] \in InProgress}) < Callers
  /\ Goto(t, "idle", "check")
  /\ UNCHANGED <<ctx, process, monitor, dir, active, handles>>

\* Mutant: off by one.
CheckLetsOneMore(t) ==
  /\ Goto(t, "check", IF active > MaxConcurrency THEN "error" ELSE "mkdir")
  /\ UNCHANGED <<ctx, process, monitor, dir, active, handles>>

\* Nothing reserves the slot until it is counted.
CheckCapacity(t) ==
  /\ Goto(t, "check", IF active >= MaxConcurrency THEN "error" ELSE "mkdir")
  /\ UNCHANGED <<ctx, process, monitor, dir, active, handles>>

MakeDir(t) ==
  /\ \/ Goto(t, "mkdir", "write") /\ dir' = [dir EXCEPT ![t] = TRUE]
     \/ Goto(t, "mkdir", "error") /\ UNCHANGED dir
  /\ UNCHANGED <<ctx, process, monitor, active, handles>>

\* task.json; on an error the directory stays.
WriteTask(t) ==
  /\ \E to \in {"start", "error"} : Goto(t, "write", to)
  /\ UNCHANGED <<ctx, process, monitor, dir, active, handles>>

\* Mutant: the error of cmd.Start is not looked at.
StartIgnoresError(t) ==
  /\ Goto(t, "start", "count")
  /\ \/ ctx[t] = "live" /\ process' = [process EXCEPT ![t] = "running"]
     \/ UNCHANGED process
  /\ UNCHANGED <<ctx, monitor, dir, active, handles>>

\* cmd.Start refuses when the context is done; on an error the directory
\* stays.
StartProcess(t) ==
  /\ \/ /\ ctx[t] = "live"
        /\ Goto(t, "start", "count")
        /\ process' = [process EXCEPT ![t] = "running"]
     \/ /\ Goto(t, "start", "error")
        /\ UNCHANGED process
  /\ UNCHANGED <<ctx, monitor, dir, active, handles>>

Count(t) ==
  /\ Goto(t, "count", "put")
  /\ active' = active + 1
  /\ UNCHANGED <<ctx, process, monitor, dir, handles>>

\* The handle is stored under the lock, the goroutine started, the call
\* returns.
ReturnHandle(t) ==
  /\ Goto(t, "put", "handle")
  /\ handles' = handles \cup {t}
  /\ monitor' = [monitor EXCEPT ![t] = "wait"]
  /\ UNCHANGED <<ctx, process, dir, active>>

Dispatch(t) ==
  \/ CheckCapacity(t)
  \/ MakeDir(t)
  \/ WriteTask(t)
  \/ StartProcess(t)
  \/ Count(t)
  \/ ReturnHandle(t)

-----------------------------------------------------------------------------
(* The goroutine of a started process.                                      *)

MonitorGoto(t, from, to) ==
  /\ Serving
  /\ monitor[t] = from
  /\ monitor' = [monitor EXCEPT ![t] = to]

\* Mutant: a goroutine whose process was killed returns at once.
WaitSkipsKilled(t) ==
  /\ process[t] \in {"exited", "killed"}
  /\ MonitorGoto(t, "wait", IF process[t] = "killed" THEN "done" ELSE "uncount")
  /\ UNCHANGED <<pc, ctx, process, dir, active, handles>>

\* Mutant: the goroutine does not wait.
WaitForgotten(t) ==
  /\ MonitorGoto(t, "wait", "uncount")
  /\ UNCHANGED <<pc, ctx, process, dir, active, handles>>

Wait(t) ==
  /\ process[t] \in {"exited", "killed"}
  /\ MonitorGoto(t, "wait", "uncount")
  /\ UNCHANGED <<pc, ctx, process, dir, active, handles>>

\* Mutant: the count is stored, not decremented.
UncountStores(t) ==
  /\ MonitorGoto(t, "uncount", "forget")
  /\ active' = 0
  /\ UNCHANGED <<pc, ctx, process, dir, handles>>

Uncount(t) ==
  /\ MonitorGoto(t, "uncount", "forget")
  /\ active' = active - 1
  /\ UNCHANGED <<pc, ctx, process, dir, handles>>

\* Mutant: the slot is given back a second time with the handle.
ForgetUncountsAgain(t) ==
  /\ MonitorGoto(t, "forget", "clean")
  /\ handles' = handles \ {t}
  /\ active' = active - 1
  /\ UNCHANGED <<pc, ctx, process, dir>>

Forget(t) ==
  /\ MonitorGoto(t, "forget", "clean")
  /\ handles' = handles \ {t}
  /\ UNCHANGED <<pc, ctx, process, dir, active>>

\* RemoveAll, best effort: when something is in its way, such as a child of the
\* agent that goes on writing there, the directory stays, and the error is
\* dropped.
Clean(t) ==
  /\ MonitorGoto(t, "clean", "done")
  /\ dir' \in {dir, [dir EXCEPT ![t] = FALSE]}
  /\ UNCHANGED <<pc, ctx, process, active, handles>>

Monitor(t) == Wait(t) \/ Uncount(t) \/ Forget(t) \/ Clean(t)

-----------------------------------------------------------------------------
(* The world.                                                               *)

\* net/http cancels the context when the client goes away or the handler
\* returns, whichever is first.
RequestEnds(t) ==
  /\ Serving
  /\ pc[t] # "idle"
  /\ ctx[t] = "live"
  /\ ctx' = [ctx EXCEPT ![t] = "done"]
  /\ UNCHANGED <<pc, process, monitor, dir, active, handles>>

\* exec.CommandContext kills the process when its context is done.
Kill(t) ==
  /\ Serving
  /\ ctx[t] = "done"
  /\ process[t] = "running"
  /\ process' = [process EXCEPT ![t] = "killed"]
  /\ UNCHANGED <<pc, ctx, monitor, dir, active, handles>>

ProcessExits(t) ==
  /\ process[t] = "running"
  /\ process' = [process EXCEPT ![t] = "exited"]
  /\ UNCHANGED <<server, pc, ctx, monitor, dir, active, handles>>

\* The server stops or is killed.  The processes it started go on without it.
ServerEnds ==
  /\ server = "up"
  /\ server' = "down"
  /\ UNCHANGED <<pc, ctx, process, monitor, dir, active, handles>>

Next ==
  \/ \E t \in Tasks : \/ Call(t) \/ Dispatch(t) \/ Monitor(t)
                      \/ RequestEnds(t) \/ Kill(t) \/ ProcessExits(t)
  \/ ServerEnds

Spec == Init /\ [][Next]_vars

\* While the server is up goroutines are scheduled, among them the one inside os/exec that kills, and
\* a handler whose call of Dispatch has returned returns.
FairSpec ==
  /\ Spec
  /\ \A t \in Tasks :
       /\ WF_vars(Dispatch(t))
       /\ WF_vars(Monitor(t))
       /\ WF_vars(Kill(t))
       /\ WF_vars(pc[t] \in {"handle", "error"} /\ RequestEnds(t))

-----------------------------------------------------------------------------
(* Properties.                                                              *)

\* The processes the count stands for.
Counted == {t \in Tasks : pc[t] \in {"put", "handle"} /\ monitor[t] \in {"none", "wait", "uncount"}}

\* The atomic counter, raised and lowered by goroutines of different calls, is
\* exact: it counts the started processes whose exit was not yet noticed.
CountIsExact == active = Cardinality(Counted)

Running == {t \in Tasks : process[t] = "running"}

\* The capacity check is made before the process is started and counted after,
\* so the limit can be passed, but never by more than the other calls in
\* progress; with one call at a time it holds.
OvershootIsBounded == Cardinality(Running) <= MaxConcurrency + Callers - 1

\* The directory that holds a task's parameters and is the process's working
\* directory is there as long as the process runs: the goroutine removes it only
\* after Wait has returned, and the end of the server removes nothing.  (What
\* becomes of it afterwards is not promised: the removal is best effort.)
DirectoryIsKept == \A t \in Tasks : process[t] = "running" => dir[t]

\* A process that has ended gives its slot and its handle back, as long as there
\* is a server to do so.
EndedIsForgotten == \A t \in Tasks :
  process[t] \in {"exited", "killed"} ~> t \notin Counted \cup handles \/ server = "down"

\* What a caller may rely on: an error means no agent, a handle means one.
Driver == INSTANCE RuntimeDriver WITH
  call <- [t \in Tasks |-> CASE pc[t] = "idle" -> "none"
                             [] pc[t] \in InProgress -> "pending"
                             [] OTHER -> pc[t]],
  agent <- [t \in Tasks |-> IF process[t] \in {"exited", "killed"}
                            THEN "gone" ELSE process[t]]
KeepsContract == Driver!Spec

\* runtime.go, "Handle is an opaque reference to a running agent": once the
\* handle was returned the process ends only by itself.
HandleOutlivesRequest == \A t \in Tasks :
  pc[t] = "handle" => process[t] # "killed"
-----------------------------------------------------------------------------
(* The inductive invariant.                                                 *)

Begun == {t \in Tasks : pc[t] # "idle"}
Calls == {t \in Tasks : pc[t] \in InProgress}

\* The calls and processes that have passed the capacity check and have not
\* given their slot back.
Holding == {t \in Tasks : pc[t] \in Uncounted} \cup Counted

ControlInv == \A t \in Tasks :
  /\ pc[t] = "handle" <=> monitor[t] # "none"
  /\ process[t] = "none" <=> pc[t] \in {"idle", "check", "mkdir", "write", "start", "error"}
  /\ monitor[t] \in {"uncount", "forget", "clean", "done"} => process[t] # "running"

DirectoryInv == \A t \in Tasks :
  pc[t] \in {"write", "start", "count", "put"} \/ monitor[t] = "wait" => dir[t]

CapacityInv ==
  /\ IsFiniteSet(Begun)
  /\ Cardinality(Calls) <= Callers
  /\ Cardinality(Holding) <= MaxConcurrency + Callers - 1

IInv ==
  /\ TypeOK
  /\ ControlInv
  /\ DirectoryInv
  /\ CountIsExact
  /\ CapacityInv
=============================================================================
