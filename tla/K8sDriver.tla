------------------------------ MODULE K8sDriver ------------------------------
(***************************************************************************)
(* internal/runtime/k8s/driver.go: Dispatch creates a ConfigMap, a Job and *)
(* a Secret owned by the Job, in that order, and on an error deletes what  *)
(* it knows it created.  Every call of the API server runs on the context  *)
(* of the HTTP request that creates the task.  Around it, the cluster: the *)
(* pod of a Job starts when both objects it refers to exist.  The cleanup  *)
(* deletes the Job without a propagation policy, for which batch/v1 keeps  *)
(* what the Job owned, so that its pod and its Secret may stay.            *)
(***************************************************************************)
EXTENDS Naturals, FiniteSets

CONSTANTS Tasks,          \* object names derive from the task's id
          MaxFaults,      \* bound on the API calls that go wrong, per task
          RepliesLost,    \* whether a call can take effect and yet fail
          RequestsEnd,    \* whether a client may go away during Dispatch
          ServerMayCrash  \* whether the server may be killed during Dispatch

ASSUME FaultsAssumption ==
  /\ MaxFaults \in Nat
  /\ RepliesLost \in BOOLEAN
  /\ RequestsEnd \in BOOLEAN
  /\ ServerMayCrash \in BOOLEAN

VARIABLES pc,         \* control of Dispatch for each task
          ctx,        \* "live", "ending" until the call in progress returns, "done"
          faults,     \* API calls of the task that went wrong
          lost,       \* history: whether one of them took effect all the same
          configMap,  \* whether the object exists
          job,        \* likewise
          secret,     \* likewise
          pod         \* the pod of the Job

objects == <<configMap, job, secret>>
calls == <<ctx, faults, lost>>
vars == <<pc, calls, objects, pod>>

\* The calls of Dispatch, in order; then the cleanup after a failed Secret
\* (dropJob, dropConfig) or a failed Job (dropConfig alone).
InProgress == {"config", "job", "secret", "dropJob", "dropConfig"}

TypeOK ==
  /\ pc \in [Tasks -> InProgress \cup {"idle", "handle", "error", "lost"}]
  /\ ctx \in [Tasks -> {"live", "ending", "done"}]
  /\ faults \in [Tasks -> 0 .. MaxFaults]
  /\ lost \in [Tasks -> BOOLEAN]
  /\ configMap \in [Tasks -> BOOLEAN]
  /\ job \in [Tasks -> BOOLEAN]
  /\ secret \in [Tasks -> BOOLEAN]
  /\ pod \in [Tasks -> {"none", "waiting", "running", "gone"}]
  /\ \A t \in Tasks :
       /\ pc[t] \in {"idle", "config"} => ~configMap[t]
       /\ pc[t] \in {"idle", "config", "job"} => ~job[t]
       /\ pc[t] \in {"idle", "config", "job", "secret"} => ~secret[t]
       /\ pc[t] = "secret" => configMap[t] /\ job[t]

Init ==
  /\ pc = [t \in Tasks |-> "idle"]
  /\ ctx = [t \in Tasks |-> "live"]
  /\ faults = [t \in Tasks |-> 0]
  /\ lost = [t \in Tasks |-> FALSE]
  /\ configMap = [t \in Tasks |-> FALSE]
  /\ job = [t \in Tasks |-> FALSE]
  /\ secret = [t \in Tasks |-> FALSE]
  /\ pod = [t \in Tasks |-> "none"]

-----------------------------------------------------------------------------
(* Calls of the API server.                                                 *)

\* How a call for a task may end: "ok"; "failed", with no effect; "lost", with
\* its effect and an error.  A call that runs while the context ends may end in
\* any way; one made afterwards is not sent.
Ends(t, outcome) ==
  /\ outcome \in {"ok", "failed", "lost"}
  /\ outcome = "ok" => ctx[t] # "done"
  /\ outcome = "lost" => RepliesLost /\ ctx[t] # "done"
  /\ ctx[t] = "live" /\ outcome # "ok" => faults[t] < MaxFaults
  /\ faults' = [faults EXCEPT ![t] = IF ctx[t] = "live" /\ outcome # "ok"
                                     THEN @ + 1 ELSE @]
  /\ lost' = [lost EXCEPT ![t] = @ \/ outcome = "lost"]
  /\ ctx' = [ctx EXCEPT ![t] = IF @ = "ending" THEN "done" ELSE @]

Create(object, t, outcome) ==
  object' = [object EXCEPT ![t] = @ \/ outcome # "failed"]

Delete(object, t, outcome) ==
  object' = [object EXCEPT ![t] = @ /\ outcome = "failed"]

Goto(t, from, to) ==
  /\ pc[t] = from
  /\ pc' = [pc EXCEPT ![t] = to]

-----------------------------------------------------------------------------
(* Dispatch, one API call a step.                                           *)

\* The token is drawn and task.json marshalled, which does not fail for what
\* CreateTask passes.
Call(t) ==
  /\ Goto(t, "idle", "config")
  /\ UNCHANGED <<calls, objects, pod>>

\* Mutant: the error is ignored.
CreateConfigMapIgnoresError(t) == \E outcome \in {"ok", "failed", "lost"} :
  /\ Ends(t, outcome)
  /\ Create(configMap, t, outcome)
  /\ Goto(t, "config", "job")
  /\ UNCHANGED <<job, secret, pod>>

CreateConfigMap(t) == \E outcome \in {"ok", "failed", "lost"} :
  /\ Ends(t, outcome)
  /\ Create(configMap, t, outcome)
  /\ Goto(t, "config", IF outcome = "ok" THEN "job" ELSE "error")
  /\ UNCHANGED <<job, secret, pod>>

\* Mutants: the Secret is created where the Job should be; a Job that cannot be
\* created leaves its ConfigMap.
CreateJobSwapped(t) == \E outcome \in {"ok", "failed", "lost"} :
  /\ Ends(t, outcome)
  /\ Create(secret, t, outcome)
  /\ Goto(t, "job", IF outcome = "ok" THEN "secret" ELSE "dropConfig")
  /\ UNCHANGED <<configMap, job, pod>>

CreateJobKeepsConfigMap(t) == \E outcome \in {"ok", "failed", "lost"} :
  /\ Ends(t, outcome)
  /\ Create(job, t, outcome)
  /\ Goto(t, "job", IF outcome = "ok" THEN "secret" ELSE "error")
  /\ UNCHANGED <<configMap, secret, pod>>

CreateJob(t) == \E outcome \in {"ok", "failed", "lost"} :
  /\ Ends(t, outcome)
  /\ Create(job, t, outcome)
  /\ Goto(t, "job", IF outcome = "ok" THEN "secret" ELSE "dropConfig")
  /\ UNCHANGED <<configMap, secret, pod>>

\* Mutant: the error is ignored.
CreateSecretIgnoresError(t) == \E outcome \in {"ok", "failed", "lost"} :
  /\ Ends(t, outcome)
  /\ Create(secret, t, outcome)
  /\ Goto(t, "secret", "handle")
  /\ UNCHANGED <<configMap, job, pod>>

CreateSecret(t) == \E outcome \in {"ok", "failed", "lost"} :
  /\ Ends(t, outcome)
  /\ Create(secret, t, outcome)
  /\ Goto(t, "secret", IF outcome = "ok" THEN "handle" ELSE "dropJob")
  /\ UNCHANGED <<configMap, job, pod>>

\* "Best-effort": the errors of both deletions are ignored.
DropJob(t) == \E outcome \in {"ok", "failed", "lost"} :
  /\ Ends(t, outcome)
  /\ Delete(job, t, outcome)
  /\ Goto(t, "dropJob", "dropConfig")
  /\ UNCHANGED <<configMap, secret, pod>>

DropConfigMap(t) == \E outcome \in {"ok", "failed", "lost"} :
  /\ Ends(t, outcome)
  /\ Delete(configMap, t, outcome)
  /\ Goto(t, "dropConfig", "error")
  /\ UNCHANGED <<job, secret, pod>>

Dispatch(t) ==
  \/ CreateConfigMap(t)
  \/ CreateJob(t)
  \/ CreateSecret(t)
  \/ DropJob(t)
  \/ DropConfigMap(t)

-----------------------------------------------------------------------------
(* The world: clients, the server process, the cluster.                     *)

RequestEnds(t) ==
  /\ RequestsEnd
  /\ pc[t] \in InProgress
  /\ ctx[t] = "live"
  /\ ctx' = [ctx EXCEPT ![t] = "ending"]
  /\ UNCHANGED <<pc, faults, lost, objects, pod>>

\* The server is killed: every call of Dispatch in progress is cut.
Crash ==
  /\ ServerMayCrash
  /\ pc' = [t \in Tasks |-> IF pc[t] \in InProgress THEN "lost" ELSE pc[t]]
  /\ pc' # pc
  /\ UNCHANGED <<calls, objects, pod>>

CreatePod(t) ==
  /\ job[t]
  /\ pod[t] = "none"
  /\ pod' = [pod EXCEPT ![t] = "waiting"]
  /\ UNCHANGED <<pc, calls, objects>>

\* Mutant: the reference to the Secret is optional.
StartPodWithoutSecret(t) ==
  /\ pod[t] = "waiting"
  /\ configMap[t]
  /\ pod' = [pod EXCEPT ![t] = "running"]
  /\ UNCHANGED <<pc, calls, objects>>

\* The pod mounts the ConfigMap and reads its token from the Secret; the
\* kubelet keeps trying until both are there.
StartPod(t) ==
  /\ pod[t] = "waiting"
  /\ configMap[t] /\ secret[t]
  /\ pod' = [pod EXCEPT ![t] = "running"]
  /\ UNCHANGED <<pc, calls, objects>>

\* backoffLimit 0 and restartPolicy Never: a pod runs once.
PodEnds(t) ==
  /\ pod[t] = "running"
  /\ pod' = [pod EXCEPT ![t] = "gone"]
  /\ UNCHANGED <<pc, calls, objects>>

\* What belonged to a Job that is gone may be collected after all, by an
\* operator or by a cluster with another default.
CollectPod(t) ==
  /\ ~job[t]
  /\ pod[t] \in {"waiting", "running"}
  /\ pod' = [pod EXCEPT ![t] = IF @ = "waiting" THEN "none" ELSE "gone"]
  /\ UNCHANGED <<pc, calls, objects>>

CollectSecret(t) ==
  /\ ~job[t]
  /\ secret[t]
  /\ secret' = [secret EXCEPT ![t] = FALSE]
  /\ UNCHANGED <<pc, calls, configMap, job, pod>>

Next ==
  \/ \E t \in Tasks :
       \/ Call(t) \/ Dispatch(t) \/ RequestEnds(t)
       \/ CreatePod(t) \/ StartPod(t) \/ PodEnds(t)
       \/ CollectPod(t) \/ CollectSecret(t)
  \/ Crash

Spec == Init /\ [][Next]_vars

\* Goroutines are scheduled and API calls return; the job controller and the
\* kubelet do their work.
FairSpec ==
  /\ Spec
  /\ \A t \in Tasks :
       /\ WF_vars(Dispatch(t))
       /\ WF_vars(CreatePod(t))
       /\ WF_vars(StartPod(t))

-----------------------------------------------------------------------------
(* Properties.                                                              *)

\* A handle is returned only for a task whose three objects exist, and nothing
\* the server does removes them afterwards, whatever went wrong on the way.
HandleIsComplete == \A t \in Tasks :
  pc[t] = "handle" => configMap[t] /\ job[t] /\ secret[t]

\* So the pod of a task with a handle starts, even if the server dies.
HandleLeadsToAgent == \A t \in Tasks :
  pc[t] = "handle" ~> pod[t] \in {"running", "gone"}

\* CreateTask rolls the task back after an error.  However many calls failed,
\* those of the cleanup included, and whenever the request ended, its agent has
\* not run and never will, unless the API server carried out a call that it
\* reported as failed: the pod needs the object that is created last.
ErrorMeansNoAgent == \A t \in Tasks :
  pc[t] = "error" /\ pod[t] \in {"running", "gone"} => lost[t]

\* An error after a single call that went wrong leaves none of the three objects,
\* or the one whose creation took effect and was reported as failed.
FailureIsCleaned == \A t \in Tasks :
  pc[t] = "error" /\ faults[t] <= 1 /\ ctx[t] = "live" =>
    Cardinality({object \in {"config", "job", "secret"} :
      CASE object = "config" -> configMap[t]
        [] object = "job"    -> job[t]
        [] object = "secret" -> secret[t]}) <= IF lost[t] THEN 1 ELSE 0
-----------------------------------------------------------------------------
(* The inductive invariant.                                                 *)

\* Until a call fails, and after a handle, nothing has gone wrong; the pod needs
\* the Secret; and the Secret of a call that failed was created by a reply that
\* was lost.
SecretInv(t) ==
  /\ pc[t] = "job" => configMap[t]
  /\ pc[t] = "handle" => configMap[t] /\ job[t] /\ secret[t]
  /\ pc[t] \in {"idle", "config", "job", "secret", "handle"} =>
       faults[t] = 0 /\ ~lost[t]
  /\ pc[t] \in {"idle", "config", "job", "secret"} => pod[t] \in {"none", "waiting"}
  /\ pc[t] \in {"dropJob", "dropConfig", "error"} =>
       (secret[t] \/ pod[t] \in {"running", "gone"} => lost[t])

\* What a failed call may have left behind when only one call of the API server
\* went wrong, as long as the request has not ended.
CleanupInv(t) == ctx[t] = "live" =>
  /\ pc[t] \in {"dropJob", "dropConfig", "error"} => faults[t] >= 1
  /\ pc[t] = "dropConfig" /\ faults[t] <= 1 =>
       /\ job[t] \/ secret[t] => lost[t]
       /\ ~(job[t] /\ secret[t])
  /\ pc[t] = "error" /\ faults[t] <= 1 =>
       /\ configMap[t] \/ job[t] \/ secret[t] => lost[t]
       /\ ~(configMap[t] /\ job[t])
       /\ ~(configMap[t] /\ secret[t])
       /\ ~(job[t] /\ secret[t])

IInv == TypeOK /\ \A t \in Tasks : SecretInv(t) /\ CleanupInv(t)
=============================================================================
