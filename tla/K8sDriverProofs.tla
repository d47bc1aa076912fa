--------------------------- MODULE K8sDriverProofs ---------------------------
(***************************************************************************)
(* Theorems about K8sDriver, for any set of tasks, any number of calls of  *)
(* the API server that go wrong, and every combination of the faults.      *)
(***************************************************************************)
EXTENDS K8sDriver, FiniteSetTheorems, TLAPS

\* Writing a flag of one task.
LEMMA FlagSet ==
  ASSUME NEW f \in [Tasks -> BOOLEAN], NEW t \in Tasks, NEW b \in BOOLEAN
  PROVE  /\ [f EXCEPT ![t] = b] \in [Tasks -> BOOLEAN]
         /\ [f EXCEPT ![t] = b][t] = b
         /\ \A u \in Tasks \ {t} : [f EXCEPT ![t] = b][u] = f[u]
  BY Zenon

-----------------------------------------------------------------------------
(* What one task's variables are after a step.                              *)

\* Nothing of a task has changed.
Untouched(u) ==
  /\ pc'[u] = pc[u] /\ ctx'[u] = ctx[u] /\ faults'[u] = faults[u]
  /\ lost'[u] = lost[u] /\ configMap'[u] = configMap[u]
  /\ job'[u] = job[u] /\ secret'[u] = secret[u] /\ pod'[u] = pod[u]

\* A call of the API server that returns.
LEMMA EndsAt ==
  ASSUME TypeOK, NEW t \in Tasks, NEW outcome \in {"ok", "failed", "lost"},
         Ends(t, outcome)
  PROVE  /\ faults' \in [Tasks -> 0 .. MaxFaults]
         /\ lost' \in [Tasks -> BOOLEAN]
         /\ ctx' \in [Tasks -> {"live", "ending", "done"}]
         /\ lost'[t] = (lost[t] \/ outcome = "lost")
         /\ outcome = "ok" => faults'[t] = faults[t]
         /\ ctx'[t] = "live" => ctx[t] = "live"
         /\ ctx'[t] = "live" /\ outcome # "ok" => faults'[t] = faults[t] + 1
         /\ \A u \in Tasks \ {t} :
              faults'[u] = faults[u] /\ lost'[u] = lost[u] /\ ctx'[u] = ctx[u]
<1>1. /\ lost' \in [Tasks -> BOOLEAN]
      /\ lost'[t] = (lost[t] \/ outcome = "lost")
      /\ \A u \in Tasks \ {t} : lost'[u] = lost[u]
  <2>1. lost' = [lost EXCEPT ![t] = lost[t] \/ outcome = "lost"]
    BY DEF Ends
  <2>2. lost \in [Tasks -> BOOLEAN]
    BY DEF TypeOK
  <2>3. (lost[t] \/ outcome = "lost") \in BOOLEAN
    OBVIOUS
  <2> QED
    BY <2>1, <2>2, <2>3, FlagSet
<1>2. /\ ctx' \in [Tasks -> {"live", "ending", "done"}]
      /\ ctx'[t] = "live" => ctx[t] = "live"
      /\ \A u \in Tasks \ {t} : ctx'[u] = ctx[u]
  BY DEF Ends, TypeOK
<1>3. CASE ctx[t] = "live" /\ outcome # "ok"
  <2>1. /\ faults[t] < MaxFaults /\ faults[t] \in 0 .. MaxFaults
        /\ faults' = [faults EXCEPT ![t] = faults[t] + 1]
    BY <1>3 DEF Ends, TypeOK
  <2>2. faults[t] + 1 \in 0 .. MaxFaults
    BY <2>1, FaultsAssumption
  <2> QED
    BY <1>1, <1>2, <1>3, <2>1, <2>2 DEF TypeOK
<1>4. CASE ~(ctx[t] = "live" /\ outcome # "ok")
  <2>1. faults' = faults
    BY <1>4 DEF Ends, TypeOK
  <2> QED
    BY <1>1, <1>2, <1>4, <2>1 DEF TypeOK
<1> QED
  BY <1>3, <1>4

\* The creation of an object, and its deletion.
LEMMA CreateAt ==
  ASSUME NEW f \in [Tasks -> BOOLEAN], NEW g, NEW t \in Tasks, NEW outcome,
         g = [f EXCEPT ![t] = f[t] \/ outcome # "failed"]
  PROVE  /\ g \in [Tasks -> BOOLEAN]
         /\ g[t] = (f[t] \/ outcome # "failed")
         /\ \A u \in Tasks \ {t} : g[u] = f[u]
<1>1. (f[t] \/ outcome # "failed") \in BOOLEAN
  OBVIOUS
<1> QED
  BY <1>1, FlagSet

LEMMA DeleteAt ==
  ASSUME NEW f \in [Tasks -> BOOLEAN], NEW g, NEW t \in Tasks, NEW outcome,
         g = [f EXCEPT ![t] = f[t] /\ outcome = "failed"]
  PROVE  /\ g \in [Tasks -> BOOLEAN]
         /\ g[t] = (f[t] /\ outcome = "failed")
         /\ \A u \in Tasks \ {t} : g[u] = f[u]
<1>1. (f[t] /\ outcome = "failed") \in BOOLEAN
  OBVIOUS
<1> QED
  BY <1>1, FlagSet

-----------------------------------------------------------------------------
(* A step of one task.                                                      *)

\* The types of the variables, without the control that TypeOK adds.
Types ==
  /\ pc \in [Tasks -> InProgress \cup {"idle", "handle", "error", "lost"}]
  /\ ctx \in [Tasks -> {"live", "ending", "done"}]
  /\ faults \in [Tasks -> 0 .. MaxFaults]
  /\ lost \in [Tasks -> BOOLEAN]
  /\ configMap \in [Tasks -> BOOLEAN]
  /\ job \in [Tasks -> BOOLEAN]
  /\ secret \in [Tasks -> BOOLEAN]
  /\ pod \in [Tasks -> {"none", "waiting", "running", "gone"}]

Control(t) ==
  /\ pc[t] \in {"idle", "config"} => ~configMap[t]
  /\ pc[t] \in {"idle", "config", "job"} => ~job[t]
  /\ pc[t] \in {"idle", "config", "job", "secret"} => ~secret[t]
  /\ pc[t] = "secret" => configMap[t] /\ job[t]

TaskInv(t) == Control(t) /\ SecretInv(t) /\ CleanupInv(t)

LEMMA Parts ==
  /\ IInv <=> Types /\ \A t \in Tasks : TaskInv(t)
  /\ IInv' <=> Types' /\ \A t \in Tasks : TaskInv(t)'
<1>1. IInv <=> Types /\ \A t \in Tasks : TaskInv(t)
  BY Zenon DEF IInv, TypeOK, Types, Control, TaskInv
<1>2. IInv' <=> Types' /\ \A t \in Tasks : TaskInv(t)'
  BY Zenon DEF IInv, TypeOK, Types, Control, TaskInv
<1> QED
  BY <1>1, <1>2

\* A task of which nothing changed keeps its part of the invariant.
LEMMA KeepsInv == ASSUME NEW u \in Tasks, TaskInv(u), Untouched(u) PROVE TaskInv(u)'
  BY DEF TaskInv, Control, SecretInv, CleanupInv, Untouched

\* What a step of one task has to show.
StepOf(t) == Types' /\ TaskInv(t)' /\ \A u \in Tasks \ {t} : Untouched(u)

LEMMA StepConfigMap ==
  ASSUME IInv, NEW t \in Tasks, CreateConfigMap(t) PROVE StepOf(t)
<1>0. TypeOK /\ Types /\ TaskInv(t)
  BY Parts DEF IInv
<1>1. PICK outcome \in {"ok", "failed", "lost"} :
        /\ Ends(t, outcome)
        /\ Create(configMap, t, outcome)
        /\ Goto(t, "config", IF outcome = "ok" THEN "job" ELSE "error")
        /\ UNCHANGED <<job, secret, pod>>
  BY DEF CreateConfigMap
<1>2. /\ configMap' \in [Tasks -> BOOLEAN]
      /\ configMap'[t] = (configMap[t] \/ outcome # "failed")
      /\ \A u \in Tasks \ {t} : configMap'[u] = configMap[u]
  BY <1>0, <1>1, CreateAt DEF Create, Types
<1>3. /\ pc[t] = "config"
      /\ pc' \in [Tasks -> InProgress \cup {"idle", "handle", "error", "lost"}]
      /\ pc'[t] = IF outcome = "ok" THEN "job" ELSE "error"
      /\ \A u \in Tasks \ {t} : pc'[u] = pc[u]
  BY <1>0, <1>1 DEF Goto, Types, InProgress
<1>4. Types' /\ \A u \in Tasks \ {t} : Untouched(u)
  BY <1>0, <1>1, <1>2, <1>3, EndsAt DEF Types, Untouched
<1>5. TaskInv(t)'
  <2>1. Control(t)'
    BY <1>0, <1>1, <1>2, <1>3 DEF TaskInv, Control
  <2>2. SecretInv(t)'
    BY <1>0, <1>1, <1>2, <1>3, EndsAt DEF TaskInv, Control, SecretInv
  <2>3. CleanupInv(t)'
    BY <1>0, <1>1, <1>2, <1>3, <1>4, EndsAt DEF TaskInv, Control, SecretInv, CleanupInv, Types
  <2> QED
    BY <2>1, <2>2, <2>3 DEF TaskInv
<1> QED
  BY <1>4, <1>5 DEF StepOf

LEMMA StepJob ==
  ASSUME IInv, NEW t \in Tasks, CreateJob(t) PROVE StepOf(t)
<1>0. TypeOK /\ Types /\ TaskInv(t)
  BY Parts DEF IInv
<1>1. PICK outcome \in {"ok", "failed", "lost"} :
        /\ Ends(t, outcome)
        /\ Create(job, t, outcome)
        /\ Goto(t, "job", IF outcome = "ok" THEN "secret" ELSE "dropConfig")
        /\ UNCHANGED <<configMap, secret, pod>>
  BY DEF CreateJob
<1>2. /\ job' \in [Tasks -> BOOLEAN]
      /\ job'[t] = (job[t] \/ outcome # "failed")
      /\ \A u \in Tasks \ {t} : job'[u] = job[u]
  BY <1>0, <1>1, CreateAt DEF Create, Types
<1>3. /\ pc[t] = "job"
      /\ pc' \in [Tasks -> InProgress \cup {"idle", "handle", "error", "lost"}]
      /\ pc'[t] = IF outcome = "ok" THEN "secret" ELSE "dropConfig"
      /\ \A u \in Tasks \ {t} : pc'[u] = pc[u]
  BY <1>0, <1>1 DEF Goto, Types, InProgress
<1>4. Types' /\ \A u \in Tasks \ {t} : Untouched(u)
  BY <1>0, <1>1, <1>2, <1>3, EndsAt DEF Types, Untouched
<1>5. TaskInv(t)'
  <2>1. Control(t)'
    <3>1. CASE outcome = "ok"
      <4>1. pc'[t] = "secret" /\ job'[t] /\ configMap'[t] /\ ~secret'[t]
        BY <1>0, <1>1, <1>2, <1>3, <3>1 DEF TaskInv, Control, SecretInv
      <4> QED
        BY <4>1 DEF Control
    <3>2. CASE outcome # "ok"
      BY <1>0, <1>1, <1>2, <1>3, <3>2 DEF TaskInv, Control
    <3> QED
      BY <3>1, <3>2
  <2>2. SecretInv(t)'
    BY <1>0, <1>1, <1>2, <1>3, EndsAt DEF TaskInv, Control, SecretInv
  <2>3. CleanupInv(t)'
    BY <1>0, <1>1, <1>2, <1>3, <1>4, EndsAt DEF TaskInv, Control, SecretInv, CleanupInv, Types
  <2> QED
    BY <2>1, <2>2, <2>3 DEF TaskInv
<1> QED
  BY <1>4, <1>5 DEF StepOf

LEMMA StepSecret ==
  ASSUME IInv, NEW t \in Tasks, CreateSecret(t) PROVE StepOf(t)
<1>0. TypeOK /\ Types /\ TaskInv(t)
  BY Parts DEF IInv
<1>1. PICK outcome \in {"ok", "failed", "lost"} :
        /\ Ends(t, outcome)
        /\ Create(secret, t, outcome)
        /\ Goto(t, "secret", IF outcome = "ok" THEN "handle" ELSE "dropJob")
        /\ UNCHANGED <<configMap, job, pod>>
  BY DEF CreateSecret
<1>2. /\ secret' \in [Tasks -> BOOLEAN]
      /\ secret'[t] = (secret[t] \/ outcome # "failed")
      /\ \A u \in Tasks \ {t} : secret'[u] = secret[u]
  BY <1>0, <1>1, CreateAt DEF Create, Types
<1>3. /\ pc[t] = "secret"
      /\ pc' \in [Tasks -> InProgress \cup {"idle", "handle", "error", "lost"}]
      /\ pc'[t] = IF outcome = "ok" THEN "handle" ELSE "dropJob"
      /\ \A u \in Tasks \ {t} : pc'[u] = pc[u]
  BY <1>0, <1>1 DEF Goto, Types, InProgress
<1>4. Types' /\ \A u \in Tasks \ {t} : Untouched(u)
  BY <1>0, <1>1, <1>2, <1>3, EndsAt DEF Types, Untouched
<1>5. TaskInv(t)'
  <2>1. Control(t)'
    BY <1>0, <1>1, <1>2, <1>3 DEF TaskInv, Control
  <2>2. SecretInv(t)'
    BY <1>0, <1>1, <1>2, <1>3, EndsAt DEF TaskInv, Control, SecretInv
  <2>3. CleanupInv(t)'
    BY <1>0, <1>1, <1>2, <1>3, <1>4, EndsAt DEF TaskInv, Control, SecretInv, CleanupInv, Types
  <2> QED
    BY <2>1, <2>2, <2>3 DEF TaskInv
<1> QED
  BY <1>4, <1>5 DEF StepOf

LEMMA StepDropJob ==
  ASSUME IInv, NEW t \in Tasks, DropJob(t) PROVE StepOf(t)
<1>0. TypeOK /\ Types /\ TaskInv(t)
  BY Parts DEF IInv
<1>1. PICK outcome \in {"ok", "failed", "lost"} :
        /\ Ends(t, outcome)
        /\ Delete(job, t, outcome)
        /\ Goto(t, "dropJob", "dropConfig")
        /\ UNCHANGED <<configMap, secret, pod>>
  BY DEF DropJob
<1>2. /\ job' \in [Tasks -> BOOLEAN]
      /\ job'[t] = (job[t] /\ outcome = "failed")
      /\ \A u \in Tasks \ {t} : job'[u] = job[u]
  BY <1>0, <1>1, DeleteAt DEF Delete, Types
<1>3. /\ pc[t] = "dropJob"
      /\ pc' \in [Tasks -> InProgress \cup {"idle", "handle", "error", "lost"}]
      /\ pc'[t] = "dropConfig"
      /\ \A u \in Tasks \ {t} : pc'[u] = pc[u]
  BY <1>0, <1>1 DEF Goto, Types, InProgress
<1>4. Types' /\ \A u \in Tasks \ {t} : Untouched(u)
  BY <1>0, <1>1, <1>2, <1>3, EndsAt DEF Types, Untouched
<1>5. TaskInv(t)'
  <2>1. Control(t)'
    BY <1>0, <1>1, <1>2, <1>3 DEF TaskInv, Control
  <2>2. SecretInv(t)'
    BY <1>0, <1>1, <1>2, <1>3, EndsAt DEF TaskInv, Control, SecretInv
  <2>3. CleanupInv(t)'
    BY <1>0, <1>1, <1>2, <1>3, <1>4, EndsAt DEF TaskInv, Control, SecretInv, CleanupInv, Types
  <2> QED
    BY <2>1, <2>2, <2>3 DEF TaskInv
<1> QED
  BY <1>4, <1>5 DEF StepOf

LEMMA StepDropConfigMap ==
  ASSUME IInv, NEW t \in Tasks, DropConfigMap(t) PROVE StepOf(t)
<1>0. TypeOK /\ Types /\ TaskInv(t)
  BY Parts DEF IInv
<1>1. PICK outcome \in {"ok", "failed", "lost"} :
        /\ Ends(t, outcome)
        /\ Delete(configMap, t, outcome)
        /\ Goto(t, "dropConfig", "error")
        /\ UNCHANGED <<job, secret, pod>>
  BY DEF DropConfigMap
<1>2. /\ configMap' \in [Tasks -> BOOLEAN]
      /\ configMap'[t] = (configMap[t] /\ outcome = "failed")
      /\ \A u \in Tasks \ {t} : configMap'[u] = configMap[u]
  BY <1>0, <1>1, DeleteAt DEF Delete, Types
<1>3. /\ pc[t] = "dropConfig"
      /\ pc' \in [Tasks -> InProgress \cup {"idle", "handle", "error", "lost"}]
      /\ pc'[t] = "error"
      /\ \A u \in Tasks \ {t} : pc'[u] = pc[u]
  BY <1>0, <1>1 DEF Goto, Types, InProgress
<1>4. Types' /\ \A u \in Tasks \ {t} : Untouched(u)
  BY <1>0, <1>1, <1>2, <1>3, EndsAt DEF Types, Untouched
<1>5. TaskInv(t)'
  <2>1. Control(t)'
    BY <1>0, <1>1, <1>2, <1>3 DEF TaskInv, Control
  <2>2. SecretInv(t)'
    BY <1>0, <1>1, <1>2, <1>3, EndsAt DEF TaskInv, Control, SecretInv
  <2>3. CleanupInv(t)'
    BY <1>0, <1>1, <1>2, <1>3, <1>4, EndsAt DEF TaskInv, Control, SecretInv, CleanupInv, Types
  <2> QED
    BY <2>1, <2>2, <2>3 DEF TaskInv
<1> QED
  BY <1>4, <1>5 DEF StepOf

-----------------------------------------------------------------------------
(* Clients, the server process and the cluster.                             *)

LEMMA StepWorld ==
  ASSUME IInv, NEW t \in Tasks,
         \/ Call(t) \/ RequestEnds(t) \/ CreatePod(t) \/ StartPod(t)
         \/ PodEnds(t) \/ CollectPod(t) \/ CollectSecret(t)
  PROVE  StepOf(t)
<1>0. Types /\ TaskInv(t)
  BY Parts
<1> USE DEF calls, objects, StepOf, Types, TaskInv, Untouched
<1>1. CASE Call(t)
  BY <1>0, <1>1 DEF Call, Goto, InProgress, Control, SecretInv, CleanupInv
<1>2. CASE RequestEnds(t)
  BY <1>0, <1>2 DEF RequestEnds, Control, SecretInv, CleanupInv
<1>3. CASE CreatePod(t)
  BY <1>0, <1>3 DEF CreatePod, Control, SecretInv, CleanupInv
<1>4. CASE StartPod(t)
  BY <1>0, <1>4 DEF StartPod, Control, SecretInv, CleanupInv
<1>5. CASE PodEnds(t)
  BY <1>0, <1>5 DEF PodEnds, Control, SecretInv, CleanupInv
<1>6. CASE CollectPod(t)
  BY <1>0, <1>6 DEF CollectPod, Control, SecretInv, CleanupInv
<1>7. CASE CollectSecret(t)
  <2>1. /\ secret' \in [Tasks -> BOOLEAN]
        /\ secret'[t] = FALSE
        /\ \A u \in Tasks \ {t} : secret'[u] = secret[u]
    BY <1>0, <1>7, FlagSet DEF CollectSecret
  <2> QED
    BY <1>0, <1>7, <2>1 DEF CollectSecret, Control, SecretInv, CleanupInv
<1> QED
  BY <1>1, <1>2, <1>3, <1>4, <1>5, <1>6, <1>7

LEMMA StepCrash == IInv /\ Crash => IInv'
<1> SUFFICES ASSUME IInv, Crash PROVE IInv'
  OBVIOUS
<1>0. Types /\ \A t \in Tasks : TaskInv(t)
  BY Parts
<1>1. UNCHANGED <<ctx, faults, lost, configMap, job, secret, pod>>
  BY DEF Crash, calls, objects
<1>2. pc' = [t \in Tasks |-> IF pc[t] \in InProgress THEN "lost" ELSE pc[t]]
  BY DEF Crash
<1>3. Types'
  BY <1>0, <1>1, <1>2 DEF Types
<1>4. ASSUME NEW t \in Tasks PROVE TaskInv(t)'
  <2>1. CASE pc[t] \in InProgress
    BY <1>0, <1>2, <2>1 DEF TaskInv, Control, SecretInv, CleanupInv
  <2>2. CASE pc[t] \notin InProgress
    <3>1. Untouched(t)
      BY <1>1, <1>2, <2>2 DEF Untouched
    <3> QED
      BY <1>0, <3>1, KeepsInv
  <2> QED
    BY <2>1, <2>2
<1>5. Types' /\ \A t \in Tasks : TaskInv(t)'
  BY <1>3, <1>4
<1> QED
  BY <1>5, Parts

-----------------------------------------------------------------------------
(* The theorems.                                                            *)

LEMMA InitIInv == Init => IInv
<1> SUFFICES ASSUME Init PROVE Types /\ \A t \in Tasks : TaskInv(t)
  BY Parts
<1>1. Types
  BY FaultsAssumption DEF Init, Types
<1>2. ASSUME NEW t \in Tasks PROVE TaskInv(t)
  BY <1>2 DEF Init, TaskInv, Control, SecretInv, CleanupInv
<1> QED
  BY <1>1, <1>2

\* Everything above, for every state Dispatch and the cluster can reach.
THEOREM Inductive == Spec => []IInv
<1>1. ASSUME IInv, [Next]_vars PROVE IInv'
  <2>1. ASSUME NEW t \in Tasks, StepOf(t) PROVE IInv'
    <3>1. \A u \in Tasks : TaskInv(u)
      BY <1>1, Parts
    <3>2. \A u \in Tasks : TaskInv(u)'
      BY <2>1, <3>1, KeepsInv DEF StepOf
    <3> QED
      BY <2>1, <3>2, Parts DEF StepOf
  <2>2. ASSUME NEW t \in Tasks,
               \/ Call(t) \/ Dispatch(t) \/ RequestEnds(t)
               \/ CreatePod(t) \/ StartPod(t) \/ PodEnds(t)
               \/ CollectPod(t) \/ CollectSecret(t)
        PROVE  StepOf(t)
    BY <1>1, <2>2, StepConfigMap, StepJob, StepSecret, StepDropJob,
       StepDropConfigMap, StepWorld DEF Dispatch
  <2>3. CASE UNCHANGED vars
    <3>1. Types' /\ \A u \in Tasks : TaskInv(u) /\ Untouched(u)
      BY <1>1, <2>3, Parts DEF Types, Untouched, vars, calls, objects
    <3> QED
      BY <3>1, KeepsInv, Parts
  <2> QED
    BY <1>1, <2>1, <2>2, <2>3, StepCrash DEF Next
<1>2. IInv /\ [Next]_vars => IInv'
  BY <1>1
<1> QED
  BY InitIInv, <1>2, PTL DEF Spec

\* Types of every call, object and pod, and which objects may exist at each stage
\* of a call.
THEOREM TypeCorrect == Spec => []TypeOK
  BY Inductive, PTL DEF IInv

\* The three objects of a task with a handle exist, for good.
THEOREM HandlesAreComplete == Spec => []HandleIsComplete
<1>1. IInv => HandleIsComplete
  BY DEF IInv, SecretInv, HandleIsComplete
<1> QED
  BY Inductive, <1>1, PTL

\* After an error the agent never runs, unless a reply was lost.
THEOREM ErrorsMeanNoAgent == Spec => []ErrorMeansNoAgent
<1>1. IInv => ErrorMeansNoAgent
  BY DEF IInv, SecretInv, ErrorMeansNoAgent
<1> QED
  BY Inductive, <1>1, PTL

\* After an error of one call, at most the object whose reply was lost is left.
THEOREM FailuresAreCleaned == Spec => []FailureIsCleaned
<1>1. IInv => FailureIsCleaned
  <2> SUFFICES ASSUME IInv, NEW t \in Tasks,
                      pc[t] = "error", faults[t] <= 1, ctx[t] = "live"
               PROVE  Cardinality({object \in {"config", "job", "secret"} :
                        CASE object = "config" -> configMap[t]
                          [] object = "job"    -> job[t]
                          [] object = "secret" -> secret[t]}) <= IF lost[t] THEN 1 ELSE 0
    BY DEF FailureIsCleaned
  <2> DEFINE There == {object \in {"config", "job", "secret"} :
                        CASE object = "config" -> configMap[t]
                          [] object = "job"    -> job[t]
                          [] object = "secret" -> secret[t]}
  <2>1. /\ configMap[t] \/ job[t] \/ secret[t] => lost[t]
        /\ ~(configMap[t] /\ job[t])
        /\ ~(configMap[t] /\ secret[t])
        /\ ~(job[t] /\ secret[t])
    BY DEF IInv, CleanupInv
  <2>2. CASE ~lost[t]
    <3>1. There = {}
      BY <2>1, <2>2
    <3> HIDE DEF There
    <3>2. Cardinality({}) = 0
      BY FS_EmptySet
    <3>3. Cardinality(There) = 0
      BY <3>1, <3>2
    <3>4. Cardinality(There) <= IF lost[t] THEN 1 ELSE 0
      BY <2>2, <3>3
    <3> QED
      BY <3>4 DEF There
  <2>3. CASE lost[t]
    <3>1. There = {} \/ \E object : There = {object}
      BY <2>1
    <3> HIDE DEF There
    <3>2. Cardinality({}) = 0 /\ \A object : Cardinality({object}) = 1
      BY FS_EmptySet, FS_Singleton
    <3>3. Cardinality(There) \in {0, 1}
      BY <3>1, <3>2
    <3>4. Cardinality(There) <= 1
      BY <3>3
    <3>5. Cardinality(There) <= IF lost[t] THEN 1 ELSE 0
      BY <2>3, <3>4
    <3> QED
      BY <3>5 DEF There
  <2> QED
    BY <2>2, <2>3
<1> QED
  BY Inductive, <1>1, PTL

\* With an API server that reports truly what it carried out, the agent of a task
\* whose Dispatch returned an error has not run and never will, whatever else
\* failed, however often, and whenever the request ended.
ErrorsAreTrue == \A t \in Tasks : pc[t] = "error" => pod[t] \in {"none", "waiting"}

\* So a task that is rolled back does no work, unless a reply can be lost.
THEOREM TruthfulServerStartsNoAgent == ASSUME ~RepliesLost PROVE Spec => []ErrorsAreTrue
<1> DEFINE NothingLost == \A t \in Tasks : ~lost[t]
<1>1. Init => NothingLost
  BY DEF Init
<1>2. ASSUME IInv, NothingLost, [Next]_vars PROVE NothingLost'
  <2>1. ASSUME NEW t \in Tasks, NEW outcome \in {"ok", "failed", "lost"}, Ends(t, outcome)
        PROVE  NothingLost'
    <3>1. outcome # "lost"
      BY <2>1 DEF Ends
    <3> QED
      BY <1>2, <2>1, <3>1, EndsAt DEF IInv
  <2>2. ASSUME NEW t \in Tasks, Dispatch(t)
        PROVE  \E outcome \in {"ok", "failed", "lost"} : Ends(t, outcome)
    BY <2>2 DEF Dispatch, CreateConfigMap, CreateJob, CreateSecret, DropJob, DropConfigMap
  <2>3. ASSUME UNCHANGED lost PROVE NothingLost'
    BY <1>2, <2>3
  <2> QED
    BY <1>2, <2>1, <2>2, <2>3 DEF Next, Call, RequestEnds, CreatePod, StartPod, PodEnds,
       CollectPod, CollectSecret, Crash, vars, calls
<1>3. IInv /\ NothingLost /\ [Next]_vars => NothingLost'
  BY <1>2
<1>4. IInv /\ NothingLost => ErrorsAreTrue
  BY DEF IInv, SecretInv, TypeOK, ErrorsAreTrue
<1> HIDE DEF NothingLost
<1> QED
  BY <1>1, <1>3, <1>4, Inductive, PTL DEF Spec
=============================================================================
