------------------------ MODULE TaskLifecycleProofs ------------------------
(***************************************************************************)
(* Theorems about TaskLifecycle, for any tasks, ids, handlers and types of *)
(* event, with and without faults.                                         *)
(***************************************************************************)
EXTENDS TaskLifecycle, TLAPS

\* Tokens of different origin or of different tasks differ, and none of them
\* is the absence of one (32 random bytes each).
LEMMA TokensDiffer ==
  /\ \A t, u \in Tasks : ServerToken(t) # DriverToken(u)
  /\ \A t, u \in Tasks : ServerToken(t) = ServerToken(u) => t = u
  /\ \A t \in Tasks : ServerToken(t) # NoToken /\ DriverToken(t) # NoToken
  /\ \A t \in Tasks : ServerToken(t) \in Tokens /\ DriverToken(t) \in Tokens
<1>1. \A t, u \in Tasks : ServerToken(t) # DriverToken(u)
  BY DEF ServerToken, DriverToken
<1>2. \A t, u \in Tasks : ServerToken(t) = ServerToken(u) => t = u
  BY DEF ServerToken
<1>3. \A t \in Tasks : ServerToken(t) # NoToken /\ DriverToken(t) # NoToken
  BY DEF ServerToken, DriverToken, NoToken
<1>4. \A t \in Tasks : ServerToken(t) \in Tokens /\ DriverToken(t) \in Tokens
  BY DEF Tokens
<1> QED
  BY <1>1, <1>2, <1>3, <1>4

\* A request is never the absence of one: its fields differ.
LEMMA RequestDiffers == \A r \in Requests : r # NoRequest
<1>1. \A r \in Requests : "type" \in DOMAIN r
  BY DEF Requests
<1>2. "type" \notin DOMAIN NoRequest
  BY DEF NoRequest
<1> QED
  BY <1>1, <1>2

\* Revocation keeps the flags Boolean.
LEMMA RevokeTyped ==
  ASSUME revoked \in [Tasks -> BOOLEAN], NEW t \in Tasks, NEW outcome,
         RevokeAgentToken(t, outcome)
  PROVE  revoked' \in [Tasks -> BOOLEAN]
<1>1. [revoked EXCEPT ![t] = TRUE] \in [Tasks -> BOOLEAN]
  BY Zenon
<1>2. revoked' = [revoked EXCEPT ![t] = TRUE] \/ revoked' = revoked
  BY DEF RevokeAgentToken
<1> QED
  BY <1>1, <1>2, Zenon

\* A flag that is set is set.
LEMMA FlagSet ==
  ASSUME revoked \in [Tasks -> BOOLEAN], NEW t \in Tasks,
         revoked' = [revoked EXCEPT ![t] = TRUE]
  PROVE  revoked'[t]
<1> QED
  BY Zenon

\* The two statements on agent_tokens, column by column.
LEMMA RevokeWrites ==
  ASSUME revoked \in [Tasks -> BOOLEAN], NEW t \in Tasks, NEW u \in Tasks,
         NEW outcome, RevokeAgentToken(u, outcome)
  PROVE  /\ tokenHash' = tokenHash
         /\ \/ revoked'[t] = revoked[t]
            \/ u = t /\ revoked'[t]
<1>1. tokenHash' = tokenHash
  BY DEF RevokeAgentToken
<1>2. revoked' = [revoked EXCEPT ![u] = TRUE] \/ revoked' = revoked
  BY DEF RevokeAgentToken
<1>3. CASE revoked' = [revoked EXCEPT ![u] = TRUE]
  <2>1. u # t => revoked'[t] = revoked[t]
    BY <1>3
  <2>2. u = t => revoked'[t]
    BY <1>3, Zenon
  <2> QED
    BY <1>1, <2>1, <2>2, Zenon
<1> QED
  BY <1>1, <1>2, <1>3

LEMMA StoreWrites ==
  ASSUME tokenHash \in [Tasks -> Tokens \cup {NoToken}],
         revoked \in [Tasks -> BOOLEAN], NEW t \in Tasks, NEW u \in Tasks,
         NEW k, NEW outcome, StoreAgentToken(u, k, outcome)
  PROVE  \/ tokenHash'[t] = tokenHash[t] /\ revoked'[t] = revoked[t]
         \/ u = t /\ tokenHash'[t] = k /\ ~revoked'[t]
<1>1. \/ tokenHash' = tokenHash /\ revoked' = revoked
      \/ /\ tokenHash' = [tokenHash EXCEPT ![u] = k]
         /\ revoked' = [revoked EXCEPT ![u] = FALSE]
  BY DEF StoreAgentToken
<1>2. CASE /\ tokenHash' = [tokenHash EXCEPT ![u] = k]
           /\ revoked' = [revoked EXCEPT ![u] = FALSE]
  <2>1. u # t => tokenHash'[t] = tokenHash[t] /\ revoked'[t] = revoked[t]
    BY <1>2
  <2>2. u = t => tokenHash'[t] = k
    BY <1>2
  <2>3. u = t => ~revoked'[t]
    BY <1>2, Zenon
  <2> QED
    BY <2>1, <2>2, <2>3
<1> QED
  BY <1>1, <1>2

\* The initial state is well typed.
LEMMA InitTypeOK == Init => TypeOK
  BY DEF Init, TypeOK, TablesInit, TablesTypeOK, CreatePC, CreateInFlight,
         HandlerPC

\* Every step of the control plane keeps its variables well typed.
LEMMA StepTypeOK == TypeOK /\ [Next]_vars => TypeOK'
<1> SUFFICES ASSUME TypeOK, [Next]_vars PROVE TypeOK'
  OBVIOUS
<1> USE TokensDiffer DEF TypeOK, TablesTypeOK, CreatePC, CreateInFlight, HandlerPC,
        server, createVars, handlerVars, tables, CreateGoto, TaskStates, TerminalStates
<1>1. ASSUME NEW t \in Tasks, ReceiveCreate(t) PROVE TypeOK'
  BY <1>1 DEF ReceiveCreate
<1>2. ASSUME NEW t \in Tasks, Admit(t) PROVE TypeOK'
  BY <1>2 DEF Admit
<1>3. ASSUME NEW t \in Tasks, InsertTask(t) PROVE TypeOK'
  BY <1>3 DEF InsertTask, CreateTask
<1>4. ASSUME NEW t \in Tasks, StoreToken(t) PROVE TypeOK'
  BY <1>4 DEF StoreToken, StoreAgentToken
<1>5. ASSUME NEW t \in Tasks, DispatchWorkload(t) PROVE TypeOK'
  BY <1>5 DEF DispatchWorkload
<1>6. ASSUME NEW t \in Tasks, MarkRunning(t) PROVE TypeOK'
  BY <1>6 DEF MarkRunning, UpdateTaskState
<1>7. ASSUME NEW t \in Tasks, RollbackState(t) PROVE TypeOK'
  BY <1>7 DEF RollbackState, UpdateTaskState, Swallow
<1>8. ASSUME NEW t \in Tasks, RollbackToken(t) PROVE TypeOK'
  <2>1. PICK outcome \in Outcomes : RevokeAgentToken(t, outcome)
    BY <1>8 DEF RollbackToken
  <2>2. revoked' \in [Tasks -> BOOLEAN]
    BY <2>1, RevokeTyped
  <2> QED
    BY <1>8, <2>1, <2>2 DEF RollbackToken, RevokeAgentToken, Swallow
<1>9. ASSUME NEW h \in Handlers, ReceiveEvent(h) PROVE TypeOK'
  <2>1. CASE \E r \in Requests :
               /\ req' = [req EXCEPT ![h] = r]
               /\ reply' = [reply EXCEPT ![h] = 0]
               /\ pc' = [pc EXCEPT ![h] = "verify"]
    <3>1. \A r \in Requests : r # NoRequest
      BY RequestDiffers
    <3> QED
      BY <1>9, <2>1, <3>1 DEF ReceiveEvent
  <2>2. CASE /\ req' = [req EXCEPT ![h] = NoRequest]
             /\ \E status \in {400, 401} : Respond(h, status)
    BY <1>9, <2>2 DEF ReceiveEvent, Respond
  <2> QED
    BY <1>9, <2>1, <2>2 DEF ReceiveEvent
<1>10. ASSUME NEW h \in Handlers, Verify(h) PROVE TypeOK'
  BY <1>10 DEF Verify, Goto, Respond
<1>11. ASSUME NEW h \in Handlers, Append(h) PROVE TypeOK'
  <2>1. req[h] \in Requests
    BY <1>11 DEF Append
  <2>2. PICK outcome \in Outcomes \cup {"failed"} :
          AppendEvent(req[h].id, req[h].task, req[h].type, req[h].bearer, outcome)
    BY <1>11 DEF Append
  <2>3. events' \subseteq EventRows
    BY <2>1, <2>2 DEF AppendEvent, Insertable, Applied, EventRows, Requests
  <2>4. pc' \in [Handlers -> HandlerPC] /\ reply' \in [Handlers -> {0, 201, 400, 401, 500}]
    BY <1>11 DEF Append, Goto, Respond
  <2>5. \A g \in Handlers :
          /\ pc'[g] # "idle" => req'[g] # NoRequest
          /\ pc'[g] = "state" => req'[g].type \in StateChanging
          /\ pc'[g] = "revoke" => req'[g].type \in TerminalTypes
    BY <1>11 DEF Append, Goto, Respond
  <2> QED
    BY <1>11, <2>2, <2>3, <2>4, <2>5 DEF Append, AppendEvent
<1>12. ASSUME NEW h \in Handlers, ApplyState(h) PROVE TypeOK'
  <2>1. req[h] \in Requests
    BY <1>12 DEF ApplyState
  <2>2. PICK outcome \in Outcomes :
          /\ UpdateTaskState(req[h].task, StateFor(req[h].type), outcome)
          /\ \/ outcome # "ok" /\ Respond(h, 500)
             \/ outcome = "ok" /\ req[h].type \in TerminalTypes /\ Goto(h, "revoke")
             \/ outcome = "ok" /\ req[h].type \notin TerminalTypes /\ Respond(h, 201)
    BY <1>12 DEF ApplyState
  <2>3. StateFor(req[h].type) \in TaskStates
    BY <1>12 DEF ApplyState, StateFor, StateChanging, TerminalTypes
  <2> QED
    BY <1>12, <2>1, <2>2, <2>3 DEF ApplyState, UpdateTaskState, Goto, Respond, Requests
<1>13. ASSUME NEW h \in Handlers, Revoke(h) PROVE TypeOK'
  <2>1. PICK outcome \in Outcomes : RevokeAgentToken(req[h].task, outcome)
    BY <1>13 DEF Revoke
  <2>2. req[h].task \in Tasks
    BY <1>13 DEF Revoke, Requests
  <2>3. revoked' \in [Tasks -> BOOLEAN]
    BY <2>1, <2>2, RevokeTyped
  <2> QED
    BY <1>13, <2>1, <2>2, <2>3 DEF Revoke, RevokeAgentToken, Respond, Swallow
<1>14. ASSUME NEW t \in Tasks, WorkloadExit(t) PROVE TypeOK'
  BY <1>14 DEF WorkloadExit
<1>15. CASE Crash
  <2>1. /\ up' = FALSE
        /\ pc' = [h \in Handlers |-> "idle"]
        /\ UNCHANGED <<tables, swallowed, mounted, workload, req, reply>>
    BY <1>15 DEF Crash
  <2>2. cpc' \in [Tasks -> CreatePC]
    <3>1. cpc' = [t \in Tasks |->
                    IF cpc[t] \in CreateInFlight THEN "lost" ELSE cpc[t]]
      BY <1>15 DEF Crash
    <3>2. "lost" \in CreatePC
      BY DEF CreatePC
    <3> QED
      BY <3>1, <3>2
  <2>3. pc' \in [Handlers -> HandlerPC] /\ \A h \in Handlers : pc'[h] = "idle"
    BY <2>1 DEF HandlerPC
  <2>4. TablesTypeOK'
    BY <2>1
  <2> QED
    BY <2>1, <2>2, <2>3, <2>4
<1>16. CASE Restart
  BY <1>16 DEF Restart
<1>17. CASE UNCHANGED vars
  BY <1>17 DEF vars
<1> QED
  BY <1>1, <1>2, <1>3, <1>4, <1>5, <1>6, <1>7, <1>8, <1>9, <1>10, <1>11, <1>12,
     <1>13, <1>14, <1>15, <1>16, <1>17 DEF Next, CreateStep, HandlerStep

-----------------------------------------------------------------------------
(* What a step may do to each column, and through which action.             *)

\* A step goes through one action.
LEMMA StepCases ==
  ASSUME [Next]_vars
  PROVE  \/ \E t \in Tasks :
              ReceiveCreate(t) \/ Admit(t) \/ InsertTask(t) \/ StoreToken(t)
           \/ DispatchWorkload(t) \/ MarkRunning(t) \/ RollbackState(t)
           \/ RollbackToken(t) \/ WorkloadExit(t)
         \/ \E h \in Handlers :
              ReceiveEvent(h) \/ Verify(h) \/ Append(h) \/ ApplyState(h) \/ Revoke(h)
         \/ Crash \/ Restart \/ UNCHANGED vars
  BY DEF Next, CreateStep, HandlerStep

\* Only one statement adds to the log.
LEMMA LogWrites ==
  ASSUME [Next]_vars, events' # events PROVE \E h \in Handlers : Append(h)
  BY StepCases DEF tables, server, createVars, handlerVars, ReceiveCreate, Admit,
     InsertTask, StoreToken, DispatchWorkload, MarkRunning, RollbackState,
     RollbackToken, WorkloadExit, CreateTask, StoreAgentToken, UpdateTaskState,
     RevokeAgentToken, ReceiveEvent, Verify, ApplyState, Revoke, Crash, Restart, vars

\* The log only grows.
LEMMA LogGrows == ASSUME [Next]_vars PROVE events \subseteq events'
<1>1. ASSUME NEW h \in Handlers, Append(h) PROVE events \subseteq events'
  BY <1>1 DEF Append, AppendEvent
<1> QED
  BY <1>1, LogWrites

\* CreateTask never leaves its end, nor its rollback other than by a crash, and
\* never takes a mounted token back.
LEMMA CreationAdvances ==
  ASSUME TypeOK, CreateInv, [Next]_vars, NEW t \in Tasks
  PROVE  /\ cpc[t] = "created" => cpc'[t] = "created"
         /\ cpc[t] = "rolledBack" => cpc'[t] = "rolledBack"
         /\ cpc[t] \in {"rollbackToken", "rolledBack", "lost"} =>
              cpc'[t] \in {"rollbackToken", "rolledBack", "lost"}
         /\ mounted[t] # NoToken => mounted'[t] = mounted[t]
<1> USE DEF TypeOK, server, createVars, handlerVars, CreateGoto
<1>1. ASSUME NEW u \in Tasks,
             \/ ReceiveCreate(u) \/ Admit(u) \/ InsertTask(u) \/ StoreToken(u)
             \/ MarkRunning(u) \/ RollbackState(u) \/ RollbackToken(u)
      PROVE  /\ mounted' = mounted
             /\ cpc[t] = "created" => cpc'[t] = "created"
             /\ cpc[t] = "rolledBack" => cpc'[t] = "rolledBack"
             /\ cpc[t] \in {"rollbackToken", "rolledBack", "lost"} =>
                  cpc'[t] \in {"rollbackToken", "rolledBack", "lost"}
  BY <1>1 DEF ReceiveCreate, Admit, InsertTask, StoreToken,
     MarkRunning, RollbackState, RollbackToken
<1>2. ASSUME NEW u \in Tasks, DispatchWorkload(u)
      PROVE  /\ cpc[t] \in {"created", "rollbackToken", "rolledBack", "lost"} =>
                  cpc'[t] = cpc[t]
             /\ mounted[t] # NoToken => mounted'[t] = mounted[t]
  BY <1>2 DEF DispatchWorkload, CreateInv
<1>3. ASSUME NEW h \in Handlers,
             ReceiveEvent(h) \/ Verify(h) \/ Append(h) \/ ApplyState(h) \/ Revoke(h)
      PROVE  cpc' = cpc /\ mounted' = mounted
  BY <1>3 DEF ReceiveEvent, Verify, Append, ApplyState, Revoke
<1>4. CASE Crash
  BY <1>4 DEF Crash, CreateInFlight
<1>5. CASE (\E u \in Tasks : WorkloadExit(u)) \/ Restart \/ UNCHANGED vars
  BY <1>5 DEF WorkloadExit, Restart, vars
<1> QED
  BY <1>1, <1>2, <1>3, <1>4, <1>5, StepCases

\* The state of a task is written by four statements.
LEMMA StateWrites ==
  ASSUME TypeOK, [Next]_vars, NEW t \in Tasks
  PROVE  \/ taskState'[t] = taskState[t]
         \/ cpc[t] = "insert" /\ taskState'[t] = "pending"
         \/ cpc[t] = "running" /\ taskState'[t] = "running"
         \/ /\ cpc[t] = "rollbackState" /\ cpc'[t] = "rollbackToken"
            /\ taskState'[t] = "failed"
         \/ \E h \in Handlers : /\ pc[h] = "state" /\ req[h].task = t
                                /\ taskState'[t] = StateFor(req[h].type)
<1> USE DEF TypeOK, TablesTypeOK, tables, server, createVars, handlerVars, CreateGoto
<1>1. ASSUME NEW u \in Tasks, InsertTask(u)
      PROVE  \/ taskState'[t] = taskState[t]
             \/ cpc[t] = "insert" /\ taskState'[t] = "pending"
  BY <1>1 DEF InsertTask, CreateTask
<1>2. ASSUME NEW u \in Tasks, MarkRunning(u)
      PROVE  \/ taskState'[t] = taskState[t]
             \/ cpc[t] = "running" /\ taskState'[t] = "running"
  BY <1>2 DEF MarkRunning, UpdateTaskState
<1>3. ASSUME NEW u \in Tasks, RollbackState(u)
      PROVE  \/ taskState'[t] = taskState[t]
             \/ /\ cpc[t] = "rollbackState" /\ cpc'[t] = "rollbackToken"
                /\ taskState'[t] = "failed"
  BY <1>3 DEF RollbackState, UpdateTaskState
<1>4. ASSUME NEW h \in Handlers, ApplyState(h)
      PROVE  \/ taskState'[t] = taskState[t]
             \/ /\ pc[h] = "state" /\ req[h].task = t
                /\ taskState'[t] = StateFor(req[h].type)
  BY <1>4 DEF ApplyState, UpdateTaskState
<1>5. ASSUME NEW u \in Tasks,
             \/ ReceiveCreate(u) \/ Admit(u) \/ StoreToken(u) \/ DispatchWorkload(u)
             \/ RollbackToken(u) \/ WorkloadExit(u)
      PROVE  taskState' = taskState
  BY <1>5 DEF ReceiveCreate, Admit, StoreToken, StoreAgentToken,
     DispatchWorkload, RollbackToken, RevokeAgentToken, WorkloadExit
<1>6. ASSUME NEW h \in Handlers,
             ReceiveEvent(h) \/ Verify(h) \/ Append(h) \/ Revoke(h)
      PROVE  taskState' = taskState
  BY <1>6 DEF ReceiveEvent, Verify, Append, AppendEvent, Revoke, RevokeAgentToken
<1>7. CASE Crash \/ Restart \/ UNCHANGED vars
  BY <1>7 DEF Crash, Restart, vars
<1> QED
  BY <1>1, <1>2, <1>3, <1>4, <1>5, <1>6, <1>7, StepCases

\* A token is stored by one statement and revoked by two.
LEMMA TokenWrites ==
  ASSUME TypeOK, [Next]_vars, NEW t \in Tasks
  PROVE  \/ tokenHash'[t] = tokenHash[t] /\ revoked'[t] = revoked[t]
         \/ /\ cpc[t] = "token" /\ cpc'[t] \in {"dispatch", "failed"}
            /\ tokenHash'[t] = ServerToken(t) /\ ~revoked'[t]
         \/ /\ tokenHash'[t] = tokenHash[t] /\ revoked'[t]
            /\ \/ cpc[t] = "rollbackToken" /\ cpc'[t] = "rolledBack"
               \/ \E h \in Handlers : pc[h] = "revoke" /\ req[h].task = t
<1> USE DEF TypeOK, TablesTypeOK, tables, server, createVars, handlerVars, CreateGoto
<1>1. ASSUME NEW u \in Tasks, StoreToken(u)
      PROVE  \/ tokenHash'[t] = tokenHash[t] /\ revoked'[t] = revoked[t]
             \/ /\ cpc[t] = "token" /\ cpc'[t] \in {"dispatch", "failed"}
                /\ tokenHash'[t] = ServerToken(t) /\ ~revoked'[t]
  <2>1. PICK outcome \in Outcomes : StoreAgentToken(u, ServerToken(u), outcome)
    BY <1>1 DEF StoreToken
  <2>2. \/ tokenHash'[t] = tokenHash[t] /\ revoked'[t] = revoked[t]
        \/ u = t /\ tokenHash'[t] = ServerToken(t) /\ ~revoked'[t]
    BY <2>1, StoreWrites
  <2>3. u = t => cpc[t] = "token" /\ cpc'[t] \in {"dispatch", "failed"}
    BY <1>1 DEF StoreToken
  <2> QED
    BY <2>2, <2>3
<1>2. ASSUME NEW u \in Tasks, RollbackToken(u)
      PROVE  /\ tokenHash'[t] = tokenHash[t]
             /\ \/ revoked'[t] = revoked[t]
                \/ revoked'[t] /\ cpc[t] = "rollbackToken" /\ cpc'[t] = "rolledBack"
  <2>1. PICK outcome \in Outcomes : RevokeAgentToken(u, outcome)
    BY <1>2 DEF RollbackToken
  <2>2. u = t => cpc[t] = "rollbackToken" /\ cpc'[t] = "rolledBack"
    BY <1>2 DEF RollbackToken
  <2> QED
    BY <2>1, <2>2, RevokeWrites
<1>3. ASSUME NEW h \in Handlers, Revoke(h)
      PROVE  /\ tokenHash'[t] = tokenHash[t]
             /\ \/ revoked'[t] = revoked[t]
                \/ revoked'[t] /\ pc[h] = "revoke" /\ req[h].task = t
  <2>1. PICK outcome \in Outcomes : RevokeAgentToken(req[h].task, outcome)
    BY <1>3 DEF Revoke
  <2>2. req[h].task \in Tasks /\ pc[h] = "revoke"
    BY <1>3 DEF Revoke, Requests
  <2> QED
    BY <2>1, <2>2, RevokeWrites
<1>4. ASSUME NEW u \in Tasks,
             \/ ReceiveCreate(u) \/ Admit(u) \/ InsertTask(u) \/ DispatchWorkload(u)
             \/ MarkRunning(u) \/ RollbackState(u) \/ WorkloadExit(u)
      PROVE  tokenHash' = tokenHash /\ revoked' = revoked
  BY <1>4 DEF ReceiveCreate, Admit, InsertTask, CreateTask, DispatchWorkload,
     MarkRunning, RollbackState, UpdateTaskState, WorkloadExit
<1>5. ASSUME NEW h \in Handlers,
             ReceiveEvent(h) \/ Verify(h) \/ Append(h) \/ ApplyState(h)
      PROVE  tokenHash' = tokenHash /\ revoked' = revoked
  BY <1>5 DEF ReceiveEvent, Verify, Append, AppendEvent, ApplyState, UpdateTaskState
<1>6. CASE Crash \/ Restart \/ UNCHANGED vars
  BY <1>6 DEF Crash, Restart, vars
<1> QED
  BY <1>1, <1>2, <1>3, <1>4, <1>5, <1>6, StepCases

-----------------------------------------------------------------------------
(* The inductive invariant.                                                 *)

LEMMA InitIInv == Init => IInv
<1> SUFFICES ASSUME Init PROVE IInv
  OBVIOUS
<1>1. TypeOK
  BY InitTypeOK
<1>2. CreateInv /\ RollbackInv /\ HandlerInv
  BY TokensDiffer DEF Init, TablesInit, CreateInv, RollbackInv, HandlerInv
<1>3. StateHasEvidence /\ RevocationJustified
  BY DEF Init, TablesInit, StateHasEvidence, RevocationJustified, Absent
<1>4. OnlyIssuedTokenRecords /\ AcknowledgedIsRecorded
  BY DEF Init, TablesInit, OnlyIssuedTokenRecords, AcknowledgedIsRecorded
<1>5. AnsweredTerminalIsRevoked /\ RollbackLeavesNoZombie
  BY DEF Init, AnsweredTerminalIsRevoked, RollbackLeavesNoZombie
<1> QED
  BY <1>1, <1>2, <1>3, <1>4, <1>5 DEF IInv

\* How far CreateTask got keeps telling which rows there are.
LEMMA StepCreateInv == IInv /\ [Next]_vars => CreateInv'
<1> SUFFICES ASSUME IInv, [Next]_vars PROVE CreateInv'
  OBVIOUS
<1> USE DEF IInv, TypeOK, TablesTypeOK, tables, server, createVars, handlerVars, CreateGoto
<1>1. ASSUME NEW u \in Tasks, ReceiveCreate(u) PROVE CreateInv'
  BY <1>1 DEF ReceiveCreate, CreateInv
<1>2. ASSUME NEW u \in Tasks, Admit(u) PROVE CreateInv'
  BY <1>2 DEF Admit, CreateInv
<1>3. ASSUME NEW u \in Tasks, InsertTask(u) PROVE CreateInv'
  BY <1>3 DEF InsertTask, CreateTask, Applied, CreateInv, Absent
<1>4. ASSUME NEW u \in Tasks, StoreToken(u) PROVE CreateInv'
  BY <1>4 DEF StoreToken, StoreAgentToken, Applied, CreateInv
<1>5. ASSUME NEW u \in Tasks, DispatchWorkload(u) PROVE CreateInv'
  BY <1>5 DEF DispatchWorkload, CreateInv
<1>6. ASSUME NEW u \in Tasks, MarkRunning(u) PROVE CreateInv'
  BY <1>6 DEF MarkRunning, UpdateTaskState, Applied, CreateInv, Absent
<1>7. ASSUME NEW u \in Tasks, RollbackState(u) PROVE CreateInv'
  BY <1>7 DEF RollbackState, UpdateTaskState, CreateInv, Absent
<1>8. ASSUME NEW u \in Tasks, RollbackToken(u) PROVE CreateInv'
  BY <1>8 DEF RollbackToken, RevokeAgentToken, CreateInv
<1>9. ASSUME NEW h \in Handlers, ApplyState(h) PROVE CreateInv'
  <2>1. /\ cpc[req[h].task] = "created"
        /\ StateFor(req[h].type) \notin {Absent, "pending"}
    BY <1>9 DEF ApplyState, HandlerInv, StateFor, StateChanging, TerminalTypes, Absent
  <2> QED
    BY <1>9, <2>1 DEF ApplyState, UpdateTaskState, CreateInv
<1>10. ASSUME NEW h \in Handlers, Revoke(h) PROVE CreateInv'
  <2>1. cpc[req[h].task] = "created"
    BY <1>10 DEF Revoke, HandlerInv
  <2> QED
    BY <1>10, <2>1 DEF Revoke, RevokeAgentToken, CreateInv
<1>11. ASSUME NEW h \in Handlers, ReceiveEvent(h) \/ Verify(h) \/ Append(h)
       PROVE  CreateInv'
  BY <1>11 DEF ReceiveEvent, Verify, Append, AppendEvent, CreateInv
<1>12. ASSUME NEW u \in Tasks, WorkloadExit(u) PROVE CreateInv'
  BY <1>12 DEF WorkloadExit, CreateInv
<1>13. CASE Crash
  BY <1>13 DEF Crash, CreateInFlight, CreateInv
<1>14. CASE Restart \/ UNCHANGED vars
  BY <1>14 DEF Restart, vars, CreateInv
<1> QED
  BY <1>1, <1>2, <1>3, <1>4, <1>5, <1>6, <1>7, <1>8, <1>9, <1>10, <1>11, <1>12,
     <1>13, <1>14, StepCases

\* A step that leaves a handler alone keeps what it has established.
LEMMA HandlerKeeps ==
  ASSUME IInv, [Next]_vars, NEW h \in Handlers,
         pc'[h] = pc[h], req'[h] = req[h]
  PROVE  /\ pc'[h] = "verify" =>
              \A t \in Tasks : req'[h].bearer = ServerToken(t) => cpc'[t] = "created"
         /\ pc'[h] \in {"append", "state", "revoke"} =>
              /\ req'[h].bearer = ServerToken(req'[h].task)
              /\ cpc'[req'[h].task] = "created"
         /\ pc'[h] \in {"state", "revoke"} => Row(h)' \in events'
<1>1. \A t \in Tasks : cpc[t] = "created" => cpc'[t] = "created"
  BY CreationAdvances DEF IInv
<1>2. pc[h] # "idle" => req[h].task \in Tasks
  BY DEF IInv, TypeOK, Requests
<1>3. Row(h)' = Row(h)
  BY DEF Row
<1> QED
  BY <1>1, <1>2, <1>3, LogGrows DEF IInv, HandlerInv

\* What a handler has established stays true until it answers.
LEMMA StepHandlerInv == IInv /\ [Next]_vars => HandlerInv'
<1> SUFFICES ASSUME IInv, [Next]_vars, NEW g \in Handlers
    PROVE  /\ pc'[g] = "verify" =>
                \A t \in Tasks : req'[g].bearer = ServerToken(t) => cpc'[t] = "created"
           /\ pc'[g] \in {"append", "state", "revoke"} =>
                /\ req'[g].bearer = ServerToken(req'[g].task)
                /\ cpc'[req'[g].task] = "created"
           /\ pc'[g] \in {"state", "revoke"} => Row(g)' \in events'
  BY DEF HandlerInv, Row
<1> USE DEF IInv, TypeOK, server, createVars, handlerVars
<1>1. ASSUME NEW u \in Tasks,
             \/ ReceiveCreate(u) \/ Admit(u) \/ InsertTask(u) \/ StoreToken(u)
             \/ DispatchWorkload(u) \/ MarkRunning(u) \/ RollbackState(u)
             \/ RollbackToken(u) \/ WorkloadExit(u)
      PROVE  pc' = pc /\ req' = req
  BY <1>1 DEF ReceiveCreate, Admit, InsertTask, StoreToken, DispatchWorkload,
     MarkRunning, RollbackState, RollbackToken, WorkloadExit
<1>2. ASSUME NEW h \in Handlers, h # g,
             ReceiveEvent(h) \/ Verify(h) \/ Append(h) \/ ApplyState(h) \/ Revoke(h)
      PROVE  pc'[g] = pc[g] /\ req'[g] = req[g]
  BY <1>2 DEF ReceiveEvent, Verify, Append, ApplyState, Revoke, Respond, Goto
<1>3. CASE ReceiveEvent(g)
  <2>1. CASE \E r \in Requests :
               /\ Holds(r.bearer)
               /\ req' = [req EXCEPT ![g] = r]
               /\ pc' = [pc EXCEPT ![g] = "verify"]
    <3>1. PICK r \in Requests : /\ Holds(r.bearer)
                               /\ req'[g] = r
                               /\ pc'[g] = "verify"
      BY <2>1
    <3>2. ASSUME NEW t \in Tasks, r.bearer = ServerToken(t) PROVE cpc[t] = "created"
      BY <3>1, <3>2, TokensDiffer DEF Holds, CreateInv
    <3>3. cpc' = cpc
      BY <1>3 DEF ReceiveEvent
    <3> QED
      BY <3>1, <3>2, <3>3
  <2>2. CASE \E status \in {400, 401} : Respond(g, status)
    BY <2>2 DEF Respond
  <2> QED
    BY <1>3, <2>1, <2>2 DEF ReceiveEvent
<1>4. CASE Verify(g)
  <2>1. CASE VerifyAgentToken(req[g].task, req[g].bearer) /\ Goto(g, "append")
    <3>1. req[g] \in Requests
      BY <1>4 DEF Verify
    <3>2. req[g].bearer = ServerToken(req[g].task)
      BY <2>1, <3>1, TokensDiffer DEF VerifyAgentToken, CreateInv, Requests, Tokens
    <3>3. cpc[req[g].task] = "created"
      BY <1>4, <3>1, <3>2 DEF Verify, HandlerInv, Requests
    <3> QED
      BY <1>4, <2>1, <3>2, <3>3 DEF Verify, Goto
  <2>2. CASE \E status \in {401, 500} : Respond(g, status)
    BY <2>2 DEF Respond
  <2> QED
    BY <1>4, <2>1, <2>2 DEF Verify
<1>5. CASE Append(g)
  <2>1. PICK outcome \in Outcomes \cup {"failed"} :
          /\ AppendEvent(req[g].id, req[g].task, req[g].type, req[g].bearer, outcome)
          /\ \/ outcome # "ok" /\ Respond(g, 500)
             \/ outcome = "ok" /\ Goto(g, "state")
             \/ outcome = "ok" /\ Respond(g, 201)
    BY <1>5 DEF Append
  <2>2. outcome = "ok" => Row(g)' \in events'
    BY <1>5, <2>1 DEF Append, AppendEvent, Applied, Row
  <2>3. /\ req' = req /\ cpc' = cpc
        /\ req[g].bearer = ServerToken(req[g].task) /\ cpc[req[g].task] = "created"
    BY <1>5 DEF Append, HandlerInv
  <2>4. pc'[g] = "idle" \/ (pc'[g] = "state" /\ outcome = "ok")
    BY <2>1 DEF Respond, Goto
  <2> QED
    BY <2>2, <2>3, <2>4
<1>6. CASE ApplyState(g) \/ Revoke(g)
  <2>1. /\ req' = req /\ cpc' = cpc /\ events' = events
        /\ req[g].bearer = ServerToken(req[g].task) /\ cpc[req[g].task] = "created"
        /\ Row(g) \in events
    BY <1>6 DEF ApplyState, Revoke, HandlerInv, UpdateTaskState, RevokeAgentToken
  <2>2. pc'[g] \in {"idle", "revoke"}
    BY <1>6 DEF ApplyState, Revoke, Respond, Goto
  <2> QED
    BY <2>1, <2>2 DEF Row
<1>7. CASE Crash
  BY <1>7 DEF Crash
<1>8. CASE Restart \/ UNCHANGED vars
  BY <1>8, HandlerKeeps DEF Restart, vars
<1> QED
  BY <1>1, <1>2, <1>3, <1>4, <1>5, <1>6, <1>7, <1>8, HandlerKeeps, StepCases

\* The evidence for a state is stored before the state, and stays.
LEMMA StepEvidence == IInv /\ [Next]_vars => StateHasEvidence'
<1> SUFFICES ASSUME IInv, [Next]_vars, NEW t \in Tasks
    PROVE  /\ taskState'[t] = "completed" => Logged(t, "task.completed")'
           /\ taskState'[t] = "timeout" => Logged(t, "task.timeout")'
           /\ taskState'[t] = "failed" =>
                \/ Logged(t, "task.failed")'
                \/ cpc'[t] \in {"rollbackToken", "rolledBack", "lost"}
           /\ taskState'[t] = "running" =>
                Logged(t, "task.started")' \/ mounted'[t] # NoToken
  BY DEF StateHasEvidence
<1> USE DEF IInv
<1>1. ASSUME NEW type, Logged(t, type) PROVE Logged(t, type)'
  BY <1>1, LogGrows DEF Logged
<1>2. CASE taskState'[t] = taskState[t]
  BY <1>1, <1>2, CreationAdvances DEF StateHasEvidence
<1>3. CASE \/ cpc[t] = "insert" /\ taskState'[t] = "pending"
           \/ cpc[t] = "running" /\ taskState'[t] = "running"
           \/ /\ cpc[t] = "rollbackState" /\ cpc'[t] = "rollbackToken"
              /\ taskState'[t] = "failed"
  BY <1>3, CreationAdvances, TokensDiffer DEF CreateInv
<1>4. CASE \E h \in Handlers : /\ pc[h] = "state" /\ req[h].task = t
                              /\ taskState'[t] = StateFor(req[h].type)
  <2>1. PICK h \in Handlers : /\ pc[h] = "state" /\ req[h].task = t
                             /\ taskState'[t] = StateFor(req[h].type)
    BY <1>4
  <2>2. Row(h) \in events /\ req[h].type \in StateChanging
    BY <2>1 DEF HandlerInv, TypeOK
  <2>3. PICK type \in StateChanging : type = req[h].type
    BY <2>2
  <2>4. Logged(t, type)
    BY <2>1, <2>2, <2>3 DEF Logged, Row
  <2>5. Logged(t, type)' /\ taskState'[t] = StateFor(type)
    BY <1>1, <2>1, <2>3, <2>4
  <2> QED
    BY <2>5 DEF StateFor, StateChanging, TerminalTypes
<1> QED
  BY <1>2, <1>3, <1>4, StateWrites

\* A terminal event in the log stays there.
LEMMA TerminalLoggedStays ==
  ASSUME [Next]_vars, NEW t, TerminalLogged(t) PROVE TerminalLogged(t)'
  BY LogGrows DEF TerminalLogged, Logged

\* A revocation has its reason when it happens, and keeps it.
LEMMA StepRevocation == IInv /\ [Next]_vars => RevocationJustified'
<1> SUFFICES ASSUME IInv, [Next]_vars, NEW t \in Tasks, revoked'[t]
    PROVE  TerminalLogged(t)' \/ cpc'[t] = "rolledBack"
  BY DEF RevocationJustified
<1> USE DEF IInv
<1>1. CASE revoked'[t] = revoked[t]
  <2>1. revoked[t]
    BY <1>1
  <2> QED
    BY <2>1, TerminalLoggedStays, CreationAdvances DEF RevocationJustified
<1>2. CASE \E h \in Handlers : pc[h] = "revoke" /\ req[h].task = t
  <2>1. PICK h \in Handlers : pc[h] = "revoke" /\ req[h].task = t
    BY <1>2
  <2>2. Row(h) \in events /\ req[h].type \in TerminalTypes
    BY <2>1 DEF HandlerInv, TypeOK
  <2>3. TerminalLogged(t)
    BY <2>1, <2>2 DEF Row, TerminalLogged, Logged
  <2> QED
    BY <2>3, TerminalLoggedStays
<1> QED
  BY <1>1, <1>2, TokenWrites

\* Only an admitted handler adds to the log, and the token it was admitted with
\* is still the stored one.
LEMMA StepOnlyIssued == IInv /\ [Next]_vars => OnlyIssuedTokenRecords'
<1> SUFFICES ASSUME IInv, [Next]_vars, NEW r \in events'
    PROVE  r.bearer = tokenHash'[r.task] /\ cpc'[r.task] = "created"
  BY DEF OnlyIssuedTokenRecords
<1> USE DEF IInv, TypeOK, TablesTypeOK
<1>1. /\ r.task \in Tasks
      /\ r.bearer = tokenHash[r.task] /\ cpc[r.task] = "created"
  <2>1. CASE r \in events
    BY <2>1 DEF OnlyIssuedTokenRecords, EventRows
  <2>2. CASE r \notin events
    <3>1. PICK h \in Handlers : Append(h)
      BY <2>2, LogWrites
    <3>2. r.task = req[h].task /\ r.bearer = req[h].bearer
      BY <2>2, <3>1 DEF Append, AppendEvent
    <3>3. /\ req[h].task \in Tasks
          /\ req[h].bearer = ServerToken(req[h].task)
          /\ cpc[req[h].task] = "created"
      BY <3>1 DEF Append, HandlerInv, Requests
    <3> QED
      BY <3>2, <3>3 DEF CreateInv
  <2> QED
    BY <2>1, <2>2
<1>2. cpc'[r.task] = "created"
  BY <1>1, CreationAdvances
<1>3. tokenHash'[r.task] = tokenHash[r.task]
  BY <1>1, TokenWrites
<1> QED
  BY <1>1, <1>2, <1>3

\* A handler answers 201 only with its row in the log.
LEMMA StepAcknowledged == IInv /\ [Next]_vars => AcknowledgedIsRecorded'
<1> SUFFICES ASSUME IInv, [Next]_vars, NEW g \in Handlers, reply'[g] = 201
    PROVE  Row(g)' \in events'
  BY DEF AcknowledgedIsRecorded
<1> USE DEF IInv, TypeOK, server, createVars, handlerVars
<1>1. CASE reply'[g] = reply[g] /\ req'[g] = req[g]
  BY <1>1, LogGrows DEF AcknowledgedIsRecorded, Row
<1>2. ASSUME NEW u \in Tasks,
             \/ ReceiveCreate(u) \/ Admit(u) \/ InsertTask(u) \/ StoreToken(u)
             \/ DispatchWorkload(u) \/ MarkRunning(u) \/ RollbackState(u)
             \/ RollbackToken(u) \/ WorkloadExit(u)
      PROVE  reply' = reply /\ req' = req
  BY <1>2 DEF ReceiveCreate, Admit, InsertTask, StoreToken, DispatchWorkload,
     MarkRunning, RollbackState, RollbackToken, WorkloadExit
<1>3. ASSUME NEW h \in Handlers, h # g,
             ReceiveEvent(h) \/ Verify(h) \/ Append(h) \/ ApplyState(h) \/ Revoke(h)
      PROVE  reply'[g] = reply[g] /\ req'[g] = req[g]
  BY <1>3 DEF ReceiveEvent, Verify, Append, ApplyState, Revoke, Respond, Goto
<1>4. CASE ReceiveEvent(g)
  BY <1>4 DEF ReceiveEvent, Respond
<1>5. CASE Verify(g)
  BY <1>1, <1>5 DEF Verify, Respond, Goto
<1>6. CASE Append(g)
  <2>1. CASE Row(g)' \in events'
    BY <2>1
  <2>2. CASE Goto(g, "state") \/ Respond(g, 500)
    BY <1>1, <1>6, <2>2 DEF Append, Goto, Respond
  <2> QED
    BY <1>6, <2>1, <2>2 DEF Append, AppendEvent, Applied, Row
<1>7. CASE ApplyState(g) \/ Revoke(g)
  <2>1. req' = req /\ Row(g) \in events
    BY <1>7 DEF ApplyState, Revoke, HandlerInv
  <2> QED
    BY <2>1, LogGrows DEF Row
<1>8. CASE Crash \/ Restart \/ UNCHANGED vars
  BY <1>1, <1>8 DEF Crash, Restart, vars
<1> QED
  BY <1>1, <1>2, <1>3, <1>4, <1>5, <1>6, <1>7, <1>8, StepCases

\* An error that was logged stays in the log.
LEMMA SwallowedGrows == ASSUME [Next]_vars PROVE swallowed \subseteq swallowed'
<1> USE DEF server
<1>1. ASSUME NEW t \in Tasks,
             \/ ReceiveCreate(t) \/ Admit(t) \/ InsertTask(t) \/ StoreToken(t)
             \/ DispatchWorkload(t) \/ MarkRunning(t) \/ WorkloadExit(t)
      PROVE  swallowed' = swallowed
  BY <1>1 DEF ReceiveCreate, Admit, InsertTask, StoreToken, DispatchWorkload,
     MarkRunning, WorkloadExit
<1>2. ASSUME NEW t \in Tasks, RollbackState(t) \/ RollbackToken(t)
      PROVE  swallowed \subseteq swallowed'
  BY <1>2 DEF RollbackState, RollbackToken, Swallow
<1>3. ASSUME NEW h \in Handlers,
             ReceiveEvent(h) \/ Verify(h) \/ Append(h) \/ ApplyState(h)
      PROVE  swallowed' = swallowed
  BY <1>3 DEF ReceiveEvent, Verify, Append, ApplyState
<1>4. ASSUME NEW h \in Handlers, Revoke(h) PROVE swallowed \subseteq swallowed'
  BY <1>4 DEF Revoke, Swallow
<1>5. CASE Crash \/ Restart \/ UNCHANGED vars
  BY <1>5 DEF Crash, Restart, vars
<1> QED
  BY <1>1, <1>2, <1>3, <1>4, <1>5, StepCases

\* A rollback gets to its second half, and to its end, one way.
LEMMA RollbackCases ==
  ASSUME TypeOK, [Next]_vars, NEW t \in Tasks,
         cpc'[t] \in {"rollbackToken", "rolledBack"}, cpc'[t] # cpc[t]
  PROVE  \/ cpc'[t] = "rollbackToken" /\ RollbackState(t)
         \/ cpc'[t] = "rolledBack" /\ RollbackToken(t)
<1> USE DEF TypeOK, server, createVars, handlerVars, CreateGoto
<1>1. ASSUME NEW u \in Tasks,
             \/ ReceiveCreate(u) \/ Admit(u) \/ InsertTask(u) \/ StoreToken(u)
             \/ DispatchWorkload(u) \/ MarkRunning(u) \/ WorkloadExit(u)
      PROVE  FALSE
  BY <1>1 DEF ReceiveCreate, Admit, InsertTask, StoreToken, DispatchWorkload,
     MarkRunning, WorkloadExit
<1>2. ASSUME NEW u \in Tasks, RollbackState(u)
      PROVE  u = t /\ cpc'[t] = "rollbackToken"
  BY <1>2 DEF RollbackState
<1>3. ASSUME NEW u \in Tasks, RollbackToken(u)
      PROVE  u = t /\ cpc'[t] = "rolledBack"
  BY <1>3 DEF RollbackToken
<1>4. ASSUME NEW h \in Handlers,
             ReceiveEvent(h) \/ Verify(h) \/ Append(h) \/ ApplyState(h) \/ Revoke(h)
      PROVE  FALSE
  BY <1>4 DEF ReceiveEvent, Verify, Append, ApplyState, Revoke
<1>5. CASE Crash
  BY <1>5 DEF Crash, CreateInFlight
<1>6. CASE Restart \/ UNCHANGED vars
  BY <1>6 DEF Restart, vars
<1> QED
  BY <1>1, <1>2, <1>3, <1>4, <1>5, <1>6, StepCases

\* Nobody but the rollback writes the state of a task whose creation failed.
LEMMA StepRollback ==
  IInv /\ [Next]_vars => RollbackInv' /\ RollbackLeavesNoZombie'
<1> SUFFICES ASSUME IInv, [Next]_vars, NEW t \in Tasks, t \notin swallowed',
                    cpc'[t] \in {"rollbackToken", "rolledBack"}
    PROVE  /\ taskState'[t] = "failed"
           /\ cpc'[t] = "rolledBack" => revoked'[t]
  BY DEF RollbackInv, RollbackLeavesNoZombie
<1> USE DEF IInv
<1>0. t \notin swallowed
  BY SwallowedGrows
<1>1. CASE cpc'[t] = cpc[t]
  <2>1. taskState'[t] = taskState[t]
    <3>1. ~ \E h \in Handlers : pc[h] = "state" /\ req[h].task = t
      BY <1>1 DEF HandlerInv
    <3> QED
      BY <1>1, <3>1, StateWrites
  <2>2. revoked'[t] = revoked[t] \/ revoked'[t]
    BY <1>1, TokenWrites
  <2> QED
    BY <1>0, <1>1, <2>1, <2>2 DEF RollbackInv, RollbackLeavesNoZombie
<1>2. CASE cpc'[t] = "rollbackToken" /\ RollbackState(t)
  <2>1. cpc[t] = "rollbackState"
    BY <1>2 DEF RollbackState, CreateGoto
  <2>2. taskState[t] # Absent
    BY <2>1 DEF CreateInv
  <2>3. PICK outcome \in Outcomes :
          UpdateTaskState(t, "failed", outcome) /\ Swallow(t, outcome)
    BY <1>2 DEF RollbackState
  <2>4. outcome = "ok"
    BY <2>3 DEF Swallow
  <2>5. taskState' = [taskState EXCEPT ![t] = "failed"]
    BY <2>2, <2>3, <2>4 DEF UpdateTaskState, Applied
  <2> QED
    BY <1>2, <2>5 DEF TypeOK, TablesTypeOK
<1>3. CASE cpc'[t] = "rolledBack" /\ RollbackToken(t)
  <2>1. cpc[t] = "rollbackToken"
    BY <1>3 DEF RollbackToken, CreateGoto
  <2>2. taskState[t] = "failed" /\ tokenHash[t] # NoToken
    BY <1>0, <2>1, TokensDiffer DEF RollbackInv, CreateInv
  <2>3. PICK outcome \in Outcomes :
          RevokeAgentToken(t, outcome) /\ Swallow(t, outcome)
    BY <1>3 DEF RollbackToken
  <2>4. outcome = "ok"
    BY <2>3 DEF Swallow
  <2>5. taskState' = taskState /\ revoked' = [revoked EXCEPT ![t] = TRUE]
    BY <2>2, <2>3, <2>4 DEF RevokeAgentToken, Applied
  <2>6. revoked \in [Tasks -> BOOLEAN]
    BY DEF TypeOK, TablesTypeOK
  <2>7. revoked'[t]
    BY <2>5, <2>6, FlagSet
  <2> QED
    BY <1>3, <2>2, <2>5, <2>7
<1> QED
  BY <1>1, <1>2, <1>3, RollbackCases

\* A handler answers 201 to a terminal event from the revocation only.
LEMMA StepAnswered == IInv /\ [Next]_vars => AnsweredTerminalIsRevoked'
<1> SUFFICES ASSUME IInv, [Next]_vars, NEW g \in Handlers,
                    reply'[g] = 201, req'[g].type \in TerminalTypes
    PROVE  revoked'[req'[g].task] \/ req'[g].task \in swallowed'
  BY DEF AnsweredTerminalIsRevoked
<1> USE DEF IInv, TypeOK, server, createVars, handlerVars
<1>1. CASE reply'[g] = reply[g] /\ req'[g] = req[g]
  <2>1. Row(g) \in events /\ Row(g).task = req[g].task
    BY <1>1 DEF AcknowledgedIsRecorded, Row
  <2>2. req[g].task \in Tasks
    BY <2>1 DEF TablesTypeOK, EventRows
  <2>3. cpc[req[g].task] = "created"
    BY <2>1 DEF OnlyIssuedTokenRecords
  <2>4. revoked[req[g].task] => revoked'[req[g].task]
    BY <2>2, <2>3, TokenWrites
  <2> QED
    BY <1>1, <2>4, SwallowedGrows DEF AnsweredTerminalIsRevoked
<1>2. ASSUME NEW u \in Tasks,
             \/ ReceiveCreate(u) \/ Admit(u) \/ InsertTask(u) \/ StoreToken(u)
             \/ DispatchWorkload(u) \/ MarkRunning(u) \/ RollbackState(u)
             \/ RollbackToken(u) \/ WorkloadExit(u)
      PROVE  reply' = reply /\ req' = req
  BY <1>2 DEF ReceiveCreate, Admit, InsertTask, StoreToken, DispatchWorkload,
     MarkRunning, RollbackState, RollbackToken, WorkloadExit
<1>3. ASSUME NEW h \in Handlers, h # g,
             ReceiveEvent(h) \/ Verify(h) \/ Append(h) \/ ApplyState(h) \/ Revoke(h)
      PROVE  reply'[g] = reply[g] /\ req'[g] = req[g]
  BY <1>3 DEF ReceiveEvent, Verify, Append, ApplyState, Revoke, Respond, Goto
<1>4. CASE ReceiveEvent(g)
  BY <1>4 DEF ReceiveEvent, Respond
<1>5. CASE Verify(g)
  BY <1>1, <1>5 DEF Verify, Respond, Goto
<1>6. CASE Append(g)
  BY <1>1, <1>6 DEF Append, Respond, Goto, StateChanging
<1>7. CASE ApplyState(g)
  BY <1>1, <1>7 DEF ApplyState, Respond, Goto
<1>8. CASE Revoke(g)
  <2>1. /\ req' = req
        /\ req[g].task \in Tasks
        /\ req[g].bearer = ServerToken(req[g].task)
        /\ cpc[req[g].task] = "created"
    BY <1>8 DEF Revoke, HandlerInv, Requests
  <2>2. tokenHash[req[g].task] # NoToken
    BY <2>1, TokensDiffer DEF CreateInv
  <2>3. PICK outcome \in Outcomes :
          RevokeAgentToken(req[g].task, outcome) /\ Swallow(req[g].task, outcome)
    BY <1>8 DEF Revoke
  <2>4. CASE outcome = "ok"
    <3>1. revoked' = [revoked EXCEPT ![req[g].task] = TRUE]
      BY <2>2, <2>3, <2>4 DEF RevokeAgentToken, Applied
    <3>2. revoked'[req[g].task]
      BY <2>1, <3>1, FlagSet DEF TablesTypeOK
    <3> QED
      BY <2>1, <3>2
  <2>5. CASE outcome # "ok"
    BY <2>1, <2>3, <2>5 DEF Swallow
  <2> QED
    BY <2>4, <2>5
<1>9. CASE Crash \/ Restart \/ UNCHANGED vars
  BY <1>1, <1>9 DEF Crash, Restart, vars
<1> QED
  BY <1>1, <1>2, <1>3, <1>4, <1>5, <1>6, <1>7, <1>8, <1>9, StepCases

\* The invariant is inductive.
THEOREM Inductive == Spec => []IInv
<1>1. Init => IInv
  BY InitIInv
<1>2. IInv /\ [Next]_vars => IInv'
  BY StepTypeOK, StepCreateInv, StepHandlerInv, StepEvidence, StepRevocation,
     StepOnlyIssued, StepAcknowledged, StepRollback, StepAnswered DEF IInv
<1> QED
  BY <1>1, <1>2, PTL DEF Spec

-----------------------------------------------------------------------------
(* The theorems.                                                            *)

\* The variables are well typed, and a handler about to update a task holds an
\* event that calls for it.
THEOREM TypeCorrect == Spec => []TypeOK
  BY Inductive, PTL DEF IInv

\* Every state a task shows is explained by the log or by its creation.
THEOREM StatesAreExplained == Spec => []StateHasEvidence
  BY Inductive, PTL DEF IInv

\* Nobody is locked out of an unfinished task.
THEOREM RevocationsAreJustified == Spec => []RevocationJustified
  BY Inductive, PTL DEF IInv

\* The log holds only what bearers of the stored token brought.
THEOREM LogIsAuthentic == Spec => []OnlyIssuedTokenRecords
  BY Inductive, PTL DEF IInv

\* Whatever fails and whatever is sent when, no event in the log was brought by a
\* workload with the token it was started with: CreateTask stores the hash of one
\* token and the driver mounts another.
MountedTokensRecordNothing == \A r \in events, t \in Tasks : r.bearer # mounted[t]

\* No workload is ever heard, although AGENT_API.md gives HERMESMANAGER_AGENT_TOKEN
\* to it as the "Bearer token for callback auth".
THEOREM WorkloadsAreUnheard == Spec => []MountedTokensRecordNothing
<1>1. ASSUME IInv, NEW r \in events, NEW t \in Tasks PROVE r.bearer # mounted[t]
  <2>1. r.task \in Tasks
    BY <1>1 DEF IInv, TypeOK, TablesTypeOK, EventRows
  <2>2. r.bearer = ServerToken(r.task)
    BY <1>1, <2>1 DEF IInv, OnlyIssuedTokenRecords, CreateInv
  <2>3. mounted[t] \in {NoToken, DriverToken(t)}
    BY <1>1 DEF IInv, CreateInv
  <2> QED
    BY <2>1, <2>2, <2>3, TokensDiffer
<1>2. IInv => MountedTokensRecordNothing
  BY <1>1 DEF MountedTokensRecordNothing
<1> QED
  BY <1>2, Inductive, PTL

\* What was answered 201 is in the log.
THEOREM AcknowledgementsHold == Spec => []AcknowledgedIsRecorded
  BY Inductive, PTL DEF IInv

\* A terminal event that was answered 201 closed its task, or the log says why not.
THEOREM AnsweredTerminalsClose == Spec => []AnsweredTerminalIsRevoked
  BY Inductive, PTL DEF IInv

\* A rollback leaves a failed task with a dead token, or the log says why not.
THEOREM RollbacksAreComplete == Spec => []RollbackLeavesNoZombie
  BY Inductive, PTL DEF IInv

\* A creation answered 201 gave a token that works until the task's end.
THEOREM CreationsAreUsable == Spec => []CreatedIsUsable
<1>1. IInv => CreatedIsUsable
  BY DEF IInv, TypeOK, TablesTypeOK, CreateInv, RevocationJustified, CreatedIsUsable
<1> QED
  BY <1>1, Inductive, PTL

\* Nothing un-revokes a token, for its task is past the statement that could.
THEOREM RevocationIsForever == Spec => RevokedForever
<1>1. ASSUME IInv, [Next]_vars, NEW t \in Tasks, revoked[t]
      PROVE  revoked'[t] /\ tokenHash'[t] = tokenHash[t]
  <2>1. cpc[t] # "token"
    BY <1>1 DEF IInv, CreateInv
  <2>2. tokenHash'[t] = tokenHash[t] /\ (revoked'[t] \/ revoked'[t] = revoked[t])
    BY <1>1, <2>1, TokenWrites DEF IInv
  <2> QED
    BY <1>1, <2>2
<1>2. IInv /\ [Next]_vars =>
        [\A t \in Tasks : revoked[t] => revoked'[t] /\ tokenHash'[t] = tokenHash[t]]_vars
  BY <1>1
<1> QED
  BY <1>2, Inductive, PTL DEF Spec, RevokedForever

\* A task whose token is revoked and whose admitted requests are done is final:
\* every writer left has to pass the token check first.
THEOREM QuietTasksAreFrozen == Spec => RevokedAndQuietIsFrozen
<1>1. ASSUME IInv, [Next]_vars, NEW t \in Tasks, revoked[t], ~Admitted(t)
      PROVE  /\ ~Admitted(t)'
             /\ taskState'[t] = taskState[t]
             /\ {r \in events' : r.task = t} = {r \in events : r.task = t}
  <2> USE DEF IInv, TypeOK
  <2>1. cpc[t] \in {"created", "rolledBack"}
    BY <1>1 DEF CreateInv
  <2>2. ~ \E h \in Handlers : pc[h] = "state" /\ req[h].task = t
    BY <1>1 DEF Admitted
  <2>3. taskState'[t] = taskState[t]
    BY <1>1, <2>1, <2>2, StateWrites
  <2>4. ASSUME NEW r \in events', r \notin events PROVE r.task # t
    <3>1. PICK h \in Handlers : Append(h)
      BY <1>1, <2>4, LogWrites
    <3>2. r.task = req[h].task
      BY <2>4, <3>1 DEF Append, AppendEvent
    <3> QED
      BY <1>1, <3>1, <3>2 DEF Append, Admitted
  <2>5. ~Admitted(t)'
    <3> SUFFICES ASSUME NEW h \in Handlers,
                        (pc[h] \in {"append", "state", "revoke"})',
                        (req[h].task = t)'
                 PROVE  FALSE
      BY DEF Admitted
    <3>1. CASE UNCHANGED handlerVars
      BY <1>1, <3>1 DEF handlerVars, Admitted
    <3>2. CASE Crash
      BY <3>2 DEF Crash
    <3>3. ASSUME NEW g \in Handlers, ReceiveEvent(g) PROVE FALSE
      BY <1>1, <3>3 DEF ReceiveEvent, Respond, Admitted
    <3>4. ASSUME NEW g \in Handlers, Verify(g) PROVE FALSE
      BY <1>1, <3>4 DEF Verify, VerifyAgentToken, Goto, Respond, Admitted
    <3>5. ASSUME NEW g \in Handlers, Append(g) \/ ApplyState(g) \/ Revoke(g)
          PROVE  FALSE
      BY <1>1, <3>5 DEF Append, ApplyState, Revoke, Goto, Respond, Admitted
    <3> QED
      BY <1>1, <3>1, <3>2, <3>3, <3>4, <3>5, StepCases
      DEF ReceiveCreate, Admit, InsertTask, StoreToken, DispatchWorkload,
          MarkRunning, RollbackState, RollbackToken, WorkloadExit, Restart, vars
  <2> QED
    BY <1>1, <2>3, <2>4, <2>5, LogGrows
<1>2. IInv /\ [Next]_vars =>
        [\A t \in Tasks : revoked[t] /\ ~Admitted(t) =>
           /\ ~Admitted(t)'
           /\ taskState'[t] = taskState[t]
           /\ {r \in events' : r.task = t} = {r \in events : r.task = t}]_vars
  BY <1>1
<1> QED
  BY <1>2, Inductive, PTL DEF Spec, RevokedAndQuietIsFrozen
=============================================================================
