------------------------ MODULE TaskStateMachineProofs ------------------------
(***************************************************************************)
(* TaskLifecycle implements TaskStateMachine when statements succeed, the  *)
(* server stays up, and no two requests about the same task are served at  *)
(* once, for any tasks, ids, handlers and types of event.  Each of the     *)
(* three conditions is needed: a lost reply, a crash and a second request  *)
(* each bring an ended task back.                                          *)
(***************************************************************************)
EXTENDS TaskLifecycleProofs

\* A statement that cannot fail succeeds.
LEMMA StatementsSucceed ==
  ASSUME ~StoreMayFail PROVE Outcomes = {"ok"}
  BY DEF Outcomes

\* The creation of a task writes its own row only, and nothing the handlers read
\* or write of other tasks.
LEMMA CreationIsLocal ==
  ASSUME TypeOK, [Next]_vars, NEW u \in Tasks,
         \/ ReceiveCreate(u) \/ Admit(u) \/ InsertTask(u) \/ StoreToken(u)
         \/ DispatchWorkload(u) \/ MarkRunning(u) \/ RollbackState(u)
         \/ RollbackToken(u) \/ WorkloadExit(u)
  PROVE  /\ pc' = pc /\ req' = req /\ events' = events
         /\ \A t \in Tasks \ {u} :
              /\ cpc'[t] = cpc[t]
              /\ taskState'[t] = taskState[t]
              /\ revoked'[t] = revoked[t]
<1> USE DEF TypeOK, TablesTypeOK, tables, server, createVars, handlerVars, CreateGoto
<1>1. CASE ReceiveCreate(u) \/ Admit(u) \/ DispatchWorkload(u) \/ WorkloadExit(u)
  BY <1>1 DEF ReceiveCreate, Admit, DispatchWorkload, WorkloadExit
<1>2. CASE InsertTask(u)
  BY <1>2 DEF InsertTask, CreateTask
<1>3. CASE MarkRunning(u) \/ RollbackState(u)
  BY <1>3 DEF MarkRunning, RollbackState, UpdateTaskState
<1>4. CASE StoreToken(u)
  <2>1. /\ pc' = pc /\ req' = req /\ events' = events /\ taskState' = taskState
        /\ \A t \in Tasks \ {u} : cpc'[t] = cpc[t]
    BY <1>4 DEF StoreToken, StoreAgentToken
  <2>2. PICK outcome : StoreAgentToken(u, ServerToken(u), outcome)
    BY <1>4 DEF StoreToken
  <2>3. \A t \in Tasks \ {u} : revoked'[t] = revoked[t]
    BY <2>2, StoreWrites
  <2> QED
    BY <2>1, <2>3
<1>5. CASE RollbackToken(u)
  <2>1. /\ pc' = pc /\ req' = req /\ events' = events /\ taskState' = taskState
        /\ \A t \in Tasks \ {u} : cpc'[t] = cpc[t]
    BY <1>5 DEF RollbackToken, RevokeAgentToken
  <2>2. PICK outcome : RevokeAgentToken(u, outcome)
    BY <1>5 DEF RollbackToken
  <2>3. \A t \in Tasks \ {u} : revoked'[t] = revoked[t]
    BY <2>2, RevokeWrites
  <2> QED
    BY <2>1, <2>3
<1> QED
  BY <1>1, <1>2, <1>3, <1>4, <1>5

\* No event is in the log, and no handler past its token check, before the
\* creation of the task has answered.
LEMMA NothingBeforeCreated ==
  ASSUME IInv, NEW t \in Tasks, cpc[t] # "created"
  PROVE  /\ ~TerminalLogged(t)
         /\ \A h \in Handlers : pc[h] \in {"append", "state", "revoke"} =>
              req[h].task \in Tasks \ {t}
<1>1. ~TerminalLogged(t)
  BY DEF IInv, OnlyIssuedTokenRecords, TerminalLogged, Logged
<1>2. \A h \in Handlers : pc[h] \in {"append", "state", "revoke"} =>
        req[h].task \in Tasks /\ cpc[req[h].task] = "created"
  BY DEF IInv, TypeOK, HandlerInv, Requests
<1> QED
  BY <1>1, <1>2

\* A step of a creation keeps SettleInv.
LEMMA CreationSettles ==
  ASSUME ~StoreMayFail, IInv, SettleInv, [Next]_vars, NEW u \in Tasks,
         \/ ReceiveCreate(u) \/ Admit(u) \/ InsertTask(u) \/ StoreToken(u)
         \/ DispatchWorkload(u) \/ MarkRunning(u) \/ RollbackState(u)
         \/ RollbackToken(u)
  PROVE  SettleInv'
<1>1. cpc[u] \in {"none", "admit", "insert", "token", "dispatch", "running",
                  "rollbackState", "rollbackToken"}
  BY DEF ReceiveCreate, Admit, InsertTask, StoreToken, DispatchWorkload,
     MarkRunning, RollbackState, RollbackToken, CreateGoto
<1>2. /\ pc' = pc /\ req' = req /\ events' = events
      /\ \A t \in Tasks \ {u} :
           /\ cpc'[t] = cpc[t]
           /\ taskState'[t] = taskState[t]
           /\ revoked'[t] = revoked[t]
  BY CreationIsLocal DEF IInv
<1>3. /\ ~TerminalLogged(u)
      /\ \A h \in Handlers : pc[h] \in {"append", "state", "revoke"} =>
           req[h].task \in Tasks \ {u}
  BY <1>1, NothingBeforeCreated
<1>4. /\ \A t : TerminalLogged(t)' <=> TerminalLogged(t)
      /\ \A t, steps : Serving(t, steps)' <=> Serving(t, steps)
  BY <1>2 DEF TerminalLogged, Logged, Serving
<1>5. /\ cpc'[u] \in {"token", "dispatch", "running", "rollbackState"} =>
           taskState'[u] = "pending"
      /\ cpc'[u] = "created" => taskState'[u] = "running"
  <2> USE DEF IInv, TypeOK, TablesTypeOK, CreateGoto, tables
  <2>1. CASE InsertTask(u)
    BY <2>1 DEF InsertTask, CreateTask, Applied
  <2>2. CASE ReceiveCreate(u) \/ Admit(u)
    BY <2>2 DEF ReceiveCreate, Admit
  <2>3. CASE StoreToken(u) \/ DispatchWorkload(u) \/ RollbackToken(u)
    BY <2>3 DEF StoreToken, StoreAgentToken, DispatchWorkload, RollbackToken,
       RevokeAgentToken, SettleInv
  <2>4. CASE MarkRunning(u)
    BY <2>4, StatementsSucceed DEF MarkRunning, UpdateTaskState, Applied
  <2>5. CASE RollbackState(u)
    BY <2>5 DEF RollbackState
  <2> QED
    BY <2>1, <2>2, <2>3, <2>4, <2>5
<1> QED
  BY <1>1, <1>2, <1>3, <1>4, <1>5 DEF SettleInv

\* A handler that gets a request, or checks its token, keeps SettleInv: the token
\* of a task that has ended is revoked or about to be by another handler.
LEMMA AdmissionSettles ==
  ASSUME ~StoreMayFail, IInv, SettleInv, OneAtATime, NEW h \in Handlers,
         ReceiveEvent(h) \/ Verify(h)
  PROVE  SettleInv'
<1> USE DEF IInv, TypeOK
<1>1. /\ cpc' = cpc /\ taskState' = taskState /\ revoked' = revoked
      /\ events' = events
      /\ \A g \in Handlers \ {h} : pc'[g] = pc[g] /\ req'[g] = req[g]
      /\ pc[h] \in {"idle", "verify"} /\ pc'[h] \in {"idle", "verify", "append"}
  BY DEF ReceiveEvent, Verify, Goto, Respond, tables, createVars
<1>2. /\ \A t : TerminalLogged(t)' <=> TerminalLogged(t)
      /\ \A t : Serving(t, {"state"}) => Serving(t, {"state"})'
      /\ \A t : Serving(t, {"revoke"}) => Serving(t, {"revoke"})'
  BY <1>1 DEF TerminalLogged, Logged, Serving
<1>3. CASE pc'[h] = "append"
  <2>1. /\ pc[h] = "verify" /\ req' = req /\ req[h].task \in Tasks
        /\ ~revoked[req[h].task] /\ tokenHash[req[h].task] = req[h].bearer
    BY <1>3 DEF ReceiveEvent, Verify, VerifyAgentToken, Goto, Respond, Requests
  <2>2. cpc[req[h].task] = "created"
    BY <2>1, TokensDiffer DEF HandlerInv, CreateInv, Requests, Tokens
  <2>3. ~Serving(req[h].task, {"revoke"})
    BY <2>1 DEF OneAtATime, Serving
  <2>4. taskState[req[h].task] = "running"
    BY <2>1, <2>2, <2>3 DEF SettleInv
  <2> QED
    BY <1>1, <1>2, <1>3, <2>1, <2>4 DEF SettleInv
<1>4. CASE pc'[h] # "append"
  BY <1>1, <1>2, <1>4 DEF SettleInv
<1> QED
  BY <1>3, <1>4

\* A terminal event that comes into the log is that of the handler that stored
\* it, which goes on to update the task.
LEMMA AppendLogs ==
  ASSUME ~StoreMayFail, TypeOK, NEW h \in Handlers, Append(h), NEW t,
         TerminalLogged(t)'
  PROVE  \/ TerminalLogged(t)
         \/ req[h].task = t /\ req[h].type \in TerminalTypes /\ pc'[h] = "state"
<1>1. PICK r \in events' : r.task = t /\ r.type \in TerminalTypes
  BY DEF TerminalLogged, Logged
<1>2. CASE r \in events
  BY <1>1, <1>2 DEF TerminalLogged, Logged
<1>3. CASE r \notin events
  <2>1. req[h].task = t /\ req[h].type \in TerminalTypes
    BY <1>1, <1>3 DEF Append, AppendEvent
  <2>2. PICK outcome \in {"ok", "failed"} :
          /\ AppendEvent(req[h].id, req[h].task, req[h].type, req[h].bearer, outcome)
          /\ \/ outcome # "ok"
             \/ outcome = "ok" /\ req[h].type \in StateChanging /\ Goto(h, "state")
             \/ outcome = "ok" /\ req[h].type \notin StateChanging
    BY StatementsSucceed DEF Append
  <2>3. outcome = "ok"
    BY <1>1, <1>3, <2>2 DEF AppendEvent, Applied
  <2>4. Goto(h, "state")
    BY <2>1, <2>2, <2>3 DEF StateChanging
  <2> QED
    BY <2>1, <2>4 DEF Goto, TypeOK
<1> QED
  BY <1>2, <1>3

\* A handler that stores its event keeps SettleInv: its task is running, so no
\* terminal event of it was in the log.
LEMMA AppendSettles ==
  ASSUME ~StoreMayFail, IInv, SettleInv, OneAtATime, NEW h \in Handlers, Append(h)
  PROVE  SettleInv'
<1> USE DEF IInv, TypeOK
<1>1. /\ cpc' = cpc /\ taskState' = taskState /\ revoked' = revoked /\ req' = req
      /\ \A g \in Handlers \ {h} : pc'[g] = pc[g]
      /\ pc[h] = "append" /\ pc'[h] \in {"idle", "state"}
      /\ events \subseteq events'
  BY DEF Append, AppendEvent, Goto, Respond, tables, createVars
<1>2. /\ \A t : Serving(t, {"state"}) => Serving(t, {"state"})'
      /\ \A t : Serving(t, {"revoke"}) => Serving(t, {"revoke"})'
  BY <1>1 DEF Serving
<1>3. /\ req[h].task \in Tasks
      /\ taskState[req[h].task] = "running"
      /\ ~TerminalLogged(req[h].task)
  <2>1. req[h].task \in Tasks /\ taskState[req[h].task] = "running"
    BY <1>1 DEF SettleInv, Requests
  <2>2. ~Serving(req[h].task, {"state"})
    BY <1>1 DEF OneAtATime, Serving
  <2> QED
    BY <2>1, <2>2 DEF SettleInv, TerminalStates
<1>4. ASSUME NEW t, TerminalLogged(t)'
      PROVE  \/ TerminalLogged(t)
             \/ req[h].task = t /\ req[h].type \in TerminalTypes /\ pc'[h] = "state"
  BY <1>4, AppendLogs
<1>5. ASSUME NEW t \in Tasks, TerminalLogged(t)'
      PROVE  taskState'[t] \in TerminalStates \/ Serving(t, {"state"})'
  <2>1. CASE TerminalLogged(t)
    BY <1>1, <1>2, <2>1 DEF SettleInv
  <2>2. CASE req[h].task = t /\ pc'[h] = "state"
    BY <1>1, <2>2 DEF Serving
  <2> QED
    BY <1>4, <1>5, <2>1, <2>2
<1>6. ASSUME NEW g \in Handlers, pc'[g] \in {"append", "state"}
      PROVE  /\ taskState'[req'[g].task] = "running"
             /\ pc'[g] = "state" /\ TerminalLogged(req[g].task)' =>
                  req'[g].type \in TerminalTypes
  <2>1. CASE g = h
    BY <1>1, <1>3, <1>4, <2>1
  <2>2. CASE g # h
    <3>1. req[g].task # req[h].task /\ pc[g] = pc'[g]
      BY <1>1, <1>6, <2>2 DEF OneAtATime
    <3> QED
      BY <1>1, <1>4, <1>6, <3>1 DEF SettleInv
  <2> QED
    BY <2>1, <2>2
<1> QED
  BY <1>1, <1>2, <1>5, <1>6 DEF SettleInv

\* A handler that updates its task keeps SettleInv: it goes on to revoke the
\* token of a task it ended.
LEMMA ApplySettles ==
  ASSUME ~StoreMayFail, IInv, SettleInv, OneAtATime, NEW h \in Handlers, ApplyState(h)
  PROVE  SettleInv'
<1> USE DEF IInv, TypeOK
<1> DEFINE u == req[h].task
           s == StateFor(req[h].type)
<1>1. /\ cpc' = cpc /\ revoked' = revoked /\ req' = req /\ events' = events
      /\ \A g \in Handlers \ {h} : pc'[g] = pc[g]
      /\ pc[h] = "state" /\ u \in Tasks /\ cpc[u] = "created"
      /\ taskState[u] = "running"
  BY DEF ApplyState, UpdateTaskState, Goto, Respond, createVars, HandlerInv, Requests,
     SettleInv
<1>2. /\ taskState' = [taskState EXCEPT ![u] = s]
      /\ \/ req[h].type \in TerminalTypes /\ pc'[h] = "revoke"
         \/ req[h].type \notin TerminalTypes /\ pc'[h] = "idle"
  BY <1>1, StatementsSucceed DEF ApplyState, UpdateTaskState, Applied, Goto, Respond,
     Absent
<1>3. /\ taskState'[u] = s
      /\ \A t \in Tasks \ {u} : taskState'[t] = taskState[t]
      /\ req[h].type \in TerminalTypes => s \in TerminalStates
      /\ req[h].type \notin TerminalTypes => s = "running"
  BY <1>1, <1>2 DEF TablesTypeOK, StateFor, StateChanging, TerminalTypes, TerminalStates
<1>4. /\ \A t : TerminalLogged(t)' <=> TerminalLogged(t)
      /\ \A t : t # u /\ Serving(t, {"state"}) => Serving(t, {"state"})'
      /\ \A t : Serving(t, {"revoke"}) => Serving(t, {"revoke"})'
      /\ req[h].type \in TerminalTypes => Serving(u, {"revoke"})'
      /\ TerminalLogged(u) => req[h].type \in TerminalTypes
  BY <1>1, <1>2 DEF TerminalLogged, Logged, Serving, SettleInv
<1>5. ASSUME NEW t \in Tasks
      PROVE  /\ cpc'[t] \in {"token", "dispatch", "running", "rollbackState"} =>
                  taskState'[t] = "pending"
             /\ cpc'[t] = "created" /\ taskState'[t] # "running" =>
                  /\ taskState'[t] \in TerminalStates
                  /\ revoked'[t] \/ Serving(t, {"revoke"})'
             /\ TerminalLogged(t)' =>
                  taskState'[t] \in TerminalStates \/ Serving(t, {"state"})'
  <2>1. CASE t = u
    BY <1>1, <1>3, <1>4, <2>1
  <2>2. CASE t # u
    BY <1>1, <1>3, <1>4, <2>2 DEF SettleInv
  <2> QED
    BY <2>1, <2>2
<1>6. ASSUME NEW g \in Handlers, pc'[g] \in {"append", "state"}
      PROVE  /\ taskState'[req'[g].task] = "running"
             /\ pc'[g] = "state" /\ TerminalLogged(req[g].task)' =>
                  req'[g].type \in TerminalTypes
  <2>1. g # h
    BY <1>2, <1>6
  <2>2. pc'[g] = pc[g] /\ req[g].task \in Tasks \ {u}
    BY <1>1, <1>6, <2>1 DEF OneAtATime, Requests
  <2> QED
    BY <1>1, <1>3, <1>4, <1>6, <2>2 DEF SettleInv
<1> QED
  BY <1>5, <1>6 DEF SettleInv

\* A handler that revokes the token of its task keeps SettleInv.
LEMMA RevokeSettles ==
  ASSUME ~StoreMayFail, IInv, SettleInv, NEW h \in Handlers, Revoke(h)
  PROVE  SettleInv'
<1> USE DEF IInv, TypeOK
<1>1. /\ cpc' = cpc /\ taskState' = taskState /\ req' = req /\ events' = events
      /\ \A g \in Handlers \ {h} : pc'[g] = pc[g]
      /\ pc[h] = "revoke" /\ pc'[h] = "idle"
      /\ req[h].task \in Tasks /\ cpc[req[h].task] = "created"
  BY DEF Revoke, RevokeAgentToken, Respond, createVars, HandlerInv, Requests
<1>2. tokenHash[req[h].task] # NoToken
  BY <1>1, TokensDiffer DEF CreateInv
<1>3. PICK outcome \in Outcomes : RevokeAgentToken(req[h].task, outcome)
  BY DEF Revoke
<1>4. revoked' = [revoked EXCEPT ![req[h].task] = TRUE]
  BY <1>2, <1>3, StatementsSucceed DEF RevokeAgentToken, Applied
<1>5. /\ revoked'[req[h].task]
      /\ \A t \in Tasks : revoked[t] => revoked'[t]
  <2>1. revoked'[req[h].task]
    BY <1>1, <1>4, FlagSet DEF TablesTypeOK
  <2> QED
    BY <1>1, <1>3, <2>1, RevokeWrites DEF TablesTypeOK
<1>6. /\ \A t : TerminalLogged(t)' <=> TerminalLogged(t)
      /\ \A t : Serving(t, {"state"}) => Serving(t, {"state"})'
      /\ \A t : Serving(t, {"revoke"}) => req[h].task = t \/ Serving(t, {"revoke"})'
  BY <1>1 DEF TerminalLogged, Logged, Serving
<1> QED
  BY <1>1, <1>5, <1>6 DEF SettleInv

\* Every step keeps SettleInv.
LEMMA StepSettles ==
  ASSUME ~StoreMayFail, ~ServerMayCrash, IInv, SettleInv, OneAtATime, [Next]_vars
  PROVE  SettleInv'
<1>1. ASSUME NEW u \in Tasks, WorkloadExit(u) PROVE SettleInv'
  BY <1>1 DEF WorkloadExit, tables, handlerVars, SettleInv, TerminalLogged, Logged, Serving
<1>2. CASE Restart \/ UNCHANGED vars
  BY <1>2 DEF Restart, vars, tables, createVars, handlerVars, SettleInv, TerminalLogged,
     Logged, Serving
<1>3. ~Crash
  BY DEF Crash
<1> QED
  BY <1>1, <1>2, <1>3, StepCases, CreationSettles, AdmissionSettles, AppendSettles,
     ApplySettles, RevokeSettles

\* A step is one of the state machine, or leaves every state alone.
LEMMA StepFollows ==
  ASSUME ~StoreMayFail, ~ServerMayCrash, IInv, SettleInv, [Next]_vars
  PROVE  Machine!Next \/ taskState' = taskState
<1> USE DEF IInv, TypeOK, TablesTypeOK, Machine!Next, Machine!Move, Machine!Absent
<1>1. ASSUME NEW t \in Tasks, InsertTask(t)
      PROVE  Machine!Next \/ taskState' = taskState
  <2>1. taskState[t] = Absent
    BY <1>1 DEF InsertTask, CreateGoto, CreateInv
  <2>2. \/ taskState' = [taskState EXCEPT ![t] = "pending"]
        \/ taskState' = taskState
    BY <1>1 DEF InsertTask, CreateTask
  <2> QED
    BY <2>1, <2>2 DEF Machine!Submit, Absent
<1>2. ASSUME NEW t \in Tasks, MarkRunning(t)
      PROVE  Machine!Next \/ taskState' = taskState
  <2>1. taskState[t] = "pending"
    BY <1>2 DEF MarkRunning, CreateGoto, SettleInv
  <2>2. \/ taskState' = [taskState EXCEPT ![t] = "running"]
        \/ taskState' = taskState
    BY <1>2 DEF MarkRunning, UpdateTaskState
  <2> QED
    BY <2>1, <2>2 DEF Machine!Start
<1>3. ASSUME NEW t \in Tasks, RollbackState(t)
      PROVE  Machine!Next \/ taskState' = taskState
  <2>1. taskState[t] = "pending"
    BY <1>3 DEF RollbackState, CreateGoto, SettleInv
  <2>2. \/ taskState' = [taskState EXCEPT ![t] = "failed"]
        \/ taskState' = taskState
    BY <1>3 DEF RollbackState, UpdateTaskState
  <2> QED
    BY <2>1, <2>2 DEF Machine!Rollback
<1>4. ASSUME NEW h \in Handlers, ApplyState(h)
      PROVE  Machine!Next \/ taskState' = taskState
  <2>1. /\ req[h].task \in Tasks /\ taskState[req[h].task] = "running"
        /\ StateFor(req[h].type) \in {"running", "completed", "failed", "timeout"}
    BY <1>4 DEF ApplyState, SettleInv, Requests, StateFor, StateChanging, TerminalTypes
  <2>2. \/ taskState' = [taskState EXCEPT ![req[h].task] = StateFor(req[h].type)]
        \/ taskState' = taskState
    BY <1>4 DEF ApplyState, UpdateTaskState
  <2>3. CASE StateFor(req[h].type) = "running"
    BY <2>1, <2>2, <2>3
  <2>4. CASE StateFor(req[h].type) \in {"completed", "failed", "timeout"}
    BY <2>1, <2>2, <2>4 DEF Machine!Finish
  <2> QED
    BY <2>1, <2>3, <2>4
<1>5. ASSUME NEW t \in Tasks,
             \/ ReceiveCreate(t) \/ Admit(t) \/ StoreToken(t) \/ DispatchWorkload(t)
             \/ RollbackToken(t) \/ WorkloadExit(t)
      PROVE  taskState' = taskState
  BY <1>5 DEF ReceiveCreate, Admit, StoreToken, StoreAgentToken,
     DispatchWorkload, RollbackToken, RevokeAgentToken, WorkloadExit, tables
<1>6. ASSUME NEW h \in Handlers,
             ReceiveEvent(h) \/ Verify(h) \/ Append(h) \/ Revoke(h)
      PROVE  taskState' = taskState
  BY <1>6 DEF ReceiveEvent, Verify, Append, AppendEvent, Revoke, RevokeAgentToken, tables
<1>7. CASE Crash \/ Restart \/ UNCHANGED vars
  BY <1>7 DEF Crash, Restart, vars, tables
<1> QED
  BY <1>1, <1>2, <1>3, <1>4, <1>5, <1>6, <1>7, StepCases

-----------------------------------------------------------------------------
(* The theorems.                                                            *)

\* While statements succeed, the server stays up, and requests about a task come
\* one at a time, a task that has ended is one whose token no request gets past.
THEOREM TasksSettle ==
  ASSUME ~StoreMayFail, ~ServerMayCrash PROVE Spec /\ []OneAtATime => []SettleInv
<1>1. Init => SettleInv
  BY DEF Init, TablesInit, SettleInv, TerminalLogged, Logged, Absent
<1>2. IInv /\ SettleInv /\ OneAtATime /\ [Next]_vars => SettleInv'
  BY StepSettles
<1> QED
  BY <1>1, <1>2, Inductive, PTL DEF Spec

\* Under the same conditions the control plane implements the state machine of
\* AGENT_API.md: no statement takes a task anywhere else, although none of them
\* looks at the state it overwrites.
THEOREM ImplementsStateMachine ==
  ASSUME ~StoreMayFail, ~ServerMayCrash
  PROVE  Spec /\ []OneAtATime => FollowsStateMachine
<1>1. Init => Machine!Init
  BY DEF Init, TablesInit, Machine!Init, Machine!Absent, Absent
<1>2. IInv /\ SettleInv /\ [Next]_vars => [Machine!Next]_taskState
  BY StepFollows
<1> QED
  BY <1>1, <1>2, Inductive, TasksSettle, PTL DEF Spec, FollowsStateMachine, Machine!Spec

\* A server with a single handler serves requests one at a time, and so implements
\* the state machine whatever its clients send.
THEOREM SerialServerFollows ==
  ASSUME ~StoreMayFail, ~ServerMayCrash, \A g, h \in Handlers : g = h
  PROVE  Spec => FollowsStateMachine
<1>1. OneAtATime
  BY DEF OneAtATime
<1> QED
  BY <1>1, ImplementsStateMachine, PTL

\* Under the same conditions, nothing brings an ended task back.
THEOREM EndedTasksStayEnded ==
  ASSUME ~StoreMayFail, ~ServerMayCrash PROVE Spec /\ []OneAtATime => TerminalIsFinal
<1>1. ASSUME IInv, SettleInv, [Next]_vars, NEW t \in Tasks,
             taskState[t] \in TerminalStates
      PROVE  taskState'[t] = taskState[t]
  <2>1. CASE taskState' = taskState
    BY <2>1
  <2>2. CASE Machine!Next
    <3>1. PICK u \in Tasks : Machine!Submit(u) \/ Machine!Start(u) \/ Machine!Finish(u)
                               \/ Machine!Rollback(u)
      BY <2>2 DEF Machine!Next
    <3>2. u # t
      BY <1>1, <3>1 DEF Machine!Submit, Machine!Start, Machine!Finish, Machine!Rollback,
         Machine!Move, Machine!Absent, TerminalStates
    <3> QED
      BY <1>1, <3>1, <3>2 DEF Machine!Submit, Machine!Start, Machine!Finish,
         Machine!Rollback, Machine!Move, IInv, TypeOK, TablesTypeOK
  <2> QED
    BY <1>1, <2>1, <2>2, StepFollows
<1>2. IInv /\ SettleInv /\ [Next]_vars =>
        [\A t \in Tasks : taskState[t] \in TerminalStates =>
           taskState'[t] = taskState[t]]_vars
  BY <1>1
<1> QED
  BY <1>2, Inductive, TasksSettle, PTL DEF Spec, TerminalIsFinal

\* The safety half of TerminalEventSettles: once no request about a task is being
\* served, a terminal event in the log has brought the task to a terminal state
\* and closed its token.
Settled == \A t \in Tasks :
  TerminalLogged(t) /\ ~Serving(t, {"state", "revoke"}) =>
    taskState[t] \in TerminalStates /\ revoked[t]

\* Every terminal event in the log settles its task, as soon as its request is done.
THEOREM LoggedTerminalsSettle ==
  ASSUME ~StoreMayFail, ~ServerMayCrash PROVE Spec /\ []OneAtATime => []Settled
<1>1. ASSUME IInv, SettleInv, NEW t \in Tasks, TerminalLogged(t),
             ~Serving(t, {"state", "revoke"})
      PROVE  taskState[t] \in TerminalStates /\ revoked[t]
  <2>1. ~Serving(t, {"state"}) /\ ~Serving(t, {"revoke"})
    BY <1>1 DEF Serving
  <2>2. cpc[t] = "created"
    BY <1>1 DEF IInv, OnlyIssuedTokenRecords, TerminalLogged, Logged
  <2> QED
    BY <1>1, <2>1, <2>2 DEF SettleInv, TerminalStates
<1>2. IInv /\ SettleInv => Settled
  BY <1>1 DEF Settled
<1> QED
  BY <1>2, Inductive, TasksSettle, PTL
=============================================================================
