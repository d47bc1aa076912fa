---------------------------- MODULE TaskLifecycle ----------------------------
(***************************************************************************)
(* The life of a task: internal/api/taskservice.go (CreateTask),           *)
(* internal/api/router.go (handleCreateTask, handleCreateEvent) and        *)
(* internal/scheduler/scheduler.go (Dispatch) over the tables of Tables.   *)
(*                                                                         *)
(* Every HTTP request is served by a goroutine of its own.  A request runs *)
(* several statements, each committed on its own, so the requests in       *)
(* flight interleave between statements; a program counter per request     *)
(* says which statement is next.  CreateTask draws a fresh task id, so the *)
(* task itself names the request that creates it.  Requests for            *)
(* /v1/events are served by Handlers, each serving one at a time.          *)
(*                                                                         *)
(* The environment: a statement may fail or lose its reply (a cancelled    *)
(* request context, a dropped connection), a runtime may refuse, the       *)
(* server may be killed.  A request for an event may arrive late, twice or *)
(* out of order: whoever ever held a token may present it at any time.     *)
(***************************************************************************)
EXTENDS Tables

CONSTANTS Handlers,       \* concurrent requests on /v1/events
          RequestTypes,   \* event types presented, Unknown among them or not
          StoreMayFail,   \* whether statements may fail
          ServerMayCrash, \* whether the server process may be killed
          CanRestart      \* whether a new server process gets to serve again
                          \* (with the schema as it is, Migrate stops it)

Unknown == "unknown"  \* a type outside EventTypes, or any type with no payload

ASSUME RequestTypesAssumption == RequestTypes \subseteq EventTypes \cup {Unknown}
ASSUME FaultsAssumption ==
  /\ StoreMayFail \in BOOLEAN
  /\ ServerMayCrash \in BOOLEAN
  /\ CanRestart \in BOOLEAN

VARIABLES up,       \* the server process is serving
          swallowed,  \* history: the tasks a rollback or a revocation of which met
                      \* an error that was only logged
          cpc,      \* control of the request that creates each task
          mounted,  \* HERMESMANAGER_AGENT_TOKEN of the task's workload
          workload, \* the process or Job started for the task
          pc,       \* control of each event handler
          req,      \* the request each event handler serves or served last
          reply     \* the status it answered, 0 while it has not

createVars  == <<cpc, mounted, workload>>
handlerVars == <<pc, req, reply>>
server      == <<up, swallowed>>
vars == <<tables, server, createVars, handlerVars>>

\* "created" has answered 201 with the token, "refused" 400 or 403, "failed" and
\* "rolledBack" 500, or 400 when the error speaks of something "not found"; "lost"
\* was cut by the end of the process.
CreateInFlight == {"admit", "insert", "token", "dispatch", "running",
                   "rollbackState", "rollbackToken"}
CreatePC == CreateInFlight \cup {"none", "created", "refused", "failed",
                               "rolledBack", "lost"}

HandlerPC == {"idle", "verify", "append", "state", "revoke"}

\* A request with no id gets one of 12 random bytes; drawn with the request it
\* is a member of EventIds that nobody else presents, so a case of the others.
Requests == [task : Tasks, type : RequestTypes, id : EventIds, bearer : Tokens]
NoRequest == [task |-> Absent]

\* The types handleCreateEvent goes on to update the task for.
StateChanging == TerminalTypes \cup {"task.started"}

TypeOK ==
  /\ TablesTypeOK
  /\ up \in BOOLEAN
  /\ swallowed \subseteq Tasks
  /\ cpc \in [Tasks -> CreatePC]
  /\ mounted \in [Tasks -> Tokens \cup {NoToken}]
  /\ workload \in [Tasks -> {"none", "running", "exited"}]
  /\ pc \in [Handlers -> HandlerPC]
  /\ req \in [Handlers -> Requests \cup {NoRequest}]
  /\ reply \in [Handlers -> {0, 201, 400, 401, 500}]
  /\ \A h \in Handlers :
       /\ pc[h] # "idle" => req[h] # NoRequest
       /\ pc[h] = "state" => req[h].type \in StateChanging
       /\ pc[h] = "revoke" => req[h].type \in TerminalTypes

Init ==
  /\ TablesInit
  /\ up = TRUE
  /\ swallowed = {}
  /\ cpc = [t \in Tasks |-> "none"]
  /\ mounted = [t \in Tasks |-> NoToken]
  /\ workload = [t \in Tasks |-> "none"]
  /\ pc = [h \in Handlers |-> "idle"]
  /\ req = [h \in Handlers |-> NoRequest]
  /\ reply = [h \in Handlers |-> 0]

Outcomes == IF StoreMayFail THEN {"ok", "failed", "lost"} ELSE {"ok"}

\* An error is logged and the request goes on as if there were none.
Swallow(t, outcome) ==
  swallowed' = IF outcome = "ok" THEN swallowed ELSE swallowed \cup {t}

-----------------------------------------------------------------------------
(* CreateTask, one statement a step.                                        *)

CreateGoto(t, from, to) ==
  /\ cpc[t] = from
  /\ cpc' = [cpc EXCEPT ![t] = to]

\* POST /v1/tasks arrives; t is the id generateID will draw for it.
ReceiveCreate(t) ==
  /\ up
  /\ CreateGoto(t, "none", "admit")
  /\ UNCHANGED <<tables, server, mounted, workload, handlerVars>>

\* GetSkill and Evaluate, which write nothing: an error answers 500, a skill
\* that is not there 400, a deny rule 403.
Admit(t) ==
  /\ \E to \in {"insert", "refused", "failed"} : CreateGoto(t, "admit", to)
  /\ UNCHANGED <<tables, server, mounted, workload, handlerVars>>

\* store.CreateTask; nil parameters violate NOT NULL and fail, so this
\* statement can fail even when the database is well.
InsertTask(t) ==
  /\ \E outcome \in Outcomes \cup {"failed"} :
       /\ CreateTask(t, outcome)
       /\ CreateGoto(t, "insert", IF outcome = "ok" THEN "token" ELSE "failed")
  /\ UNCHANGED <<server, mounted, workload, handlerVars>>

\* store.StoreAgentToken; on an error the row of tasks stays, pending.
StoreToken(t) ==
  /\ \E outcome \in Outcomes :
       /\ StoreAgentToken(t, ServerToken(t), outcome)
       /\ CreateGoto(t, "token", IF outcome = "ok" THEN "dispatch" ELSE "failed")
  /\ UNCHANGED <<server, mounted, workload, handlerVars>>

\* Scheduler.Dispatch up to rt.Dispatch: a workload started with a token the
\* driver draws itself; no runtime of that name, a runtime that refuses or
\* fails; or an error from a driver whose workload runs all the same (a Secret
\* created with its reply lost and a Job that could not be deleted).
DispatchWorkload(t) ==
  /\ \/ /\ CreateGoto(t, "dispatch", "running")
        /\ mounted' = [mounted EXCEPT ![t] = DriverToken(t)]
        /\ workload' = [workload EXCEPT ![t] = "running"]
     \/ /\ CreateGoto(t, "dispatch", "rollbackState")
        /\ UNCHANGED <<mounted, workload>>
     \/ /\ StoreMayFail
        /\ CreateGoto(t, "dispatch", "rollbackState")
        /\ mounted' = [mounted EXCEPT ![t] = DriverToken(t)]
        /\ workload' = [workload EXCEPT ![t] = "running"]
  /\ UNCHANGED <<tables, server, handlerVars>>

\* Mutant: an error of UpdateTaskState is only logged.
MarkRunningIgnoresError(t) ==
  /\ \E outcome \in Outcomes : UpdateTaskState(t, "running", outcome)
  /\ CreateGoto(t, "running", "created")
  /\ UNCHANGED <<server, mounted, workload, handlerVars>>

\* The rest of Scheduler.Dispatch: the workload has started, the row has yet
\* to say so.
MarkRunning(t) ==
  /\ \E outcome \in Outcomes :
       /\ UpdateTaskState(t, "running", outcome)
       /\ CreateGoto(t, "running",
                     IF outcome = "ok" THEN "created" ELSE "rollbackState")
  /\ UNCHANGED <<server, mounted, workload, handlerVars>>

\* Mutant: the rollback ends before it revokes the token.
RollbackStateOnly(t) ==
  /\ \E outcome \in Outcomes :
       UpdateTaskState(t, "failed", outcome) /\ Swallow(t, outcome)
  /\ CreateGoto(t, "rollbackState", "rolledBack")
  /\ UNCHANGED <<up, mounted, workload, handlerVars>>

\* The rollback of CreateTask: an error of either statement is only logged,
\* and the workload, if any, is left alone.
RollbackState(t) ==
  /\ \E outcome \in Outcomes :
       UpdateTaskState(t, "failed", outcome) /\ Swallow(t, outcome)
  /\ CreateGoto(t, "rollbackState", "rollbackToken")
  /\ UNCHANGED <<up, mounted, workload, handlerVars>>

RollbackToken(t) ==
  /\ \E outcome \in Outcomes :
       RevokeAgentToken(t, outcome) /\ Swallow(t, outcome)
  /\ CreateGoto(t, "rollbackToken", "rolledBack")
  /\ UNCHANGED <<up, mounted, workload, handlerVars>>

CreateStep(t) ==
  \/ Admit(t)
  \/ InsertTask(t)
  \/ StoreToken(t)
  \/ DispatchWorkload(t)
  \/ MarkRunning(t)
  \/ RollbackState(t)
  \/ RollbackToken(t)

-----------------------------------------------------------------------------
(* handleCreateEvent, one statement a step.                                 *)

Goto(h, to) == pc' = [pc EXCEPT ![h] = to] /\ UNCHANGED reply

Respond(h, status) ==
  /\ pc' = [pc EXCEPT ![h] = "idle"]
  /\ reply' = [reply EXCEPT ![h] = status]

\* Whoever holds the token can send a request, and it can arrive any time
\* later: the client that got the 201, or the workload it is mounted into.
Holds(k) == \E t \in Tasks :
  \/ cpc[t] = "created" /\ k = ServerToken(t)
  \/ k = mounted[t]

\* A request arrives.  One without a bearer token answers 401, one that does
\* not parse or names no task 400; neither reaches the store.
ReceiveEvent(h) ==
  /\ up
  /\ pc[h] = "idle"
  /\ \/ \E r \in Requests :
          /\ Holds(r.bearer)
          /\ req' = [req EXCEPT ![h] = r]
          /\ reply' = [reply EXCEPT ![h] = 0]
          /\ pc' = [pc EXCEPT ![h] = "verify"]
     \/ /\ req' = [req EXCEPT ![h] = NoRequest]
        /\ \E status \in {400, 401} : Respond(h, status)
  /\ UNCHANGED <<tables, server, createVars>>

\* store.VerifyAgentToken; the answer is used until the request ends, with
\* nothing held over the token meanwhile.
Verify(h) ==
  /\ pc[h] = "verify"
  /\ \/ /\ VerifyAgentToken(req[h].task, req[h].bearer)
        /\ Goto(h, "append")
     \/ /\ ~VerifyAgentToken(req[h].task, req[h].bearer)
        /\ Respond(h, 401)
     \/ StoreMayFail /\ Respond(h, 500)
  /\ UNCHANGED <<tables, server, createVars, req>>

\* Mutant: an error of AppendEvent is only logged.
AppendIgnoresError(h) ==
  /\ pc[h] = "append"
  /\ \E outcome \in Outcomes \cup {"failed"} :
       /\ AppendEvent(req[h].id, req[h].task, req[h].type, req[h].bearer, outcome)
       /\ \/ req[h].type \in StateChanging /\ Goto(h, "state")
          \/ req[h].type \notin StateChanging /\ Respond(h, 201)
  /\ UNCHANGED <<server, createVars, req>>

\* store.AppendEvent.  Of the types that are stored, four go on to the tasks
\* table.
Append(h) ==
  /\ pc[h] = "append"
  /\ \E outcome \in Outcomes \cup {"failed"} :
       /\ outcome = "failed" /\ ~StoreMayFail =>
            ~Insertable(req[h].id, req[h].task, req[h].type)
       /\ AppendEvent(req[h].id, req[h].task, req[h].type, req[h].bearer, outcome)
       /\ \/ outcome # "ok" /\ Respond(h, 500)
          \/ outcome = "ok" /\ req[h].type \in StateChanging /\ Goto(h, "state")
          \/ outcome = "ok" /\ req[h].type \notin StateChanging /\ Respond(h, 201)
  /\ UNCHANGED <<server, createVars, req>>

\* Mutant: a started event writes its own name.
StateForUnmapped(type) == IF type = "task.started" THEN "started" ELSE "completed"

\* The state each case of the switch writes.
StateFor(type) == CASE type = "task.started"   -> "running"
                    [] type = "task.completed" -> "completed"
                    [] type = "task.failed"    -> "failed"
                    [] type = "task.timeout"   -> "timeout"

\* Mutants: the first case of the switch falls through to the revocation; the
\* case of task.failed forgets it.
ApplyStateAlwaysRevokes(h) ==
  /\ pc[h] = "state"
  /\ \E outcome \in Outcomes :
       UpdateTaskState(req[h].task, StateFor(req[h].type), outcome)
  /\ Goto(h, "revoke")
  /\ UNCHANGED <<server, createVars, req>>

ApplyStateForgetsFailed(h) ==
  /\ pc[h] = "state"
  /\ UpdateTaskState(req[h].task, StateFor(req[h].type), "ok")
  /\ IF req[h].type = "task.completed" THEN Goto(h, "revoke") ELSE Respond(h, 201)
  /\ UNCHANGED <<server, createVars, req>>

\* store.UpdateTaskState.  The event stays stored when it fails.
ApplyState(h) ==
  /\ pc[h] = "state"
  /\ \E outcome \in Outcomes :
       /\ UpdateTaskState(req[h].task, StateFor(req[h].type), outcome)
       /\ \/ outcome # "ok" /\ Respond(h, 500)
          \/ outcome = "ok" /\ req[h].type \in TerminalTypes /\ Goto(h, "revoke")
          \/ outcome = "ok" /\ req[h].type \notin TerminalTypes /\ Respond(h, 201)
  /\ UNCHANGED <<server, createVars, req>>

\* Mutant: the token is never revoked.
RevokeForgotten(h) ==
  /\ pc[h] = "revoke"
  /\ Respond(h, 201)
  /\ UNCHANGED <<tables, server, createVars, req>>

\* store.RevokeAgentToken; its error is only logged.
Revoke(h) ==
  /\ pc[h] = "revoke"
  /\ \E outcome \in Outcomes :
       RevokeAgentToken(req[h].task, outcome) /\ Swallow(req[h].task, outcome)
  /\ Respond(h, 201)
  /\ UNCHANGED <<up, createVars, req>>

HandlerStep(h) == Verify(h) \/ Append(h) \/ ApplyState(h) \/ Revoke(h)

-----------------------------------------------------------------------------
(* The world outside the handlers.                                          *)

\* The agent process ends, by itself or killed when its request's context
\* ends; the control plane does nothing about it.
WorkloadExit(t) ==
  /\ workload[t] = "running"
  /\ workload' = [workload EXCEPT ![t] = "exited"]
  /\ UNCHANGED <<tables, server, cpc, mounted, handlerVars>>

\* The server process is killed; rows and workloads stay.
Crash ==
  /\ ServerMayCrash
  /\ up
  /\ up' = FALSE
  /\ cpc' = [t \in Tasks |-> IF cpc[t] \in CreateInFlight THEN "lost" ELSE cpc[t]]
  /\ pc' = [h \in Handlers |-> "idle"]
  /\ UNCHANGED <<tables, swallowed, mounted, workload, req, reply>>

\* Mutant: a new process issues the tokens of unfinished tasks again.
RestartReissues ==
  /\ CanRestart
  /\ ~up
  /\ up' = TRUE
  /\ revoked' = [t \in Tasks |-> revoked[t] /\ taskState[t] # "running"]
  /\ UNCHANGED <<taskState, tokenHash, events, swallowed, createVars, handlerVars>>

\* A new process serves.  It repairs nothing of what the old one left.
Restart ==
  /\ CanRestart
  /\ ~up
  /\ up' = TRUE
  /\ UNCHANGED <<tables, swallowed, createVars, handlerVars>>

Next ==
  \/ \E t \in Tasks : ReceiveCreate(t) \/ CreateStep(t) \/ WorkloadExit(t)
  \/ \E h \in Handlers : ReceiveEvent(h) \/ HandlerStep(h)
  \/ Crash
  \/ Restart

Spec == Init /\ [][Next]_vars

\* Goroutines are scheduled and statements return, with a result or an error.
FairSpec ==
  /\ Spec
  /\ \A t \in Tasks : WF_vars(CreateStep(t))
  /\ \A h \in Handlers : WF_vars(HandlerStep(h))

-----------------------------------------------------------------------------
(* Properties of every interleaving, with faults.                           *)

Logged(t, type) == \E r \in events : r.task = t /\ r.type = type

TerminalLogged(t) == \E type \in TerminalTypes : Logged(t, type)

\* The audit log explains the state: a task is completed or timed out only
\* after such an event of it was stored, failed only after such an event or
\* after the rollback of its creation, and running only when a workload was
\* started for it or an agent said so.  (handleCreateEvent stores the event
\* before it updates the state, in two statements.)
StateHasEvidence == \A t \in Tasks :
  /\ taskState[t] = "completed" => Logged(t, "task.completed")
  /\ taskState[t] = "timeout" => Logged(t, "task.timeout")
  /\ taskState[t] = "failed" =>
       Logged(t, "task.failed") \/ cpc[t] \in {"rollbackToken", "rolledBack", "lost"}
  /\ taskState[t] = "running" => Logged(t, "task.started") \/ mounted[t] # NoToken

\* A token is revoked only once its task has a terminal event in the log, or
\* by the rollback of a creation that failed: no client that got its 201 is
\* locked out of an unfinished task.
RevocationJustified == \A t \in Tasks :
  revoked[t] => TerminalLogged(t) \/ cpc[t] = "rolledBack"

\* Every event in the log was brought by a bearer of the very token stored for
\* its task, and only after CreateTask had answered 201: not by a token of
\* another task, and not by the token a driver mounts.
OnlyIssuedTokenRecords == \A r \in events :
  r.bearer = tokenHash[r.task] /\ cpc[r.task] = "created"

\* The row of events for the request of a handler.
Row(h) == [id |-> req[h].id, task |-> req[h].task, type |-> req[h].type,
           bearer |-> req[h].bearer]

\* A request answered 201 is in the log as it was sent, whatever other request
\* competed for its id.
AcknowledgedIsRecorded == \A h \in Handlers :
  reply[h] = 201 => Row(h) \in events

\* A creation answered 201 left a task that is past pending and a token that is
\* the one it returned, valid as long as no terminal event is logged.
CreatedIsUsable == \A t \in Tasks :
  cpc[t] = "created" =>
    /\ taskState[t] \in TaskStates \ {"pending"}
    /\ tokenHash[t] = ServerToken(t)
    /\ revoked[t] => TerminalLogged(t)

\* AGENT_API.md, "Token is revoked on task.completed, task.failed, or
\* task.timeout": a terminal event answered 201 has revoked the token, or the
\* error of the revocation was logged; a crash leaves no third case.
AnsweredTerminalIsRevoked == \A h \in Handlers :
  reply[h] = 201 /\ req[h].type \in TerminalTypes =>
    revoked[req[h].task] \/ req[h].task \in swallowed

\* taskservice.go, "it rolls back the task (marks it failed) and revokes the
\* agent token so no zombie tasks remain": so it is, whatever requests run
\* meanwhile, unless an error of the rollback itself was logged.
RollbackLeavesNoZombie == \A t \in Tasks :
  cpc[t] = "rolledBack" /\ t \notin swallowed =>
    taskState[t] = "failed" /\ revoked[t]

\* A revoked token never becomes valid again, although StoreAgentToken resets
\* the flag whenever it runs.
RevokedForever ==
  [][\A t \in Tasks : revoked[t] => revoked'[t] /\ tokenHash'[t] = tokenHash[t]]_vars

\* A handler past its token check, for a task.
Admitted(t) == \E h \in Handlers :
  pc[h] \in {"append", "state", "revoke"} /\ req[h].task = t

\* Once a token is revoked and the requests it had already admitted are done,
\* no other request is admitted, so that neither the state of its task nor its
\* part of the log ever changes again.
RevokedAndQuietIsFrozen ==
  [][\A t \in Tasks : revoked[t] /\ ~Admitted(t) =>
       /\ ~Admitted(t)'
       /\ taskState'[t] = taskState[t]
       /\ {r \in events' : r.task = t} = {r \in events : r.task = t}]_vars

-----------------------------------------------------------------------------
(* What makes those properties inductive.                                   *)

\* How far CreateTask got tells which rows of the task there are.
CreateInv == \A t \in Tasks :
  /\ mounted[t] \in {NoToken, DriverToken(t)}
  /\ tokenHash[t] \in {NoToken, ServerToken(t)}
  /\ cpc[t] \in {"none", "admit", "insert", "refused"} => taskState[t] = Absent
  /\ cpc[t] \in {"token", "dispatch", "running", "rollbackState",
                 "rollbackToken", "created", "rolledBack"} => taskState[t] # Absent
  /\ cpc[t] \in {"none", "admit", "insert", "refused", "token"} =>
       tokenHash[t] = NoToken
  /\ cpc[t] \in {"dispatch", "running", "rollbackState", "rollbackToken",
                 "created", "rolledBack"} => tokenHash[t] = ServerToken(t)
  /\ cpc[t] = "running" => mounted[t] = DriverToken(t)
  /\ cpc[t] = "created" => taskState[t] # "pending"
  /\ revoked[t] => cpc[t] \in {"created", "rolledBack"}

\* What the first half of a rollback leaves to the second.
RollbackInv == \A t \in Tasks :
  cpc[t] = "rollbackToken" /\ t \notin swallowed => taskState[t] = "failed"

\* What an event handler has established by the time it is past each step.
HandlerInv == \A h \in Handlers :
  /\ pc[h] = "verify" =>
       \A t \in Tasks : req[h].bearer = ServerToken(t) => cpc[t] = "created"
  /\ pc[h] \in {"append", "state", "revoke"} =>
       req[h].bearer = ServerToken(req[h].task) /\ cpc[req[h].task] = "created"
  /\ pc[h] \in {"state", "revoke"} => Row(h) \in events

IInv ==
  /\ TypeOK
  /\ CreateInv
  /\ RollbackInv
  /\ HandlerInv
  /\ StateHasEvidence
  /\ RevocationJustified
  /\ OnlyIssuedTokenRecords
  /\ AcknowledgedIsRecorded
  /\ AnsweredTerminalIsRevoked
  /\ RollbackLeavesNoZombie

-----------------------------------------------------------------------------
(* Properties that need the store to work, or requests one at a time.       *)

\* The state machine of AGENT_API.md, step by step.
Machine == INSTANCE TaskStateMachine
FollowsStateMachine == Machine!Spec

\* Of that machine, that its terminal states are final.
TerminalIsFinal ==
  [][\A t \in Tasks : taskState[t] \in TerminalStates =>
       taskState'[t] = taskState[t]]_vars

\* With requests one at a time a terminal event that was stored gets its task to
\* a terminal state for good: nothing a client sends afterwards brings it back.
TerminalEventSettles == \A t \in Tasks :
  TerminalLogged(t) ~> [](taskState[t] \in TerminalStates)
-----------------------------------------------------------------------------
(* What makes them inductive.                                               *)

\* A client that waits for each answer about a task before it sends the next
\* request about it; requests about different tasks run concurrently.
OneAtATime == \A g, h \in Handlers :
  pc[g] # "idle" /\ pc[h] # "idle" /\ req[g].task = req[h].task => g = h

Serving(t, steps) == \E h \in Handlers : pc[h] \in steps /\ req[h].task = t

\* A request past its token check finds its task running, for a task that has
\* ended is one whose token is revoked, or about to be.
SettleInv ==
  /\ \A t \in Tasks :
       /\ cpc[t] \in {"token", "dispatch", "running", "rollbackState"} =>
            taskState[t] = "pending"
       /\ cpc[t] = "created" /\ taskState[t] # "running" =>
            /\ taskState[t] \in TerminalStates
            /\ revoked[t] \/ Serving(t, {"revoke"})
       /\ TerminalLogged(t) =>
            taskState[t] \in TerminalStates \/ Serving(t, {"state"})
  /\ \A h \in Handlers :
       /\ pc[h] \in {"append", "state"} => taskState[req[h].task] = "running"
       /\ pc[h] = "state" /\ TerminalLogged(req[h].task) => req[h].type \in TerminalTypes
=============================================================================
