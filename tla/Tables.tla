------------------------------- MODULE Tables -------------------------------
(***************************************************************************)
(* The three tables of the control plane's database that change while      *)
(* tasks run (storage/migrations/001_init.up.sql) and the statements of    *)
(* storage/postgres/store.go over them.  Each statement is one Exec on the *)
(* connection pool and commits on its own: nothing in the repository opens *)
(* a transaction.                                                          *)
(*                                                                         *)
(* A statement has an outcome.  "ok": it committed and the caller got nil. *)
(* "failed": it did not commit and the caller got an error.  "lost": it    *)
(* committed and the caller got an error all the same (pgx drops the       *)
(* connection when the request's context is cancelled while it waits).     *)
(***************************************************************************)
CONSTANTS Tasks,    \* ids generateID("task") may return
          EventIds  \* primary keys of the events table

VARIABLES taskState,  \* tasks.state, Absent when there is no row
          tokenHash,  \* agent_tokens.token_hash, NoToken when there is no row
          revoked,    \* agent_tokens.revoked
          events      \* rows of events; bearer is history, not a column

tables == <<taskState, tokenHash, revoked, events>>

Absent  == "absent"
NoToken == <<"none">>

\* Each token is 32 bytes of crypto/rand, so any two of them differ.
ServerToken(t) == <<"server", t>>  \* drawn by CreateTask in taskservice.go
DriverToken(t) == <<"driver", t>>  \* drawn by Dispatch of the runtime driver

Tokens == {ServerToken(t) : t \in Tasks} \cup {DriverToken(t) : t \in Tasks}

TerminalStates == {"completed", "failed", "timeout"}
TaskStates     == {"pending", "running"} \cup TerminalStates

TerminalTypes == {"task.completed", "task.failed", "task.timeout"}
EventTypes    == {"task.started", "task.llm_call", "task.tool_call",
                  "task.policy_blocked"} \cup TerminalTypes

EventRows == [id : EventIds, task : Tasks, type : EventTypes, bearer : Tokens]

TablesTypeOK ==
  /\ taskState \in [Tasks -> TaskStates \cup {Absent}]
  /\ tokenHash \in [Tasks -> Tokens \cup {NoToken}]
  /\ revoked \in [Tasks -> BOOLEAN]
  /\ events \subseteq EventRows

TablesInit ==
  /\ taskState = [t \in Tasks |-> Absent]
  /\ tokenHash = [t \in Tasks |-> NoToken]
  /\ revoked = [t \in Tasks |-> FALSE]
  /\ events = {}

Applied(outcome) == outcome # "failed"

-----------------------------------------------------------------------------
\* INSERT INTO tasks: CreateTask always passes state pending.
CreateTask(t, outcome) ==
  /\ taskState' = IF Applied(outcome)
                  THEN [taskState EXCEPT ![t] = "pending"] ELSE taskState
  /\ UNCHANGED <<tokenHash, revoked, events>>

\* UPDATE tasks SET state: unconditional, whatever the state was.  No row
\* updated is an error.
UpdateTaskState(t, s, outcome) ==
  /\ outcome = "ok" => taskState[t] # Absent
  /\ taskState' = IF Applied(outcome) /\ taskState[t] # Absent
                  THEN [taskState EXCEPT ![t] = s] ELSE taskState
  /\ UNCHANGED <<tokenHash, revoked, events>>

\* INSERT INTO agent_tokens ... ON CONFLICT DO UPDATE, revoked = FALSE.
StoreAgentToken(t, k, outcome) ==
  /\ tokenHash' = IF Applied(outcome)
                  THEN [tokenHash EXCEPT ![t] = k] ELSE tokenHash
  /\ revoked' = IF Applied(outcome)
                THEN [revoked EXCEPT ![t] = FALSE] ELSE revoked
  /\ UNCHANGED <<taskState, events>>

\* Mutants: the query forgets to read revoked; it forgets its WHERE clause.
VerifyIgnoresRevoked(t, k) == tokenHash[t] = k
VerifyAnyTask(t, k) == \E u \in Tasks : tokenHash[u] = k /\ ~revoked[u]

\* SELECT token_hash, revoked: no row, a revoked row and another hash are all
\* "not valid".
VerifyAgentToken(t, k) == tokenHash[t] = k /\ ~revoked[t]

\* UPDATE agent_tokens SET revoked = TRUE: no row is no error.
RevokeAgentToken(t, outcome) ==
  /\ revoked' = IF Applied(outcome) /\ tokenHash[t] # NoToken
                THEN [revoked EXCEPT ![t] = TRUE] ELSE revoked
  /\ UNCHANGED <<taskState, tokenHash, events>>

\* What the constraints of events accept: a fresh primary key, a task that
\* exists, a type of the CHECK list.  A null payload is rejected as well; a
\* request with one is given a type outside EventTypes here, for both end in
\* the same error.
Insertable(id, t, type) ==
  /\ \A r \in events : r.id # id
  /\ taskState[t] # Absent
  /\ type \in EventTypes

\* INSERT INTO events.  A row the constraints refuse fails.
AppendEvent(id, t, type, bearer, outcome) ==
  /\ ~Insertable(id, t, type) => outcome = "failed"
  /\ events' = IF Applied(outcome)
               THEN events \cup {[id |-> id, task |-> t, type |-> type,
                                  bearer |-> bearer]}
               ELSE events
  /\ UNCHANGED <<taskState, tokenHash, revoked>>
=============================================================================
