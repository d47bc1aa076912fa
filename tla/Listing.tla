------------------------------- MODULE Listing -------------------------------
(***************************************************************************)
(* The read side: handleListTasks, handleListEvents and handleGetTask of   *)
(* internal/api/router.go, the queries of internal/storage/postgres/       *)
(* store.go behind them, and the status command of                         *)
(* internal/gateway/slack/bot.go, while tasks are created and events come  *)
(* in.  A client walks through a list page by page, with an offset into an *)
(* order by created_at that other requests insert into and take rows out   *)
(* of between two pages.                                                   *)
(*                                                                         *)
(* created_at is drawn by the server before the INSERT, so rows may be     *)
(* committed in another order than their timestamps say, and two rows may  *)
(* have the same one: then the database is free to order them differently  *)
(* in each query.                                                          *)
(*                                                                         *)
(* The writers are those of TaskLifecycle without what no list shows       *)
(* (tokens, workloads, answers).  An insertion that fails is one that      *)
(* never comes, and a query that fails one that is sent again.             *)
(***************************************************************************)
EXTENDS Tables, Integers, FiniteSetsExt

CONSTANTS PostTypes,     \* types of the events that are posted
          StateParams,   \* values of ?state=, NoFilter for none
          SinceParams,   \* values of ?since=, 0 for none
          LimitParams,   \* values of ?limit=; 0 for none, or not a positive number
          DefaultLimit,  \* limit without one, 50 in the handlers
          MaxPageSize,   \* maxPageSize, 100 in the handlers
          StatusLimit    \* limit of the status command, 1000

ASSUME PostTypesAssumption == PostTypes \subseteq EventTypes
ASSUME StatesAssumption == StateParams \subseteq TaskStates \cup {"any"}
ASSUME LimitsAssumption ==
  /\ LimitParams \subseteq Nat /\ SinceParams \subseteq Nat
  /\ {DefaultLimit, MaxPageSize, StatusLimit} \subseteq Nat \ {0}

VARIABLES clock,      \* the server's clock
          createdAt,  \* created_at of each row, 0 when it has not been drawn
          cpc,        \* control of the request that creates each task
          epc, post,  \* control of the request that posts each event; the event
          reader,     \* what the client is doing
          query,      \* the parameters of the client's walk
          offset,     \* how many rows it has received
          returned,   \* how often it has received each row
          base,       \* history: the rows the query selected when it began
          came, left, \* history: how often a row has begun, and ceased, to be
                      \* selected since then
          saw,        \* the task it read as completed before the walk
          report      \* what the status command last answered

writers == <<clock, createdAt, cpc, epc, post>>
walk    == <<query, offset, returned, base, came, left>>
client  == <<reader, walk, saw, report>>
vars    == <<tables, writers, client>>

NoFilter == "any"
Nothing == [table |-> "nothing"]
Nobody  == "nobody"
Rows == Tasks \cup EventIds

\* A row stands here for itself and its id.  Rows of the two tables are never the
\* same one, and no task's id, which begins with "task-", is one of the markers.
ASSUME IdsAssumption ==
  Tasks \cap EventIds = {} /\ {Nobody, NoFilter} \cap Tasks = {}

TaskQueries  == [table : {"tasks"}, state : StateParams, limit : LimitParams]
EventQueries == [table : {"events"}, task : Tasks \cup {NoFilter},
                 type : PostTypes \cup {NoFilter}, since : SinceParams, limit : LimitParams]

TypeOK ==
  /\ TablesTypeOK
  /\ clock \in Nat
  /\ createdAt \in [Rows -> 0..clock]
  /\ cpc \in [Tasks -> {"none", "insert", "inserted", "created", "rolledBack"}]
  /\ epc \in [EventIds -> {"none", "append", "state", "done"}]
  /\ post \in [EventIds -> [task : Tasks, type : PostTypes] \cup {Nothing}]
  /\ reader \in {"idle", "walking", "ended"}
  /\ query \in TaskQueries \cup EventQueries \cup {Nothing}
  /\ offset \in Nat
  /\ returned \in [Rows -> Nat]
  /\ base \subseteq Rows
  /\ came \in Nat /\ left \in Nat
  /\ saw \in Tasks \cup {Nobody}
  /\ report \in [counts : [TaskStates -> Nat], total : Nat, rows : Nat] \cup {Nothing}

Init ==
  /\ TablesInit
  /\ clock = 1
  /\ createdAt = [r \in Rows |-> 0]
  /\ cpc = [t \in Tasks |-> "none"]
  /\ epc = [e \in EventIds |-> "none"]
  /\ post = [e \in EventIds |-> Nothing]
  /\ reader = "idle"
  /\ query = Nothing
  /\ offset = 0
  /\ returned = [r \in Rows |-> 0]
  /\ base = {}
  /\ came = 0 /\ left = 0
  /\ saw = Nobody
  /\ report = Nothing

-----------------------------------------------------------------------------
(* The queries.                                                             *)

MatchingTasks(q) ==
  {t \in Tasks : taskState[t] # Absent /\ q.state \in {NoFilter, taskState[t]}}

MatchingEvents(q) ==
  {r.id : r \in {e \in events : /\ q.task \in {NoFilter, e.task}
                                /\ q.type \in {NoFilter, e.type}
                                /\ createdAt[e.id] >= q.since}}

\* The rows the WHERE clause selects.
Matching(q) == CASE q.table = "tasks"   -> MatchingTasks(q)
                 [] q.table = "events"  -> MatchingEvents(q)
                 [] q.table = "nothing" -> {}

Newer(rows, r) == {x \in rows : createdAt[x] > createdAt[r]}

\* ORDER BY created_at DESC: rows of the same age come in any order.
Orders(rows) ==
  {f \in Bijection(1..Cardinality(rows), rows) :
     \A i, j \in 1..Cardinality(rows) : i < j => createdAt[f[i]] >= createdAt[f[j]]}

\* LIMIT limit OFFSET from: what may come back.
Pages(rows, limit, from) ==
  {{f[i] : i \in (from + 1)..Min({from + limit, Cardinality(rows)})} : f \in Orders(rows)}

\* The handlers' limit.
PageSize(param) ==
  Min({MaxPageSize, IF param > 0 THEN param ELSE DefaultLimit})

\* Mutants: the offset is not parsed; the state is compared after the page was cut.
IgnoreOffset(q, from) == Pages(Matching(q), PageSize(q.limit), 0)
FilterLast(q, from) ==
  IF q.table = "events" THEN Pages(Matching(q), PageSize(q.limit), from)
  ELSE {page \cap Matching(q) :
          page \in Pages(MatchingTasks([q EXCEPT !.state = NoFilter]),
                         PageSize(q.limit), from)}

\* handleListTasks and handleListEvents.
Answers(q, from) == Pages(Matching(q), PageSize(q.limit), from)

-----------------------------------------------------------------------------
(* The writers.                                                             *)

\* Other requests move the rows a walk selects.
Watch ==
  /\ UNCHANGED <<reader, query, offset, returned, base, saw, report>>
  /\ came' = came + Cardinality(Matching(query)' \ Matching(query))
  /\ left' = left + Cardinality(Matching(query) \ Matching(query)')

\* time.Now(): not before any earlier one.
Stamp(r) ==
  /\ clock' \in {clock, clock + 1}
  /\ createdAt' = [createdAt EXCEPT ![r] = clock']

\* CreateTask builds the row.
BuildTask(t) ==
  /\ cpc[t] = "none"
  /\ cpc' = [cpc EXCEPT ![t] = "insert"]
  /\ Stamp(t)
  /\ UNCHANGED <<tables, epc, post>>

InsertTask(t) ==
  /\ cpc[t] = "insert"
  /\ CreateTask(t, "ok")
  /\ cpc' = [cpc EXCEPT ![t] = "inserted"]
  /\ UNCHANGED <<clock, createdAt, epc, post>>

\* Dispatch marks the task running, or its rollback marks it failed.
DispatchTask(t) ==
  /\ cpc[t] = "inserted"
  /\ \/ /\ UpdateTaskState(t, "running", "ok")
        /\ cpc' = [cpc EXCEPT ![t] = "created"]
     \/ /\ UpdateTaskState(t, "failed", "ok")
        /\ cpc' = [cpc EXCEPT ![t] = "rolledBack"]
  /\ UNCHANGED <<clock, createdAt, epc, post>>

\* handleCreateEvent, whose token was accepted, builds the row.
BuildEvent(e) ==
  /\ epc[e] = "none"
  /\ \E t \in Tasks, type \in PostTypes :
       /\ cpc[t] = "created"
       /\ post' = [post EXCEPT ![e] = [task |-> t, type |-> type]]
  /\ epc' = [epc EXCEPT ![e] = "append"]
  /\ Stamp(e)
  /\ UNCHANGED <<tables, cpc>>

\* Mutant: the state written is the type.
StateForRaw(type) == type

StateFor(type) == CASE type = "task.started"   -> "running"
                    [] type = "task.completed" -> "completed"
                    [] type = "task.failed"    -> "failed"
                    [] type = "task.timeout"   -> "timeout"

\* Mutant: the task is updated first.
InsertEventLast(e) ==
  /\ epc[e] \in {"append", "state"}
  /\ IF epc[e] = "append" /\ post[e].type # "task.llm_call"
     THEN /\ UpdateTaskState(post[e].task, StateFor(post[e].type), "ok")
          /\ epc' = [epc EXCEPT ![e] = "state"]
     ELSE /\ AppendEvent(e, post[e].task, post[e].type,
                         ServerToken(post[e].task), "ok")
          /\ epc' = [epc EXCEPT ![e] = "done"]
  /\ UNCHANGED <<clock, createdAt, cpc, post>>

InsertEvent(e) ==
  /\ epc[e] = "append"
  /\ AppendEvent(e, post[e].task, post[e].type, ServerToken(post[e].task), "ok")
  /\ epc' = [epc EXCEPT ![e] =
       IF post[e].type \in TerminalTypes \cup {"task.started"} THEN "state" ELSE "done"]
  /\ UNCHANGED <<clock, createdAt, cpc, post>>

ApplyState(e) ==
  /\ epc[e] = "state"
  /\ UpdateTaskState(post[e].task, StateFor(post[e].type), "ok")
  /\ epc' = [epc EXCEPT ![e] = "done"]
  /\ UNCHANGED <<clock, createdAt, cpc, post>>

Write ==
  \/ \E t \in Tasks : BuildTask(t) \/ InsertTask(t) \/ DispatchTask(t)
  \/ \E e \in EventIds : BuildEvent(e) \/ InsertEvent(e) \/ ApplyState(e)

-----------------------------------------------------------------------------
(* The client, one request a step.                                          *)

ForgetWalk ==
  /\ query' = Nothing
  /\ offset' = 0
  /\ returned' = [r \in Rows |-> 0]
  /\ base' = {}
  /\ came' = 0 /\ left' = 0

\* GET /v1/tasks/{id}; the client remembers a task that is completed.
GetTask(t) ==
  /\ reader # "walking"
  /\ saw' = IF taskState[t] = "completed" THEN t ELSE Nobody
  /\ reader' = "idle"
  /\ ForgetWalk
  /\ report' = Nothing
  /\ UNCHANGED <<tables, writers>>

\* The client decides what to list.
BeginWalk(q) ==
  /\ reader = "idle"
  /\ reader' = "walking"
  /\ query' = q
  /\ base' = Matching(q)
  /\ saw' = IF q.table = "events" THEN saw ELSE Nobody
  /\ report' = Nothing
  /\ UNCHANGED <<tables, writers, offset, returned, came, left>>

\* It asks for the page after what it has received, until there is none.
NextPage ==
  /\ reader = "walking"
  /\ \E page \in Answers(query, offset) :
       /\ returned' = [r \in Rows |-> returned[r] + IF r \in page THEN 1 ELSE 0]
       /\ offset' = offset + Cardinality(page)
       /\ reader' = IF page = {} THEN "ended" ELSE "walking"
  /\ UNCHANGED <<tables, writers, query, base, came, left, saw, report>>

Report(page, tasks) ==
  [counts |-> [s \in TaskStates |-> Cardinality({t \in page : taskState[t] = s})],
   total  |-> Cardinality(page),
   rows   |-> Cardinality(tasks)]  \* history: how many there were

\* Mutant: the limit is passed as the offset.
StatusSwapped ==
  LET tasks == MatchingTasks([state |-> NoFilter])
  IN  \E page \in Pages(tasks, DefaultLimit, StatusLimit) : report' = Report(page, tasks)

\* The answer of handleStatus.
StatusAnswer ==
  LET tasks == MatchingTasks([state |-> NoFilter])
  IN  \E page \in Pages(tasks, StatusLimit, 0) : report' = Report(page, tasks)

\* /hermes status.
Status ==
  /\ reader # "walking"
  /\ StatusAnswer
  /\ reader' = "idle"
  /\ ForgetWalk
  /\ saw' = Nobody
  /\ UNCHANGED <<tables, writers>>

Next ==
  \/ Write /\ Watch
  \/ \E t \in Tasks : GetTask(t)
  \/ \E q \in TaskQueries \cup EventQueries : BeginWalk(q)
  \/ NextPage
  \/ Status

Spec == Init /\ [][Next]_vars

-----------------------------------------------------------------------------
(* Properties.                                                              *)

\* Rows whose place in the order is the same in every query.
Placed(r) == \A x \in Rows : (x \in Tasks <=> r \in Tasks) /\ x # r =>
  createdAt[x] # createdAt[r]

\* What was selected when the walk began and was never received.
Missed == {r \in base : returned[r] = 0 /\ Placed(r)}

\* A walk that has ended has missed no more rows than ceased to be selected
\* meanwhile: none at all without a filter on the state, or in the audit log,
\* whatever was inserted, and in whatever order it was committed.  (One row
\* that completes between two pages of ?state=running hides another one that
\* is still running.)
MissesAtMostLeavers == reader = "ended" => Cardinality(Missed) <= left

\* One element for each time a row came after its first.
AfterFirst(times) == UNION {{r} \X (2..times[r]) : r \in {x \in Rows : Placed(x)}}

\* A walk receives rows again no more often than rows have come in meanwhile.
RepeatsAtMostNewcomers == Cardinality(AfterFirst(returned)) <= came

\* A client that reads a task as completed and then walks through the task's
\* part of the audit log finds the event that completed it there
\* (handleCreateEvent stores it first).
ReadIsExplained ==
  /\ reader = "ended" /\ query.table = "events"
  /\ saw \in Tasks
  /\ query.task \in {NoFilter, saw} /\ query.since = 0
  /\ query.type \in {NoFilter, "task.completed"}
  /\ \A e \in base : Placed(e)
  => \E e \in EventIds : /\ returned[e] > 0
                         /\ post[e] = [task |-> saw, type |-> "task.completed"]

\* The five lines of a status report add up to its total: no task is counted twice
\* or in none of them.  While there are no more tasks than the query asks for, that
\* is all of them.
StatusWithinLimitIsComplete ==
  report # Nothing =>
    /\ report.counts["pending"] + report.counts["running"] + report.counts["completed"]
         + report.counts["failed"] + report.counts["timeout"] = report.total
    /\ report.rows <= StatusLimit => report.total = report.rows

-----------------------------------------------------------------------------
(* What makes them inductive.                                               *)

Stamped == {r \in Rows : createdAt[r] # 0}

\* How far each request got tells which rows there are and what they say.
RowsInv ==
  /\ IsFiniteSet(Stamped)
  /\ clock > 0
  /\ \A t \in Tasks :
       /\ createdAt[t] # 0 <=> cpc[t] # "none"
       /\ taskState[t] # Absent => cpc[t] \notin {"none", "insert"}
  /\ \A e \in EventIds :
       /\ createdAt[e] # 0 <=> epc[e] # "none"
       /\ epc[e] # "none" => post[e] # Nothing
       /\ epc[e] = "state" => /\ post[e].type \in TerminalTypes \cup {"task.started"}
                              /\ \E r \in events : r.id = e
  /\ \A r \in events : /\ epc[r.id] \in {"state", "done"}
                        /\ post[r.id] = [task |-> r.task, type |-> r.type]

\* Rows of the base the walk goes past without them, and rows it is to receive
\* once more, if nothing else happens.
Passed == {r \in Missed :
  r \in Matching(query) => Cardinality(Newer(Matching(query), r)) < offset}
Again == {r \in Matching(query) : /\ returned[r] > 0 /\ Placed(r)
                                 /\ Cardinality(Newer(Matching(query), r)) >= offset}
Due == [r \in Rows |-> returned[r] + IF r \in Again THEN 1 ELSE 0]

\* What a row that comes or goes adds to them is one row: it shifts all places
\* after it by one, so that one row crosses the offset, or it is that row.
WalkInv ==
  /\ base \subseteq Stamped
  /\ \A r \in Rows : returned[r] > 0 => r \in Stamped
  /\ reader = "idle" => /\ query = Nothing /\ offset = 0 /\ base = {}
                        /\ \A r \in Rows : returned[r] = 0
                        /\ came = 0 /\ left = 0
  /\ reader # "idle" => query # Nothing
  /\ query.table = "events" => left = 0
  /\ reader = "walking" => Cardinality(Passed) <= left
  /\ IsFiniteSet(AfterFirst(Due)) /\ Cardinality(AfterFirst(Due)) <= came

\* The event that completed a task.
Completes(r, t) == r.task = t /\ r.type = "task.completed"

\* A query of the log that selects it.
SelectsCompletion(t) ==
  /\ query.table = "events" /\ query.since = 0
  /\ query.task \in {NoFilter, t} /\ query.type \in {NoFilter, "task.completed"}

ReadInv ==
  /\ \A t \in Tasks : taskState[t] = "completed" => \E r \in events : Completes(r, t)
  /\ saw \in Tasks =>
       \E r \in events : /\ Completes(r, saw)
                         /\ reader # "idle" /\ SelectsCompletion(saw) => r.id \in base

IInv ==
  /\ TypeOK
  /\ RowsInv
  /\ WalkInv
  /\ ReadInv
  /\ MissesAtMostLeavers
  /\ StatusWithinLimitIsComplete
=============================================================================
