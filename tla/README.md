# HermesManager: TLA+ specifications and proofs

HermesManager is one Go binary: an HTTP server in front of Postgres that admits
tasks, starts an agent workload for each (a process or a Kubernetes Job), and
takes the events the agents report. This directory holds its formal models, the
TLC runs that check them on small instances, and the theorems TLAPS proves.

All paths below are relative to `src/`. Line numbers of what every definition
models are in `PROJECT.json`, under `map`.

## 1. The system

| Component | State | Operations | Interacts with |
|---|---|---|---|
| Task service `internal/api/taskservice.go`, `router.go` | none of its own; rows of `tasks`, `agent_tokens` | `CreateTask`, `handleCreateTask`, list and get | policy engine, scheduler and store, by calls |
| Event ingestion `internal/api/router.go` | rows of `events`, `tasks`, `agent_tokens` | `handleCreateEvent`, list | store; agents over HTTP |
| Store `internal/storage/postgres` | the four tables; a connection pool; a health flag | one statement per method; `Migrate`; `StartHealthCheck`, `WithRetry` | Postgres |
| Scheduler `internal/scheduler` | round-robin counter | `Dispatch`, `SelectRuntime` | drivers, store |
| Local driver `internal/runtime/local` | count of active processes, map of processes, temporary directories | `Dispatch`, `Status`, one monitor goroutine per process | the operating system |
| Kubernetes driver `internal/runtime/k8s` | ConfigMap, Job and Secret per task, in the cluster | `Dispatch`, `Status` | API server, job controller, garbage collector |
| Docker driver `internal/runtime/docker` | none: a stub that refuses | | |
| Registry `internal/runtime/runtime.go` | map of factories | `Register`, `Build`, `Get` | drivers at start |
| Policy engine `internal/policy` | list of rules behind a lock | `LoadFromFile`, `Reload`, `Evaluate` | a YAML file |
| Skill loader `internal/skills` | rows of `skills` | `LoadFromDir` | YAML files, store |
| Startup and shutdown `cmd/hermesmanager/main.go` | the process | connect, migrate, load, build, serve, drain | everything above |
| Slack gateway `internal/gateway/slack` | none | `ServeHTTP`, the `run` and `status` commands | task service, store; nothing in `cmd/` or `internal/api` mounts it |
| Authentication, middleware `internal/api/auth.go`, `middleware.go` | none | decide on a request's headers | |
| Demo agent `images/demo-agent/run.py` | none | posts started, calls, completed or failed | event ingestion |
| Web console `web/`, Helm chart `deploy/` | none of the system's | static pages over mock data; configuration | |

The behaviours that are hard:

* **Requests interleave between statements.** Every HTTP request has a goroutine
  and nothing opens a transaction, so `CreateTask` is four statements and
  `handleCreateEvent` is up to four, each committed on its own. The token check
  at `router.go:269` is used by the three statements after it.
* **Every call runs on the request's context.** It ends when the client leaves or
  its connection breaks (the server's write timeout does not end it): the
  statement in progress may or may not have committed then, and the rollback that
  should follow runs on the same dead context.
* **The process may die between any two statements**, and the next one repairs
  nothing. With the schema as it is (`CREATE INDEX` without `IF NOT EXISTS`) the
  next one does not even start.
* **Two tokens are drawn for one task**, one by the task service, which is
  stored, and one by the driver, which is mounted.
* **Delivery is not reliable.** An agent's request may come late, twice or out of
  order; event ids are chosen by the client.
* **Check then act** on the count of active processes; create and clean up of
  three Kubernetes objects, each step of which may fail; a policy file read
  before the lock that installs it; loads read one after the other.
* **Lists are walked by offset** while rows are inserted, committed in another
  order than their timestamps, and change the state they are selected by.

What makes each component correct:

* Task service and event ingestion: a state is explained by the log or by the
  creation; an event is recorded for a task only with that task's token; an
  acknowledged event is stored; a revoked token stays so, and a rollback leaves
  nothing usable.
* Local driver: the count of processes is exact, the limit is kept up to the
  calls in progress, an error means no process.
* Kubernetes driver: a handle means that the pod can start; an error means that
  nothing of the task runs on, unless more went wrong than the cleanup can mend.
* Startup: nothing is served before everything is set up; a signal ends it.
* Skill loader: every file is tried whatever the others do, the first error and
  the count are reported truly, and the table holds what the directory says.
* Policy engine: each decision follows the first matching rule of one list, and
  that list was once in the file.
* Lists: a walk through the pages misses rows only as rows leave the selection
  behind it and repeats rows only as rows come into it; what one read shows, the
  next one explains.
* Scheduler: turns are balanced, the lowest load is the lowest up to what changed
  during the call, and a refusal is justified.

`PROJECT.json`, under `hazards`, lists each danger at its line with the
properties that watch it.

## 2. Modules

| Module | What it is |
|---|---|
| `Tables` | the tables `tasks`, `events`, `agent_tokens` as variables; every statement of `store.go` that reads or writes them, with its outcomes |
| `TaskStateMachine` | abstract: the life of a task's state that AGENT_API.md promises |
| `TaskLifecycle` | `CreateTask`, `Scheduler.Dispatch` and `handleCreateEvent` statement by statement, over `Tables`; workloads; the server's death and return; properties; inductive invariant |
| `MCTaskLifecycle` | symmetry and the specification of a well-behaved agent, for TLC |
| `TaskLifecycleProofs` | the theorems about `TaskLifecycle`, under every fault |
| `TaskStateMachineProofs` | the theorems about `TaskLifecycle` without faults and with one request about a task at a time: its refinement of `TaskStateMachine` |
| `Listing` | the list and get routes and the status command, page by page, while the writers of `Tables` go on; a client that walks through a list |
| `MCListing` | symmetry, for TLC |
| `ListingProofs` | the theorems about `Listing` |
| `RuntimeDriver` | abstract: what `Dispatch` of a driver owes its caller |
| `LocalDriver` | `Dispatch` of the local driver, the goroutine of each process, the request's context |
| `LocalDriverProofs` | the theorems about `LocalDriver`, with its refinement of `RuntimeDriver` |
| `K8sDriver` | `Dispatch` of the Kubernetes driver, one API call a step, its cleanup, and the cluster around it |
| `K8sDriverProofs` | the theorems about `K8sDriver` |
| `RuntimeSelection` | `SelectRuntime`: in turn over a counter that wraps, by load, by name |
| `MCRuntimeSelection` | the runtimes of the repository and their limits, for TLC |
| `RuntimeSelectionProofs` | the theorems about `RuntimeSelection` |
| `SkillLoader` | `LoadFromDir` and the upsert of a skill, one directory entry a step |
| `Startup` | `main`: connect, migrate, load skills (`SkillLoader`), load the policy, build, listen, drain; several slots on one database |
| `MCStartup` | skills directories for TLC |
| `StartupProofs` | the theorems about `Startup` and `SkillLoader` |
| `PolicyEngine` | rules, reload and evaluation |
| `MCPolicyEngine` | policy files and requests for TLC |
| `PolicyEngineProofs` | the theorems about `PolicyEngine` |

`TaskLifecycle` takes each call of a driver as one step with three results:
started, refused, refused with the workload left running. `LocalDriver` and
`K8sDriver` are what is behind that step. The local one has only the first two
results (`KeepsContract`); the Kubernetes one has the third, and
`ErrorMeansNoAgent` says when: only after a call that took effect and was reported
as failed.

### Tables

`taskState[t]` is `tasks.state` (`Absent` when there is no row); `tokenHash[t]`
and `revoked[t]` are the row of `agent_tokens`; `events` is the set of rows of
`events`, each with the bearer that brought it, which is history and not a
column. Tokens and hashes are identified: the two random strings drawn for a
task are `ServerToken(t)` and `DriverToken(t)`, all different.

Each statement is an operator with an `outcome`. `"ok"`: committed, nil
returned. `"failed"`: not committed, error returned. `"lost"`: committed, error
returned all the same. Which outcomes are possible is the caller's: all three
with `StoreMayFail`, `"ok"` alone without. Constraints fail by themselves: an
event whose id is taken, whose task does not exist, whose type is not in the
`CHECK` list, or whose payload is null (`Unknown` stands for the last two). An
update of a row that is not there is an error only for `UpdateTaskState`, which
looks at `RowsAffected`.

### TaskLifecycle

One task is one run of `CreateTask`: the id is drawn by `generateID` from 12
random bytes, so it names the request. `cpc[t]` is how far that request got:

    none -> admit -> insert -> token -> dispatch -> running -> created (201)
              |        |         |         |           |
           refused   failed    failed      +-----------+--> rollbackState
           failed                                              -> rollbackToken -> rolledBack

Each arrow is an action (`ReceiveCreate`, `Admit`, `InsertTask`, `StoreToken`,
`DispatchWorkload`, `MarkRunning`, `RollbackState`, `RollbackToken`) and each is
one statement or one call with no statement. A driver's `Dispatch` is one step
here with its three results: started, refused, or refused with the workload left
running.

`pc[h]`, `req[h]` and `reply[h]` are a handler of `/v1/events`: `Verify`,
`Append`, `ApplyState`, `Revoke`, each a statement, each with its early returns.
A request carries any id, any task, any type and any token that someone holds at
the time it is sent (`Holds`): the caller that got 201 holds `ServerToken`, the
workload holds `mounted`. It stays possible for ever, so late, repeated and
reordered deliveries are all there.

`Crash` drops every request in flight; `Restart` brings back a server that
changes no row. `WorkloadExit` changes nothing but the workload.

The rollback (`taskservice.go:121`) and the revocation (`router.go:305`) log their
error and go on. The history variable `swallowed` holds the tasks this has happened
to: the properties about rollbacks and revocations hold with statement failures
and crashes for every other task, and would not if an error were lost anywhere
else.

### LocalDriver

`pc[t]` is the control of the call of `Dispatch` for a task:

    idle -> check -> mkdir -> write -> start -> count -> put -> handle
              |        |        |        |
              +--------+--------+--------+--> error

`check` reads the atomic `active`, `count` raises it, `put` stores the handle and
starts the goroutine (`monitor[t]`), which waits for the process, lowers the
count, deletes the handle and removes the directory, in that order, each a step.
`ctx[t]` is the request's context: it ends when the client goes away or when the
handler returns (`RequestEnds`), and the process, started by
`exec.CommandContext`, is killed then (`Kill`).

`dir[t]` is whether the temporary directory exists. An error after `MkdirTemp` leaves
it. `Clean` is `_ = os.RemoveAll(tmpDir)`, best effort: it may leave the directory,
for instance when a child of the agent, which no kill reaches, goes on writing there,
and its error is dropped. `ServerEnds` cuts every call and goroutine
where it is: what they hold in memory is gone, and processes and directories stay. So
nothing says that a directory ever goes; what `DirectoryIsKept` says is that it is
there while the process runs, which works in it. The module is one life of the
server: the next one counts from 0 and knows nothing of a process that outlived
the last, so the limit is one on the processes of one life.

### K8sDriver

    idle -> config -> job -> secret -> handle
              |        |       |
              |        |       +--> dropJob --+
              |        +----------------------+--> dropConfig --+
              +-------------------------------------------------+--> error

Each of the five is a call of the API server with an `outcome`: `"ok"`,
`"failed"` without effect, or `"lost"`, with its effect and an error all the same
(the history variable `lost` remembers one). When the request's context ends during
a call, that call may end in any way and no later one, the cleanup's included, is
sent. `configMap`, `job` and `secret` say which objects exist.

The cluster around it is external: the job controller makes a pod for a Job
(`CreatePod`), the kubelet starts it once the ConfigMap and the Secret it refers to
exist (`StartPod`), and it runs once. `dropJob` deletes the Job without a
propagation policy; for batch/v1 that leaves its dependents where they are. So the
pod of a deleted Job stays and goes on waiting, and `CollectPod` and
`CollectSecret`, which may remove what belonged to a deleted Job, have no fairness.
Nothing owns the ConfigMap and nothing deletes a Job that has ended: both stay for
ever. What keeps the waiting pod harmless is the order of the calls: the object it
waits for is the last one created.

### RuntimeSelection

A pick in turn is one atomic addition, so concurrent picks are steps in some order;
`wraps` counts how often the counter of 2^64, here of `CounterSize`, went back to
0, for its size is no multiple of every number of runtimes. A pick by load reads
the `Status` of one runtime after the other, in the order in which Go ranges over the map, any
order; concurrent calls only read, so one of them stands for all. `Move` is a
change of the load a runtime would report: up to one over the limit for the local
driver (`OvershootIsBounded`), without any limit of the code's for Kubernetes, and
never for the Docker stub, which reports 0 of 5. `moves` counts the changes
since the call began. `Below` compares ratios by cross-multiplication, where the
code divides floating-point numbers: for limits and loads of that size the two
agree. Only the tests call `SelectRuntime`; it is modelled as the type offers it.

### SkillLoader

`dir[s]` is what the skills directory of slot `s` holds, in the order of `ReadDir`:
entries that are skipped, entries that are broken in any of the ways the loader
reports (not readable, not YAML, without a name, refused by the table), and names
of skills. A directory that is not there, or cannot be read, loads nothing and is
logged: it is the empty one. `LoadEntry` is one turn of the loop, with the outcome
of the upsert; `skills[name]` is the position of the file the row came from, so that
the last writer shows; `results` is history, and what `loaded` and `firstErr` are
compared with.

### Startup

`pc[s]` walks through `main`. Several slots share `schema`: whether the
migration has been applied. `Migrate` succeeds on a database without the schema
only, for its `CREATE INDEX` statements have no `IF NOT EXISTS` and the file runs
as one transaction. `Exit` is `log.Fatal`, the end of `main` and a kill alike.
`Signal` may come at any moment, for `NotifyContext` is made first; statements of
the startup run on its context. Since only one process ever gets past `Migrate`,
one at most loads skills, and the table it leaves is never written again.
`request[s]` is one request of the process, which
may hang; the drain ends with or without it after ten seconds.

### PolicyEngine

`file` is the policy file, edited at any time; `rpc[r]` a `Reload`, which reads
the file without the lock and installs under it; `epc[e]` an `Evaluate`, which
takes the list under the read lock and walks it one rule a step. `Evaluate`
returns `allowed`, `denied`, or `error` for an action it does not know, with the
rule that decided (0 for none). `fresh` and `before` are history: whether the last
to install its rules began after the last edit of the file, and which calls
began before it. `Reload` has no caller in `cmd/` or `internal/`
outside the tests; it is modelled as the type offers it.

### Listing

The writers are those of `TaskLifecycle` without what no list shows: `BuildTask`
and `BuildEvent` draw `created_at` before the `INSERT` that commits the row, so rows
appear in another order than that of their timestamps, and two rows may have the
same one. `Orders` is `ORDER BY created_at DESC`: every order the database may put
the rows in, rows of the same age in any, anew in each query; `Pages` is what
`LIMIT` and `OFFSET` cut from one of them. Tasks and events are rows of two tables,
kept apart here by their names (`IdsAssumption`).
`PageSize` is the handlers' limit. The client is external: it asks for the page
after the rows it has received until one is empty (`NextPage`). `base`, `came` and
`left` are history: what was selected when the walk began, and how many rows have
begun and ceased to be selected since. A client that reads a task (`GetTask`) and
then its log relates the two reads (`ReadIsExplained`). `Status` is the Slack command,
which counts a list of at most `StatusLimit` tasks in five lines and a total
(`Report`).

## 3. Runs

| Run | Instance | Shows |
|---|---|---|
| `lifecycle_faults` | 1 task, 2 handlers, 2 event ids, 5 types, statement failures, crash and restart | `TypeOK`; `StateHasEvidence`: the log explains the state; `RevocationJustified`: no revocation without a terminal event or a rollback; `AcknowledgedIsRecorded`: 201 means stored; `CreatedIsUsable`; `AnsweredTerminalIsRevoked` and `RollbackLeavesNoZombie`, unless an error was only logged; `RevokedForever`; `RevokedAndQuietIsFrozen` |
| `lifecycle_serial` | 2 tasks, 1 handler, 2 ids, 4 types, no faults, fair | `OnlyIssuedTokenRecords`: isolation between tasks; `FollowsStateMachine`: the model implements `TaskStateMachine`; `TerminalEventSettles`: a logged terminal event leads to a terminal state for good |
| `local_driver` | 3 tasks, 2 callers, a limit of 1, removals that fail, a server that ends, fair | `CountIsExact`; `OvershootIsBounded`: the limit is passed by at most the other calls in progress; `DirectoryIsKept`: a running process has its directory; `KeepsContract`: the driver implements `RuntimeDriver`; `EndedIsForgotten`: a process that ended gives its slot and handle back, while there is a server |
| `k8s_driver` | 2 tasks, 2 failed calls each, lost replies, ending requests, crash, fair | `HandleIsComplete`; `ErrorMeansNoAgent`: after an error the agent never runs, unless a call that took effect was reported as failed; `FailureIsCleaned`; `HandleLeadsToAgent` |
| `startup_faults` | 2 slots, 3 drivers, 2 skills, 2 directories and none, failing statements, bad policy file, a driver that may not be built, signals, kills, fair | `ServingIsReady`; `SkillsAreLoaded`: every file tried, count and first error true, the table as the directory says; `SignalStops` |
| `policy_engine` | 2 reloads, 1 evaluation, 5 files and a bad one, 2 edits | `RulesComeFromFile`; `DecisionIsFirstMatch`; `ReloadTakesEffect`: a reload begun after the last edit puts the file's rules in force, until an older call comes after it |
| `listing` | 2 tasks, 2 events, pages of 1 or 2 rows, 3 values of `state`, 2 of `since` | `MissesAtMostLeavers`, `RepeatsAtMostNewcomers`: what a walk by offset can miss or repeat; `ReadIsExplained`: a task read as completed has its event in the log read next; `StatusWithinLimitIsComplete`: its lines add up, and to all tasks up to the limit of the query |
| `runtime_selection` | any of 4 runtimes, a counter of 4, 9 picks in turn, 2 changes of load during a call | `RoundRobinIsBalanced`: within one, and one more per wrap-around; `ChoiceIsNearlyLowest`; `UnavailableIsJustified` |

Four runs are expected to be violated. Each states a promise of a document or a
comment and gives a behaviour of the code that breaks it:

| Run | Promise | What the code does |
|---|---|---|
| `finding_terminal` | the state machine of AGENT_API.md has nothing after a terminal state | a `task.started` admitted before the completion was applied writes `running` over `completed`; the token is revoked, so nothing ever mends it |
| `finding_killed` | a handle refers to a running agent | the process is bound to the request's context and is killed when the request ends, which it does as soon as the 201 is written |
| `finding_restart` | a restarted pod picks up the new configuration and serves | the migration fails on the indexes it created the first time, and the process ends |
| `finding_deny` | "A request is denied if ANY deny rule matches" (`internal/policy/types.go:4`, `docs/ARCHITECTURE.md:138`) | the first rule that matches decides, so an allow rule in front of it wins, as the comment of `Evaluate` and `deploy/examples/policy.yaml` say |

Met on the way, and not given a run:

* The rollback of a failed dispatch (`taskservice.go:121`) and the revocation
  after a terminal event (`router.go:305`) may fail; both errors are only logged,
  which is the exception `swallowed` makes in `RollbackLeavesNoZombie` and
  `AnsweredTerminalIsRevoked`.
* The token a workload is started with is never the one stored for its task: the
  driver draws and mounts its own (`local.go:116`, `driver.go:144`) after
  `CreateTask` stored another (`taskservice.go:103`), although AGENT_API.md:19 and
  :82 have one per-task token for the callbacks. That no event is ever recorded on
  a mounted token is the theorem `WorkloadsAreUnheard`.
* "No silent task losses" (AGENT_API.md:104) fails already because of that: the
  reports of the workload are answered 401, and nothing else ends its
  task.
* A Secret that cannot be created leaves the pod of the deleted Job waiting for it
  (`driver.go`, the deletion without a propagation policy), for ever.
* Two overlapping calls of `Reload` may install in the order opposite to that of
  their reads and leave the older rules in force: the exception in
  `ReloadTakesEffect`.
* `internal/gateway/slack/bot.go:129` says that the status command "queries all
  tasks"; the code asks for 1000 (`bot.go:133`) and prints the number of rows it got
  as the total, so with more tasks the older ones are in no count and nothing says
  so. `StatusWithinLimitIsComplete` claims completeness up to the limit only.
* `docs/CONTRIBUTING.md:39-43` has the server started by `go run` on a developer's
  machine. The Kubernetes driver is always registered and `rest.InClusterConfig`
  fails outside a cluster (`driver.go:98`), so `Build` fails (`runtime.go:84`) and
  the process ends before it listens. `startup_faults` has such a process;
  `ServingIsReady` says only that one that serves has passed every step.
* `design-system/pages/events.md:52` has cursor-based pages of 500; the code has
  offsets and at most 100. A task that completes between two pages of
  `?state=running` hides one that is still running (`MissesAtMostLeavers`).
* `scheduler.go:99` calls a ratio of 2.0 "above any possible ratio". The Kubernetes
  driver enforces no limit, and at twice its limit it is never picked; with nothing
  else to pick the answer is `ErrRuntimeUnavailable`.
* The Docker stub always reports a load of 0, so a pick by load prefers it to any
  runtime that is at work, and its `Dispatch` then refuses the task.

### Bounds

Two event requests at once are enough for every race of the code, for each of
them reads one thing (the token check) before it writes; a third could only
repeat what one of the two did. Two ids give an id that collides and one that
does not. Two tasks are enough for one token to be presented for another task; with
them requests come one at a time, for what is checked there is which rows a token
opens, and the order of the steps of two requests is what the other run has. The types
`task.llm_call`, `task.tool_call` and `task.policy_blocked` take the same path,
so one of them, or none where nothing depends on it, stands for the three. Server
restarts need no bound: no variable counts them. In the runs `CanRestart` is
set where `ServerMayCrash` is; with the migration as it is, a second start needs
the schema to be mended by hand, and the properties must hold then too.

`LocalDriver`: the limit is 1 instead of 10 and at most `Callers` = 2 calls are in
progress, so that the limit is reached and passed; what matters is which of two
calls reads the count before the other raises it. A third task finds the slot
taken, waits in another call, and is refused or started after a slot was given
back. `K8sDriver`: `MaxFaults` = 2 calls of a task may go wrong, so that a creation
and a deletion of its cleanup do; failures after the request has ended are not
counted. Tasks share nothing but the server's death, so two are enough. `Startup`:
two slots are two replicas, or a process and its successor; the skills directories
have two files of one skill, a broken file before a good one, an entry that is
skipped and, in the second, the names in the other order. `PolicyEngine`: lists of at most two
rules are enough for an order to matter; the five differ in every action, in none,
one and two conditions, and in the key the engine does not know; two edits let two
reloads read different files, one of them bad. `Listing`: pages of one and two rows
of two are enough for a row to move across the edge of a page between two requests,
in each direction; the status command's 1000 is 1, so that there are as many tasks
as it asks for, and more. `RuntimeSelection`: up to four runtimes over a counter of 4 give
numbers that divide its size and one that does not; nine picks wrap it around
twice; two changes during a call can move the load just read and the one read next
in opposite directions.

Symmetry is used where values are only compared for equality and no liveness is
checked: event ids and handlers in `lifecycle_faults`, tasks and ids in `listing`, the
calls in `policy_engine`.

### Fairness

`FairSpec` assumes weak fairness of the steps of requests already accepted:
goroutines get scheduled, and a statement returns, with a result or an error.
The second is an assumption on Postgres and the network, for a request's context
has no deadline. Nothing is assumed of the arrival of requests, of agents, of
crashes or of restarts.

In `LocalDriver` goroutines are scheduled, the one inside `os/exec` that kills
among them, and a handler whose call of `Dispatch` has returned returns; no
process need ever exit. In `K8sDriver` calls of the API server return, and the job
controller and the kubelet do their work (`CreatePod`, `StartPod`); nothing is
assumed of the garbage collector, nor that an agent ever ends. In `Startup` a process
goes on with `main`; `RestartSpec`, for `finding_restart` alone, adds that a slot
whose process ended gets another one, as the kubelet does.

The runs set `CHECK_DEADLOCK FALSE` where the system may stop: all tasks
created, all event ids spent and every handler refusing is a quiet system, and
so is a dead server that is not restarted, or a driver whose calls have all
ended.

## 4. Proofs

`TaskLifecycleProofs` proves, for any sets of tasks, ids and handlers, with and
without faults, crashes and restarts:

| Theorem | |
|---|---|
| `TypeCorrect` | `Spec => []TypeOK` |
| `StatesAreExplained` | `Spec => []StateHasEvidence` |
| `RevocationsAreJustified` | `Spec => []RevocationJustified` |
| `LogIsAuthentic` | `Spec => []OnlyIssuedTokenRecords` |
| `AcknowledgementsHold` | `Spec => []AcknowledgedIsRecorded` |
| `CreationsAreUsable` | `Spec => []CreatedIsUsable` |
| `RevocationIsForever` | `Spec => RevokedForever` |
| `QuietTasksAreFrozen` | `Spec => RevokedAndQuietIsFrozen` |
| `AnsweredTerminalsClose` | `Spec => []AnsweredTerminalIsRevoked` |
| `RollbacksAreComplete` | `Spec => []RollbackLeavesNoZombie` |
| `WorkloadsAreUnheard` | `Spec => []MountedTokensRecordNothing` |
| `Inductive` | `Spec => []IInv` |

The assumptions are `RequestTypesAssumption` (requests carry known types or
`Unknown`) and `FaultsAssumption` (the fault switches are Booleans); TLC evaluates
both in every run.

None of the safety properties is inductive alone. `StateHasEvidence` needs the
event to be in the log when a handler is about to write the state: that is
`HandlerInv`, third line, and it needs the log never to shrink (`LogGrows`). It
also needs a driver's token to have been mounted when `MarkRunning` is next.
`OnlyIssuedTokenRecords` needs that a handler past its check holds the token
issued for its very task and that the creation had been answered (`HandlerInv`,
first two lines), which rests on what rows exist at each step of `CreateTask`
(`CreateInv`) and on tokens being all different (`TokensDiffer`).
`RevocationJustified` and `CreatedIsUsable` need that `StoreAgentToken`, which
resets `revoked`, runs only while the token has no row. `RollbackLeavesNoZombie`
needs what the first half of a rollback leaves to the second, `RollbackInv`, and
that no handler is past its check for a task whose creation was not answered, so
that none writes over the `failed` of the rollback. `IInv` is the conjunction
of those parts. The proof goes action by action: the lemmas `StateWrites`,
`TokenWrites`, `LogWrites` and `CreationAdvances` say once what any step may do to
a table or to the control of a creation, and the `Step...` lemmas prove each part
of `IInv` from them. `WorkloadsAreUnheard` needs that the
row of a task holds `ServerToken` and its workload `DriverToken`, of `CreateInv`, and
that the two differ: no row of the log was ever brought by a workload.

`TaskStateMachineProofs` proves, for any sets of tasks, ids and handlers, while
statements succeed (`~StoreMayFail`) and the server stays up (`~ServerMayCrash`):

| Theorem | |
|---|---|
| `TasksSettle` | `Spec /\ []OneAtATime => []SettleInv` |
| `ImplementsStateMachine` | `Spec /\ []OneAtATime => FollowsStateMachine` |
| `SerialServerFollows` | `Spec => FollowsStateMachine`, with one handler |
| `EndedTasksStayEnded` | `Spec /\ []OneAtATime => TerminalIsFinal` |
| `LoggedTerminalsSettle` | `Spec /\ []OneAtATime => []Settled` |

`OneAtATime` says that no two requests about the same task are served at once; about
different tasks any number may be. None of the three conditions can go:
`finding_terminal` is two requests at once, a reply lost by `UpdateTaskState` ends
the request before it revokes the token, and so does a crash there, and in each
case the next `task.started` brings the task back. No `UPDATE` looks at the state it
overwrites, so nothing local keeps an ended task ended. What does is `SettleInv`: a
task past `running` has its token revoked or is being revoked by the one request
that may be served, so that a request past its token check finds its task running.
`CreationIsLocal` and the `...Settles` lemmas carry it through each action;
`StepFollows` then maps each step to a step of `TaskStateMachine` or to none.
`Settled` is the safety half of `TerminalEventSettles`.

`PolicyEngineProofs` proves, for any rules, files and requests and any number of
concurrent calls:

| Theorem | |
|---|---|
| `TypeCorrect` | `Spec => []TypeOK` |
| `FirstMatchWins` | `Spec => []DecisionIsFirstMatch` |
| `NeverFailsOpen` | `Spec => []RulesComeFromFile` |
| `ReloadsTakeEffect` | `Spec => []ReloadTakesEffect` |
| `Inductive` | `Spec => []IInv` |

from `ContentsAssumption` (a file holds a sequence of rules, and a bad file is
none of them) and `EditsAssumption`. `DecisionIsFirstMatch` needs what a walk in
progress has established, `WalkInv`: no rule before the loop variable applies to
the request. `RulesComeFromFile` needs that the file itself, when it is good, is
one of those written. `ReloadTakesEffect` needs that what a call begun after the
last edit has read is what the file holds (`ReloadInv`).

`LocalDriverProofs` proves, for any tasks, limit and bound on the calls in progress:

| Theorem | |
|---|---|
| `TypeCorrect` | `Spec => []TypeOK` |
| `CountStaysExact` | `Spec => []CountIsExact` |
| `OvershootStaysBounded` | `Spec => []OvershootIsBounded` |
| `DirectoriesAreKept` | `Spec => []DirectoryIsKept` |
| `ImplementsContract` | the safety part of `KeepsContract`: initial states map to initial states, every step to a step of `RuntimeDriver` or to none |
| `Inductive` | `Spec => []IInv` |

from `BoundsAssumption`. `Tasks` may be infinite, so the invariant carries that
finitely many calls have begun (`CapacityInv`), without which cardinalities say
nothing. `DirectoryInv` says from which step of the call to which step of the
goroutine the directory must be there. `OvershootIsBounded` is about processes, while the check reads a count that
is raised later. `Holding` joins the two: the calls past the check and the
processes not yet given back. A call that passes the check sees a count below the
limit, and all that is held without being counted is a call in progress, so
`Holding` never exceeds the limit by more than the other calls. `ControlInv` ties the process and its goroutine to the
control of the call.

`K8sDriverProofs` proves, for any tasks and any of the faults:

| Theorem | |
|---|---|
| `TypeCorrect` | `Spec => []TypeOK` |
| `HandlesAreComplete` | `Spec => []HandleIsComplete` |
| `ErrorsMeanNoAgent` | `Spec => []ErrorMeansNoAgent` |
| `FailuresAreCleaned` | `Spec => []FailureIsCleaned` |
| `Inductive` | `Spec => []IInv` |

and, with `~RepliesLost`, `TruthfulServerStartsNoAgent`: after an error the agent has
not run and never will. All from `FaultsAssumption`. `SecretInv` is why an error means no agent: the pod cannot
start without the Secret, the Secret is the last object made, and a failed call has
made it only if its reply was lost. `CleanupInv` says what the creations before an error
may have left when no second call went wrong.

`StartupProofs` proves, for any number of slots, any directories, failures, signals and
kills:

| Theorem | |
|---|---|
| `TypeCorrect` | `Spec => []TypeOK` |
| `ServersAreReady` | `Spec => []ServingIsReady` |
| `SkillsAreTrue` | `Spec => []SkillsAreLoaded` |
| `NobodyServesAgain` | `Spec => [](Over => [](\A s : pc[s] # "serve"))` |
| `Inductive` | `Spec => []IInv` |

from `DirectoriesAssumption` and `EnvironmentAssumption`. What a slot has loaded says what the
table holds only because no other slot writes it: `MigrationInv`, at most one process
ever gets past `Migrate`, and the table is empty until it does. `LoadingInv` is what the loop has
established after some of the entries, and `SetupInv` what each later step of `main`
finds set up. `NobodyServesAgain` is the general form of `finding_restart`: `Over` holds
once the process that got past `Migrate` has ended, and then no slot serves any more,
however often it is restarted.

`RuntimeSelectionProofs` proves, for any finite set of runtimes, any capacities and
any size of the counter:

| Theorem | |
|---|---|
| `TypeCorrect` | `Spec => []TypeOK` |
| `TurnsAreBalanced` | `Spec => []RoundRobinIsBalanced` |
| `ChoicesAreNearlyLowest` | `Spec => []ChoiceIsNearlyLowest` |
| `RefusalsAreJustified` | `Spec => []UnavailableIsJustified` |
| `Inductive` | `Spec => []IInv` |

from `RuntimesAssumption`, `CapacityAssumption` and `CounterAssumption`. Balance within one
is not inductive: `TurnInv` says which runtimes may be ahead, those before the
position of the next turn, and that each wrap-around loosens it by one. `DriftInv`
bounds how far the loads that were read are from what they are now, two
runtimes together by the number of changes, not twice that; that is what
leaves one agent a change. `BestInv` is the minimum over what has been read.

`ListingProofs` proves, for any tasks and events, any queries, limits and clocks:

| Theorem | |
|---|---|
| `TypeCorrect` | `Spec => []TypeOK` |
| `WalksMissAtMostLeavers` | `Spec => []MissesAtMostLeavers` |
| `WalksRepeatAtMostNewcomers` | `Spec => []RepeatsAtMostNewcomers` |
| `ReadsAreExplained` | `Spec => []ReadIsExplained` |
| `StatusReportsAddUp` | `Spec => []StatusWithinLimitIsComplete` |
| `Inductive` | `Spec => []IInv` |

from `LimitsAssumption`, `PostTypesAssumption` and `IdsAssumption`. There may be infinitely many
rows, of which finitely many have a timestamp (`RowsInv`). What a walk has missed or
received twice so far says nothing about the next page; what carries over is what it
would miss, and receive again, if nothing else happened: `Passed`, the rows of the
base that it never received and whose place is before the offset, and `Again`, the
rows it has received whose place is not. `WalkInv` bounds the first by the rows that
left and the second, with the repetitions there were, by those that came. A page does not
add to either (`PageStep`): it moves the offset past just the places it shows. A
write does by one row at most (`WatchPassed`, `WatchDue`), and this is the core of
the proof: a row that comes or goes shifts all places after it by one, so that of
the rows whose place all queries agree on at most one is concerned: the one that
crosses the offset, if the row that came or went stands before it, and else that row
itself (`OneCrosses`).
Places are sizes of sets: in every order the database may choose, a row whose age
no other has stands after the newer ones (`PlaceIsRank`), so a page holds it just
when their number is in the window (`PageFacts`). `ReadsAreExplained` follows from the
first bound, as no row leaves the log, and from `ReadInv`: the event that completed a
task is in the log before the task shows it, and so in the base of a walk begun
after it was read.

## 5. Only model-checked, and not modelled

* Liveness (`TerminalEventSettles`, `EndedIsForgotten`, `HandleLeadsToAgent`,
  `SignalStops`, and the liveness of `RuntimeDriver` in `KeepsContract`) is checked by TLC
  only: TLAPS has no liveness under fairness here. Every invariant and every action
  property of a passing run has its theorem; of `FollowsStateMachine` the theorem needs
  one request about a task at a time, as the run does.
* `health.go` is not modelled: `StartHealthCheck`, `IsHealthy`, `WaitForReady` and
  `WithRetry` have no caller, tests included. What a retry repeats and who reads
  the flag would have to be invented.
* The Slack gateway is mounted nowhere but in its tests. The `CreateTask` its
  command calls is the one the API calls, a `ReceiveCreate` like any other.
* `Scheduler.SelectRuntime` and `Engine.Reload` have no caller outside the tests; both
  are modelled as the type offers them.
* Modelled, with no property about them: ConfigMaps and ended Jobs are never
  deleted, and neither is a directory of the local driver once a call failed, a removal
  did not work or the server ended in between.
* A statement whose request has ended, or whose server was killed, may still be running
  in Postgres and commit a little later than its caller has given up. `Tables` lets it
  commit (`"lost"`), but no later than its caller goes on. In that window a statement
  of a request nobody serves any more could still write to a task that
  `RevokedAndQuietIsFrozen` calls quiet; the property and its theorem are about
  requests and their statements as far as the server sees them.
* Not modelled: the Slack gateway's signature check and help; authentication and
  middleware, which decide on one request and keep nothing; the order of posts of
  the demo agent; the contents of payloads, parameters and skills; request ids and
  logging; the web console, which shows mock data; the Helm chart.

## 6. Plan

Done: every component that keeps state and has a caller or a test; proofs of all
the safety properties the runs check. What is left, in order:

1. Proofs: how far `EndedTasksStayEnded` reaches with failing statements, where a
   task that was brought back has an unrevoked token or an error in the log of the
   server; a contract that both drivers implement, with an agent on its way.
2. `Retry` and `Health`, once something calls them: `WithRetry` around a statement
   that may have committed; the flag of the health check.
3. Transactions around the statements of `CreateTask` and of `handleCreateEvent`,
   should the code get them: `Tables` has one action per statement so that they can be joined.
