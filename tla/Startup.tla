------------------------------- MODULE Startup -------------------------------
(***************************************************************************)
(* The life of a server process: cmd/hermesmanager/main.go with            *)
(* postgres.New and Migrate, skills.LoadFromDir (SkillLoader),             *)
(* policy.NewEngine and runtime.Build.  Each of Servers is a slot in which *)
(* processes run one after another (a pod that the kubelet restarts, a     *)
(* developer's shell); all of them share one database.                     *)
(*                                                                         *)
(* Migrate sends the file 001_init.up.sql as one simple query, which       *)
(* Postgres runs as one transaction.  Its tables are created IF NOT        *)
(* EXISTS, its indexes are not.                                            *)
(***************************************************************************)
EXTENDS SkillLoader

CONSTANTS Drivers,       \* names of the registered runtimes
          PolicyFiles,   \* what HERMESMANAGER_POLICY_FILE may hold: NoFile,
                         \* "good" or "bad"; it can change between two reads
          InCluster,     \* whether rest.InClusterConfig succeeds: the values it
                         \* may have
          StoreMayFail,  \* whether statements may fail
          MaySignal,     \* whether SIGTERM may arrive
          MayKill        \* whether a process may be killed

NoFile == "no file"

ASSUME EnvironmentAssumption ==
  /\ PolicyFiles \subseteq {NoFile, "good", "bad"}
  /\ NoFile \in PolicyFiles => PolicyFiles = {NoFile}
  /\ InCluster \subseteq BOOLEAN
  /\ StoreMayFail \in BOOLEAN
  /\ MaySignal \in BOOLEAN
  /\ MayKill \in BOOLEAN

VARIABLES schema,     \* whether the migration has been applied
          pc,         \* control of main in each slot
          signalled,  \* whether the context of NotifyContext is done
          rules,      \* whether the policy engine holds rules of the file
          runtimes,   \* drivers built so far
          request     \* one request of the process, standing for any

locals == <<pc, signalled, rules, runtimes, request>>
vars == <<schema, loaderVars, locals>>

Starting == {"connect", "migrate", "skills", "load", "policy", "build"}
Alive    == Starting \cup {"serve", "drain"}

TypeOK ==
  /\ LoaderTypeOK
  /\ schema \in BOOLEAN
  /\ pc \in [Servers -> Alive \cup {"down"}]
  /\ signalled \in [Servers -> BOOLEAN]
  /\ rules \in [Servers -> BOOLEAN]
  /\ runtimes \in [Servers -> SUBSET Drivers]
  /\ request \in [Servers -> {"none", "active", "stuck", "cut"}]
  /\ \A s \in Servers : request[s] \in {"active", "stuck"} => pc[s] \in {"serve", "drain"}

Init ==
  /\ LoaderInit
  /\ schema = FALSE
  /\ pc = [s \in Servers |-> "down"]
  /\ signalled = [s \in Servers |-> FALSE]
  /\ rules = [s \in Servers |-> FALSE]
  /\ runtimes = [s \in Servers |-> {}]
  /\ request = [s \in Servers |-> "none"]

Goto(s, from, to) ==
  /\ pc[s] = from
  /\ pc' = [pc EXCEPT ![s] = to]

\* Mutant: a request outlives its process.
ExitForgets(s) ==
  /\ pc' = [pc EXCEPT ![s] = "down"]
  /\ UNCHANGED <<signalled, rules, runtimes, request>>

\* The process ends and takes its request with it.
Exit(s) ==
  /\ pc' = [pc EXCEPT ![s] = "down"]
  /\ request' = [request EXCEPT ![s] = IF @ = "none" THEN "none" ELSE "cut"]
  /\ UNCHANGED <<signalled, rules, runtimes>>

-----------------------------------------------------------------------------
(* main, from the first statement to ListenAndServe.                        *)

\* A process starts in a slot; DATABASE_URL is set.
Start(s) ==
  /\ Goto(s, "down", "connect")
  /\ signalled' = [signalled EXCEPT ![s] = FALSE]
  /\ rules' = [rules EXCEPT ![s] = FALSE]
  /\ runtimes' = [runtimes EXCEPT ![s] = {}]
  /\ request' = [request EXCEPT ![s] = "none"]
  /\ UNCHANGED <<schema, loaderVars>>

\* postgres.New pings on the context of the signals.
Connect(s) ==
  /\ pc[s] = "connect"
  /\ \/ /\ ~signalled[s]
        /\ Goto(s, "connect", "migrate")
        /\ UNCHANGED <<signalled, rules, runtimes, request>>
     \/ /\ signalled[s] \/ StoreMayFail
        /\ Exit(s)
  /\ UNCHANGED <<schema, loaderVars>>

\* On a database that has the indexes CREATE INDEX fails, and with it the
\* whole; log.Fatal ends the process.  The last disjunct is a commit whose
\* reply is lost.
Migrate(s) ==
  /\ pc[s] = "migrate"
  /\ \/ /\ ~schema /\ ~signalled[s]
        /\ schema' = TRUE
        /\ Goto(s, "migrate", "skills")
        /\ UNCHANGED <<signalled, rules, runtimes, request>>
     \/ /\ schema \/ signalled[s] \/ StoreMayFail
        /\ Exit(s)
        /\ UNCHANGED schema
     \/ /\ ~schema /\ (signalled[s] \/ StoreMayFail)
        /\ schema' = TRUE
        /\ Exit(s)
  /\ UNCHANGED loaderVars

\* How an upsert may end: a context that is done sends none, one that ends
\* meanwhile may lose its reply.
UpsertOutcomes(s) ==
  (IF signalled[s] THEN {} ELSE {"ok"}) \cup
  (IF signalled[s] \/ StoreMayFail THEN {"failed", "lost"} ELSE {})

OpenSkills(s) ==
  /\ Goto(s, "skills", "load")
  /\ OpenDir(s)
  /\ UNCHANGED <<schema, signalled, rules, runtimes, request>>

LoadSkill(s) ==
  /\ pc[s] = "load"
  /\ \E outcome \in UpsertOutcomes(s) : LoadEntry(s, outcome)
  /\ UNCHANGED <<schema, pc, signalled, rules, runtimes, request>>

\* Whatever LoadFromDir returns is logged and main goes on.
EndSkills(s) ==
  /\ AllRead(s)
  /\ Goto(s, "load", "policy")
  /\ UNCHANGED <<schema, loaderVars, signalled, rules, runtimes, request>>

\* Mutant: an engine that could not load its file is used without rules.
LoadPolicyIgnoresError(s) ==
  /\ \E file \in PolicyFiles : rules' = [rules EXCEPT ![s] = file = "good"]
  /\ Goto(s, "policy", "build")
  /\ UNCHANGED <<schema, loaderVars, signalled, runtimes, request>>

\* policy.NewEngine, when there is a file.
LoadPolicy(s) ==
  /\ pc[s] = "policy"
  /\ \E file \in PolicyFiles :
       \/ /\ file = NoFile
          /\ Goto(s, "policy", "build")
          /\ UNCHANGED <<signalled, rules, runtimes, request>>
       \/ /\ file = "good"
          /\ Goto(s, "policy", "build")
          /\ rules' = [rules EXCEPT ![s] = TRUE]
          /\ UNCHANGED <<signalled, runtimes, request>>
       \/ file = "bad" /\ Exit(s)
  /\ UNCHANGED <<schema, loaderVars>>

\* runtime.Build, one driver of the registry a step in the order of a map's
\* iteration, which is any: the first that cannot be built ends the process.
Build(s) ==
  /\ pc[s] = "build"
  /\ \E d \in Drivers \ runtimes[s] :
       \/ /\ d = "k8s" => TRUE \in InCluster
          /\ runtimes' = [runtimes EXCEPT ![s] = @ \cup {d}]
          /\ UNCHANGED <<pc, signalled, rules, request>>
       \/ d = "k8s" /\ FALSE \in InCluster /\ Exit(s)
  /\ UNCHANGED <<schema, loaderVars>>

\* The scheduler and the API server are made and the listener started.
Listen(s) ==
  /\ runtimes[s] = Drivers
  /\ Goto(s, "build", "serve")
  /\ UNCHANGED <<schema, loaderVars, signalled, rules, runtimes, request>>

-----------------------------------------------------------------------------
(* Serving and shutting down.                                               *)

\* A request arrives; it may hang on a statement that does not return.
Accept(s) ==
  /\ pc[s] = "serve"
  /\ request[s] = "none"
  /\ \E r \in {"active", "stuck"} : request' = [request EXCEPT ![s] = r]
  /\ UNCHANGED <<schema, loaderVars, pc, signalled, rules, runtimes>>

Answer(s) ==
  /\ pc[s] \in {"serve", "drain"}
  /\ request[s] = "active"
  /\ request' = [request EXCEPT ![s] = "none"]
  /\ UNCHANGED <<schema, loaderVars, pc, signalled, rules, runtimes>>

\* SIGTERM or SIGINT, at any moment: NotifyContext is made before anything else.
Signal(s) ==
  /\ MaySignal
  /\ pc[s] \in Alive
  /\ ~signalled[s]
  /\ signalled' = [signalled EXCEPT ![s] = TRUE]
  /\ UNCHANGED <<schema, loaderVars, pc, rules, runtimes, request>>

BeginDrain(s) ==
  /\ signalled[s]
  /\ Goto(s, "serve", "drain")
  /\ UNCHANGED <<schema, loaderVars, signalled, rules, runtimes, request>>

\* Mutant: Shutdown waits without a limit.
DrainWithoutLimit(s) ==
  /\ pc[s] = "drain"
  /\ request[s] = "none"
  /\ Exit(s)
  /\ UNCHANGED <<schema, loaderVars>>

\* Shutdown returns when no request is left or its ten seconds have gone; main
\* ends either way, with the requests that are left.
EndDrain(s) ==
  /\ pc[s] = "drain"
  /\ Exit(s)
  /\ UNCHANGED <<schema, loaderVars>>

\* The process is killed, or its listener fails and log.Fatal ends it.
Kill(s) ==
  /\ MayKill
  /\ pc[s] \in Alive
  /\ Exit(s)
  /\ UNCHANGED <<schema, loaderVars>>

MainStep(s) ==
  \/ Connect(s) \/ Migrate(s) \/ OpenSkills(s) \/ LoadSkill(s) \/ EndSkills(s)
  \/ LoadPolicy(s) \/ Build(s) \/ Listen(s) \/ BeginDrain(s) \/ EndDrain(s)

Next == \E s \in Servers :
  Start(s) \/ MainStep(s) \/ Accept(s) \/ Answer(s) \/ Signal(s) \/ Kill(s)

Spec == Init /\ [][Next]_vars

\* A process that was started goes on.
FairSpec == Spec /\ \A s \in Servers : WF_vars(MainStep(s))

\* A slot whose process has ended gets another one.
RestartSpec == FairSpec /\ \A s \in Servers : WF_vars(Start(s))

-----------------------------------------------------------------------------
(* Properties.                                                              *)

\* No request meets a server that is half set up: the schema is there, every
\* driver is built and, when a policy file is configured, its rules are in
\* force.
ServingIsReady == \A s \in Servers :
  pc[s] \in {"serve", "drain"} =>
    /\ schema
    /\ runtimes[s] = Drivers
    /\ NoFile \notin PolicyFiles => rules[s]

\* loader.go, "a single bad file does not block the rest": whatever failed on the
\* way, a server that has loaded its skills has tried every file, reports the
\* count and the first error truly, and the table holds what its directory says,
\* whatever other processes do (that none of them overwrites
\* the table rests on Migrate, which lets one process through).
SkillsAreLoaded == \A s \in Servers :
  pc[s] \in {"policy", "build", "serve", "drain"} => IsReported(s) /\ IsStored(s)

\* A signal ends the process, whatever main was doing when it came and whatever
\* its requests wait for.
SignalStops == \A s \in Servers : signalled[s] ~> pc[s] = "down"

\* TROUBLESHOOTING.md, "Then restart the pod to pick up the new ConfigMap": a
\* process started in a slot, or those that replace it, get to serve, unless it
\* is told to stop.
RestartServes == \A s \in Servers :
  pc[s] = "connect" ~> pc[s] = "serve" \/ signalled[s]

-----------------------------------------------------------------------------
(* The inductive invariant.                                                 *)

HasMigrated(s) == pc[s] \in {"skills", "load", "policy", "build", "serve", "drain"}

\* Migrate lets one process through, ever, and that one finds the table empty.
MigrationInv ==
  /\ \A s \in Servers : HasMigrated(s) => schema
  /\ \A s, t \in Servers : HasMigrated(s) /\ HasMigrated(t) => s = t
  /\ ~schema \/ (\E s \in Servers : pc[s] = "skills") =>
       \A name \in SkillNames : skills[name] = 0

\* What the loader has done so far, and that it ends before the policy is read.
SkillsInv == \A s \in Servers :
  /\ HasMigrated(s) /\ pc[s] # "skills" => LoadingInv(s)
  /\ pc[s] \in {"policy", "build", "serve", "drain"} => AllRead(s)

\* What main has set up.
SetupInv == \A s \in Servers :
  /\ pc[s] \in {"build", "serve", "drain"} /\ NoFile \notin PolicyFiles => rules[s]
  /\ pc[s] \in {"serve", "drain"} => runtimes[s] = Drivers

IInv == TypeOK /\ MigrationInv /\ SkillsInv /\ SetupInv
=============================================================================
