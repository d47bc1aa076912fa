----------------------------- MODULE SkillLoader -----------------------------
(***************************************************************************)
(* internal/skills/loader.go: LoadFromDir reads the files of a directory   *)
(* one after the other and upserts the skill each one defines; the table   *)
(* skills, keyed by name.  Startup runs it once per process.               *)
(***************************************************************************)
EXTENDS Naturals, Sequences, FiniteSets

CONSTANTS Servers,     \* slots in which a server process runs
          SkillNames,  \* metadata.name of the files
          Directories  \* what the skills directory may hold, in the order of
                       \* ReadDir; one that is not there is empty

\* A directory or a file with another extension; a file that cannot be read or
\* parsed, names no skill, or leaves out what the table wants (NULL where NOT
\* NULL stands).  Any other entry is the name of a skill.
Skipped == "skipped"
Broken  == "broken"

ASSUME DirectoriesAssumption ==
  /\ {Skipped, Broken} \cap SkillNames = {}
  /\ Directories \subseteq Seq(SkillNames \cup {Skipped, Broken})

VARIABLES skills,    \* for each name, the position of the file its row is of,
                     \* 0 when there is no row
          dir,       \* entries
          loaded,    \* the count LoadFromDir returns
          firstErr,  \* the error it returns: the position of the file, or 0
          results    \* history: what came of each entry so far

loaderVars == <<skills, dir, loaded, firstErr, results>>

LoaderTypeOK ==
  /\ skills \in [SkillNames -> Nat]
  /\ dir \in [Servers -> Directories \cup {<<>>}]
  /\ loaded \in [Servers -> Nat]
  /\ firstErr \in [Servers -> Nat]
  /\ results \in [Servers -> Seq({"skipped", "loaded", "error"})]

LoaderInit ==
  /\ skills = [name \in SkillNames |-> 0]
  /\ dir = [s \in Servers |-> <<>>]
  /\ loaded = [s \in Servers |-> 0]
  /\ firstErr = [s \in Servers |-> 0]
  /\ results = [s \in Servers |-> <<>>]

OpenDir(s) ==
  /\ \E d \in Directories : dir' = [dir EXCEPT ![s] = d]
  /\ loaded' = [loaded EXCEPT ![s] = 0]
  /\ firstErr' = [firstErr EXCEPT ![s] = 0]
  /\ results' = [results EXCEPT ![s] = <<>>]
  /\ UNCHANGED skills

\* The entry whose turn it is.
Turn(s) == Len(results[s]) + 1
AllRead(s) == Len(results[s]) = Len(dir[s])

\* Mutant: the row that is there wins.
UpsertKeepsOld(name, file, outcome) ==
  skills' = [skills EXCEPT ![name] = IF outcome = "failed" \/ @ # 0 THEN @ ELSE file]

\* store.UpsertSkill; the last writer wins.  "lost" has its effect and returns
\* an error.
UpsertSkill(name, file, outcome) ==
  skills' = [skills EXCEPT ![name] = IF outcome = "failed" THEN @ ELSE file]

\* An error is kept when it is the first, and the loop goes on.
Fails(s) ==
  /\ firstErr' = [firstErr EXCEPT ![s] = IF @ = 0 THEN Turn(s) ELSE @]
  /\ results' = [results EXCEPT ![s] = Append(@, "error")]
  /\ UNCHANGED <<dir, loaded>>

\* One turn of the loop.
LoadEntry(s, outcome) ==
  /\ ~AllRead(s)
  /\ LET entry == dir[s][Turn(s)] IN
       \/ /\ entry = Skipped
          /\ results' = [results EXCEPT ![s] = Append(@, "skipped")]
          /\ UNCHANGED <<skills, dir, loaded, firstErr>>
       \/ entry = Broken /\ Fails(s) /\ UNCHANGED skills
       \/ /\ entry \in SkillNames
          /\ UpsertSkill(entry, Turn(s), outcome)
          /\ \/ outcome # "ok" /\ Fails(s)
             \/ /\ outcome = "ok"
                /\ loaded' = [loaded EXCEPT ![s] = @ + 1]
                /\ results' = [results EXCEPT ![s] = Append(@, "loaded")]
                /\ UNCHANGED <<dir, firstErr>>

-----------------------------------------------------------------------------
(* What is owed when the load of s is over.                                 *)

Positions(s, result) == {i \in DOMAIN results[s] : results[s][i] = result}

\* Every entry was looked at, the count is that of the files whose upsert
\* succeeded, and the error is that of the first file that failed.
IsReported(s) ==
  /\ AllRead(s)
  /\ loaded[s] = Cardinality(Positions(s, "loaded"))
  /\ firstErr[s] \in Positions(s, "error") \cup {0}
  /\ \A i \in Positions(s, "error") : 0 < firstErr[s] /\ firstErr[s] <= i

\* The row of a skill is that of its last file, unless the upsert of that file
\* failed; a skill no file of the directory names has no row.
IsStored(s) == \A name \in SkillNames :
  LET files == {i \in DOMAIN dir[s] : dir[s][i] = name}
  IN  /\ skills[name] \in files \cup {0}
      /\ \A i \in files :
           (\A j \in files : j <= i) /\ results[s][i] = "loaded" => skills[name] = i

\* The inductive invariant: the same of the entries that were looked at so far.
Tried(s, name) == {i \in DOMAIN results[s] : dir[s][i] = name}

LoadingInv(s) ==
  /\ Len(results[s]) <= Len(dir[s])
  /\ loaded[s] = Cardinality(Positions(s, "loaded"))
  /\ firstErr[s] \in Positions(s, "error") \cup {0}
  /\ \A i \in Positions(s, "error") : 0 < firstErr[s] /\ firstErr[s] <= i
  /\ \A name \in SkillNames :
       /\ skills[name] \in Tried(s, name) \cup {0}
       /\ \A i \in Tried(s, name) :
            (\A j \in Tried(s, name) : j <= i) /\ results[s][i] = "loaded" =>
              skills[name] = i
=============================================================================
